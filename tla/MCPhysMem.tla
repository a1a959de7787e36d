------------------------------ MODULE MCPhysMem ------------------------------
EXTENDS PhysMem, TLC

\* Frames and CPUs are interchangeable, and so are the slots of envs[].
Simetria == Permutations(Pages) \cup Permutations(CPUs) \cup Permutations(Envs)
=============================================================================

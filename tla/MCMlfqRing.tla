----------------------------- MODULE MCMlfqRing -----------------------------
(***************************************************************************)
(* A ring of two cells, adds to cola_a and cola_c, windows up to three     *)
(* times the ring.  The queues never look inside an id, so the ids are     *)
(* interchangeable.                                                        *)
(***************************************************************************)
EXTENDS MlfqRing, TLC

MCColas == {0, 2}
MCSimetria == Permutations(Ids)
=============================================================================

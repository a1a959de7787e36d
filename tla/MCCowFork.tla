------------------------------ MODULE MCCowFork ------------------------------
EXTENDS CowFork, TLC

Simetria == Permutations(Envs)

\* A state up to the names of the frames and the contents of the free ones: in
\* place of a frame, what it holds and where else it is.
Vista ==
    LET lugares(p) == {<<e, v>> \in Envs \X VPs :
                        env[e].pte[v] # NULO /\ env[e].pte[v].marco = p}
        de(p) == IF p = NULO THEN NULO ELSE <<dato[p], lugares(p)>>
    IN  [e \in Envs |->
            <<[env[e] EXCEPT !.pftemp = de(@), !.uxstack = de(@),
                !.pte = [v \in VPs |-> IF @[v] = NULO THEN NULO
                                       ELSE <<de(@[v].marco), @[v].w, @[v].cow>>]]>>]
=============================================================================

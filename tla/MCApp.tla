------------------------------- MODULE MCApp -------------------------------
EXTENDS AppProperties

CONSTANTS alice, bob, p1, p2, c1, c2, c3

A == <<"a">>
Star == <<"*">>

MCIdDistinct == [p \in Procs |-> IF p = p1 THEN alice ELSE bob]
MCIdSame     == [p \in Procs |-> alice]

Fds1 == {5}
Fds2 == {5, 6}
Fds3 == {5, 6, 7}

JustA == {A}
AAndStar == {A, Star}

(* Connections are interchangeable; so are two processes together with     *)
(* their ids, when neither may be killed.                                  *)
Symmetry == Permutations(Conns)
Twins    == Permutations(Conns) \cup
            {p1 :> p2 @@ p2 :> p1 @@ alice :> bob @@ bob :> alice}
=============================================================================

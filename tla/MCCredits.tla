----------------------------- MODULE MCCredits -----------------------------
(* An instance of Credits: two requests of one user. *)
EXTENDS Credits, TLC

CONSTANTS u1, h1, h2

MCActor == [h \in Holds |-> u1]
MCLimit == [u \in Users |-> 2]

(* Mutual exchange of the two requests changes nothing; of use where no    *)
(* liveness is checked.                                                    *)
Symmetry == Permutations(Holds)
=============================================================================

---------------------------- MODULE DurableNote ----------------------------
(***************************************************************************)
(* What the collaboration service promises of one note: what PostgreSQL    *)
(* holds of it only grows, a receipt is given only for edits it holds, and *)
(* the copy that readers see (materials.content) moves forward through     *)
(* what it holds.  CollabRoom is shown to implement this.                  *)
(***************************************************************************)
CONSTANT Edits

VARIABLES
  saved,     \* the edits the stored document has
  promised,  \* the edits some client was given a receipt for
  view       \* the edits readers see

vars == <<saved, promised, view>>

Init == saved = {} /\ promised = {} /\ view = {}

(* A store commits: the state is merged, never replaced, and receipts are  *)
(* given for edits that are stored.                                        *)
Store == /\ \E S \in SUBSET Edits : saved' = saved \cup S
         /\ \E S \in SUBSET saved' : promised' = promised \cup S
         /\ UNCHANGED view

(* A projection is accepted. *)
Show == /\ \E S \in SUBSET saved : view' = view \cup S
        /\ UNCHANGED <<saved, promised>>

Next == Store \/ Show

Spec == Init /\ [][Next]_vars
=============================================================================

--------------------------- MODULE MCCollabRoom ---------------------------
(* Two instances of the collaboration service.  The initial states choose  *)
(* what may happen: a compaction and a fault, with one editor and either a *)
(* receipt or a command of the service; two editors, a command and a       *)
(* fault; a document that outgrows its limits, alone or with another.      *)
EXTENDS CollabRoom
CONSTANTS c1, c2, typed, large, command

MCAuthor == [e \in Edits |-> CASE e = typed -> c1 [] e = command -> Service [] OTHER -> c2]

Bounds(editors, asking, edits, tries, faults) ==
  [editors |-> editors, edits |-> edits, asks |-> asking \X (1..MaxAsks),
   tries |-> tries, faults |-> faults]

MCBudgets ==
  {Bounds({c1}, {c1}, {typed}, 1, 1), Bounds({c1}, {}, {typed, command}, 1, 1),
   Bounds({c1, c2}, {c1}, {typed, command}, 0, 1), Bounds({c2}, {c2}, {large, command}, 1, 0),
   Bounds({c1, c2}, {c1, c2}, {typed, large}, 0, 0)}
============================================================================

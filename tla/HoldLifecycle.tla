--------------------------- MODULE HoldLifecycle ---------------------------
(***************************************************************************)
(* What the credit ledger promises about one reservation ("hold"), with    *)
(* counters, periods, sweepers and repair passes left out: a hold opens    *)
(* once, closes once, and reaches the usage ledger at most once, whatever  *)
(* mixture of settle, release, sweep and late settle the callers produce.  *)
(* Credits is shown to implement this specification.                       *)
(***************************************************************************)
EXTENDS Naturals

CONSTANT Holds

VARIABLES status, billed

vars == <<status, billed>>

Statuses == {"none", "open", "settled", "released"}

TypeOK ==
  /\ status \in [Holds -> Statuses]
  /\ billed \in [Holds -> 0..1]

Init ==
  /\ status = [h \in Holds |-> "none"]
  /\ billed = [h \in Holds |-> 0]

Open(h) ==
  /\ status[h] = "none"
  /\ status' = [status EXCEPT ![h] = "open"]
  /\ UNCHANGED billed

(* Closing by settlement may bill the hold, in the same step. *)
Settle(h) ==
  /\ status[h] = "open"
  /\ status' = [status EXCEPT ![h] = "settled"]
  /\ \E b \in 0..1 : billed' = [billed EXCEPT ![h] = b]

Release(h) ==
  /\ status[h] = "open"
  /\ status' = [status EXCEPT ![h] = "released"]
  /\ UNCHANGED billed

(* A settle that arrives after the hold was given back still bills it once. *)
LateBill(h) ==
  /\ status[h] = "released"
  /\ billed[h] = 0
  /\ billed' = [billed EXCEPT ![h] = 1]
  /\ UNCHANGED status

Next ==
  \E h \in Holds : Open(h) \/ Settle(h) \/ Release(h) \/ LateBill(h)

Spec == Init /\ [][Next]_vars
=============================================================================

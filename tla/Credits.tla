------------------------------ MODULE Credits ------------------------------
(***************************************************************************)
(* The inference budget of server/internal/store/credits.go: a counter row *)
(* per user (user_credits), holds against it (credit_reservations), the    *)
(* append-only ledger (usage_events), and the two maintenance passes that  *)
(* cmd/api/usage_workers.go runs beside the request handlers.              *)
(*                                                                         *)
(* Grain.  A handler that works inside one transaction takes the row lock  *)
(* of the counter or of the hold before it reads what it decides on, so it *)
(* is one action.  Two passes are not one transaction: the sweep commits   *)
(* the status change and then credits the counters one by one, and the     *)
(* reconcile statement computes every sum from the snapshot it starts with *)
(* and writes each row when it gets that row's lock.  Each is split there. *)
(*                                                                         *)
(* Time.  Months are numbered.  A transaction's now() is its start, so for *)
(* a while after a month ends some transactions still carry the old month. *)
(*                                                                         *)
(* Tables are kept as the aggregates the code asks of them: since[u][m] is *)
(* what u's events created in month m or later add up to, billed[h] the    *)
(* number of batches of events inserted under reservation h, held[u] what  *)
(* u's open reservations add up to.                                        *)
(***************************************************************************)
EXTENDS Integers, FiniteSets, Functions

CONSTANTS
  Users,
  Holds,        \* reservation ids
  Actor,        \* the user whose request an id belongs to
  Limit,        \* CreditLimitMicros of the user's plan
  Amounts,      \* estimates a request may reserve
  Costs,        \* measured cost of one batch of usage events
  LastMonth,    \* bound: the clock stops in this month
  MaxDirect,    \* bound: RecordUsage calls
  MaxCrashes,   \* bound: sweeps that die half way
  Reconciling   \* whether the reconcile pass runs in this instance

ASSUME HoldsAssumption == IsFiniteSet(Holds)
ASSUME ActorAssumption == Actor \in [Holds -> Users]
ASSUME LimitAssumption == Limit \in [Users -> Nat]
ASSUME AmountsAssumption == Amounts \subseteq Nat
ASSUME CostsAssumption == Costs \subseteq Nat
ASSUME BoundsAssumption ==
  LastMonth \in Nat /\ MaxDirect \in Nat /\ MaxCrashes \in Nat
ASSUME ReconcilingAssumption == Reconciling \in BOOLEAN

VARIABLES
  month,       \* the current month of the database clock
  straddle,    \* transactions begun before the month ended are still running
  period,      \* user_credits.period_start
  used,        \* user_credits.used_micros
  reserved,    \* user_credits.reserved_micros
  status,      \* credit_reservations.status; "none" before the insert
  amount,      \* credit_reservations.amount_micros
  held,        \* the sum of amount_micros over u's open reservations
  since,       \* usage_events.credit_micros of u in month m or later
  billed,      \* batches of usage_events that carry the reservation id
  sweeping,    \* holds a running sweep has released but not yet credited back
  audit,       \* the snapshot a running reconcile works from
  \* Counters of the bounds, and history that only properties read:
  direct, crashes, reconciled,
  excess,      \* spending of this period no hold had covered
  owed         \* what running sweeps have still to give back to u

clock == <<month, straddle>>
counters == <<period, used, reserved>>
table == <<status, amount, held>>
ledger == <<since, billed>>
passes == <<sweeping, audit>>
bounds == <<direct, crashes, reconciled>>
vars == <<clock, counters, table, ledger, passes, bounds, excess, owed>>

Months == 0..LastMonth

NoAudit == [month |-> -1, todo |-> {}, used |-> [u \in Users |-> 0],
            reserved |-> [u \in Users |-> 0]]

Audits == [month : -1..LastMonth, todo : SUBSET Users,
           used : [Users -> Nat], reserved : [Users -> Nat]]

Statuses == {"none", "open", "settled", "released"}

TypeOK ==
  /\ month \in Months /\ straddle \in BOOLEAN
  /\ straddle => month > 0
  /\ period \in [Users -> Months]
  /\ used \in [Users -> Nat] /\ reserved \in [Users -> Nat]
  /\ status \in [Holds -> Statuses] /\ amount \in [Holds -> Nat]
  /\ held \in [Users -> Int] /\ owed \in [Users -> Int]
  /\ since \in [Users -> [Months -> Nat]] /\ billed \in [Holds -> Nat]
  /\ sweeping \subseteq Holds /\ audit \in Audits
  /\ direct \in 0..MaxDirect /\ crashes \in 0..MaxCrashes
  /\ reconciled \in BOOLEAN
  /\ excess \in [Users -> Nat]

-----------------------------------------------------------------------------
(* Helpers *)

(* The definitions named Bad... are faulty variants of the definition that *)
(* follows them; the model uses none of them.                              *)

(* GREATEST(0, x), which every decrement of the counter goes through. *)
Positive(x) == IF x > 0 THEN x ELSE 0

(* What now() can be in a transaction that commits now. *)
TxMonths == IF straddle THEN {month - 1, month} ELSE {month}

(* The counter as lockedCreditUsageTx returns it to a transaction of month m. *)
RolledUsed(u, m) == IF period[u] < m THEN 0 ELSE used[u]

(* The gate: what is spent, what is held and the new estimate fit the plan. *)
BadAdmitted(u, a, m) == RolledUsed(u, m) + a <= Limit[u]
Admitted(u, a, m) == RolledUsed(u, m) + reserved[u] + a <= Limit[u]

(* WHERE status = 'open', under the lock of the reservation's row. *)
StillOpen(h) == status[h] = "open"

(* No usage event carries the reservation's id yet. *)
BadUnbilled(h) == TRUE
Unbilled(h) == billed[h] = 0

(* Insert events of u worth c in a transaction of month m. *)
BadAppend(u, m, c) ==
  since' = [since EXCEPT ![u] = [k \in Months |-> @[k] + IF k < m THEN c ELSE 0]]
Append(u, m, c) ==
  since' = [since EXCEPT ![u] = [k \in Months |-> @[k] + IF k <= m THEN c ELSE 0]]

(* What a cost c takes beyond the a the counter held back for it. *)
Beyond(c, a) == IF c > a THEN c - a ELSE 0

(* The usage a request may report: no event (n = 0), or a batch costing c. *)
Bill(n, c) ==
  \/ n = 0 /\ c = 0
  \/ n = 1 /\ c \in Costs

-----------------------------------------------------------------------------
Init ==
  /\ month = 0 /\ straddle = FALSE
  /\ period = [u \in Users |-> 0]
  /\ used = [u \in Users |-> 0]
  /\ reserved = [u \in Users |-> 0]
  /\ status = [h \in Holds |-> "none"]
  /\ amount = [h \in Holds |-> 0]
  /\ held = [u \in Users |-> 0]
  /\ since = [u \in Users |-> [m \in Months |-> 0]]
  /\ billed = [h \in Holds |-> 0]
  /\ sweeping = {} /\ audit = NoAudit
  /\ direct = 0 /\ crashes = 0 /\ reconciled = FALSE
  /\ excess = [u \in Users |-> 0]
  /\ owed = [u \in Users |-> 0]

(* ReserveCredits.  A refused request rolls back, its rollover included. *)
ReserveCredits(h, a, m) ==
  LET u == Actor[h] IN
  /\ status[h] = "none"
  /\ m \in TxMonths
  /\ Admitted(u, a, m)
  /\ period' = [period EXCEPT ![u] = m]
  /\ used' = [used EXCEPT ![u] = RolledUsed(u, m)]
  /\ reserved' = [reserved EXCEPT ![u] = @ + a]
  /\ status' = [status EXCEPT ![h] = "open"]
  /\ amount' = [amount EXCEPT ![h] = a]
  /\ held' = [held EXCEPT ![u] = @ + a]
  /\ excess' = IF period[u] < m THEN [excess EXCEPT ![u] = 0] ELSE excess
  /\ UNCHANGED <<clock, ledger, passes, bounds, owed>>

(* SettleCredits on an open hold: close it, bill it, swap the estimate for *)
(* the measured cost.  The counter's period is not looked at.              *)
SettleOpen(h, n, c, m) ==
  LET u == Actor[h] IN
  /\ StillOpen(h) /\ Bill(n, c)
  /\ m \in TxMonths
  /\ status' = [status EXCEPT ![h] = "settled"]
  /\ held' = [held EXCEPT ![u] = @ - amount[h]]
  /\ Append(u, m, c)
  /\ billed' = [billed EXCEPT ![h] = @ + n]
  /\ reserved' = [reserved EXCEPT ![u] = Positive(@ - amount[h])]
  /\ used' = [used EXCEPT ![u] = @ + c]
  /\ excess' = [excess EXCEPT ![u] = @ + Beyond(c, reserved[u] - reserved'[u])]
  /\ UNCHANGED <<clock, period, amount, passes, bounds, owed>>

(* settleClosedReservationTx: a settled hold is left alone, a released one *)
(* is billed unless some earlier late settle did.                          *)
BadSettleClosed(h, n, c, m) ==
  LET u == Actor[h] IN
  /\ status[h] = "released"
  /\ Unbilled(h) /\ Bill(n, c)
  /\ m \in TxMonths
  /\ Append(u, m, c)
  /\ billed' = [billed EXCEPT ![h] = @ + n]
  /\ reserved' = [reserved EXCEPT ![u] = Positive(@ - amount[h])]
  /\ used' = [used EXCEPT ![u] = @ + c]
  /\ excess' = [excess EXCEPT ![u] = @ + c]
  /\ UNCHANGED <<clock, period, table, passes, bounds, owed>>

SettleClosed(h, n, c, m) ==
  LET u == Actor[h] IN
  /\ status[h] = "released"
  /\ Unbilled(h) /\ Bill(n, c)
  /\ m \in TxMonths
  /\ Append(u, m, c)
  /\ billed' = [billed EXCEPT ![h] = @ + n]
  /\ used' = [used EXCEPT ![u] = @ + c]
  /\ excess' = [excess EXCEPT ![u] = @ + c]
  /\ UNCHANGED <<clock, period, reserved, table, passes, bounds, owed>>

ReleaseCredits(h) ==
  LET u == Actor[h] IN
  /\ StillOpen(h)
  /\ status' = [status EXCEPT ![h] = "released"]
  /\ held' = [held EXCEPT ![u] = @ - amount[h]]
  /\ reserved' = [reserved EXCEPT ![u] = Positive(@ - amount[h])]
  /\ UNCHANGED <<clock, period, used, amount, ledger, passes, bounds, excess, owed>>

(* RecordUsage: consumption nobody reserved, an ingest job for one. *)
RecordUsage(u, c, m) ==
  /\ direct < MaxDirect
  /\ direct' = direct + 1
  /\ m \in TxMonths
  /\ Append(u, m, c)
  /\ used' = [used EXCEPT ![u] = @ + c]
  /\ excess' = [excess EXCEPT ![u] = @ + c]
  /\ UNCHANGED <<clock, period, reserved, table, billed, passes, crashes,
                 reconciled, owed>>

-----------------------------------------------------------------------------
(* SweepExpiredReservations: a committed UPDATE over the expired holds,    *)
(* then one UPDATE of the counter for each.  Any open hold may be past its *)
(* thirty minutes; the UPDATE is taken hold by hold, as when replicas each *)
(* find one of them expired.                                               *)
BadSweepRelease(h) ==
  LET u == Actor[h] IN
  /\ StillOpen(h)
  /\ status' = [status EXCEPT ![h] = "released"]
  /\ held' = [held EXCEPT ![u] = @ - amount[h]]
  /\ UNCHANGED <<clock, counters, amount, ledger, passes, bounds, excess, owed>>

BadSweepCurrent(h) ==
  LET u == Actor[h] IN
  /\ StillOpen(h) /\ period[u] = month
  /\ status' = [status EXCEPT ![h] = "released"]
  /\ held' = [held EXCEPT ![u] = @ - amount[h]]
  /\ owed' = [owed EXCEPT ![u] = @ + amount[h]]
  /\ sweeping' = sweeping \cup {h}
  /\ UNCHANGED <<clock, counters, amount, ledger, audit, bounds, excess>>

SweepRelease(h) ==
  LET u == Actor[h] IN
  /\ StillOpen(h)
  /\ status' = [status EXCEPT ![h] = "released"]
  /\ held' = [held EXCEPT ![u] = @ - amount[h]]
  /\ owed' = [owed EXCEPT ![u] = @ + amount[h]]
  /\ sweeping' = sweeping \cup {h}
  /\ UNCHANGED <<clock, counters, amount, ledger, audit, bounds, excess>>

SweepCredit(h) ==
  LET u == Actor[h] IN
  /\ h \in sweeping
  /\ reserved' = [reserved EXCEPT ![u] = Positive(@ - amount[h])]
  /\ owed' = [owed EXCEPT ![u] = @ - amount[h]]
  /\ sweeping' = sweeping \ {h}
  /\ UNCHANGED <<clock, period, used, table, ledger, audit, bounds, excess>>

(* The replica dies, or a counter update fails and the pass returns: a     *)
(* hold it had released will not be credited back.                         *)
SweepDies(h) ==
  LET u == Actor[h] IN
  /\ h \in sweeping
  /\ crashes < MaxCrashes
  /\ crashes' = crashes + 1
  /\ owed' = [owed EXCEPT ![u] = @ - amount[h]]
  /\ sweeping' = sweeping \ {h}
  /\ UNCHANGED <<clock, counters, table, ledger, audit, direct, reconciled, excess>>

(* ReconcileCredits: the sums are those of the statement's snapshot. *)
ReconcileBegin(m) ==
  /\ Reconciling
  /\ audit.todo = {}
  /\ m \in TxMonths
  /\ LET todo == {u \in Users : period[u] = m}
     IN audit' = IF todo = {} THEN NoAudit
                 ELSE [month |-> m, todo |-> todo,
                       used |-> [u \in Users |-> since[u][m]],
                       reserved |-> [u \in Users |-> Positive(held[u])]]
  /\ reconciled' = TRUE
  /\ UNCHANGED <<clock, counters, table, ledger, sweeping, direct, crashes,
                 excess, owed>>

(* A row that changed meanwhile is tested against the WHERE clause again,  *)
(* but the sums are not computed again.                                    *)
ReconcileRow(u) ==
  /\ u \in audit.todo
  /\ IF period[u] = audit.month
     THEN /\ used' = [used EXCEPT ![u] = audit.used[u]]
          /\ reserved' = [reserved EXCEPT ![u] = audit.reserved[u]]
     ELSE UNCHANGED <<used, reserved>>
  /\ audit' = IF audit.todo = {u} THEN NoAudit ELSE [audit EXCEPT !.todo = @ \ {u}]
  /\ UNCHANGED <<clock, period, table, ledger, sweeping, bounds, excess, owed>>

-----------------------------------------------------------------------------
MonthEnds ==
  /\ month < LastMonth /\ ~straddle
  /\ month' = month + 1 /\ straddle' = TRUE
  /\ UNCHANGED <<counters, table, ledger, passes, bounds, excess, owed>>

(* The last transaction that began before the month ended is over. *)
StragglersEnd ==
  /\ straddle
  /\ audit.todo # {} => audit.month = month
  /\ straddle' = FALSE
  /\ UNCHANGED <<month, counters, table, ledger, passes, bounds, excess, owed>>

Request ==
  \E m \in Months :
    \/ \E h \in Holds, a \in Amounts : ReserveCredits(h, a, m)
    \/ \E h \in Holds, n \in 0..1, c \in Costs \cup {0} :
         SettleOpen(h, n, c, m) \/ SettleClosed(h, n, c, m)
    \/ \E u \in Users, c \in Costs : RecordUsage(u, c, m)

Release == \E h \in Holds : ReleaseCredits(h)

Sweep == \E h \in Holds : SweepRelease(h) \/ SweepCredit(h)

SweepFails == \E h \in Holds : SweepDies(h)

Reconcile ==
  \/ \E m \in Months : ReconcileBegin(m)
  \/ \E u \in Users : ReconcileRow(u)

Next ==
  \/ Request \/ Release
  \/ Sweep \/ SweepFails
  \/ Reconcile
  \/ MonthEnds \/ StragglersEnd

Spec == Init /\ [][Next]_vars

(* The sweep is a loop on a ticker in every replica; transactions end.  No *)
(* property waits for a reconcile, for a request or for the month to end.  *)
Fairness ==
  /\ \A h \in Holds : WF_vars(SweepRelease(h)) /\ WF_vars(SweepCredit(h))
  /\ WF_vars(StragglersEnd)

FairSpec == Spec /\ Fairness

-----------------------------------------------------------------------------
(* Properties *)

(* Until a reconcile has run, the counter holds back at least what the     *)
(* open holds and the unfinished sweeps account for: settle, release and   *)
(* sweep never give a hold back twice between them.                        *)
HoldsCovered ==
  ~reconciled => \A u \in Users : reserved[u] >= held[u] + owed[u]

(* And exactly that much if no sweep has died: each gives it back in full. *)
HoldsExact ==
  (~reconciled /\ crashes = 0) =>
    \A u \in Users : reserved[u] = held[u] + owed[u]

OpenHolds(u) == {h \in Holds : Actor[h] = u /\ status[h] = "open"}
SweptHolds(u) == {h \in sweeping : Actor[h] = u}

(* The aggregates the module carries are the sums the queries compute. *)
SumsExact ==
  \A u \in Users : /\ held[u] = SumFunctionOnSet(amount, OpenHolds(u))
                   /\ owed[u] = SumFunctionOnSet(amount, SweptHolds(u))

(* So the counter holds back exactly the amounts of the open reservations  *)
(* and of the unfinished sweeps, if no sweep has died (credits.go).        *)
HoldsOfRows == SumsExact /\ HoldsExact

(* Concurrent reservations never take a user past the plan's allowance:    *)
(* whatever exceeds it was spent beyond what was held for it (an estimate  *)
(* too low, a late settle, unreserved usage), in the counter's period.     *)
SpendWithinLimit ==
  ~reconciled =>
    \A u \in Users : used[u] + reserved[u] <= Limit[u] + excess[u]

Before(m) == IF m = 0 THEN 0 ELSE m - 1

(* Nobody is held to spending the ledger does not show for the period, or  *)
(* for the month before it while transactions of that month were ending.   *)
UsedCoveredByLedger ==
  \A u \in Users :
    used[u] <= since[u][Before(period[u])]

(* Settlement is idempotent: each hold follows the abstract life cycle, in *)
(* which it is billed at most once and stays closed when it is closed.     *)
Lifecycle == INSTANCE HoldLifecycle
ImplementsLifecycle == Lifecycle!Spec

(* A user's holds are given back, whether or not any request ever finished *)
(* and over the ends of months: the counter comes to rest at nothing       *)
(* reserved, unless a sweep died or a reconcile overwrote it.              *)
HoldsComeBack ==
  \A u \in Users : <>[](crashes = 0 /\ ~reconciled => reserved[u] = 0)

(* What the comment on lockedCreditUsageTx says of the lazy rollover: a    *)
(* read that has not happened yet cannot have spent anything.              *)
RolloverLosesNothing ==
  [][\A u \in Users : period'[u] > period[u] => since[u][period'[u]] = 0]_vars
=============================================================================

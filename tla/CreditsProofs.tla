--------------------------- MODULE CreditsProofs ---------------------------
(***************************************************************************)
(* Proofs about Credits for every set of users, reservations, estimates    *)
(* and costs, and for every value of the bounds.                           *)
(***************************************************************************)
EXTENDS Credits, SumTheorems

LEMMA ActorType == ASSUME NEW h \in Holds PROVE Actor[h] \in Users
  BY ActorAssumption

LEMMA AmountType == ASSUME NEW a \in Amounts PROVE a \in Nat
  BY AmountsAssumption

LEMMA TxMonthsType == ASSUME TypeOK PROVE TxMonths \subseteq Months
  BY BoundsAssumption DEF TypeOK, TxMonths, Months

LEMMA PositiveType == ASSUME NEW x \in Int PROVE Positive(x) \in Nat
  BY DEF Positive

LEMMA CostType == ASSUME NEW c \in Costs \cup {0} PROVE c \in Nat
  BY CostsAssumption

LEMMA BeyondType ==
  ASSUME NEW c \in Nat, NEW a \in Int
  PROVE  Beyond(c, a) \in Nat
  BY DEF Beyond

LEMMA AppendType ==
  ASSUME TypeOK, NEW u \in Users, NEW m \in Months, NEW c \in Nat, Append(u, m, c)
  PROVE  since' \in [Users -> [Months -> Nat]]
<1> DEFINE row == [k \in Months |-> since[u][k] + IF k <= m THEN c ELSE 0]
<1>1. row \in [Months -> Nat]
  BY DEF TypeOK
<1>2. since' = [since EXCEPT ![u] = row]
  BY DEF Append
<1>3. QED
  BY <1>1, <1>2 DEF TypeOK

LEMMA NoAuditType == NoAudit \in Audits
  BY BoundsAssumption DEF NoAudit, Audits

LEMMA InitType == Init => TypeOK
<1> SUFFICES ASSUME Init PROVE TypeOK
  OBVIOUS
<1>1. audit \in Audits
  BY NoAuditType DEF Init
<1>2. direct \in 0..MaxDirect /\ crashes \in 0..MaxCrashes
  BY BoundsAssumption DEF Init
<1>3. month \in Months /\ period \in [Users -> Months]
  BY BoundsAssumption DEF Init, Months
<1>4. since \in [Users -> [Months -> Nat]] /\ status \in [Holds -> Statuses]
  BY DEF Init, Statuses
<1>5. /\ used \in [Users -> Nat] /\ reserved \in [Users -> Nat]
      /\ amount \in [Holds -> Nat] /\ billed \in [Holds -> Nat]
      /\ held \in [Users -> Int] /\ owed \in [Users -> Int]
      /\ excess \in [Users -> Nat] /\ sweeping \subseteq Holds
  BY DEF Init
<1>6. straddle \in BOOLEAN /\ reconciled \in BOOLEAN /\ ~straddle
  BY DEF Init
<1>7. QED
  BY <1>1, <1>2, <1>3, <1>4, <1>5, <1>6 DEF TypeOK

LEMMA NextType == TypeOK /\ [Next]_vars => TypeOK'
<1> SUFFICES ASSUME TypeOK, [Next]_vars PROVE TypeOK'
  OBVIOUS
<1>1. ASSUME NEW m \in Months, NEW h \in Holds, NEW a \in Amounts,
             ReserveCredits(h, a, m)
      PROVE  TypeOK'
  BY <1>1, ActorType, AmountType
  DEF TypeOK, ReserveCredits, RolledUsed, Statuses, clock, ledger, passes,
              bounds
<1>2. ASSUME NEW m \in Months, NEW h \in Holds, NEW n \in 0..1, NEW c \in Costs \cup {0},
             SettleOpen(h, n, c, m)
      PROVE  TypeOK'
  <2> c \in Nat /\ Actor[h] \in Users
    BY CostType, ActorType
  <2>1. since' \in [Users -> [Months -> Nat]]
    BY <1>2, AppendType DEF SettleOpen
  <2>2. Positive(reserved[Actor[h]] - amount[h]) \in Nat
    BY PositiveType DEF TypeOK
  <2>3. used' \in [Users -> Nat] /\ reserved' \in [Users -> Nat]
    BY <1>2, <2>2 DEF TypeOK, SettleOpen
  <2>4. held' \in [Users -> Int] /\ status' \in [Holds -> Statuses]
    BY <1>2 DEF TypeOK, SettleOpen, Statuses
  <2>5. Beyond(c, reserved[Actor[h]] - reserved'[Actor[h]]) \in Nat
    <3>1. reserved[Actor[h]] - reserved'[Actor[h]] \in Int
      BY <2>3 DEF TypeOK
    <3>2. QED
      BY <3>1, BeyondType
  <2>6. billed' = [billed EXCEPT ![h] = @ + n] /\ billed[h] + n \in Nat
    BY <1>2 DEF TypeOK, SettleOpen
  <2>7. excess' = [excess EXCEPT ![Actor[h]] =
                     @ + Beyond(c, reserved[Actor[h]] - reserved'[Actor[h]])]
    BY <1>2 DEF SettleOpen
  <2>8. excess' \in [Users -> Nat]
    BY <2>5, <2>7 DEF TypeOK
  <2>9. QED
    BY <1>2, <2>1, <2>3, <2>4, <2>6, <2>8
    DEF TypeOK, SettleOpen, clock, passes, bounds
<1>3. ASSUME NEW m \in Months, NEW h \in Holds, NEW n \in 0..1, NEW c \in Costs \cup {0},
             SettleClosed(h, n, c, m)
      PROVE  TypeOK'
  <2> c \in Nat /\ Actor[h] \in Users
    BY CostType, ActorType
  <2>1. since' \in [Users -> [Months -> Nat]]
    BY <1>3, AppendType DEF SettleClosed
  <2>2. billed' \in [Holds -> Nat]
    BY <1>3 DEF TypeOK, SettleClosed
  <2>3. used' \in [Users -> Nat] /\ excess' \in [Users -> Nat]
    BY <1>3 DEF TypeOK, SettleClosed
  <2>4. QED
    BY <1>3, <2>1, <2>2, <2>3
    DEF TypeOK, SettleClosed, clock, table, passes, bounds
<1>4. ASSUME NEW m \in Months, NEW u \in Users, NEW c \in Costs,
             RecordUsage(u, c, m)
      PROVE  TypeOK'
  <2> c \in Nat
    BY CostType
  <2>1. since' \in [Users -> [Months -> Nat]]
    BY <1>4, AppendType DEF RecordUsage
  <2>2. direct' \in 0..MaxDirect
    BY <1>4, BoundsAssumption DEF TypeOK, RecordUsage
  <2>3. used' \in [Users -> Nat] /\ excess' \in [Users -> Nat]
    BY <1>4 DEF TypeOK, RecordUsage
  <2>4. QED
    BY <1>4, <2>1, <2>2, <2>3
    DEF TypeOK, RecordUsage, clock, table, passes
<1>5. ASSUME NEW h \in Holds, ReleaseCredits(h) PROVE TypeOK'
  <2>1. Positive(reserved[Actor[h]] - amount[h]) \in Nat
    BY PositiveType, ActorType DEF TypeOK
  <2>2. QED
    BY <1>5, <2>1, ActorType DEF TypeOK, ReleaseCredits, Statuses, clock, ledger, passes, bounds
<1>6. ASSUME NEW h \in Holds, SweepRelease(h) PROVE TypeOK'
  BY <1>6, ActorType DEF TypeOK, SweepRelease, Statuses, clock, counters, ledger, bounds
<1>7. ASSUME NEW h \in Holds, SweepCredit(h) PROVE TypeOK'
  <2>1. Positive(reserved[Actor[h]] - amount[h]) \in Nat
    BY PositiveType, ActorType DEF TypeOK
  <2>2. QED
    BY <1>7, <2>1, ActorType DEF TypeOK, SweepCredit, clock, table, ledger, bounds
<1>8. ASSUME NEW h \in Holds, SweepDies(h) PROVE TypeOK'
  BY <1>8, ActorType, BoundsAssumption DEF TypeOK, SweepDies, clock, counters, table, ledger
<1>9. ASSUME NEW m \in Months, ReconcileBegin(m) PROVE TypeOK'
  <2>1. [u \in Users |-> Positive(held[u])] \in [Users -> Nat]
    BY PositiveType DEF TypeOK
  <2>2. [u \in Users |-> since[u][m]] \in [Users -> Nat]
    BY DEF TypeOK
  <2>3. audit' \in Audits
    BY <1>9, <2>1, <2>2, NoAuditType DEF ReconcileBegin, Audits, Months
  <2>4. QED
    BY <1>9, <2>3 DEF TypeOK, ReconcileBegin, clock, counters, table, ledger
<1>10. ASSUME NEW u \in Users, ReconcileRow(u) PROVE TypeOK'
  <2>1. audit' \in Audits
    BY <1>10, NoAuditType DEF TypeOK, ReconcileRow, Audits
  <2>2. used' \in [Users -> Nat] /\ reserved' \in [Users -> Nat]
    BY <1>10 DEF TypeOK, ReconcileRow, Audits
  <2>3. QED
    BY <1>10, <2>1, <2>2 DEF TypeOK, ReconcileRow, clock, table, ledger, bounds
<1>11. ASSUME MonthEnds PROVE TypeOK'
  BY <1>11, BoundsAssumption DEF TypeOK, MonthEnds, Months, counters, table, ledger, passes, bounds
<1>12. ASSUME StragglersEnd PROVE TypeOK'
  BY <1>12 DEF TypeOK, StragglersEnd, counters, table, ledger, passes, bounds
<1>13. CASE UNCHANGED vars
  BY <1>13 DEF TypeOK, vars, clock, counters, table, ledger, passes, bounds
<1>14. QED
  BY <1>1, <1>2, <1>3, <1>4, <1>5, <1>6, <1>7, <1>8, <1>9, <1>10, <1>11, <1>12, <1>13
  DEF Next, Request, Release, Sweep, SweepFails, Reconcile

(* Every variable keeps its type under every step of the specification. *)
THEOREM TypeCorrect == Spec => []TypeOK
  BY InitType, NextType, PTL DEF Spec

-----------------------------------------------------------------------------
(* A reconcile that has rows left to write has begun. *)
AuditStarted == audit.todo # {} => reconciled

LEMMA AuditStartedNext == TypeOK /\ AuditStarted /\ [Next]_vars => AuditStarted'
<1> SUFFICES ASSUME TypeOK, AuditStarted, [Next]_vars PROVE AuditStarted'
  OBVIOUS
<1>1. CASE Request
  BY <1>1 DEF Request, ReserveCredits, SettleOpen, SettleClosed, RecordUsage,
              passes, bounds, AuditStarted
<1>2. CASE Release
  BY <1>2 DEF Release, ReleaseCredits, passes, bounds, AuditStarted
<1>3. CASE Sweep \/ SweepFails
  BY <1>3 DEF Sweep, SweepFails, SweepRelease, SweepCredit, SweepDies, bounds,
              AuditStarted
<1>4. ASSUME NEW m \in Months, ReconcileBegin(m) PROVE AuditStarted'
  BY <1>4 DEF ReconcileBegin, AuditStarted
<1>5. ASSUME NEW u \in Users, ReconcileRow(u) PROVE AuditStarted'
  BY <1>5 DEF ReconcileRow, AuditStarted, bounds
<1>6. CASE MonthEnds \/ StragglersEnd \/ UNCHANGED vars
  BY <1>6 DEF MonthEnds, StragglersEnd, vars, passes, bounds, AuditStarted
<1>7. QED
  BY <1>1, <1>2, <1>3, <1>4, <1>5, <1>6 DEF Next, Reconcile

(* No step lets the counter fall below what it still accounts for. *)
LEMMA CoveredNext ==
  TypeOK /\ AuditStarted /\ HoldsCovered /\ [Next]_vars => HoldsCovered'
<1> SUFFICES ASSUME TypeOK, AuditStarted, HoldsCovered, [Next]_vars, ~reconciled',
                    NEW u \in Users
             PROVE  reserved'[u] >= held'[u] + owed'[u]
  BY DEF HoldsCovered
<1>u. reserved[u] \in Nat /\ held[u] \in Int /\ owed[u] \in Int
  BY DEF TypeOK
<1>a. ASSUME NEW h \in Holds PROVE amount[h] \in Nat /\ Actor[h] \in Users
  BY ActorType DEF TypeOK
<1>r. ~reconciled => reserved[u] >= held[u] + owed[u]
  BY DEF HoldsCovered
<1>1. ASSUME NEW m \in Months, NEW h \in Holds, NEW a \in Amounts,
             ReserveCredits(h, a, m)
      PROVE  reserved'[u] >= held'[u] + owed'[u]
  BY <1>1, <1>u, <1>a, <1>r, AmountType DEF ReserveCredits, bounds, TypeOK
<1>2. ASSUME NEW m \in Months, NEW h \in Holds, NEW n \in 0..1, NEW c \in Costs \cup {0},
             SettleOpen(h, n, c, m)
      PROVE  reserved'[u] >= held'[u] + owed'[u]
  BY <1>2, <1>u, <1>a, <1>r DEF SettleOpen, bounds, TypeOK, Positive
<1>3. ASSUME NEW m \in Months, NEW h \in Holds, NEW n \in 0..1, NEW c \in Costs \cup {0},
             SettleClosed(h, n, c, m)
      PROVE  reserved'[u] >= held'[u] + owed'[u]
  BY <1>3, <1>r DEF SettleClosed, bounds, table
<1>4. ASSUME NEW m \in Months, NEW v \in Users, NEW c \in Costs,
             RecordUsage(v, c, m)
      PROVE  reserved'[u] >= held'[u] + owed'[u]
  BY <1>4, <1>r DEF RecordUsage, bounds, table
<1>5. ASSUME NEW h \in Holds, ReleaseCredits(h)
      PROVE  reserved'[u] >= held'[u] + owed'[u]
  BY <1>5, <1>u, <1>a, <1>r DEF ReleaseCredits, bounds, TypeOK, Positive
<1>6. ASSUME NEW h \in Holds, SweepRelease(h)
      PROVE  reserved'[u] >= held'[u] + owed'[u]
  BY <1>6, <1>u, <1>a, <1>r DEF SweepRelease, bounds, counters, TypeOK
<1>7. ASSUME NEW h \in Holds, SweepCredit(h)
      PROVE  reserved'[u] >= held'[u] + owed'[u]
  BY <1>7, <1>u, <1>a, <1>r DEF SweepCredit, bounds, table, TypeOK, Positive
<1>8. ASSUME NEW h \in Holds, SweepDies(h)
      PROVE  reserved'[u] >= held'[u] + owed'[u]
  BY <1>8, <1>u, <1>a, <1>r DEF SweepDies, counters, table, TypeOK
<1>9. ASSUME NEW m \in Months, ReconcileBegin(m)
      PROVE  reserved'[u] >= held'[u] + owed'[u]
  BY <1>9 DEF ReconcileBegin
<1>10. ASSUME NEW v \in Users, ReconcileRow(v)
       PROVE  reserved'[u] >= held'[u] + owed'[u]
  BY <1>10 DEF ReconcileRow, bounds, AuditStarted
<1>11. ASSUME MonthEnds PROVE reserved'[u] >= held'[u] + owed'[u]
  BY <1>11, <1>r DEF MonthEnds, counters, table, bounds
<1>12. ASSUME StragglersEnd PROVE reserved'[u] >= held'[u] + owed'[u]
  BY <1>12, <1>r DEF StragglersEnd, counters, table, bounds
<1>13. CASE UNCHANGED vars
  BY <1>13, <1>r DEF vars, counters, table, bounds
<1>14. QED
  BY <1>1, <1>2, <1>3, <1>4, <1>5, <1>6, <1>7, <1>8, <1>9, <1>10, <1>11, <1>12, <1>13
  DEF Next, Request, Release, Sweep, SweepFails, Reconcile

(* Until a reconcile runs, no sequence of settles, releases and sweeps makes *)
(* the counter hold back less than the open reservations add up to.          *)
THEOREM NoHoldForgotten == Spec => []HoldsCovered
<1>1. Init => AuditStarted /\ HoldsCovered
  BY DEF Init, AuditStarted, HoldsCovered, NoAudit
<1>2. TypeOK /\ AuditStarted /\ HoldsCovered /\ [Next]_vars
        => (AuditStarted /\ HoldsCovered)'
  BY AuditStartedNext, CoveredNext
<1>3. QED
  BY <1>1, <1>2, TypeCorrect, PTL DEF Spec

-----------------------------------------------------------------------------
(* No step takes a user past the allowance by more than it adds to excess. *)
LEMMA LimitNext ==
  TypeOK /\ AuditStarted /\ SpendWithinLimit /\ [Next]_vars => SpendWithinLimit'
<1> SUFFICES ASSUME TypeOK, AuditStarted, SpendWithinLimit, [Next]_vars, ~reconciled',
                    NEW u \in Users
             PROVE  used'[u] + reserved'[u] <= Limit[u] + excess'[u]
  BY DEF SpendWithinLimit
<1>u. /\ used[u] \in Nat /\ reserved[u] \in Nat /\ excess[u] \in Nat
      /\ Limit[u] \in Nat /\ excess'[u] \in Nat
  BY NextType, LimitAssumption DEF TypeOK
<1>a. ASSUME NEW h \in Holds PROVE amount[h] \in Nat /\ Actor[h] \in Users
  BY ActorType DEF TypeOK
<1>r. ~reconciled => used[u] + reserved[u] <= Limit[u] + excess[u]
  BY DEF SpendWithinLimit
<1>1. ASSUME NEW m \in Months, NEW h \in Holds, NEW a \in Amounts,
             ReserveCredits(h, a, m)
      PROVE  used'[u] + reserved'[u] <= Limit[u] + excess'[u]
  <2>1. CASE u = Actor[h]
    BY <1>1, <2>1, <1>u, AmountType
    DEF ReserveCredits, Admitted, RolledUsed, TypeOK
  <2>2. CASE u # Actor[h]
    BY <1>1, <2>2, <1>u, <1>a, <1>r DEF ReserveCredits, bounds, TypeOK
  <2>3. QED
    BY <2>1, <2>2
<1>2. ASSUME NEW m \in Months, NEW h \in Holds, NEW n \in 0..1, NEW c \in Costs \cup {0},
             SettleOpen(h, n, c, m)
      PROVE  used'[u] + reserved'[u] <= Limit[u] + excess'[u]
  <2>1. c \in Nat
    BY CostType
  <2>2. reserved'[u] \in Nat
    BY NextType DEF TypeOK
  <2>3. CASE u = Actor[h]
    <3>1. used'[u] = used[u] + c
      BY <1>2, <2>3 DEF SettleOpen, TypeOK
    <3>2. excess'[u] = excess[u] + Beyond(c, reserved[u] - reserved'[u])
      BY <1>2, <2>3 DEF SettleOpen, TypeOK
    <3>3. ~reconciled
      BY <1>2 DEF SettleOpen, bounds
    <3>4. QED
      BY <3>1, <3>2, <3>3, <2>1, <2>2, <1>u, <1>r DEF Beyond
  <2>4. CASE u # Actor[h]
    BY <1>2, <2>4, <1>u, <1>a, <1>r DEF SettleOpen, bounds, TypeOK
  <2>5. QED
    BY <2>3, <2>4
<1>3. ASSUME NEW m \in Months, NEW h \in Holds, NEW n \in 0..1, NEW c \in Costs \cup {0},
             SettleClosed(h, n, c, m)
      PROVE  used'[u] + reserved'[u] <= Limit[u] + excess'[u]
  <2>1. c \in Nat
    BY CostType
  <2>2. QED
    BY <1>3, <2>1, <1>u, <1>a, <1>r DEF SettleClosed, bounds, TypeOK
<1>4. ASSUME NEW m \in Months, NEW v \in Users, NEW c \in Costs,
             RecordUsage(v, c, m)
      PROVE  used'[u] + reserved'[u] <= Limit[u] + excess'[u]
  <2>1. c \in Nat
    BY CostType
  <2>2. QED
    BY <1>4, <2>1, <1>u, <1>r DEF RecordUsage, TypeOK
<1>5. ASSUME NEW h \in Holds, ReleaseCredits(h)
      PROVE  used'[u] + reserved'[u] <= Limit[u] + excess'[u]
  BY <1>5, <1>u, <1>a, <1>r DEF ReleaseCredits, bounds, TypeOK, Positive
<1>6. ASSUME NEW h \in Holds, SweepRelease(h)
      PROVE  used'[u] + reserved'[u] <= Limit[u] + excess'[u]
  BY <1>6, <1>r DEF SweepRelease, bounds, counters
<1>7. ASSUME NEW h \in Holds, SweepCredit(h)
      PROVE  used'[u] + reserved'[u] <= Limit[u] + excess'[u]
  BY <1>7, <1>u, <1>a, <1>r DEF SweepCredit, bounds, TypeOK, Positive
<1>8. ASSUME NEW h \in Holds, SweepDies(h)
      PROVE  used'[u] + reserved'[u] <= Limit[u] + excess'[u]
  BY <1>8, <1>r DEF SweepDies, counters
<1>9. ASSUME NEW m \in Months, ReconcileBegin(m)
      PROVE  used'[u] + reserved'[u] <= Limit[u] + excess'[u]
  BY <1>9 DEF ReconcileBegin
<1>10. ASSUME NEW v \in Users, ReconcileRow(v)
       PROVE  used'[u] + reserved'[u] <= Limit[u] + excess'[u]
  BY <1>10 DEF ReconcileRow, bounds, AuditStarted
<1>11. ASSUME MonthEnds PROVE used'[u] + reserved'[u] <= Limit[u] + excess'[u]
  BY <1>11, <1>r DEF MonthEnds, counters, bounds
<1>12. ASSUME StragglersEnd PROVE used'[u] + reserved'[u] <= Limit[u] + excess'[u]
  BY <1>12, <1>r DEF StragglersEnd, counters, bounds
<1>13. CASE UNCHANGED vars
  BY <1>13, <1>r DEF vars, counters, bounds
<1>14. QED
  BY <1>1, <1>2, <1>3, <1>4, <1>5, <1>6, <1>7, <1>8, <1>9, <1>10, <1>11, <1>12, <1>13
  DEF Next, Request, Release, Sweep, SweepFails, Reconcile

(* Until a reconcile runs, requests that race for a budget exceed it only by *)
(* what was spent beyond the estimates.                                      *)
THEOREM LimitRespected == Spec => []SpendWithinLimit
<1>1. Init => AuditStarted /\ SpendWithinLimit
  BY LimitAssumption DEF Init, AuditStarted, SpendWithinLimit, NoAudit
<1>2. TypeOK /\ AuditStarted /\ SpendWithinLimit /\ [Next]_vars
        => (AuditStarted /\ SpendWithinLimit)'
  BY AuditStartedNext, LimitNext
<1>3. QED
  BY <1>1, <1>2, TypeCorrect, PTL DEF Spec

-----------------------------------------------------------------------------
(* The ledger behind the counter. *)

(* What was created since a later month was created since an earlier one. *)
LedgerOrdered ==
  \A u \in Users : \A i, j \in Months : i <= j => since[u][j] <= since[u][i]

(* A counter is never in a month that has not come. *)
PeriodReached == \A u \in Users : period[u] <= month

(* What a reconcile is about to write, the ledger still shows. *)
AuditSound ==
  \A u \in audit.todo :
    audit.month \in Months /\ audit.used[u] <= since[u][audit.month]

LedgerInv == LedgerOrdered /\ PeriodReached /\ AuditSound

(* An insert of cost c moves every month up to its own by c and no other. *)
LEMMA AppendEffect ==
  ASSUME TypeOK, NEW u \in Users, NEW m \in Months, NEW c \in Nat, Append(u, m, c),
         NEW v \in Users, NEW k \in Months
  PROVE  /\ v # u => since'[v] = since[v]
         /\ (v = u /\ k <= m) => since'[v][k] = since[v][k] + c
         /\ (v = u /\ k > m) => since'[v][k] = since[v][k]
<1> DEFINE row == [i \in Months |-> since[u][i] + IF i <= m THEN c ELSE 0]
<1>1. since' = [since EXCEPT ![u] = row]
  BY DEF Append
<1>2. v # u => since'[v] = since[v]
  BY <1>1 DEF TypeOK
<1>3. v = u => since'[v] = row
  BY <1>1 DEF TypeOK
<1>4. row[k] = since[u][k] + IF k <= m THEN c ELSE 0
  OBVIOUS
<1>5. since[u][k] \in Nat
  BY DEF TypeOK
<1>6. k <= m => row[k] = since[u][k] + c
  BY <1>4
<1>7. k \in Int /\ m \in Int
  BY DEF Months
<1>8. k > m => row[k] = since[u][k]
  BY <1>4, <1>5, <1>7
<1> HIDE DEF row
<1>9. QED
  BY <1>2, <1>3, <1>6, <1>8

LEMMA AppendGrows ==
  ASSUME TypeOK, NEW u \in Users, NEW m \in Months, NEW c \in Nat, Append(u, m, c)
  PROVE  \A v \in Users : \A k \in Months : since[v][k] <= since'[v][k]
<1> TAKE v \in Users
<1> TAKE k \in Months
<1>1. since[v][k] \in Nat
  BY DEF TypeOK
<1>2. CASE v # u
  BY <1>1, <1>2, AppendEffect
<1>3. CASE v = u /\ k <= m
  BY <1>1, <1>3, AppendEffect
<1>4. CASE v = u /\ ~(k <= m)
  BY <1>1, <1>4, AppendEffect DEF Months
<1>5. QED
  BY <1>2, <1>3, <1>4

LEMMA AppendOrdered ==
  ASSUME TypeOK, LedgerOrdered,
         NEW u \in Users, NEW m \in Months, NEW c \in Nat, Append(u, m, c)
  PROVE  LedgerOrdered'
<1> SUFFICES ASSUME NEW v \in Users, NEW i \in Months, NEW j \in Months, i <= j
             PROVE  since'[v][j] <= since'[v][i]
  BY DEF LedgerOrdered
<1>1. since[v][i] \in Nat /\ since[v][j] \in Nat /\ since[v][j] <= since[v][i]
  BY DEF TypeOK, LedgerOrdered
<1>2. CASE v # u
  BY <1>1, <1>2, AppendEffect
<1>3. CASE v = u /\ j <= m
  <2>1. i <= m
    BY <1>3 DEF Months
  <2>2. QED
    BY <1>1, <1>3, <2>1, AppendEffect
<1>4. CASE v = u /\ j > m /\ i <= m
  BY <1>1, <1>4, AppendEffect
<1>5. CASE v = u /\ j > m /\ i > m
  BY <1>1, <1>5, AppendEffect
<1>6. QED
  BY <1>2, <1>3, <1>4, <1>5 DEF Months

LEMMA LedgerInit == Init => LedgerInv
  BY BoundsAssumption
  DEF Init, LedgerInv, LedgerOrdered, PeriodReached, AuditSound, NoAudit, Months

(* Steps that touch neither the ledger, the periods nor the reconcile pass. *)
LEMMA LedgerKept ==
  ASSUME LedgerInv, UNCHANGED <<since, period, audit>>, month' = month
  PROVE  LedgerInv'
  BY DEF LedgerInv, LedgerOrdered, PeriodReached, AuditSound

(* Steps that insert events. *)
LEMMA LedgerAppended ==
  ASSUME TypeOK, LedgerInv, NEW u \in Users, NEW m \in Months, NEW c \in Nat,
         Append(u, m, c), UNCHANGED <<period, audit, month>>, TypeOK'
  PROVE  LedgerInv'
<1>1. LedgerOrdered'
  BY AppendOrdered DEF LedgerInv
<1>2. PeriodReached'
  BY DEF LedgerInv, PeriodReached
<1>3. AuditSound'
  <2> SUFFICES ASSUME NEW v \in audit.todo
               PROVE  audit.month \in Months /\ audit.used[v] <= since'[v][audit.month]
    BY DEF AuditSound
  <2>1. audit.month \in Months /\ audit.used[v] <= since[v][audit.month]
    BY DEF LedgerInv, AuditSound
  <2>2. v \in Users /\ audit.used[v] \in Nat
    BY DEF TypeOK, Audits
  <2>3. since[v][audit.month] \in Nat /\ since'[v][audit.month] \in Nat
    BY <2>1, <2>2 DEF TypeOK
  <2>4. since[v][audit.month] <= since'[v][audit.month]
    BY <2>1, <2>2, AppendGrows
  <2>5. QED
    BY <2>1, <2>2, <2>3, <2>4
<1>4. QED
  BY <1>1, <1>2, <1>3 DEF LedgerInv

LEMMA LedgerNext == TypeOK /\ LedgerInv /\ [Next]_vars => LedgerInv'
<1> SUFFICES ASSUME TypeOK, LedgerInv, [Next]_vars PROVE LedgerInv'
  OBVIOUS
<1>t. TypeOK'
  BY NextType
<1>1. ASSUME NEW m \in Months, NEW h \in Holds, NEW a \in Amounts,
             ReserveCredits(h, a, m)
      PROVE  LedgerInv'
  <2>1. LedgerOrdered' /\ AuditSound'
    BY <1>1 DEF ReserveCredits, LedgerInv, LedgerOrdered, AuditSound, ledger, passes
  <2>2. m <= month
    BY <1>1 DEF ReserveCredits, TxMonths, TypeOK, Months
  <2>3. PeriodReached'
    BY <1>1, <2>2 DEF ReserveCredits, LedgerInv, PeriodReached, clock, TypeOK
  <2>4. QED
    BY <2>1, <2>3 DEF LedgerInv
<1>2. ASSUME NEW m \in Months, NEW h \in Holds, NEW n \in 0..1, NEW c \in Costs \cup {0},
             SettleOpen(h, n, c, m) \/ SettleClosed(h, n, c, m)
      PROVE  LedgerInv'
  <2>1. c \in Nat /\ Actor[h] \in Users
    BY CostType, ActorType
  <2>2. Append(Actor[h], m, c) /\ UNCHANGED <<period, audit, month>>
    BY <1>2 DEF SettleOpen, SettleClosed, passes, clock
  <2>3. QED
    BY <2>1, <2>2, <1>t, LedgerAppended
<1>3. ASSUME NEW m \in Months, NEW u \in Users, NEW c \in Costs,
             RecordUsage(u, c, m)
      PROVE  LedgerInv'
  <2>1. c \in Nat
    BY CostType
  <2>2. Append(u, m, c) /\ UNCHANGED <<period, audit, month>>
    BY <1>3 DEF RecordUsage, passes, clock
  <2>3. QED
    BY <2>1, <2>2, <1>t, LedgerAppended
<1>4. CASE Release \/ Sweep \/ SweepFails
  <2>1. UNCHANGED <<since, period, audit, month>>
    BY <1>4 DEF Release, ReleaseCredits, Sweep, SweepFails, SweepRelease, SweepCredit,
                SweepDies, ledger, counters, passes, clock
  <2>2. QED
    BY <2>1, LedgerKept
<1>5. ASSUME NEW m \in Months, ReconcileBegin(m) PROVE LedgerInv'
  <2>1. LedgerOrdered' /\ PeriodReached'
    BY <1>5 DEF ReconcileBegin, LedgerInv, LedgerOrdered, PeriodReached, ledger,
                counters, clock
  <2>2. AuditSound'
    <3> DEFINE todo == {u \in Users : period[u] = m}
    <3>1. CASE todo = {}
      BY <1>5, <3>1 DEF ReconcileBegin, AuditSound, NoAudit
    <3>2. CASE todo # {}
      <4>1. /\ audit'.todo = todo /\ audit'.month = m
            /\ audit'.used = [u \in Users |-> since[u][m]]
        BY <1>5, <3>2 DEF ReconcileBegin
      <4>2. \A u \in todo : since[u][m] \in Nat
        BY DEF TypeOK
      <4>3. since' = since
        BY <1>5 DEF ReconcileBegin, ledger
      <4>4. QED
        BY <4>1, <4>2, <4>3 DEF AuditSound
    <3>3. QED
      BY <3>1, <3>2
  <2>3. QED
    BY <2>1, <2>2 DEF LedgerInv
<1>6. ASSUME NEW u \in Users, ReconcileRow(u) PROVE LedgerInv'
  <2>1. LedgerOrdered' /\ PeriodReached'
    BY <1>6 DEF ReconcileRow, LedgerInv, LedgerOrdered, PeriodReached, ledger, clock
  <2>2. AuditSound'
    BY <1>6 DEF ReconcileRow, LedgerInv, AuditSound, NoAudit, ledger, TypeOK, Audits
  <2>3. QED
    BY <2>1, <2>2 DEF LedgerInv
<1>7. CASE MonthEnds
  <2>1. LedgerOrdered' /\ AuditSound'
    BY <1>7 DEF MonthEnds, LedgerInv, LedgerOrdered, AuditSound, ledger, passes
  <2>2. PeriodReached'
    BY <1>7 DEF MonthEnds, LedgerInv, PeriodReached, counters, TypeOK, Months
  <2>3. QED
    BY <2>1, <2>2 DEF LedgerInv
<1>8. CASE StragglersEnd \/ UNCHANGED vars
  <2>1. UNCHANGED <<since, period, audit, month>>
    BY <1>8 DEF StragglersEnd, vars, ledger, counters, passes, clock
  <2>2. QED
    BY <2>1, LedgerKept
<1>9. QED
  BY <1>1, <1>2, <1>3, <1>4, <1>5, <1>6, <1>7, <1>8 DEF Next, Request, Reconcile

(* The month of a transaction is no earlier than the one before any period. *)
LEMMA TxMonthCovers ==
  ASSUME TypeOK, PeriodReached, NEW u \in Users, NEW m \in TxMonths
  PROVE  Before(period[u]) \in Months /\ Before(period[u]) <= m
<1>1. period[u] \in Months /\ period[u] <= month /\ month \in Months
  BY DEF TypeOK, PeriodReached
<1>2. m \in {month - 1, month} /\ m >= 0
  BY DEF TxMonths, TypeOK, Months
<1>3. QED
  BY <1>1, <1>2, BoundsAssumption DEF Before, Months

(* A charge is in the ledger of every month its counter can be read against. *)
LEMMA ChargeCovered ==
  ASSUME TypeOK, LedgerInv, UsedCoveredByLedger, TypeOK',
         NEW v \in Users, NEW m \in TxMonths, m \in Months, NEW c \in Nat,
         Append(v, m, c), used' = [used EXCEPT ![v] = @ + c], period' = period,
         NEW u \in Users
  PROVE  used'[u] <= since'[u][Before(period[u])]
<1>1. Before(period[u]) \in Months /\ Before(period[u]) <= m
  BY TxMonthCovers DEF LedgerInv
<1>2. used[u] <= since[u][Before(period[u])]
  BY DEF UsedCoveredByLedger
<1>3. used[u] \in Nat /\ since[u][Before(period[u])] \in Nat
  BY <1>1 DEF TypeOK
<1>4. CASE u = v
  <2>1. since'[u][Before(period[u])] = since[u][Before(period[u])] + c
    BY <1>1, <1>4, AppendEffect
  <2>2. used'[u] = used[u] + c
    BY <1>4 DEF TypeOK
  <2>3. QED
    BY <1>2, <1>3, <2>1, <2>2
<1>5. CASE u # v
  <2>1. since'[u] = since[u]
    BY <1>1, <1>5, AppendEffect
  <2>2. used'[u] = used[u]
    BY <1>5 DEF TypeOK
  <2>3. QED
    BY <1>2, <2>1, <2>2
<1>6. QED
  BY <1>4, <1>5

LEMMA UsedNext ==
  TypeOK /\ LedgerInv /\ UsedCoveredByLedger /\ [Next]_vars => UsedCoveredByLedger'
<1> SUFFICES ASSUME TypeOK, LedgerInv, UsedCoveredByLedger, [Next]_vars,
                    NEW u \in Users
             PROVE  used'[u] <= since'[u][Before(period'[u])]
  BY DEF UsedCoveredByLedger, Before
<1>t. TypeOK'
  BY NextType
<1>u. /\ used[u] \in Nat /\ period[u] \in Months /\ period'[u] \in Months
      /\ used[u] <= since[u][Before(period[u])]
  BY <1>t DEF TypeOK, UsedCoveredByLedger
<1>b. \A i \in Months : Before(i) \in Months /\ since[u][Before(i)] \in Nat
  BY BoundsAssumption DEF TypeOK, Months, Before
<1>k. UNCHANGED <<used, since, period>> => used'[u] <= since'[u][Before(period'[u])]
  BY <1>u
<1>1. ASSUME NEW m \in Months, NEW h \in Holds, NEW a \in Amounts,
             ReserveCredits(h, a, m)
      PROVE  used'[u] <= since'[u][Before(period'[u])]
  <2>1. since' = since
    BY <1>1 DEF ReserveCredits, ledger
  <2>2. CASE u # Actor[h]
    BY <1>1, <2>1, <2>2, <1>u DEF ReserveCredits, TypeOK
  <2>3. CASE u = Actor[h] /\ period[u] < m
    <3>1. used'[u] = 0
      BY <1>1, <2>3 DEF ReserveCredits, RolledUsed, TypeOK
    <3>2. QED
      BY <2>1, <3>1, <1>u, <1>b
  <2>4. CASE u = Actor[h] /\ ~(period[u] < m)
    <3>1. used'[u] = used[u] /\ period'[u] = m
      BY <1>1, <2>4 DEF ReserveCredits, RolledUsed, TypeOK
    <3>2. Before(m) <= Before(period[u])
      BY <2>4, <1>u DEF Before, Months
    <3>3. since[u][Before(period[u])] <= since[u][Before(m)]
      BY <3>2, <1>u, <1>b DEF LedgerInv, LedgerOrdered
    <3>4. QED
      BY <2>1, <3>1, <3>3, <1>u, <1>b
  <2>5. QED
    BY <2>2, <2>3, <2>4
<1>2. ASSUME NEW m \in Months, NEW h \in Holds, NEW n \in 0..1, NEW c \in Costs \cup {0},
             SettleOpen(h, n, c, m) \/ SettleClosed(h, n, c, m)
      PROVE  used'[u] <= since'[u][Before(period'[u])]
  <2>1. c \in Nat /\ Actor[h] \in Users
    BY CostType, ActorType
  <2>2. /\ Append(Actor[h], m, c) /\ m \in TxMonths
        /\ used' = [used EXCEPT ![Actor[h]] = @ + c] /\ period' = period
    BY <1>2 DEF SettleOpen, SettleClosed
  <2>3. used'[u] <= since'[u][Before(period[u])]
    BY <2>1, <2>2, <1>t, ChargeCovered
  <2>4. QED
    BY <2>2, <2>3
<1>3. ASSUME NEW m \in Months, NEW v \in Users, NEW c \in Costs,
             RecordUsage(v, c, m)
      PROVE  used'[u] <= since'[u][Before(period'[u])]
  <2>1. c \in Nat
    BY CostType
  <2>2. /\ Append(v, m, c) /\ m \in TxMonths
        /\ used' = [used EXCEPT ![v] = @ + c] /\ period' = period
    BY <1>3 DEF RecordUsage
  <2>3. used'[u] <= since'[u][Before(period[u])]
    BY <2>1, <2>2, <1>t, ChargeCovered
  <2>4. QED
    BY <2>2, <2>3
<1>4. CASE Release \/ Sweep \/ SweepFails
  BY <1>4, <1>k DEF Release, ReleaseCredits, Sweep, SweepFails, SweepRelease,
                    SweepCredit, SweepDies, ledger, counters
<1>5. ASSUME NEW m \in Months, ReconcileBegin(m)
      PROVE  used'[u] <= since'[u][Before(period'[u])]
  BY <1>5, <1>k DEF ReconcileBegin, ledger, counters
<1>6. ASSUME NEW v \in Users, ReconcileRow(v)
      PROVE  used'[u] <= since'[u][Before(period'[u])]
  <2>1. since' = since /\ period' = period
    BY <1>6 DEF ReconcileRow, ledger
  <2>2. CASE u = v /\ period[u] = audit.month
    <3>1. used'[u] = audit.used[u] /\ audit.used[u] \in Nat
      BY <1>6, <2>2 DEF ReconcileRow, TypeOK, Audits
    <3>2. audit.used[u] <= since[u][period[u]]
      BY <1>6, <2>2 DEF ReconcileRow, LedgerInv, AuditSound
    <3>3. Before(period[u]) <= period[u]
      BY <1>u DEF Before, Months
    <3>4. since[u][period[u]] <= since[u][Before(period[u])]
      BY <3>3, <1>u, <1>b DEF LedgerInv, LedgerOrdered
    <3>5. since[u][period[u]] \in Nat
      BY <1>u DEF TypeOK
    <3>6. QED
      BY <2>1, <3>1, <3>2, <3>4, <3>5, <1>u, <1>b
  <2>3. CASE ~(u = v /\ period[u] = audit.month)
    <3>1. used'[u] = used[u]
      BY <1>6, <2>3 DEF ReconcileRow, TypeOK
    <3>2. QED
      BY <2>1, <3>1, <1>u
  <2>4. QED
    BY <2>2, <2>3
<1>7. CASE MonthEnds \/ StragglersEnd \/ UNCHANGED vars
  BY <1>7, <1>k DEF MonthEnds, StragglersEnd, vars, ledger, counters
<1>8. QED
  BY <1>1, <1>2, <1>3, <1>4, <1>5, <1>6, <1>7 DEF Next, Request, Reconcile

(* The counter never claims spending the ledger does not show, reconcile *)
(* passes, month ends and stragglers included.                           *)
THEOREM UsedIsCovered == Spec => []UsedCoveredByLedger
<1>1. Init => LedgerInv /\ UsedCoveredByLedger
  <2>1. Init => UsedCoveredByLedger
    <3> SUFFICES ASSUME Init, NEW u \in Users
                 PROVE  used[u] <= since[u][Before(period[u])]
      BY DEF UsedCoveredByLedger
    <3>1. used[u] = 0 /\ Before(period[u]) = 0 /\ 0 \in Months
      BY BoundsAssumption DEF Init, Before, Months
    <3>2. since[u][0] = 0
      BY <3>1 DEF Init
    <3>3. QED
      BY <3>1, <3>2
  <2>2. QED
    BY <2>1, LedgerInit
<1>2. TypeOK /\ LedgerInv /\ UsedCoveredByLedger /\ [Next]_vars
        => (LedgerInv /\ UsedCoveredByLedger)'
  BY LedgerNext, UsedNext
<1>3. QED
  BY <1>1, <1>2, TypeCorrect, PTL DEF Spec

-----------------------------------------------------------------------------
(* Each hold follows the abstract life cycle. *)

(* A hold is billed at most once, and not before it is closed. *)
BilledOnce ==
  \A h \in Holds : billed[h] \in 0..1 /\ (status[h] \in {"none", "open"} => billed[h] = 0)

LEMMA BillRows == ASSUME NEW n, NEW c, Bill(n, c) PROVE n \in 0..1
  BY DEF Bill

LEMMA BilledOnceNext == TypeOK /\ BilledOnce /\ [Next]_vars => BilledOnce'
<1> SUFFICES ASSUME TypeOK, BilledOnce, [Next]_vars, NEW k \in Holds
             PROVE  billed'[k] \in 0..1 /\ (status'[k] \in {"none", "open"} => billed'[k] = 0)
  BY DEF BilledOnce
<1>u. billed[k] \in 0..1 /\ (status[k] \in {"none", "open"} => billed[k] = 0)
  BY DEF BilledOnce
<1>1. ASSUME NEW m \in Months, NEW h \in Holds, NEW a \in Amounts,
             ReserveCredits(h, a, m)
      PROVE  billed'[k] \in 0..1 /\ (status'[k] \in {"none", "open"} => billed'[k] = 0)
  BY <1>1, <1>u DEF ReserveCredits, ledger, TypeOK
<1>2. ASSUME NEW m \in Months, NEW h \in Holds, NEW n \in 0..1, NEW c \in Costs \cup {0},
             SettleOpen(h, n, c, m)
      PROVE  billed'[k] \in 0..1 /\ (status'[k] \in {"none", "open"} => billed'[k] = 0)
  BY <1>2, <1>u DEF SettleOpen, StillOpen, TypeOK
<1>3. ASSUME NEW m \in Months, NEW h \in Holds, NEW n \in 0..1, NEW c \in Costs \cup {0},
             SettleClosed(h, n, c, m)
      PROVE  billed'[k] \in 0..1 /\ (status'[k] \in {"none", "open"} => billed'[k] = 0)
  BY <1>3, <1>u DEF SettleClosed, Unbilled, table, TypeOK
<1>4. ASSUME NEW m \in Months, NEW u \in Users, NEW c \in Costs, RecordUsage(u, c, m)
      PROVE  billed'[k] \in 0..1 /\ (status'[k] \in {"none", "open"} => billed'[k] = 0)
  BY <1>4, <1>u DEF RecordUsage, table
<1>5. ASSUME NEW h \in Holds, ReleaseCredits(h) \/ SweepRelease(h)
      PROVE  billed'[k] \in 0..1 /\ (status'[k] \in {"none", "open"} => billed'[k] = 0)
  BY <1>5, <1>u DEF ReleaseCredits, SweepRelease, StillOpen, ledger, TypeOK
<1>6. ASSUME UNCHANGED <<billed, status>>
      PROVE  billed'[k] \in 0..1 /\ (status'[k] \in {"none", "open"} => billed'[k] = 0)
  BY <1>6, <1>u
<1>7. CASE SweepFails \/ Reconcile \/ MonthEnds \/ StragglersEnd \/ UNCHANGED vars
  BY <1>6, <1>7 DEF SweepFails, SweepDies, Reconcile, ReconcileBegin, ReconcileRow,
                    MonthEnds, StragglersEnd, vars, table, ledger
<1>8. ASSUME NEW h \in Holds, SweepCredit(h) PROVE UNCHANGED <<billed, status>>
  BY <1>8 DEF SweepCredit, table, ledger
<1>9. QED
  BY <1>1, <1>2, <1>3, <1>4, <1>5, <1>6, <1>7, <1>8 DEF Next, Request, Release, Sweep

LEMMA LifecycleInit == Init => Lifecycle!Init
  BY DEF Init, Lifecycle!Init

LEMMA LifecycleStep ==
  TypeOK /\ BilledOnce /\ [Next]_vars => [Lifecycle!Next]_(Lifecycle!vars)
<1> SUFFICES ASSUME TypeOK, BilledOnce, [Next]_vars
             PROVE  Lifecycle!Next \/ UNCHANGED <<status, billed>>
  BY DEF Lifecycle!vars
<1>1. ASSUME NEW m \in Months, NEW h \in Holds, NEW a \in Amounts,
             ReserveCredits(h, a, m)
      PROVE  Lifecycle!Open(h)
  BY <1>1 DEF ReserveCredits, ledger, Lifecycle!Open
<1>2. ASSUME NEW m \in Months, NEW h \in Holds, NEW n \in 0..1, NEW c \in Costs \cup {0},
             SettleOpen(h, n, c, m)
      PROVE  Lifecycle!Settle(h)
  <2>1. billed[h] = 0
    BY <1>2 DEF SettleOpen, StillOpen, BilledOnce
  <2>2. billed' = [billed EXCEPT ![h] = n]
    BY <1>2, <2>1 DEF SettleOpen
  <2>3. QED
    BY <1>2, <2>2 DEF SettleOpen, StillOpen, Lifecycle!Settle
<1>3. ASSUME NEW m \in Months, NEW h \in Holds, NEW n \in 0..1, NEW c \in Costs \cup {0},
             SettleClosed(h, n, c, m)
      PROVE  Lifecycle!LateBill(h) \/ UNCHANGED <<status, billed>>
  <2> billed[h] = 0 /\ status' = status
    BY <1>3 DEF SettleClosed, Unbilled, table
  <2>1. billed' = [billed EXCEPT ![h] = n]
    <3>1. billed' = [billed EXCEPT ![h] = billed[h] + n]
      BY <1>3 DEF SettleClosed
    <3>2. billed[h] + n = n
      OBVIOUS
    <3>3. QED
      BY <3>1, <3>2
  <2>2. CASE n = 0
    <3>1. billed \in [Holds -> Nat]
      BY DEF TypeOK
    <3>2. billed' = billed
      BY <2>1, <2>2, <3>1
    <3>3. QED
      BY <3>2
  <2>3. CASE n = 1
    BY <1>3, <2>1, <2>3 DEF SettleClosed, Lifecycle!LateBill
  <2>4. QED
    BY <2>2, <2>3
<1>4. ASSUME NEW m \in Months, NEW u \in Users, NEW c \in Costs, RecordUsage(u, c, m)
      PROVE  UNCHANGED <<status, billed>>
  BY <1>4 DEF RecordUsage, table
<1>5. ASSUME NEW h \in Holds, ReleaseCredits(h) \/ SweepRelease(h)
      PROVE  Lifecycle!Release(h)
  BY <1>5 DEF ReleaseCredits, SweepRelease, StillOpen, ledger, Lifecycle!Release
<1>6. ASSUME NEW h \in Holds, SweepCredit(h) PROVE UNCHANGED <<status, billed>>
  BY <1>6 DEF SweepCredit, table, ledger
<1>7. CASE SweepFails \/ Reconcile \/ MonthEnds \/ StragglersEnd \/ UNCHANGED vars
  BY <1>7 DEF SweepFails, SweepDies, Reconcile, ReconcileBegin, ReconcileRow,
              MonthEnds, StragglersEnd, vars, table, ledger
<1>8. QED
  BY <1>1, <1>2, <1>3, <1>4, <1>5, <1>6, <1>7
  DEF Next, Request, Release, Sweep, Lifecycle!Next

(* However settles, releases, sweeps and retries interleave, a hold is closed *)
(* once and billed at most once: the ledger implements the abstract holds.    *)
THEOREM LifecycleImplemented == Spec => ImplementsLifecycle
<1>1. Init => BilledOnce
  BY DEF Init, BilledOnce
<1>2. QED
  BY <1>1, BilledOnceNext, TypeCorrect, LifecycleInit, LifecycleStep, PTL
  DEF Spec, ImplementsLifecycle, Lifecycle!Spec

(* What the lifecycle comes to: no hold is billed twice or billed while it *)
(* is open, one that settled or was released is never opened or closed     *)
(* again, and what was billed stays so (credits.go:272-487).               *)
THEOREM HoldsCloseForGood ==
  Spec => /\ []\A h \in Holds : billed[h] \in 0..1 /\ (billed[h] = 1 => status[h] \in {"settled", "released"})
          /\ [][\A h \in Holds : /\ status[h] \in {"settled", "released"} => status'[h] = status[h]
                                 /\ billed'[h] \in billed[h]..1]_<<status, billed>>
<1> DEFINE Billable == \A h \in Holds :
                         billed[h] \in 0..1 /\ (billed[h] = 1 => status[h] \in {"settled", "released"})
           Closes == \A h \in Holds : /\ status[h] \in {"settled", "released"} => status'[h] = status[h]
                                      /\ billed'[h] \in billed[h]..1
           Typed == billed \in [Holds -> Nat] /\ status \in [Holds -> {"none", "open", "settled", "released"}]
<1>1. TypeOK /\ BilledOnce => Billable /\ Typed
  BY DEF TypeOK, BilledOnce, Statuses
<1>2. ASSUME Billable, Typed, [Lifecycle!Next]_(Lifecycle!vars) PROVE [Closes]_<<status, billed>>
  <2>1. CASE UNCHANGED <<status, billed>>
    BY <2>1
  <2>2. ASSUME NEW h \in Holds, Lifecycle!Open(h) PROVE Closes
    BY <1>2, <2>2 DEF Lifecycle!Open
  <2>3. ASSUME NEW h \in Holds, Lifecycle!Settle(h) PROVE Closes
    BY <1>2, <2>3 DEF Lifecycle!Settle
  <2>4. ASSUME NEW h \in Holds, Lifecycle!Release(h) PROVE Closes
    BY <1>2, <2>4 DEF Lifecycle!Release
  <2>5. ASSUME NEW h \in Holds, Lifecycle!LateBill(h) PROVE Closes
    BY <1>2, <2>5 DEF Lifecycle!LateBill
  <2>. QED
    BY <1>2, <2>1, <2>2, <2>3, <2>4, <2>5 DEF Lifecycle!Next, Lifecycle!vars
<1>3. Init => BilledOnce
  BY DEF Init, BilledOnce
<1>4. TypeOK /\ BilledOnce /\ [Next]_vars => [Closes]_<<status, billed>>
  BY <1>1, <1>2, LifecycleStep
<1> HIDE DEF Billable, Closes
<1>5. Spec => []Billable /\ [][Closes]_<<status, billed>>
  BY <1>1, <1>3, <1>4, BilledOnceNext, TypeCorrect, PTL DEF Spec
<1> QED
  BY <1>5 DEF Billable, Closes
-----------------------------------------------------------------------------
(* The sums over the reservation rows *)

(* What a running sweep has still to give back was released. *)
SweptReleased == \A h \in sweeping : status[h] = "released"

LEMMA HoldRows ==
  ASSUME TypeOK, NEW u \in Users
  PROVE  /\ IsFiniteSet(OpenHolds(u)) /\ \A h \in OpenHolds(u) : amount[h] \in Nat
         /\ IsFiniteSet(SweptHolds(u)) /\ \A h \in SweptHolds(u) : amount[h] \in Nat
<1>1. OpenHolds(u) \in SUBSET Holds /\ SweptHolds(u) \in SUBSET Holds
  BY DEF OpenHolds, SweptHolds, TypeOK
<1>2. IsFiniteSet(OpenHolds(u)) /\ IsFiniteSet(SweptHolds(u))
  BY <1>1, HoldsAssumption, FS_Subset
<1>3. QED
  BY <1>1, <1>2 DEF TypeOK

(* A reservation is opened, with its amount. *)
LEMMA HoldOpens ==
  ASSUME TypeOK, SweptReleased, SumsExact, NEW h \in Holds, NEW a \in Nat,
         status[h] = "none", status' = [status EXCEPT ![h] = "open"],
         amount' = [amount EXCEPT ![h] = a], held' = [held EXCEPT ![Actor[h]] = @ + a],
         UNCHANGED <<sweeping, owed>>
  PROVE  SumsExact'
<1> SUFFICES ASSUME NEW u \in Users
             PROVE  /\ held'[u] = SumFunctionOnSet(amount', OpenHolds(u)')
                    /\ owed'[u] = SumFunctionOnSet(amount', SweptHolds(u)')
  BY DEF SumsExact
<1>1. h \notin OpenHolds(u) /\ h \notin SweptHolds(u)
  BY DEF OpenHolds, SweptHolds, SweptReleased
<1>2. \A k \in Holds : k # h => amount'[k] = amount[k]
  BY DEF TypeOK
<1>3. amount'[h] = a
  BY DEF TypeOK
<1>4. SumFunctionOnSet(amount', OpenHolds(u)) = SumFunctionOnSet(amount, OpenHolds(u))
  <2>1. \A k \in OpenHolds(u) : amount[k] \in Int /\ amount'[k] = amount[k]
    BY <1>1, <1>2 DEF OpenHolds, TypeOK
  <2>2. QED
    BY <2>1, HoldRows, SumSame
<1>5. SumFunctionOnSet(amount', SweptHolds(u)) = SumFunctionOnSet(amount, SweptHolds(u))
  <2>1. \A k \in SweptHolds(u) : amount[k] \in Int /\ amount'[k] = amount[k]
    BY <1>1, <1>2 DEF SweptHolds, TypeOK
  <2>2. QED
    BY <2>1, HoldRows, SumSame
<1>6. SweptHolds(u)' = SweptHolds(u)
  BY DEF SweptHolds
<1>7. CASE u = Actor[h]
  <2>1. OpenHolds(u)' = OpenHolds(u) \cup {h}
    BY <1>7 DEF OpenHolds, TypeOK
  <2>2. amount'[h] \in Int /\ \A k \in OpenHolds(u) : amount'[k] \in Int
    BY <1>1, <1>2, <1>3 DEF OpenHolds, TypeOK
  <2>3. SumFunctionOnSet(amount', OpenHolds(u) \cup {h})
          = SumFunctionOnSet(amount', OpenHolds(u)) + a
    BY <1>1, <1>3, <2>2, HoldRows, SumAdd
  <2>4. held'[u] = held[u] + a
    BY <1>7 DEF TypeOK
  <2>5. QED
    BY <1>4, <1>5, <1>6, <2>1, <2>3, <2>4 DEF SumsExact
<1>8. CASE u # Actor[h]
  <2>1. OpenHolds(u)' = OpenHolds(u) /\ held'[u] = held[u]
    BY <1>8 DEF OpenHolds, TypeOK
  <2>2. QED
    BY <1>4, <1>5, <1>6, <2>1 DEF SumsExact
<1>9. QED
  BY <1>7, <1>8

(* A reservation is closed: it leaves the sum of the open ones. *)
LEMMA HoldCloses ==
  ASSUME TypeOK, SumsExact, NEW h \in Holds, NEW s, s # "open", StillOpen(h),
         status' = [status EXCEPT ![h] = s], held' = [held EXCEPT ![Actor[h]] = @ - amount[h]],
         UNCHANGED amount, NEW u \in Users
  PROVE  held'[u] = SumFunctionOnSet(amount', OpenHolds(u)')
<1>1. CASE u = Actor[h]
  <2>1. OpenHolds(u)' = OpenHolds(u) \ {h} /\ h \in OpenHolds(u)
    BY <1>1 DEF OpenHolds, TypeOK, StillOpen
  <2>2. SumFunctionOnSet(amount, OpenHolds(u) \ {h})
          = SumFunctionOnSet(amount, OpenHolds(u)) - amount[h]
    <3>1. \A k \in OpenHolds(u) : amount[k] \in Int
      BY HoldRows
    <3>2. QED
      BY <2>1, <3>1, HoldRows, SumRemove
  <2>3. QED
    BY <1>1, <2>1, <2>2 DEF SumsExact, TypeOK
<1>2. CASE u # Actor[h]
  BY <1>2 DEF OpenHolds, TypeOK, SumsExact, StillOpen
<1>3. QED
  BY <1>1, <1>2

(* A sweep is done with a reservation, or dies before it was. *)
LEMMA SweepLeaves ==
  ASSUME TypeOK, SumsExact, NEW h \in sweeping, UNCHANGED <<status, amount, held>>,
         sweeping' = sweeping \ {h}, owed' = [owed EXCEPT ![Actor[h]] = @ - amount[h]]
  PROVE  SumsExact'
<1> SUFFICES ASSUME NEW u \in Users
             PROVE  owed'[u] = SumFunctionOnSet(amount', SweptHolds(u)')
  BY DEF SumsExact, OpenHolds
<1>1. CASE u = Actor[h]
  <2>1. SweptHolds(u)' = SweptHolds(u) \ {h} /\ h \in SweptHolds(u)
    BY <1>1 DEF SweptHolds
  <2>2. \A k \in SweptHolds(u) : amount[k] \in Int
    BY HoldRows
  <2>3. SumFunctionOnSet(amount, SweptHolds(u) \ {h})
          = SumFunctionOnSet(amount, SweptHolds(u)) - amount[h]
    BY <2>1, <2>2, HoldRows, SumRemove
  <2>4. QED
    BY <1>1, <2>1, <2>3 DEF SumsExact, TypeOK
<1>2. CASE u # Actor[h]
  BY <1>2 DEF SweptHolds, TypeOK, SumsExact
<1>3. QED
  BY <1>1, <1>2

(* A sweep releases a reservation: from one sum into the other. *)
LEMMA SweepTakes ==
  ASSUME TypeOK, SweptReleased, SumsExact, NEW h \in Holds, SweepRelease(h)
  PROVE  SumsExact'
<1> SUFFICES ASSUME NEW u \in Users
             PROVE  /\ held'[u] = SumFunctionOnSet(amount', OpenHolds(u)')
                    /\ owed'[u] = SumFunctionOnSet(amount', SweptHolds(u)')
  BY DEF SumsExact
<1>1. held'[u] = SumFunctionOnSet(amount', OpenHolds(u)')
  BY HoldCloses DEF SweepRelease
<1>2. amount' = amount
  BY DEF SweepRelease
<1>3. CASE u = Actor[h]
  <2>1. SweptHolds(u)' = SweptHolds(u) \cup {h} /\ h \notin SweptHolds(u)
    BY <1>3 DEF SweptHolds, SweptReleased, SweepRelease, StillOpen
  <2>2. (\A k \in SweptHolds(u) : amount[k] \in Int) /\ amount[h] \in Int
    BY HoldRows DEF TypeOK
  <2>3. SumFunctionOnSet(amount, SweptHolds(u) \cup {h})
          = SumFunctionOnSet(amount, SweptHolds(u)) + amount[h]
    BY <2>1, <2>2, HoldRows, SumAdd
  <2>4. QED
    BY <1>1, <1>2, <1>3, <2>1, <2>3 DEF SumsExact, SweepRelease, TypeOK
<1>4. CASE u # Actor[h]
  BY <1>1, <1>4 DEF SweptHolds, TypeOK, SumsExact, SweepRelease
<1>5. QED
  BY <1>3, <1>4

LEMMA SweptNext == TypeOK /\ SweptReleased /\ [Next]_vars => SweptReleased'
<1> SUFFICES ASSUME TypeOK, SweptReleased, [Next]_vars PROVE SweptReleased'
  OBVIOUS
<1>1. CASE Request
  BY <1>1 DEF Request, ReserveCredits, SettleOpen, SettleClosed, RecordUsage, StillOpen,
              passes, table, SweptReleased, TypeOK
<1>2. CASE Release
  BY <1>2 DEF Release, ReleaseCredits, StillOpen, passes, SweptReleased, TypeOK
<1>3. CASE Sweep
  BY <1>3 DEF Sweep, SweepRelease, SweepCredit, table, SweptReleased, TypeOK
<1>4. CASE SweepFails
  BY <1>4 DEF SweepFails, SweepDies, table, SweptReleased
<1>5. CASE Reconcile \/ MonthEnds \/ StragglersEnd \/ UNCHANGED vars
  BY <1>5 DEF Reconcile, ReconcileBegin, ReconcileRow, MonthEnds, StragglersEnd, vars, table,
              passes, SweptReleased
<1>6. QED
  BY <1>1, <1>2, <1>3, <1>4, <1>5 DEF Next

LEMMA SumsNext == TypeOK /\ SweptReleased /\ SumsExact /\ [Next]_vars => SumsExact'
<1> SUFFICES ASSUME TypeOK, SweptReleased, SumsExact, [Next]_vars PROVE SumsExact'
  OBVIOUS
<1>1. ASSUME NEW m \in Months, NEW h \in Holds, NEW a \in Amounts, ReserveCredits(h, a, m)
      PROVE  SumsExact'
  BY <1>1, AmountType, HoldOpens DEF ReserveCredits, passes
<1>2. ASSUME NEW h \in Holds, NEW s, s # "open", StillOpen(h),
             status' = [status EXCEPT ![h] = s],
             held' = [held EXCEPT ![Actor[h]] = @ - amount[h]],
             UNCHANGED <<amount, sweeping, owed>>
      PROVE  SumsExact'
  <2>1. \A u \in Users : held'[u] = SumFunctionOnSet(amount', OpenHolds(u)')
    BY <1>2, HoldCloses
  <2>2. QED
    BY <1>2, <2>1 DEF SumsExact, SweptHolds
<1>3. ASSUME NEW m \in Months, NEW h \in Holds, NEW n \in 0..1, NEW c \in Costs \cup {0},
             SettleOpen(h, n, c, m)
      PROVE  SumsExact'
  BY <1>2, <1>3 DEF SettleOpen, passes
<1>4. ASSUME NEW h \in Holds, ReleaseCredits(h) PROVE SumsExact'
  BY <1>2, <1>4 DEF ReleaseCredits, passes
<1>5. ASSUME UNCHANGED <<status, amount, held, sweeping, owed>> PROVE SumsExact'
  BY <1>5 DEF SumsExact, OpenHolds, SweptHolds
<1>6. ASSUME NEW h \in Holds, SweepRelease(h) PROVE SumsExact'
  BY <1>6, SweepTakes
<1>7. ASSUME NEW h \in Holds, SweepCredit(h) \/ SweepDies(h) PROVE SumsExact'
  BY <1>7, SweepLeaves DEF SweepCredit, SweepDies, table
<1>8. CASE Request
  <2>1. ASSUME NEW m \in Months, NEW h \in Holds, NEW n \in 0..1, NEW c \in Costs \cup {0},
               SettleClosed(h, n, c, m)
        PROVE  SumsExact'
    BY <1>5, <2>1 DEF SettleClosed, table, passes
  <2>2. ASSUME NEW m \in Months, NEW u \in Users, NEW c \in Costs, RecordUsage(u, c, m)
        PROVE  SumsExact'
    BY <1>5, <2>2 DEF RecordUsage, table, passes
  <2>3. QED
    BY <1>1, <1>3, <1>8, <2>1, <2>2 DEF Request
<1>9. CASE Reconcile
  BY <1>5, <1>9 DEF Reconcile, ReconcileBegin, ReconcileRow, table
<1>10. CASE MonthEnds \/ StragglersEnd \/ UNCHANGED vars
  BY <1>5, <1>10 DEF MonthEnds, StragglersEnd, vars, table, passes
<1>11. QED
  BY <1>4, <1>6, <1>7, <1>8, <1>9, <1>10 DEF Next, Release, Sweep, SweepFails

(* What is open, or still to be given back, is part of what the sum is. *)
LEMMA HoldWithinSum ==
  ASSUME TypeOK, SumsExact, NEW h \in Holds
  PROVE  LET u == Actor[h]
         IN  /\ held[u] \in Nat /\ owed[u] \in Nat
             /\ status[h] = "open" => amount[h] <= held[u]
             /\ h \in sweeping => amount[h] <= owed[u]
<1> DEFINE u == Actor[h]
<1>1. u \in Users /\ amount[h] \in Nat
  BY ActorType DEF TypeOK
<1>2. \A S : IsFiniteSet(S) /\ (\A k \in S : amount[k] \in Nat) /\ h \in S =>
        amount[h] <= SumFunctionOnSet(amount, S)
  BY SumAtLeast
<1>3. held[u] = SumFunctionOnSet(amount, OpenHolds(u))
      /\ owed[u] = SumFunctionOnSet(amount, SweptHolds(u))
  BY <1>1 DEF SumsExact
<1>4. held[u] \in Nat /\ owed[u] \in Nat
  BY <1>1, <1>3, HoldRows, SumNat
<1>5. status[h] = "open" => h \in OpenHolds(u)
  BY DEF OpenHolds
<1>6. h \in sweeping => h \in SweptHolds(u)
  BY DEF SweptHolds
<1> HIDE DEF u
<1>7. QED
  BY <1>1, <1>2, <1>3, <1>4, <1>5, <1>6, HoldRows DEF u

LEMMA ExactNext ==
  TypeOK /\ AuditStarted /\ SumsExact /\ HoldsExact /\ [Next]_vars => HoldsExact'
<1> SUFFICES ASSUME TypeOK, AuditStarted, SumsExact, HoldsExact, [Next]_vars,
                    ~reconciled', crashes' = 0, NEW u \in Users
             PROVE  reserved'[u] = held'[u] + owed'[u]
  BY DEF HoldsExact
<1>u. reserved[u] \in Nat /\ held[u] \in Int /\ owed[u] \in Int
  BY DEF TypeOK
<1>a. ASSUME NEW h \in Holds PROVE amount[h] \in Nat /\ Actor[h] \in Users
  BY ActorType DEF TypeOK
<1>r. ~reconciled /\ crashes = 0 => reserved[u] = held[u] + owed[u]
  BY DEF HoldsExact
<1>0. ASSUME UNCHANGED <<reserved, held, owed, crashes, reconciled>>
      PROVE  reserved'[u] = held'[u] + owed'[u]
  BY <1>0, <1>r
<1>1. ASSUME NEW m \in Months, NEW h \in Holds, NEW a \in Amounts,
             ReserveCredits(h, a, m)
      PROVE  reserved'[u] = held'[u] + owed'[u]
  BY <1>1, <1>u, <1>a, <1>r, AmountType DEF ReserveCredits, bounds, TypeOK
<1>2. ASSUME NEW h \in Holds, StillOpen(h), UNCHANGED <<owed, crashes, reconciled>>,
             held' = [held EXCEPT ![Actor[h]] = @ - amount[h]],
             reserved' = [reserved EXCEPT ![Actor[h]] = Positive(@ - amount[h])]
      PROVE  reserved'[u] = held'[u] + owed'[u]
  <2>1. amount[h] <= held[Actor[h]] /\ held[Actor[h]] \in Nat /\ owed[Actor[h]] \in Nat
    BY <1>2, HoldWithinSum DEF StillOpen
  <2>2. CASE u = Actor[h]
    <3>1. reserved'[u] = Positive(reserved[u] - amount[h])
      BY <1>2, <2>2 DEF TypeOK
    <3>2. held'[u] + owed'[u] = held[u] + owed[u] - amount[h]
      BY <1>2, <1>u, <1>a, <2>2 DEF TypeOK
    <3>3. reserved[u] = held[u] + owed[u]
      BY <1>2, <1>r DEF TypeOK
    <3>4. QED
      BY <1>u, <1>a, <2>1, <2>2, <3>1, <3>2, <3>3 DEF Positive
  <2>3. CASE u # Actor[h]
    BY <1>2, <1>r, <2>3 DEF TypeOK
  <2>4. QED
    BY <2>2, <2>3
<1>3. CASE Request
  <2>1. ASSUME NEW m \in Months, NEW h \in Holds, NEW n \in 0..1, NEW c \in Costs \cup {0},
               SettleOpen(h, n, c, m)
        PROVE  reserved'[u] = held'[u] + owed'[u]
    BY <1>2, <2>1 DEF SettleOpen, bounds
  <2>2. ASSUME NEW m \in Months, NEW h \in Holds, NEW n \in 0..1, NEW c \in Costs \cup {0},
               SettleClosed(h, n, c, m)
        PROVE  reserved'[u] = held'[u] + owed'[u]
    BY <1>0, <2>2 DEF SettleClosed, table, bounds
  <2>3. ASSUME NEW m \in Months, NEW v \in Users, NEW c \in Costs, RecordUsage(v, c, m)
        PROVE  reserved'[u] = held'[u] + owed'[u]
    BY <1>0, <2>3 DEF RecordUsage, table, bounds
  <2>4. QED
    BY <1>1, <1>3, <2>1, <2>2, <2>3 DEF Request
<1>4. ASSUME NEW h \in Holds, ReleaseCredits(h) PROVE reserved'[u] = held'[u] + owed'[u]
  BY <1>2, <1>4 DEF ReleaseCredits, bounds
<1>5. ASSUME NEW h \in Holds, SweepRelease(h) PROVE reserved'[u] = held'[u] + owed'[u]
  BY <1>5, <1>u, <1>a, <1>r DEF SweepRelease, bounds, counters, TypeOK
<1>6. ASSUME NEW h \in Holds, SweepCredit(h) PROVE reserved'[u] = held'[u] + owed'[u]
  <2>1. amount[h] <= owed[Actor[h]] /\ held[Actor[h]] \in Nat /\ owed[Actor[h]] \in Nat
    BY <1>6, HoldWithinSum DEF SweepCredit
  <2>2. CASE u = Actor[h]
    <3>1. reserved'[u] = Positive(reserved[u] - amount[h])
      BY <1>6, <2>2 DEF SweepCredit, bounds, table, TypeOK
    <3>2. held'[u] + owed'[u] = held[u] + owed[u] - amount[h]
      BY <1>6, <1>u, <1>a, <2>2 DEF SweepCredit, bounds, table, TypeOK
    <3>3. reserved[u] = held[u] + owed[u]
      BY <1>6, <1>r DEF SweepCredit, bounds, table, TypeOK
    <3>4. QED
      BY <1>u, <1>a, <2>1, <2>2, <3>1, <3>2, <3>3 DEF Positive
  <2>3. CASE u # Actor[h]
    BY <1>6, <1>r, <2>3 DEF SweepCredit, bounds, table, TypeOK
  <2>4. QED
    BY <2>2, <2>3
<1>7. ASSUME NEW h \in Holds, SweepDies(h) PROVE FALSE
  BY <1>7 DEF SweepDies, TypeOK
<1>8. ASSUME NEW m \in Months, ReconcileBegin(m) PROVE FALSE
  BY <1>8 DEF ReconcileBegin
<1>9. ASSUME NEW v \in Users, ReconcileRow(v) PROVE FALSE
  BY <1>9 DEF ReconcileRow, bounds, AuditStarted
<1>10. CASE MonthEnds \/ StragglersEnd \/ UNCHANGED vars
  BY <1>0, <1>10 DEF MonthEnds, StragglersEnd, vars, counters, table, bounds
<1>11. QED
  BY <1>3, <1>4, <1>5, <1>6, <1>7, <1>8, <1>9, <1>10
  DEF Next, Release, Sweep, SweepFails, Reconcile

(* The aggregates are the sums over the rows, and while no sweep has died   *)
(* and no reconcile has run the counter holds back exactly those: no        *)
(* decrement meets the clamp at zero, which would swallow part of a hold.   *)
THEOREM HoldsAddUp == Spec => []HoldsOfRows
<1>1. Init => AuditStarted /\ SweptReleased /\ SumsExact /\ HoldsExact
  <2>1. SUFFICES ASSUME Init PROVE AuditStarted /\ SweptReleased /\ SumsExact /\ HoldsExact
    OBVIOUS
  <2>2. \A u \in Users : OpenHolds(u) = {} /\ SweptHolds(u) = {}
    BY <2>1 DEF Init, OpenHolds, SweptHolds
  <2>3. SumsExact
    BY <2>1, <2>2, SumEmpty DEF Init, SumsExact
  <2>4. QED
    BY <2>1, <2>3 DEF Init, AuditStarted, NoAudit, SweptReleased, HoldsExact
<1>2. TypeOK /\ AuditStarted /\ SweptReleased /\ SumsExact /\ HoldsExact /\ [Next]_vars
        => (AuditStarted /\ SweptReleased /\ SumsExact /\ HoldsExact)'
  BY AuditStartedNext, SweptNext, SumsNext, ExactNext
<1>3. SumsExact /\ HoldsExact => HoldsOfRows
  BY DEF HoldsOfRows
<1>4. QED
  BY <1>1, <1>2, <1>3, TypeCorrect, PTL DEF Spec
=============================================================================

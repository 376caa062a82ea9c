------------------------- MODULE StorageQuotaProofs -------------------------
(***************************************************************************)
(* Proofs about StorageQuota for any users, workspaces, ids, sizes, plan   *)
(* limits and bounds.                                                      *)
(***************************************************************************)
EXTENDS StorageQuota, SumTheorems

LEMMA ItemType ==
  ASSUME TypeOK, NEW r \in Items
  PROVE  /\ Home[r] \in Workspaces /\ Payer(r) \in Users
         /\ size[r] \in Nat /\ asked[r] \in Users
  BY HomeAssumption DEF TypeOK, Payer

LEMMA UploadIsItem == Uploads \subseteq Items /\ Sources \subseteq Uploads
                        /\ Assets \subseteq Uploads /\ Notes \subseteq Items
  BY DEF Uploads, Items

LEMMA SizeType == ASSUME NEW n \in Sizes PROVE n \in Nat
  BY SizesAssumption

LEMMA PositiveFacts ==
  ASSUME NEW x \in Int
  PROVE  Positive(x) \in Nat /\ Positive(x) >= x
  BY DEF Positive

(* A counter after a trigger adjusted it: at least what it should be. *)
LEMMA AdjustFacts ==
  ASSUME NEW f \in [Users -> Nat], NEW u \in Users, NEW n \in Int
  PROVE  /\ Adjust(f, u, n) \in [Users -> Nat]
         /\ Adjust(f, u, n)[u] >= f[u] + n
         /\ \A v \in Users : v # u => Adjust(f, u, n)[v] = f[v]
<1>1. Positive(f[u] + n) \in Nat /\ Positive(f[u] + n) >= f[u] + n
  BY PositiveFacts
<1>2. QED
  BY <1>1 DEF Adjust

(* What posting a row, moving and dropping a workspace do to the totals. *)
LEMMA PostFacts ==
  ASSUME TypeOK, NEW f \in Totals, NEW r \in Items, NEW n \in Int
  PROVE  /\ Post(f, r, n) \in Totals
         /\ Post(f, r, n)[Payer(r)] = f[Payer(r)] + n
         /\ \A v \in Users : v # Payer(r) => Post(f, r, n)[v] = f[v]
<1>1. Home[r] \in Workspaces /\ Payer(r) \in Users
  BY ItemType
<1>2. \A v \in Users : v # Home[r]
  BY <1>1, IdsAssumption
<1>3. f \in [Users \cup Workspaces -> Int] /\ \A w \in Workspaces : f[w] >= 0
  BY DEF Totals
<1>4. Positive(f[Home[r]] + n) \in Nat
  BY <1>1, <1>3, PositiveFacts
<1>5. Post(f, r, n) = [f EXCEPT ![Home[r]] = Positive(f[Home[r]] + n),
                                ![Payer(r)] = f[Payer(r)] + n]
  BY <1>1, <1>2, <1>3 DEF Post
<1>6. Post(f, r, n) \in [Users \cup Workspaces -> Int]
  BY <1>1, <1>3, <1>4, <1>5
<1>7. \A w \in Workspaces : Post(f, r, n)[w] >= 0
  BY <1>1, <1>3, <1>4, <1>5, IdsAssumption
<1>8. QED
  BY <1>1, <1>2, <1>3, <1>5, <1>6, <1>7 DEF Totals

LEMMA MoveFacts ==
  ASSUME TypeOK, NEW f \in Totals, NEW w \in Workspaces, NEW to \in Users,
         to # owner[w]
  PROVE  /\ Move(f, w, to) \in Totals
         /\ Move(f, w, to)[owner[w]] = f[owner[w]] - f[w]
         /\ Move(f, w, to)[to] = f[to] + f[w]
         /\ \A v \in Users \ {to, owner[w]} : Move(f, w, to)[v] = f[v]
<1>1. owner[w] \in Users
  BY DEF TypeOK
<1>2. owner[w] \notin Workspaces /\ to \notin Workspaces
  BY <1>1, IdsAssumption
<1>3. QED
  BY <1>1, <1>2 DEF Move, Totals

LEMMA DropFacts ==
  ASSUME TypeOK, NEW f \in Totals, NEW w \in Workspaces
  PROVE  /\ Drop(f, w) \in Totals
         /\ Drop(f, w)[owner[w]] = f[owner[w]] - f[w]
         /\ \A v \in Users : v # owner[w] => Drop(f, w)[v] = f[v]
<1>1. owner[w] \in Users /\ \A v \in Users : v \notin Workspaces
  BY IdsAssumption DEF TypeOK
<1>2. f \in [Users \cup Workspaces -> Int] /\ \A x \in Workspaces : f[x] >= 0
  BY DEF Totals
<1>3. Drop(f, w) \in [Users \cup Workspaces -> Int]
  BY <1>1, <1>2 DEF Drop
<1>4. \A x \in Workspaces : Drop(f, w)[x] >= 0
  BY <1>1, <1>2 DEF Drop
<1>5. QED
  BY <1>1, <1>2, <1>3, <1>4 DEF Drop, Totals

LEMMA TotalType ==
  ASSUME NEW f \in Totals
  PROVE  /\ \A u \in Users : f[u] \in Int
         /\ \A w \in Workspaces : f[w] \in Nat
  BY DEF Totals

LEMMA BecomesType ==
  ASSUME TypeOK, NEW r \in Items, NEW s \in Statuses, Becomes(r, s)
  PROVE  status' \in [Items -> Statuses]
  BY DEF TypeOK, Becomes

LEMMA GatedType ==
  ASSUME TypeOK, NEW r \in Items, NotesWhoWasGated(r)
  PROVE  ungated' \subseteq Users
  BY ItemType DEF TypeOK, NotesWhoWasGated

-----------------------------------------------------------------------------
LEMMA InitType == Init => TypeOK
<1> SUFFICES ASSUME Init PROVE TypeOK
  OBVIOUS
<1>1. asked \in [Items -> Users]
  BY HomeAssumption, OwnerAssumption DEF Init, StartsWithout
<1>2. owner \in [Workspaces -> Users] /\ live \subseteq Workspaces
  BY OwnerAssumption DEF Init, StartsWithout
<1>3. /\ used \in [Users -> Nat] /\ reserved \in [Users -> Nat]
      /\ deltas \in [Users -> Int] /\ grown \in [Users -> Nat]
  BY DEF Init, StartsWithout
<1>4. status \in [Items -> Statuses] /\ size \in [Items -> Nat]
  BY DEF Init, StartsWithout, Statuses
<1>5. solid \in Totals /\ notes \in Totals /\ open \in Totals /\ lapsed \in Totals
  BY DEF Init, StartsWithout, Totals
<1>6. transfers \in 0..MaxTransfers /\ edits \in 0..MaxEdits
  BY BoundsAssumption DEF Init, StartsWithout
<1>7. QED
  BY <1>1, <1>2, <1>3, <1>4, <1>5, <1>6 DEF Init, StartsWithout, TypeOK

LEMMA NextType == TypeOK /\ [Next]_vars => TypeOK'
<1> SUFFICES ASSUME TypeOK, [Next]_vars PROVE TypeOK'
  OBVIOUS
<1> USE UploadIsItem
<1>1. ASSUME NEW r \in Items, NEW n \in Sizes, Ask(r, n) PROVE TypeOK'
  <2>1. status' \in [Items -> Statuses]
    BY <1>1, BecomesType DEF Ask, Statuses
  <2>2. size' \in [Items -> Nat] /\ asked' \in [Items -> Users]
    BY <1>1, SizeType, ItemType DEF Ask, TypeOK
  <2>3. QED
    BY <1>1, <2>1, <2>2 DEF Ask, TypeOK, counters, sums, bounds, faults
<1>2. ASSUME NEW r \in Items, Reserve(r) PROVE TypeOK'
  <2>1. status' \in [Items -> Statuses]
    BY <1>2, BecomesType DEF Reserve, Statuses
  <2>2. reserved' \in [Users -> Nat] /\ open' \in Totals
    <3>1. asked[r] \in Users /\ size[r] \in Nat /\ size[r] \in Int
      BY ItemType
    <3>2. reserved' \in [Users -> Nat]
      BY <1>2, <3>1 DEF Reserve, TypeOK
    <3>3. open \in Totals
      BY DEF TypeOK
    <3>4. open' \in Totals
      BY <1>2, <3>1, <3>3, PostFacts DEF Reserve
    <3>5. QED
      BY <3>2, <3>4
  <2>3. slipped' \subseteq Users /\ leaked' \subseteq Users /\ ungated' \subseteq Users
    BY <1>2, ItemType, GatedType DEF Reserve, TypeOK
  <2>4. QED
    BY <1>2, <2>1, <2>2, <2>3 DEF Reserve, TypeOK, bounds
<1>3. ASSUME NEW r \in Items, AddSource(r) PROVE TypeOK'
  <2>1. status' \in [Items -> Statuses]
    BY <1>3, BecomesType DEF AddSource, Statuses
  <2>2. used' \in [Users -> Nat] /\ solid' \in Totals /\ ungated' \subseteq Users
    <3>1. Payer(r) \in Users /\ size[r] \in Int
      BY ItemType
    <3>2. used \in [Users -> Nat] /\ solid \in Totals
      BY DEF TypeOK
    <3>3. used' \in [Users -> Nat]
      BY <1>3, <3>1, <3>2, AdjustFacts DEF AddSource
    <3>4. solid' \in Totals
      BY <1>3, <3>1, <3>2, PostFacts DEF AddSource
    <3>5. ungated' \subseteq Users
      BY <1>3, GatedType DEF AddSource
    <3>6. QED
      BY <3>3, <3>4, <3>5
  <2>3. QED
    BY <1>3, <2>1, <2>2 DEF AddSource, TypeOK, bounds
<1>4. ASSUME NEW r \in Items, CreateMaterial(r) PROVE TypeOK'
  <2>1. status' \in [Items -> Statuses]
    BY <1>4, BecomesType DEF CreateMaterial, Statuses
  <2>2. used' \in [Users -> Nat] /\ notes' \in Totals /\ ungated' \subseteq Users
    <3>1. Payer(r) \in Users /\ size[r] \in Int
      BY ItemType
    <3>2. used \in [Users -> Nat] /\ notes \in Totals
      BY DEF TypeOK
    <3>3. used' \in [Users -> Nat]
      BY <1>4, <3>1, <3>2, AdjustFacts DEF CreateMaterial
    <3>4. notes' \in Totals
      BY <1>4, <3>1, <3>2, PostFacts DEF CreateMaterial
    <3>5. ungated' \subseteq Users
      BY <1>4, GatedType DEF CreateMaterial
    <3>6. QED
      BY <3>3, <3>4, <3>5
  <2>3. QED
    BY <1>4, <2>1, <2>2 DEF CreateMaterial, TypeOK, bounds
<1>5. ASSUME NEW r \in Uploads, Deadline(r) PROVE TypeOK'
  <2>1. status' \in [Items -> Statuses]
    BY <1>5, BecomesType DEF Deadline, Statuses
  <2>2. lapsed' \in Totals
    BY <1>5, ItemType, PostFacts DEF Deadline, TypeOK
  <2>3. QED
    BY <1>5, <2>1, <2>2 DEF Deadline, TypeOK, counters, bounds, faults
<1>6. ASSUME NEW r \in Uploads, Finalize(r) PROVE TypeOK'
  <2>1. status' \in [Items -> Statuses]
    BY <1>6, BecomesType DEF Finalize, Statuses
  <2>2. size[r] \in Int /\ -size[r] \in Int
    BY ItemType
  <2>3. used' \in [Users -> Nat] /\ reserved' \in [Users -> Nat]
    BY <1>6, <2>2, ItemType, AdjustFacts DEF Finalize, TypeOK
  <2>4. solid' \in Totals /\ open' \in Totals
    BY <1>6, <2>2, PostFacts DEF Finalize, TypeOK
  <2>5. QED
    BY <1>6, <2>1, <2>3, <2>4 DEF Finalize, TypeOK, bounds, faults
<1>7. ASSUME NEW r \in Uploads, Expire(r) PROVE TypeOK'
  <2>1. status' \in [Items -> Statuses]
    BY <1>7, BecomesType DEF Expire, Statuses
  <2>2. -size[r] \in Int
    BY ItemType
  <2>3. reserved' \in [Users -> Nat]
    BY <1>7, <2>2, ItemType, AdjustFacts DEF Expire, TypeOK
  <2>4. open' \in Totals /\ lapsed' \in Totals
    BY <1>7, <2>2, PostFacts DEF Expire, TypeOK
  <2>5. QED
    BY <1>7, <2>1, <2>3, <2>4 DEF Expire, TypeOK, bounds, faults
<1>8. ASSUME NEW r \in Items, DeleteFile(r) PROVE TypeOK'
  <2>1. status' \in [Items -> Statuses]
    BY <1>8, BecomesType DEF DeleteFile, Statuses
  <2>2. -size[r] \in Int
    BY ItemType
  <2>3. used' \in [Users -> Nat] /\ solid' \in Totals
    BY <1>8, <2>2, ItemType, AdjustFacts, PostFacts DEF DeleteFile, TypeOK
  <2>4. QED
    BY <1>8, <2>1, <2>3 DEF DeleteFile, TypeOK, bounds, faults
<1>9. ASSUME NEW r \in Items, DeleteMaterial(r) PROVE TypeOK'
  <2>1. status' \in [Items -> Statuses]
    BY <1>9, BecomesType DEF DeleteMaterial, Statuses
  <2>2. -size[r] \in Int /\ size[r] \in Int /\ Payer(r) \in Users
    BY ItemType
  <2>3. deltas' \in [Users -> Int] /\ notes' \in Totals
    <3>1. notes \in Totals
      BY DEF TypeOK
    <3>2. notes' \in Totals
      BY <1>9, <2>2, <3>1, PostFacts DEF DeleteMaterial
    <3>3. deltas' \in [Users -> Int]
      BY <1>9, <2>2 DEF DeleteMaterial, TypeOK
    <3>4. QED
      BY <3>2, <3>3
  <2>4. QED
    BY <1>9, <2>1, <2>3 DEF DeleteMaterial, TypeOK, bounds, faults
<1>10. ASSUME NEW r \in Items, NEW n \in Sizes, EditMaterial(r, n) PROVE TypeOK'
  <2>1. n \in Nat /\ size[r] \in Nat /\ Payer(r) \in Users /\ n - size[r] \in Int
    BY SizeType, ItemType
  <2>2. deltas' \in [Users -> Int] /\ notes' \in Totals /\ size' \in [Items -> Nat]
    <3>1. notes \in Totals
      BY DEF TypeOK
    <3>2. notes' \in Totals
      BY <1>10, <2>1, <3>1, PostFacts DEF EditMaterial
    <3>3. deltas' \in [Users -> Int]
      BY <1>10, <2>1 DEF EditMaterial, TypeOK
    <3>4. size' \in [Items -> Nat]
      BY <1>10, <2>1 DEF EditMaterial, TypeOK
    <3>5. QED
      BY <3>2, <3>3, <3>4
  <2>3. grown' \in [Users -> Nat]
    BY <1>10, <2>1, PositiveFacts DEF EditMaterial, TypeOK
  <2>4. edits' \in 0..MaxEdits
    BY <1>10, BoundsAssumption DEF EditMaterial, TypeOK
  <2>5. QED
    BY <1>10, <2>2, <2>3, <2>4 DEF EditMaterial, TypeOK, faults
<1>11. ASSUME NEW w \in Workspaces, DeleteWorkspace(w) PROVE TypeOK'
  <2>1. status' \in [Items -> Statuses]
    BY <1>11 DEF DeleteWorkspace, TypeOK, Statuses
  <2>2. owner[w] \in Users /\ -solid[w] \in Int /\ -open[w] \in Int /\ notes[w] \in Int
    BY TotalType DEF TypeOK
  <2>3. used' \in [Users -> Nat] /\ reserved' \in [Users -> Nat]
    BY <1>11, <2>2, AdjustFacts DEF DeleteWorkspace, TypeOK
  <2>4. deltas' \in [Users -> Int]
    BY <1>11, <2>2 DEF DeleteWorkspace, TypeOK
  <2>5. solid' \in Totals /\ notes' \in Totals /\ open' \in Totals /\ lapsed' \in Totals
    BY <1>11, DropFacts DEF DeleteWorkspace, TypeOK
  <2>6. QED
    BY <1>11, <2>1, <2>3, <2>4, <2>5 DEF DeleteWorkspace, TypeOK, bounds, faults
<1>12. ASSUME NEW w \in Workspaces, NEW to \in Users, Transfer(w, to) PROVE TypeOK'
  <2>1. /\ owner[w] \in Users /\ notes[w] \in Int
        /\ -solid[w] \in Int /\ solid[w] \in Int /\ -open[w] \in Int /\ open[w] \in Int
    BY TotalType DEF TypeOK
  <2>2. used' \in [Users -> Nat] /\ reserved' \in [Users -> Nat]
    BY <1>12, <2>1, AdjustFacts DEF Transfer, TypeOK
  <2>3. deltas' \in [Users -> Int] /\ owner' \in [Workspaces -> Users]
    BY <1>12, <2>1 DEF Transfer, TypeOK
  <2>4. solid' \in Totals /\ notes' \in Totals /\ open' \in Totals /\ lapsed' \in Totals
    BY <1>12, MoveFacts DEF Transfer, TypeOK
  <2>5. transfers' \in 0..MaxTransfers /\ ungated' \subseteq Users
    BY <1>12, BoundsAssumption DEF Transfer, TypeOK
  <2>6. QED
    BY <1>12, <2>2, <2>3, <2>4, <2>5 DEF Transfer, TypeOK, rows
<1>13. ASSUME NEW u \in Users, Reconcile(u) PROVE TypeOK'
  <2>1. Charged(u) \in Int /\ open[u] - lapsed[u] \in Int
    BY TotalType DEF TypeOK, Charged
  <2>2. Positive(Charged(u)) \in Nat /\ Positive(open[u] - lapsed[u]) \in Nat
    BY <2>1, PositiveFacts
  <2>3. used' \in [Users -> Nat] /\ reserved' \in [Users -> Nat]
        /\ deltas' \in [Users -> Int]
    BY <1>13, <2>2 DEF Reconcile, TypeOK
  <2>4. slipped' \subseteq Users /\ leaked' \subseteq Users /\ ungated' \subseteq Users
    BY <1>13 DEF Reconcile, TypeOK
  <2>5. QED
    BY <1>13, <2>3, <2>4 DEF Reconcile, TypeOK, rows, sums, bounds
<1>14. CASE UNCHANGED vars
  BY <1>14 DEF TypeOK, vars, counters, rows, sums, bounds, faults
<1>15. QED
  BY <1>1, <1>2, <1>3, <1>4, <1>5, <1>6, <1>7, <1>8, <1>9, <1>10, <1>11, <1>12,
     <1>13, <1>14 DEF Next, Create, Upload, Change

(* Every variable keeps its type: no counter becomes negative. *)
THEOREM TypeCorrect == Spec => []TypeOK
  BY InitType, NextType, PTL DEF Spec

-----------------------------------------------------------------------------
(* The numbers the proofs below compare. *)
LEMMA NumberType ==
  ASSUME TypeOK, NEW v \in Users
  PROVE  /\ used[v] \in Nat /\ reserved[v] \in Nat /\ deltas[v] \in Int
         /\ solid[v] \in Int /\ notes[v] \in Int /\ open[v] \in Int
  BY DEF TypeOK, Totals

(* An action that posts n bytes to the payer's counter and to the files. *)
LEMMA PostedToCounter ==
  ASSUME TypeOK, NEW r \in Items, NEW n \in Int, NEW f \in Totals,
         NEW v \in Users
  PROVE  Adjust(used, Payer(r), n)[v] - used[v] >= Post(f, r, n)[v] - f[v]
<1>1. used \in [Users -> Nat] /\ Payer(r) \in Users
  BY ItemType DEF TypeOK
<1>2. used[v] \in Nat /\ f[v] \in Int
  BY NumberType, TotalType
<1>3. CASE v = Payer(r)
  <2>1. Adjust(used, Payer(r), n)[v] >= used[v] + n
    BY <1>1, <1>3, AdjustFacts
  <2>2. Post(f, r, n)[v] = f[v] + n
    BY <1>3, PostFacts
  <2>3. Adjust(used, Payer(r), n)[v] \in Nat
    BY <1>1, AdjustFacts
  <2>4. QED
    BY <1>2, <2>1, <2>2, <2>3
<1>4. CASE v # Payer(r)
  <2>1. Adjust(used, Payer(r), n)[v] = used[v]
    BY <1>1, <1>4, AdjustFacts
  <2>2. Post(f, r, n)[v] = f[v]
    BY <1>4, PostFacts
  <2>3. QED
    BY <1>2, <2>1, <2>2
<1>5. QED
  BY <1>3, <1>4

(* The same for the counter of reservations and the pending sessions. *)
LEMMA ReservationAdjusted ==
  ASSUME TypeOK, NEW r \in Items, NEW n \in Int, NEW v \in Users
  PROVE  Adjust(reserved, Payer(r), n)[v] - reserved[v]
           >= Post(open, r, n)[v] - open[v]
<1>1. reserved \in [Users -> Nat] /\ Payer(r) \in Users /\ open \in Totals
  BY ItemType DEF TypeOK
<1>2. reserved[v] \in Nat /\ open[v] \in Int
  BY NumberType
<1>3. CASE v = Payer(r)
  <2>1. Adjust(reserved, Payer(r), n)[v] >= reserved[v] + n
    BY <1>1, <1>3, AdjustFacts
  <2>2. Post(open, r, n)[v] = open[v] + n
    BY <1>1, <1>3, PostFacts
  <2>3. Adjust(reserved, Payer(r), n)[v] \in Nat
    BY <1>1, AdjustFacts
  <2>4. QED
    BY <1>2, <2>1, <2>2, <2>3
<1>4. CASE v # Payer(r)
  <2>1. Adjust(reserved, Payer(r), n)[v] = reserved[v]
    BY <1>1, <1>4, AdjustFacts
  <2>2. Post(open, r, n)[v] = open[v]
    BY <1>1, <1>4, PostFacts
  <2>3. QED
    BY <1>2, <2>1, <2>2
<1>5. QED
  BY <1>3, <1>4

(* A workspace that leaves takes from the counter at most what it takes    *)
(* from the totals.                                                        *)
LEMMA DroppedFromCounter ==
  ASSUME TypeOK, NEW c \in [Users -> Nat], NEW f \in Totals,
         NEW w \in Workspaces, NEW v \in Users
  PROVE  Adjust(c, owner[w], -f[w])[v] - c[v] >= Drop(f, w)[v] - f[v]
<1>1. owner[w] \in Users /\ f[w] \in Int /\ -f[w] \in Int
  BY TotalType DEF TypeOK
<1>2. c[v] \in Nat /\ f[v] \in Int /\ Adjust(c, owner[w], -f[w])[v] \in Nat
  <2>1. c[v] \in Nat /\ f[v] \in Int
    BY TotalType
  <2>2. Adjust(c, owner[w], -f[w]) \in [Users -> Nat]
    BY <1>1, AdjustFacts
  <2>3. QED
    BY <2>1, <2>2
<1>3. CASE v = owner[w]
  <2>1. Adjust(c, owner[w], -f[w])[v] >= c[v] + (-f[w])
    BY <1>1, <1>3, AdjustFacts
  <2>2. Drop(f, w)[v] = f[v] - f[w]
    BY <1>3, DropFacts
  <2>3. QED
    BY <1>1, <1>2, <2>1, <2>2
<1>4. CASE v # owner[w]
  <2>1. Adjust(c, owner[w], -f[w])[v] = c[v]
    BY <1>1, <1>4, AdjustFacts
  <2>2. Drop(f, w)[v] = f[v]
    BY <1>4, DropFacts
  <2>3. QED
    BY <1>2, <2>1, <2>2
<1>5. QED
  BY <1>3, <1>4

LEMMA MovedBetweenCounters ==
  ASSUME TypeOK, NEW c \in [Users -> Nat], NEW f \in Totals,
         NEW w \in Workspaces, NEW to \in Users, to # owner[w], NEW v \in Users
  PROVE  Adjust(Adjust(c, owner[w], -f[w]), to, f[w])[v] - c[v]
           >= Move(f, w, to)[v] - f[v]
<1> DEFINE g == Adjust(c, owner[w], -f[w])
           h == Adjust(g, to, f[w])
<1>1. owner[w] \in Users /\ f[w] \in Int /\ -f[w] \in Int
  BY TotalType DEF TypeOK
<1>2. g \in [Users -> Nat]
  BY <1>1, AdjustFacts
<1>3. g[owner[w]] >= c[owner[w]] + (-f[w])
  BY <1>1, AdjustFacts
<1>4. \A x \in Users : x # owner[w] => g[x] = c[x]
  BY <1>1, AdjustFacts
<1> HIDE DEF g
<1>5. h \in [Users -> Nat]
  BY <1>1, <1>2, AdjustFacts
<1>6. h[to] >= g[to] + f[w]
  BY <1>1, <1>2, AdjustFacts
<1>7. \A x \in Users : x # to => h[x] = g[x]
  BY <1>1, <1>2, AdjustFacts
<1> HIDE DEF h
<1>8. c[v] \in Nat /\ g[v] \in Nat /\ h[v] \in Nat /\ f[v] \in Int
  BY <1>2, <1>5, TotalType
<1>9. CASE v = to
  <2>1. Move(f, w, to)[v] = f[v] + f[w]
    BY <1>9, MoveFacts
  <2>2. QED
    BY <1>1, <1>4, <1>6, <1>8, <1>9, <2>1 DEF h, g
<1>10. CASE v = owner[w]
  <2>1. Move(f, w, to)[v] = f[v] - f[w]
    BY <1>10, MoveFacts
  <2>2. h[v] = g[v]
    BY <1>7, <1>10
  <2>3. QED
    BY <1>1, <1>3, <1>8, <1>10, <2>1, <2>2 DEF h, g
<1>11. CASE v # to /\ v # owner[w]
  <2>1. Move(f, w, to)[v] = f[v]
    BY <1>11, MoveFacts
  <2>2. h[v] = c[v]
    BY <1>4, <1>7, <1>11
  <2>3. QED
    BY <1>8, <2>1, <2>2 DEF h, g
<1>12. QED
  BY <1>9, <1>10, <1>11

-----------------------------------------------------------------------------
(* What the next state must satisfy, and what an edit does to the materials. *)
StaysCovered(v) == used'[v] + deltas'[v] >= solid'[v] + notes'[v]

EditsNotes(r, n) ==
  /\ notes' = Post(notes, r, n)
  /\ deltas' = [deltas EXCEPT ![Payer(r)] = @ + n]

LEMMA CoveredNext ==
  TypeOK /\ TypeOK' /\ BytesCovered /\ [Next]_vars => BytesCovered'
<1> SUFFICES ASSUME TypeOK, TypeOK', BytesCovered, [Next]_vars, NEW v \in Users
             PROVE  StaysCovered(v)
  BY DEF BytesCovered, Charged, StaysCovered
<1>0. /\ used[v] \in Nat /\ deltas[v] \in Int /\ solid[v] \in Int /\ notes[v] \in Int
      /\ used[v] + deltas[v] >= solid[v] + notes[v]
  BY NumberType DEF BytesCovered, Charged
<1>a. /\ used'[v] \in Nat /\ deltas'[v] \in Int
      /\ solid'[v] \in Int /\ notes'[v] \in Int
  BY DEF TypeOK, Totals
<1>1. ASSUME NEW r \in Items, NEW n \in Sizes, Ask(r, n) PROVE StaysCovered(v)
  BY <1>0, <1>1 DEF Ask, StaysCovered, counters, sums
<1>2. ASSUME NEW r \in Items, Reserve(r) PROVE StaysCovered(v)
  BY <1>0, <1>2 DEF Reserve, StaysCovered
<1>3. ASSUME NEW r \in Items, AddSource(r) PROVE StaysCovered(v)
  <2>1. solid \in Totals /\ size[r] \in Int /\ -size[r] \in Int /\ r \in Items
    BY ItemType, UploadIsItem DEF TypeOK
  <2>2. used'[v] - used[v] >= solid'[v] - solid[v]
    BY <1>3, <2>1, PostedToCounter DEF AddSource
  <2>3. used'[v] \in Nat /\ solid'[v] \in Int
    BY <1>a
  <2>4. deltas'[v] = deltas[v] /\ notes'[v] = notes[v]
    BY <1>3 DEF AddSource
  <2>5. QED
    BY <1>0, <2>2, <2>3, <2>4 DEF StaysCovered
<1>4. ASSUME NEW r \in Items, CreateMaterial(r) PROVE StaysCovered(v)
  <2>1. notes \in Totals /\ size[r] \in Int /\ -size[r] \in Int /\ r \in Items
    BY ItemType, UploadIsItem DEF TypeOK
  <2>2. used'[v] - used[v] >= notes'[v] - notes[v]
    BY <1>4, <2>1, PostedToCounter DEF CreateMaterial
  <2>3. used'[v] \in Nat /\ notes'[v] \in Int
    BY <1>a
  <2>4. deltas'[v] = deltas[v] /\ solid'[v] = solid[v]
    BY <1>4 DEF CreateMaterial
  <2>5. QED
    BY <1>0, <2>2, <2>3, <2>4 DEF StaysCovered
<1>5. ASSUME NEW r \in Uploads, Deadline(r) PROVE StaysCovered(v)
  BY <1>0, <1>5 DEF Deadline, StaysCovered, counters
<1>6. ASSUME NEW r \in Uploads, Finalize(r) PROVE StaysCovered(v)
  <2>1. solid \in Totals /\ size[r] \in Int /\ -size[r] \in Int /\ r \in Items
    BY ItemType, UploadIsItem DEF TypeOK
  <2>2. used'[v] - used[v] >= solid'[v] - solid[v]
    BY <1>6, <2>1, PostedToCounter DEF Finalize
  <2>3. used'[v] \in Nat /\ solid'[v] \in Int
    BY <1>a
  <2>4. deltas'[v] = deltas[v] /\ notes'[v] = notes[v]
    BY <1>6 DEF Finalize
  <2>5. QED
    BY <1>0, <2>2, <2>3, <2>4 DEF StaysCovered
<1>7. ASSUME NEW r \in Uploads, Expire(r) PROVE StaysCovered(v)
  BY <1>0, <1>7 DEF Expire, StaysCovered
<1>8. ASSUME NEW r \in Items, DeleteFile(r) PROVE StaysCovered(v)
  <2>1. solid \in Totals /\ size[r] \in Int /\ -size[r] \in Int /\ r \in Items
    BY ItemType, UploadIsItem DEF TypeOK
  <2>2. used'[v] - used[v] >= solid'[v] - solid[v]
    BY <1>8, <2>1, PostedToCounter DEF DeleteFile
  <2>3. used'[v] \in Nat /\ solid'[v] \in Int
    BY <1>a
  <2>4. deltas'[v] = deltas[v] /\ notes'[v] = notes[v]
    BY <1>8 DEF DeleteFile
  <2>5. QED
    BY <1>0, <2>2, <2>3, <2>4 DEF StaysCovered
<1>9. ASSUME NEW r \in Items, NEW n \in Int, EditsNotes(r, n),
             used' = used, solid' = solid
      PROVE  StaysCovered(v)
  <2>1. notes \in Totals /\ Payer(r) \in Users
    BY ItemType DEF TypeOK
  <2>2. CASE v = Payer(r)
    <3>1. notes'[v] = notes[v] + n
      BY <1>9, <2>1, <2>2, PostFacts DEF EditsNotes
    <3>2. deltas'[v] = deltas[v] + n
      BY <1>9, <2>2 DEF EditsNotes, TypeOK
    <3>3. QED
      BY <1>0, <1>9, <3>1, <3>2 DEF StaysCovered
  <2>3. CASE v # Payer(r)
    <3>1. notes'[v] = notes[v]
      BY <1>9, <2>1, <2>3, PostFacts DEF EditsNotes
    <3>2. deltas'[v] = deltas[v]
      BY <1>9, <2>3 DEF EditsNotes, TypeOK
    <3>3. QED
      BY <1>0, <1>9, <3>1, <3>2 DEF StaysCovered
  <2>4. QED
    BY <2>2, <2>3
<1>10. ASSUME NEW r \in Items, NEW n \in Sizes, EditMaterial(r, n) PROVE StaysCovered(v)
  <2>1. n - size[r] \in Int
    BY SizeType, ItemType
  <2>2. EditsNotes(r, n - size[r]) /\ used' = used /\ solid' = solid
    BY <1>10 DEF EditMaterial, EditsNotes
  <2>3. QED
    BY <1>9, <2>1, <2>2
<1>11. ASSUME NEW r \in Items, DeleteMaterial(r) PROVE StaysCovered(v)
  <2>1. -size[r] \in Int /\ size[r] \in Int /\ Payer(r) \in Users
    BY ItemType
  <2>2. deltas[Payer(r)] - size[r] = deltas[Payer(r)] + (-size[r])
    BY <2>1, NumberType
  <2>3. EditsNotes(r, -size[r]) /\ used' = used /\ solid' = solid
    BY <1>11, <2>2 DEF DeleteMaterial, EditsNotes
  <2>4. QED
    BY <1>9, <2>1, <2>3
<1>12. ASSUME NEW w \in Workspaces, DeleteWorkspace(w) PROVE StaysCovered(v)
  <2>1. used \in [Users -> Nat] /\ solid \in Totals /\ notes \in Totals
    BY DEF TypeOK
  <2>2. used'[v] - used[v] >= solid'[v] - solid[v]
    BY <1>12, <2>1, DroppedFromCounter DEF DeleteWorkspace
  <2>3. deltas'[v] - deltas[v] = notes'[v] - notes[v]
    <3>1. notes[w] \in Int /\ owner[w] \in Users
      BY <2>1, TotalType DEF TypeOK
    <3>2. CASE v = owner[w]
      <4>1. notes'[v] = notes[v] - notes[w]
        BY <1>12, <2>1, <3>2, DropFacts DEF DeleteWorkspace
      <4>2. deltas'[v] = deltas[v] - notes[w]
        BY <1>12, <3>2 DEF DeleteWorkspace, TypeOK
      <4>3. QED
        BY <1>0, <3>1, <4>1, <4>2
    <3>3. CASE v # owner[w]
      <4>1. notes'[v] = notes[v]
        BY <1>12, <2>1, <3>3, DropFacts DEF DeleteWorkspace
      <4>2. deltas'[v] = deltas[v]
        BY <1>12, <3>3 DEF DeleteWorkspace, TypeOK
      <4>3. QED
        BY <1>0, <4>1, <4>2
    <3>4. QED
      BY <3>2, <3>3
  <2>4. QED
    BY <1>0, <1>a, <2>2, <2>3 DEF StaysCovered
<1>13. ASSUME NEW w \in Workspaces, NEW to \in Users, Transfer(w, to) PROVE StaysCovered(v)
  <2>1. used \in [Users -> Nat] /\ solid \in Totals /\ notes \in Totals
        /\ to # owner[w]
    BY <1>13 DEF TypeOK, Transfer
  <2>2. used'[v] - used[v] >= solid'[v] - solid[v]
    BY <1>13, <2>1, MovedBetweenCounters DEF Transfer
  <2>3. deltas'[v] - deltas[v] = notes'[v] - notes[v]
    <3>1. notes[w] \in Int /\ owner[w] \in Users
      BY <2>1, TotalType DEF TypeOK
    <3>2. deltas' = [deltas EXCEPT ![owner[w]] = @ - notes[w], ![to] = @ + notes[w]]
          /\ notes' = Move(notes, w, to)
      BY <1>13 DEF Transfer
    <3>3. CASE v = owner[w]
      <4>1. notes'[v] = notes[v] - notes[w]
        BY <2>1, <3>2, <3>3, MoveFacts
      <4>2. deltas'[v] = deltas[v] - notes[w]
        BY <2>1, <3>2, <3>3 DEF TypeOK
      <4>3. QED
        BY <1>0, <3>1, <4>1, <4>2
    <3>4. CASE v = to
      <4>1. notes'[v] = notes[v] + notes[w]
        BY <2>1, <3>2, <3>4, MoveFacts
      <4>2. deltas'[v] = deltas[v] + notes[w]
        BY <2>1, <3>2, <3>4 DEF TypeOK
      <4>3. QED
        BY <1>0, <3>1, <4>1, <4>2
    <3>5. CASE v # owner[w] /\ v # to
      <4>1. notes'[v] = notes[v]
        BY <2>1, <3>2, <3>5, MoveFacts
      <4>2. deltas'[v] = deltas[v]
        BY <3>2, <3>5 DEF TypeOK
      <4>3. QED
        BY <1>0, <4>1, <4>2
    <3>6. QED
      BY <3>3, <3>4, <3>5
  <2>4. QED
    BY <1>0, <1>a, <2>2, <2>3 DEF StaysCovered
<1>14. ASSUME NEW u \in Users, Reconcile(u) PROVE StaysCovered(v)
  <2>1. solid' = solid /\ notes' = notes
    BY <1>14 DEF Reconcile, sums
  <2>2. CASE v = u
    <3>1. Charged(v) \in Int /\ Positive(Charged(v)) >= Charged(v)
      BY <1>0, PositiveFacts DEF Charged
    <3>2. used'[v] = Positive(Charged(v)) /\ deltas'[v] = 0
      BY <1>14, <2>2 DEF Reconcile, TypeOK
    <3>3. QED
      BY <1>0, <1>a, <2>1, <3>1, <3>2 DEF StaysCovered, Charged
  <2>3. CASE v # u
    <3>1. used'[v] = used[v] /\ deltas'[v] = deltas[v]
      BY <1>14, <2>3 DEF Reconcile, TypeOK
    <3>2. QED
      BY <1>0, <2>1, <3>1 DEF StaysCovered
  <2>4. QED
    BY <2>2, <2>3
<1>15. CASE UNCHANGED vars
  BY <1>0, <1>15 DEF StaysCovered, vars, counters, sums
<1>16. QED
  BY <1>1, <1>2, <1>3, <1>4, <1>5, <1>6, <1>7, <1>8, <1>10, <1>11, <1>12,
     <1>13, <1>14, <1>15 DEF Next, Create, Upload, Change

(* For any number of users, workspaces and rows: no interleaving of        *)
(* creations, edits, transfers and reconcile passes makes a user's counter *)
(* and deltas account for less than the content they are charged for.      *)
THEOREM CounterCoversContent == Spec => []BytesCovered
<1>1. Init => BytesCovered
  <2> SUFFICES ASSUME Init, NEW u \in Users PROVE used[u] + deltas[u] >= Charged(u)
    BY DEF BytesCovered
  <2>1. used[u] = 0 /\ deltas[u] = 0 /\ solid[u] = 0 /\ notes[u] = 0
    BY DEF Init, StartsWithout
  <2>2. QED
    BY <2>1 DEF Charged
<1>2. QED
  BY <1>1, CoveredNext, TypeCorrect, PTL DEF Spec

-----------------------------------------------------------------------------
StaysReserved(v) == v \in slipped' \/ reserved'[v] >= open'[v]

LEMMA ReservedNext ==
  TypeOK /\ TypeOK' /\ ReservationsCovered /\ [Next]_vars => ReservationsCovered'
<1> SUFFICES ASSUME TypeOK, TypeOK', ReservationsCovered, [Next]_vars,
                    NEW v \in Users
             PROVE  StaysReserved(v)
  BY DEF ReservationsCovered, StaysReserved
<1>0. /\ reserved[v] \in Nat /\ open[v] \in Int
      /\ v \in slipped \/ reserved[v] >= open[v]
  BY NumberType DEF ReservationsCovered
<1>a. reserved'[v] \in Nat /\ open'[v] \in Int
  BY DEF TypeOK, Totals
<1>1. ASSUME NEW r \in Items, NEW n \in Sizes, Ask(r, n) PROVE StaysReserved(v)
  BY <1>0, <1>1 DEF Ask, StaysReserved, counters, sums, faults
<1>2. ASSUME NEW r \in Items, Reserve(r) PROVE StaysReserved(v)
  <2>1. asked[r] \in Users /\ size[r] \in Nat /\ size[r] \in Int /\ open \in Totals
    BY ItemType DEF TypeOK
  <2>2. reserved' = [reserved EXCEPT ![asked[r]] = @ + size[r]]
        /\ open' = Post(open, r, size[r])
    BY <1>2 DEF Reserve
  <2>3. reserved'[v] >= reserved[v]
    BY <1>0, <2>1, <2>2 DEF TypeOK
  <2>4. CASE v # Payer(r)
    <3>1. open'[v] = open[v]
      BY <2>1, <2>2, <2>4, PostFacts
    <3>2. v \in slipped' \/ v \notin slipped
      BY <1>2, <2>4 DEF Reserve
    <3>3. QED
      BY <1>0, <1>a, <2>3, <3>1, <3>2 DEF StaysReserved
  <2>5. CASE v = Payer(r) /\ asked[r] # Payer(r)
    BY <1>2, <2>5 DEF Reserve, StaysReserved
  <2>6. CASE v = Payer(r) /\ asked[r] = Payer(r)
    <3>1. open'[v] = open[v] + size[r]
      BY <2>1, <2>2, <2>6, PostFacts
    <3>2. reserved'[v] = reserved[v] + size[r]
      BY <2>2, <2>6 DEF TypeOK
    <3>3. slipped' = slipped
      BY <1>2, <2>6 DEF Reserve
    <3>4. QED
      BY <1>0, <2>1, <3>1, <3>2, <3>3 DEF StaysReserved
  <2>7. QED
    BY <2>4, <2>5, <2>6
<1>3. ASSUME NEW r \in Items, AddSource(r) PROVE StaysReserved(v)
  BY <1>0, <1>3 DEF AddSource, StaysReserved
<1>4. ASSUME NEW r \in Items, CreateMaterial(r) PROVE StaysReserved(v)
  BY <1>0, <1>4 DEF CreateMaterial, StaysReserved
<1>5. ASSUME NEW r \in Uploads, Deadline(r) PROVE StaysReserved(v)
  BY <1>0, <1>5 DEF Deadline, StaysReserved, counters, faults
<1>6. ASSUME NEW r \in Uploads, Finalize(r) PROVE StaysReserved(v)
  <2>1. -size[r] \in Int /\ r \in Items
    BY ItemType, UploadIsItem
  <2>2. reserved'[v] - reserved[v] >= open'[v] - open[v]
    BY <1>6, <2>1, ReservationAdjusted DEF Finalize
  <2>3. slipped' = slipped
    BY <1>6 DEF Finalize, faults
  <2>4. QED
    BY <1>0, <1>a, <2>2, <2>3 DEF StaysReserved
<1>7. ASSUME NEW r \in Uploads, Expire(r) PROVE StaysReserved(v)
  <2>1. -size[r] \in Int /\ r \in Items
    BY ItemType, UploadIsItem
  <2>2. reserved'[v] - reserved[v] >= open'[v] - open[v]
    BY <1>7, <2>1, ReservationAdjusted DEF Expire
  <2>3. slipped' = slipped
    BY <1>7 DEF Expire, faults
  <2>4. QED
    BY <1>0, <1>a, <2>2, <2>3 DEF StaysReserved
<1>8. ASSUME NEW r \in Items, DeleteFile(r) PROVE StaysReserved(v)
  BY <1>0, <1>8 DEF DeleteFile, StaysReserved, faults
<1>9. ASSUME NEW r \in Items, DeleteMaterial(r) PROVE StaysReserved(v)
  BY <1>0, <1>9 DEF DeleteMaterial, StaysReserved, faults
<1>10. ASSUME NEW r \in Items, NEW n \in Sizes, EditMaterial(r, n) PROVE StaysReserved(v)
  BY <1>0, <1>10 DEF EditMaterial, StaysReserved, faults
<1>11. ASSUME NEW w \in Workspaces, DeleteWorkspace(w) PROVE StaysReserved(v)
  <2>1. reserved \in [Users -> Nat] /\ open \in Totals
    BY DEF TypeOK
  <2>2. reserved'[v] - reserved[v] >= open'[v] - open[v]
    BY <1>11, <2>1, DroppedFromCounter DEF DeleteWorkspace
  <2>3. slipped' = slipped
    BY <1>11 DEF DeleteWorkspace, faults
  <2>4. QED
    BY <1>0, <1>a, <2>2, <2>3 DEF StaysReserved
<1>12. ASSUME NEW w \in Workspaces, NEW to \in Users, Transfer(w, to)
       PROVE  StaysReserved(v)
  <2>1. reserved \in [Users -> Nat] /\ open \in Totals /\ to # owner[w]
    BY <1>12 DEF TypeOK, Transfer
  <2>2. reserved'[v] - reserved[v] >= open'[v] - open[v]
    BY <1>12, <2>1, MovedBetweenCounters DEF Transfer
  <2>3. slipped' = slipped
    BY <1>12 DEF Transfer
  <2>4. QED
    BY <1>0, <1>a, <2>2, <2>3 DEF StaysReserved
<1>13. ASSUME NEW u \in Users, Reconcile(u) PROVE StaysReserved(v)
  <2>1. open' = open
    BY <1>13 DEF Reconcile, sums
  <2>2. CASE v = u /\ lapsed[u] = 0
    <3>1. reserved'[v] = Positive(open[v])
      BY <1>0, <1>13, <2>2 DEF Reconcile, TypeOK
    <3>2. QED
      BY <1>0, <2>1, <3>1, PositiveFacts DEF StaysReserved
  <2>3. CASE v = u /\ lapsed[u] # 0
    BY <1>13, <2>3 DEF Reconcile, StaysReserved
  <2>4. CASE v # u
    <3>1. reserved'[v] = reserved[v]
      BY <1>13, <2>4 DEF Reconcile, TypeOK
    <3>2. v \in slipped' \/ v \notin slipped
      BY <1>13, <2>4 DEF Reconcile
    <3>3. QED
      BY <1>0, <2>1, <3>1, <3>2 DEF StaysReserved
  <2>5. QED
    BY <2>2, <2>3, <2>4
<1>14. CASE UNCHANGED vars
  BY <1>0, <1>14 DEF StaysReserved, vars, counters, sums, faults
<1>15. QED
  BY <1>1, <1>2, <1>3, <1>4, <1>5, <1>6, <1>7, <1>8, <1>9, <1>10, <1>11, <1>12,
     <1>13, <1>14 DEF Next, Create, Upload, Change

(* For any number of users, workspaces and rows: the reservation counter   *)
(* holds back every pending session of a user, except after one of the two *)
(* events that make it slip.                                               *)
THEOREM CounterCoversReservations == Spec => []ReservationsCovered
<1>1. Init => ReservationsCovered
  BY DEF Init, StartsWithout, ReservationsCovered
<1>2. QED
  BY <1>1, ReservedNext, TypeCorrect, PTL DEF Spec

-----------------------------------------------------------------------------
(* The quota.  Who is not ungated has not slipped, so the counters the     *)
(* gates read cover everything that user is charged for.                   *)
SlippedAreUngated == slipped \subseteq ungated

LEMMA SlippedNext ==
  TypeOK /\ SlippedAreUngated /\ [Next]_vars => SlippedAreUngated'
<1> SUFFICES ASSUME TypeOK, slipped \subseteq ungated, [Next]_vars
             PROVE  slipped' \subseteq ungated'
  BY DEF SlippedAreUngated
<1>1. ASSUME NEW r \in Items, NEW n \in Sizes, Ask(r, n)
      PROVE  slipped' \subseteq ungated'
  BY <1>1 DEF Ask, faults
<1>2. ASSUME NEW r \in Items, Reserve(r) PROVE slipped' \subseteq ungated'
  BY <1>2 DEF Reserve, NotesWhoWasGated
<1>3. ASSUME NEW r \in Items, AddSource(r) PROVE slipped' \subseteq ungated'
  BY <1>3 DEF AddSource, NotesWhoWasGated
<1>4. ASSUME NEW r \in Items, CreateMaterial(r) PROVE slipped' \subseteq ungated'
  BY <1>4 DEF CreateMaterial, NotesWhoWasGated
<1>5. ASSUME NEW r \in Uploads, Deadline(r) \/ Finalize(r) \/ Expire(r)
      PROVE  slipped' \subseteq ungated'
  BY <1>5 DEF Deadline, Finalize, Expire, faults
<1>6. ASSUME NEW r \in Items,
             DeleteFile(r) \/ DeleteMaterial(r) \/ \E n \in Sizes : EditMaterial(r, n)
      PROVE  slipped' \subseteq ungated'
  BY <1>6 DEF DeleteFile, DeleteMaterial, EditMaterial, faults
<1>7. ASSUME NEW w \in Workspaces, DeleteWorkspace(w) PROVE slipped' \subseteq ungated'
  BY <1>7 DEF DeleteWorkspace, faults
<1>8. ASSUME NEW w \in Workspaces, NEW to \in Users, Transfer(w, to)
      PROVE  slipped' \subseteq ungated'
  BY <1>8 DEF Transfer
<1>9. ASSUME NEW u \in Users, Reconcile(u) PROVE slipped' \subseteq ungated'
  BY <1>9 DEF Reconcile
<1>10. CASE UNCHANGED vars
  BY <1>10 DEF vars, faults
<1>11. QED
  BY <1>1, <1>2, <1>3, <1>4, <1>5, <1>6, <1>7, <1>8, <1>9, <1>10
     DEF Next, Create, Upload, Change

(* What a user is charged for and holds open, and what it may reach. *)
Load(v) == solid[v] + notes[v] + open[v]
WithinQuota(v) == v \in ungated \/ Load(v) <= Limit[v] + grown[v]

(* Whoever passes the gate, and is not ungated, has room for n more. *)
LEMMA GateFacts ==
  ASSUME TypeOK, BytesCovered, ReservationsCovered, SlippedAreUngated,
         NEW v \in Users \ ungated, NEW n \in Int, Fits(v, n)
  PROVE  Load(v) + n <= Limit[v]
<1>1. /\ used[v] \in Nat /\ reserved[v] \in Nat /\ deltas[v] \in Int
      /\ solid[v] \in Int /\ notes[v] \in Int /\ open[v] \in Int
  BY NumberType
<1>2. used[v] + deltas[v] >= solid[v] + notes[v]
  BY DEF BytesCovered, Charged
<1>3. reserved[v] >= open[v]
  BY DEF ReservationsCovered, SlippedAreUngated
<1>4. Limit[v] \in Nat
  BY LimitAssumption
<1>5. used[v] + deltas[v] + reserved[v] + n <= Limit[v]
  BY DEF Fits
<1>6. QED
  BY <1>1, <1>2, <1>3, <1>4, <1>5 DEF Load

LEMMA QuotaNext ==
  /\ TypeOK /\ TypeOK' /\ BytesCovered /\ ReservationsCovered
  /\ SlippedAreUngated /\ QuotaHolds /\ [Next]_vars
  => QuotaHolds'
<1> SUFFICES ASSUME TypeOK, TypeOK', BytesCovered, ReservationsCovered,
                    SlippedAreUngated, QuotaHolds, [Next]_vars, NEW v \in Users
             PROVE  WithinQuota(v)'
  BY DEF QuotaHolds, WithinQuota, Load, Charged
<1>0. /\ solid[v] \in Int /\ notes[v] \in Int /\ open[v] \in Int
      /\ Limit[v] \in Nat /\ grown[v] \in Nat
      /\ v \in ungated \/ solid[v] + notes[v] + open[v] <= Limit[v] + grown[v]
  BY NumberType, LimitAssumption DEF QuotaHolds, Charged, TypeOK
<1>a. /\ solid'[v] \in Int /\ notes'[v] \in Int /\ open'[v] \in Int
      /\ grown'[v] \in Nat
  BY DEF TypeOK, Totals
<1>b. solid \in Totals /\ notes \in Totals /\ open \in Totals
  BY DEF TypeOK
<1>1. ASSUME NEW r \in Items, NEW n \in Sizes, Ask(r, n) PROVE WithinQuota(v)'
  BY <1>0, <1>1 DEF Ask, WithinQuota, Load, sums, faults
<1>2. ASSUME NEW r \in Items, Reserve(r) PROVE WithinQuota(v)'
  <2>1. size[r] \in Nat /\ size[r] \in Int
    BY ItemType
  <2>2. open' = Post(open, r, size[r]) /\ solid' = solid /\ notes' = notes
        /\ grown' = grown /\ Fits(asked[r], size[r])
    BY <1>2 DEF Reserve
  <2>3. ungated \subseteq ungated' /\ (asked[r] # Payer(r) => Payer(r) \in ungated')
    BY <1>2 DEF Reserve, NotesWhoWasGated
  <2>4. CASE v # Payer(r)
    <3>1. open'[v] = open[v]
      BY <1>b, <2>1, <2>2, <2>4, PostFacts
    <3>2. QED
      BY <1>0, <2>2, <2>3, <3>1 DEF WithinQuota, Load
  <2>5. CASE v = Payer(r) /\ v \notin ungated'
    <3>1. open'[v] = open[v] + size[r]
      BY <1>b, <2>1, <2>2, <2>5, PostFacts
    <3>2. Fits(v, size[r]) /\ v \notin ungated
      BY <2>2, <2>3, <2>5
    <3>3. Load(v) + size[r] <= Limit[v]
      BY <2>1, <3>2, GateFacts
    <3>4. QED
      BY <1>0, <2>1, <2>2, <3>1, <3>3 DEF WithinQuota, Load
  <2>6. CASE v \in ungated'
    BY <2>6 DEF WithinQuota
  <2>7. QED
    BY <2>4, <2>5, <2>6
<1>3. ASSUME NEW r \in Items, AddSource(r) PROVE WithinQuota(v)'
  <2>1. size[r] \in Nat /\ size[r] \in Int
    BY ItemType
  <2>2. solid' = Post(solid, r, size[r]) /\ notes' = notes /\ open' = open
        /\ grown' = grown /\ Fits(asked[r], size[r])
    BY <1>3 DEF AddSource
  <2>3. ungated \subseteq ungated' /\ (asked[r] # Payer(r) => Payer(r) \in ungated')
    BY <1>3 DEF AddSource, NotesWhoWasGated
  <2>4. CASE v # Payer(r)
    <3>1. solid'[v] = solid[v]
      BY <1>b, <2>1, <2>2, <2>4, PostFacts
    <3>2. QED
      BY <1>0, <2>2, <2>3, <3>1 DEF WithinQuota, Load
  <2>5. CASE v = Payer(r) /\ v \notin ungated'
    <3>1. solid'[v] = solid[v] + size[r]
      BY <1>b, <2>1, <2>2, <2>5, PostFacts
    <3>2. Fits(v, size[r]) /\ v \notin ungated
      BY <2>2, <2>3, <2>5
    <3>3. Load(v) + size[r] <= Limit[v]
      BY <2>1, <3>2, GateFacts
    <3>4. QED
      BY <1>0, <2>1, <2>2, <3>1, <3>3 DEF WithinQuota, Load
  <2>6. CASE v \in ungated'
    BY <2>6 DEF WithinQuota
  <2>7. QED
    BY <2>4, <2>5, <2>6
<1>4. ASSUME NEW r \in Items, CreateMaterial(r) PROVE WithinQuota(v)'
  <2>1. size[r] \in Nat /\ size[r] \in Int
    BY ItemType
  <2>2. notes' = Post(notes, r, size[r]) /\ solid' = solid /\ open' = open
        /\ grown' = grown /\ Fits(asked[r], size[r])
    BY <1>4 DEF CreateMaterial
  <2>3. ungated \subseteq ungated' /\ (asked[r] # Payer(r) => Payer(r) \in ungated')
    BY <1>4 DEF CreateMaterial, NotesWhoWasGated
  <2>4. CASE v # Payer(r)
    <3>1. notes'[v] = notes[v]
      BY <1>b, <2>1, <2>2, <2>4, PostFacts
    <3>2. QED
      BY <1>0, <2>2, <2>3, <3>1 DEF WithinQuota, Load
  <2>5. CASE v = Payer(r) /\ v \notin ungated'
    <3>1. notes'[v] = notes[v] + size[r]
      BY <1>b, <2>1, <2>2, <2>5, PostFacts
    <3>2. Fits(v, size[r]) /\ v \notin ungated
      BY <2>2, <2>3, <2>5
    <3>3. Load(v) + size[r] <= Limit[v]
      BY <2>1, <3>2, GateFacts
    <3>4. QED
      BY <1>0, <2>1, <2>2, <3>1, <3>3 DEF WithinQuota, Load
  <2>6. CASE v \in ungated'
    BY <2>6 DEF WithinQuota
  <2>7. QED
    BY <2>4, <2>5, <2>6
<1>5. ASSUME NEW r \in Uploads, Deadline(r) PROVE WithinQuota(v)'
  BY <1>0, <1>5 DEF Deadline, WithinQuota, Load, faults
<1>6. ASSUME NEW r \in Uploads, Finalize(r) PROVE WithinQuota(v)'
  <2>1. r \in Items /\ size[r] \in Int /\ -size[r] \in Int
    BY ItemType, UploadIsItem
  <2>2. /\ solid' = Post(solid, r, size[r]) /\ open' = Post(open, r, -size[r])
        /\ notes' = notes /\ grown' = grown /\ ungated' = ungated
    BY <1>6 DEF Finalize, faults
  <2>3. CASE v = Payer(r)
    <3>1. solid'[v] = solid[v] + size[r] /\ open'[v] = open[v] + (-size[r])
      BY <1>b, <2>1, <2>2, <2>3, PostFacts
    <3>2. QED
      BY <1>0, <2>1, <2>2, <3>1 DEF WithinQuota, Load
  <2>4. CASE v # Payer(r)
    <3>1. solid'[v] = solid[v] /\ open'[v] = open[v]
      BY <1>b, <2>1, <2>2, <2>4, PostFacts
    <3>2. QED
      BY <1>0, <2>2, <3>1 DEF WithinQuota, Load
  <2>5. QED
    BY <2>3, <2>4
<1>7. ASSUME NEW r \in Uploads, Expire(r) PROVE WithinQuota(v)'
  <2>1. r \in Items /\ size[r] \in Nat /\ -size[r] \in Int
    BY ItemType, UploadIsItem
  <2>2. /\ open' = Post(open, r, -size[r]) /\ solid' = solid /\ notes' = notes
        /\ grown' = grown /\ ungated' = ungated
    BY <1>7 DEF Expire, faults
  <2>3. open'[v] = open[v] + (-size[r]) \/ open'[v] = open[v]
    BY <1>b, <2>1, <2>2, PostFacts
  <2>4. open'[v] <= open[v]
    BY <1>0, <2>1, <2>3
  <2>5. QED
    BY <1>0, <1>a, <2>2, <2>4 DEF WithinQuota, Load
<1>8. ASSUME NEW r \in Items, DeleteFile(r) PROVE WithinQuota(v)'
  <2>1. r \in Items /\ size[r] \in Nat /\ -size[r] \in Int
    BY ItemType, UploadIsItem
  <2>2. /\ solid' = Post(solid, r, -size[r]) /\ notes' = notes /\ open' = open
        /\ grown' = grown /\ ungated' = ungated
    BY <1>8 DEF DeleteFile, faults
  <2>3. solid'[v] = solid[v] + (-size[r]) \/ solid'[v] = solid[v]
    BY <1>b, <2>1, <2>2, PostFacts
  <2>4. solid'[v] <= solid[v]
    BY <1>0, <2>1, <2>3
  <2>5. QED
    BY <1>0, <1>a, <2>2, <2>4 DEF WithinQuota, Load
<1>9. ASSUME NEW r \in Items, DeleteMaterial(r) PROVE WithinQuota(v)'
  <2>1. r \in Items /\ size[r] \in Nat /\ -size[r] \in Int
    BY ItemType, UploadIsItem
  <2>2. /\ notes' = Post(notes, r, -size[r]) /\ solid' = solid /\ open' = open
        /\ grown' = grown /\ ungated' = ungated
    BY <1>9 DEF DeleteMaterial, faults
  <2>3. notes'[v] = notes[v] + (-size[r]) \/ notes'[v] = notes[v]
    BY <1>b, <2>1, <2>2, PostFacts
  <2>4. notes'[v] <= notes[v]
    BY <1>0, <2>1, <2>3
  <2>5. QED
    BY <1>0, <1>a, <2>2, <2>4 DEF WithinQuota, Load
<1>10. ASSUME NEW r \in Items, NEW n \in Sizes, EditMaterial(r, n)
       PROVE  WithinQuota(v)'
  <2>1. n \in Nat /\ size[r] \in Nat /\ n - size[r] \in Int /\ Payer(r) \in Users
    BY SizeType, ItemType
  <2>2. /\ notes' = Post(notes, r, n - size[r]) /\ solid' = solid /\ open' = open
        /\ grown' = [grown EXCEPT ![Payer(r)] = @ + Positive(n - size[r])]
        /\ ungated' = ungated
    BY <1>10 DEF EditMaterial, faults
  <2>3. Positive(n - size[r]) \in Nat /\ Positive(n - size[r]) >= n - size[r]
    BY <2>1, PositiveFacts
  <2>4. CASE v = Payer(r)
    <3>1. notes'[v] = notes[v] + (n - size[r])
      BY <1>b, <2>1, <2>2, <2>4, PostFacts
    <3>2. grown'[v] = grown[v] + Positive(n - size[r])
      BY <2>2, <2>4 DEF TypeOK
    <3>3. QED
      BY <1>0, <2>1, <2>2, <2>3, <3>1, <3>2 DEF WithinQuota, Load
  <2>5. CASE v # Payer(r)
    <3>1. notes'[v] = notes[v]
      BY <1>b, <2>1, <2>2, <2>5, PostFacts
    <3>2. grown'[v] = grown[v]
      BY <2>2, <2>5 DEF TypeOK
    <3>3. QED
      BY <1>0, <2>2, <3>1, <3>2 DEF WithinQuota, Load
  <2>6. QED
    BY <2>4, <2>5
<1>11. ASSUME NEW w \in Workspaces, DeleteWorkspace(w) PROVE WithinQuota(v)'
  <2>1. /\ solid' = Drop(solid, w) /\ notes' = Drop(notes, w) /\ open' = Drop(open, w)
        /\ grown' = grown /\ ungated' = ungated
    BY <1>11 DEF DeleteWorkspace, faults
  <2>2. solid[w] \in Nat /\ notes[w] \in Nat /\ open[w] \in Nat
    BY <1>b, TotalType
  <2>3. CASE v = owner[w]
    <3>1. /\ solid'[v] = solid[v] - solid[w] /\ notes'[v] = notes[v] - notes[w]
          /\ open'[v] = open[v] - open[w]
      BY <1>b, <2>1, <2>3, DropFacts
    <3>2. QED
      BY <1>0, <2>1, <2>2, <3>1 DEF WithinQuota, Load
  <2>4. CASE v # owner[w]
    <3>1. solid'[v] = solid[v] /\ notes'[v] = notes[v] /\ open'[v] = open[v]
      BY <1>b, <2>1, <2>4, DropFacts
    <3>2. QED
      BY <1>0, <2>1, <3>1 DEF WithinQuota, Load
  <2>5. QED
    BY <2>3, <2>4
<1>12. ASSUME NEW w \in Workspaces, NEW to \in Users, Transfer(w, to)
       PROVE  WithinQuota(v)'
  <2>1. /\ solid' = Move(solid, w, to) /\ notes' = Move(notes, w, to)
        /\ open' = Move(open, w, to) /\ grown' = grown /\ to # owner[w]
        /\ Fits(to, solid[w] + notes[w] + open[w] - lapsed[w])
    BY <1>12 DEF Transfer
  <2>2. ungated \subseteq ungated' /\ (lapsed[w] # 0 => to \in ungated')
    BY <1>12 DEF Transfer
  <2>3. solid[w] \in Nat /\ notes[w] \in Nat /\ open[w] \in Nat
    BY <1>b, TotalType
  <2>4. CASE v = owner[w]
    <3>1. /\ solid'[v] = solid[v] - solid[w] /\ notes'[v] = notes[v] - notes[w]
          /\ open'[v] = open[v] - open[w]
      BY <1>b, <2>1, <2>4, MoveFacts
    <3>2. QED
      BY <1>0, <2>1, <2>2, <2>3, <3>1 DEF WithinQuota, Load
  <2>5. CASE v = to /\ v \notin ungated'
    <3>1. /\ solid'[v] = solid[v] + solid[w] /\ notes'[v] = notes[v] + notes[w]
          /\ open'[v] = open[v] + open[w]
      BY <1>b, <2>1, <2>5, MoveFacts
    <3>2. lapsed[w] = 0 /\ v \notin ungated
      BY <2>2, <2>5
    <3>3. solid[w] + notes[w] + open[w] - lapsed[w] = solid[w] + notes[w] + open[w]
          /\ solid[w] + notes[w] + open[w] \in Int
      BY <2>3, <3>2
    <3>4. Load(v) + (solid[w] + notes[w] + open[w]) <= Limit[v]
      BY <2>1, <2>5, <3>2, <3>3, GateFacts
    <3>5. QED
      BY <1>0, <2>1, <2>3, <3>1, <3>4 DEF WithinQuota, Load
  <2>6. CASE v # owner[w] /\ v # to
    <3>1. solid'[v] = solid[v] /\ notes'[v] = notes[v] /\ open'[v] = open[v]
      BY <1>b, <2>1, <2>6, MoveFacts
    <3>2. QED
      BY <1>0, <2>1, <2>2, <3>1 DEF WithinQuota, Load
  <2>7. CASE v \in ungated'
    BY <2>7 DEF WithinQuota
  <2>8. QED
    BY <2>4, <2>5, <2>6, <2>7
<1>13. ASSUME NEW u \in Users, Reconcile(u) PROVE WithinQuota(v)'
  <2>1. ungated \subseteq ungated' /\ UNCHANGED <<solid, notes, open, grown>>
    BY <1>13 DEF Reconcile, sums
  <2>2. QED
    BY <1>0, <2>1 DEF WithinQuota, Load
<1>14. CASE UNCHANGED vars
  BY <1>0, <1>14 DEF WithinQuota, Load, vars, sums, faults
<1>15. QED
  BY <1>1, <1>2, <1>3, <1>4, <1>5, <1>6, <1>7, <1>8, <1>9, <1>10, <1>11, <1>12,
     <1>13, <1>14 DEF Next, Create, Upload, Change

(* For any number of users, workspaces and rows: racing creations, uploads *)
(* and transfers never take a user who was charged only for what their     *)
(* gate counted past the limit of the plan.                                *)
THEOREM PlanLimitHolds == Spec => []QuotaHolds
<1>1. Init => QuotaHolds /\ SlippedAreUngated
  <2> SUFFICES ASSUME Init, NEW u \in Users
               PROVE  Charged(u) + open[u] <= Limit[u] + grown[u]
    BY DEF Init, StartsWithout, QuotaHolds, SlippedAreUngated
  <2>1. solid[u] = 0 /\ notes[u] = 0 /\ open[u] = 0 /\ grown[u] = 0
    BY DEF Init, StartsWithout
  <2>2. Limit[u] \in Nat
    BY LimitAssumption
  <2>3. QED
    BY <2>1, <2>2 DEF Charged
<1>2. QED
  BY <1>1, QuotaNext, SlippedNext, TypeCorrect, CounterCoversContent,
     CounterCoversReservations, PTL DEF Spec
-----------------------------------------------------------------------------
(* The sums over the rows *)

LEMMA RowsFacts ==
  ASSUME TypeOK, NEW S \in SUBSET Items, NEW w, NEW T
  PROVE  /\ IsFiniteSet(Rows(S, w, T))
         /\ \A r \in Rows(S, w, T) : size[r] \in Nat /\ size[r] \in Int
<1>1. Rows(S, w, T) \in SUBSET Items
  BY DEF Rows
<1>2. IsFiniteSet(Rows(S, w, T))
  BY <1>1, IdsAssumption, FS_Subset
<1>3. QED
  BY <1>1, <1>2 DEF TypeOK

(* What a row counts for in a table. *)
Weight(r, S, T) == IF r \in S /\ status[r] \in T THEN size[r] ELSE 0

(* A step that touches one row changes one workspace's sum, by that row.   *)
LEMMA OneRowChanges ==
  ASSUME TypeOK, TypeOK', NEW S \in SUBSET Items, NEW T, NEW r \in Items,
         \A k \in Items : k # r => status'[k] = status[k] /\ size'[k] = size[k],
         NEW w \in Workspaces
  PROVE  SumFunctionOnSet(size', Rows(S, w, T)')
           = SumFunctionOnSet(size, Rows(S, w, T))
             + (IF w = Home[r] THEN Weight(r, S, T)' - Weight(r, S, T) ELSE 0)
<1> DEFINE R == Rows(S, w, T) \ {r}
<1>1. IsFiniteSet(Rows(S, w, T)) /\ \A k \in Rows(S, w, T) : size[k] \in Int
  BY RowsFacts
<1>2. IsFiniteSet(Rows(S, w, T)') /\ \A k \in Rows(S, w, T)' : size'[k] \in Int
  <2>1. Rows(S, w, T)' \in SUBSET Items
    BY DEF Rows
  <2>2. QED
    BY <2>1, IdsAssumption, FS_Subset DEF TypeOK
<1>3. Rows(S, w, T)' \ {r} = R
  BY DEF Rows
<1>4. IsFiniteSet(R) /\ \A k \in R : size[k] \in Int /\ size'[k] = size[k]
  <2>1. IsFiniteSet(R)
    BY <1>1, FS_RemoveElement
  <2>2. \A k \in R : k \in Items /\ k # r
    BY DEF Rows
  <2>3. QED
    BY <2>1, <2>2 DEF TypeOK
<1>5. SumFunctionOnSet(size', R) = SumFunctionOnSet(size, R)
      /\ SumFunctionOnSet(size, R) \in Int
  <2> HIDE DEF R
  <2>1. QED
    BY <1>4, SumSame, SumInt
<1>6. r \in Rows(S, w, T) <=> r \in S /\ Home[r] = w /\ status[r] \in T
  BY DEF Rows
<1>7. r \in Rows(S, w, T)' <=> r \in S /\ Home[r] = w /\ status'[r] \in T
  BY DEF Rows
<1>8. SumFunctionOnSet(size, R) = SumFunctionOnSet(size, Rows(S, w, T))
        - (IF w = Home[r] THEN Weight(r, S, T) ELSE 0)
      /\ SumFunctionOnSet(size, Rows(S, w, T)) \in Int
  <2>1. SumFunctionOnSet(size, Rows(S, w, T)) \in Int
    BY <1>1, SumInt
  <2>2. CASE r \in Rows(S, w, T)
    <3>1. w = Home[r] /\ Weight(r, S, T) = size[r]
      BY <1>6, <2>2 DEF Weight
    <3>2. SumFunctionOnSet(size, R) = SumFunctionOnSet(size, Rows(S, w, T)) - size[r]
      BY <1>1, <2>2, SumRemove
    <3>3. QED
      BY <2>1, <3>1, <3>2
  <2>3. CASE r \notin Rows(S, w, T)
    <3>1. SumFunctionOnSet(size, R) = SumFunctionOnSet(size, Rows(S, w, T))
      <4>1. R = Rows(S, w, T)
        BY <2>3
      <4>2. QED
        BY <4>1
    <3>2. (IF w = Home[r] THEN Weight(r, S, T) ELSE 0) = 0
      BY <1>6, <2>3 DEF Weight
    <3> HIDE DEF R
    <3>3. QED
      BY <2>1, <3>1, <3>2
  <2>4. QED
    BY <2>2, <2>3
<1>9. SumFunctionOnSet(size', R) = SumFunctionOnSet(size', Rows(S, w, T)')
        - (IF w = Home[r] THEN Weight(r, S, T)' ELSE 0)
      /\ SumFunctionOnSet(size', Rows(S, w, T)') \in Int
  <2>1. SumFunctionOnSet(size', Rows(S, w, T)') \in Int
    BY <1>2, SumInt
  <2>2. CASE r \in Rows(S, w, T)'
    <3>1. w = Home[r] /\ Weight(r, S, T)' = size'[r]
      BY <1>7, <2>2 DEF Weight
    <3>2. SumFunctionOnSet(size', R) = SumFunctionOnSet(size', Rows(S, w, T)') - size'[r]
      BY <1>2, <1>3, <2>2, SumRemove
    <3>3. QED
      BY <2>1, <3>1, <3>2
  <2>3. CASE r \notin Rows(S, w, T)'
    <3>1. SumFunctionOnSet(size', R) = SumFunctionOnSet(size', Rows(S, w, T)')
      <4>1. R = Rows(S, w, T)'
        BY <1>3, <2>3
      <4>2. QED
        BY <4>1
    <3>2. (IF w = Home[r] THEN Weight(r, S, T)' ELSE 0) = 0
      BY <1>7, <2>3 DEF Weight
    <3> HIDE DEF R
    <3>3. QED
      BY <2>1, <3>1, <3>2
  <2>4. QED
    BY <2>2, <2>3
<1>10. Weight(r, S, T) \in Int /\ Weight(r, S, T)' \in Int
  <2>1. size[r] \in Int /\ size'[r] \in Int
    BY DEF TypeOK
  <2>2. QED
    BY <2>1 DEF Weight
<1> HIDE DEF R
<1>11. CASE w = Home[r]
  BY <1>5, <1>8, <1>9, <1>10, <1>11
<1>12. CASE w # Home[r]
  BY <1>5, <1>8, <1>9, <1>12
<1>13. QED
  BY <1>11, <1>12

(* Posting the difference keeps the total of every workspace the sum.      *)
LEMMA TablePosted ==
  ASSUME TypeOK, TypeOK', NEW S \in SUBSET Items, NEW T, NEW r \in Items,
         \A k \in Items : k # r => status'[k] = status[k] /\ size'[k] = size[k],
         NEW f \in Totals, TableSums(f, S, T),
         NEW n \in Int, n = Weight(r, S, T)' - Weight(r, S, T)
  PROVE  /\ \A w \in Workspaces :
              Post(f, r, n)[w] = SumFunctionOnSet(size', Rows(S, w, T)')
         /\ f[Home[r]] + n >= 0
<1>1. Home[r] \in Workspaces /\ Payer(r) \in Users /\ Payer(r) \notin Workspaces
  BY ItemType, IdsAssumption
<1>2. \A w \in Workspaces : /\ f[w] = SumFunctionOnSet(size, Rows(S, w, T))
                            /\ f[w] \in Int
  BY DEF TableSums, Totals
<1>3. \A w \in Workspaces :
        SumFunctionOnSet(size', Rows(S, w, T)') = f[w] + (IF w = Home[r] THEN n ELSE 0)
  BY <1>2, OneRowChanges
<1>4. SumFunctionOnSet(size', Rows(S, Home[r], T)') \in Nat
  <2>1. Rows(S, Home[r], T)' \in SUBSET Items
    BY DEF Rows
  <2>2. IsFiniteSet(Rows(S, Home[r], T)') /\ \A k \in Rows(S, Home[r], T)' : size'[k] \in Nat
    BY <2>1, IdsAssumption, FS_Subset DEF TypeOK
  <2>3. QED
    BY <2>2, SumNat
<1>5. f[Home[r]] + n >= 0 /\ Positive(f[Home[r]] + n) = f[Home[r]] + n
  BY <1>1, <1>2, <1>3, <1>4 DEF Positive
<1>6. ASSUME NEW w \in Workspaces
      PROVE  Post(f, r, n)[w] = f[w] + (IF w = Home[r] THEN n ELSE 0)
  BY <1>1, <1>2, <1>5 DEF Post, Totals
<1>7. QED
  BY <1>3, <1>5, <1>6

(* A table the row is in neither before nor after, or unchanged.           *)
LEMMA TableKept ==
  ASSUME TypeOK, TypeOK', NEW S \in SUBSET Items, NEW T, NEW r \in Items,
         \A k \in Items : k # r => status'[k] = status[k] /\ size'[k] = size[k],
         NEW f \in Totals, TableSums(f, S, T), Weight(r, S, T)' = Weight(r, S, T)
  PROVE  \A w \in Workspaces : f[w] = SumFunctionOnSet(size', Rows(S, w, T)')
<1>1. Weight(r, S, T) \in Int
  BY DEF Weight, TypeOK
<1>2. \A w \in Workspaces : f[w] = SumFunctionOnSet(size, Rows(S, w, T)) /\ f[w] \in Int
  BY DEF TableSums, Totals
<1>3. QED
  BY <1>1, <1>2, OneRowChanges

-----------------------------------------------------------------------------
(* The sums over the workspaces of a user *)
LEMMA PaidFacts ==
  ASSUME TypeOK, NEW u \in Users, NEW f \in Totals
  PROVE  /\ IsFiniteSet(Paid(u)) /\ Paid(u) \subseteq Workspaces
         /\ \A w \in Paid(u) : f[w] \in Nat /\ f[w] \in Int
<1>1. Paid(u) \in SUBSET Workspaces
  BY DEF Paid
<1>2. IsFiniteSet(Paid(u))
  BY <1>1, IdsAssumption, FS_Subset
<1>3. QED
  BY <1>1, <1>2, TotalType

LEMMA PostedPaid ==
  ASSUME TypeOK, NEW f \in Totals, UserSums(f), NEW r \in Items, NEW n \in Int,
         f[Home[r]] + n >= 0, NEW u \in Users
  PROVE  Post(f, r, n)[u] = SumFunctionOnSet(Post(f, r, n), Paid(u))
<1> DEFINE g == Post(f, r, n)
<1>1. Home[r] \in Workspaces /\ Payer(r) \in Users /\ Payer(r) \notin Workspaces
  BY ItemType, IdsAssumption
<1>2. /\ g \in Totals /\ g[Payer(r)] = f[Payer(r)] + n
      /\ \A v \in Users : v # Payer(r) => g[v] = f[v]
  BY PostFacts
<1>3. \A w \in Workspaces : g[w] = f[w] + (IF w = Home[r] THEN n ELSE 0)
  <2>1. \A w \in Workspaces : f[w] \in Int
    BY TotalType
  <2>2. Positive(f[Home[r]] + n) = f[Home[r]] + n
    BY <1>1, <2>1 DEF Positive
  <2>3. QED
    BY <1>1, <2>1, <2>2 DEF Post, Totals
<1> HIDE DEF g
<1>4. f[u] = SumFunctionOnSet(f, Paid(u)) /\ f[u] \in Int
  BY TotalType DEF UserSums
<1>5. CASE u = Payer(r)
  <2>1. Home[r] \in Paid(u)
    BY <1>1, <1>5 DEF Paid, Payer
  <2>2. \A w \in Paid(u) : f[w] \in Int /\ g[w] \in Int /\ (w # Home[r] => g[w] = f[w])
    BY <1>2, <1>3, PaidFacts
  <2>3. SumFunctionOnSet(g, Paid(u)) = SumFunctionOnSet(f, Paid(u)) + (g[Home[r]] - f[Home[r]])
    BY <2>1, <2>2, PaidFacts, SumChange
  <2>4. g[Home[r]] = f[Home[r]] + n /\ f[Home[r]] \in Int
    BY <1>1, <1>3, TotalType
  <2>5. QED
    BY <1>2, <1>4, <1>5, <2>3, <2>4 DEF g
<1>6. CASE u # Payer(r)
  <2>1. \A w \in Paid(u) : w \in Workspaces /\ w # Home[r]
    BY <1>6 DEF Paid, Payer
  <2>a. \A w \in Paid(u) : f[w] \in Int /\ g[w] = f[w]
    BY <1>3, <2>1, PaidFacts
  <2>2. SumFunctionOnSet(g, Paid(u)) = SumFunctionOnSet(f, Paid(u))
    BY <2>a, PaidFacts, SumSame
  <2>3. QED
    BY <1>2, <1>4, <1>6, <2>2 DEF g
<1>7. QED
  BY <1>5, <1>6

LEMMA DroppedPaid ==
  ASSUME TypeOK, NEW f \in Totals, UserSums(f), NEW w \in Workspaces, NEW u \in Users
  PROVE  Drop(f, w)[u] = SumFunctionOnSet(Drop(f, w), Paid(u))
<1> DEFINE g == Drop(f, w)
<1>1. owner[w] \in Users /\ owner[w] \notin Workspaces /\ w \notin Users
  BY IdsAssumption DEF TypeOK
<1>2. /\ g \in Totals /\ g[owner[w]] = f[owner[w]] - f[w]
      /\ \A v \in Users : v # owner[w] => g[v] = f[v]
  BY DropFacts
<1>3. \A x \in Workspaces : g[x] = IF x = w THEN 0 ELSE f[x]
  BY <1>1 DEF Drop, Totals
<1> HIDE DEF g
<1>4. f[u] = SumFunctionOnSet(f, Paid(u)) /\ f[u] \in Int
  BY TotalType DEF UserSums
<1>5. CASE u = owner[w]
  <2>1. w \in Paid(u)
    BY <1>5 DEF Paid
  <2>2. \A x \in Paid(u) : f[x] \in Int /\ g[x] \in Int /\ (x # w => g[x] = f[x])
    BY <1>2, <1>3, PaidFacts
  <2>3. SumFunctionOnSet(g, Paid(u)) = SumFunctionOnSet(f, Paid(u)) + (g[w] - f[w])
    BY <2>1, <2>2, PaidFacts, SumChange
  <2>4. g[w] = 0 /\ f[w] \in Int
    BY <1>3, TotalType
  <2>5. QED
    BY <1>2, <1>4, <1>5, <2>3, <2>4 DEF g
<1>6. CASE u # owner[w]
  <2>1. \A x \in Paid(u) : f[x] \in Int /\ g[x] = f[x]
    BY <1>3, <1>6, PaidFacts DEF Paid
  <2>2. SumFunctionOnSet(g, Paid(u)) = SumFunctionOnSet(f, Paid(u))
    BY <2>1, PaidFacts, SumSame
  <2>3. QED
    BY <1>2, <1>4, <1>6, <2>2 DEF g
<1>7. QED
  BY <1>5, <1>6

LEMMA MovedPaid ==
  ASSUME TypeOK, NEW f \in Totals, UserSums(f), NEW w \in Workspaces, NEW to \in Users,
         to # owner[w], owner' = [owner EXCEPT ![w] = to], NEW u \in Users
  PROVE  /\ Move(f, w, to)[u] = SumFunctionOnSet(Move(f, w, to), Paid(u)')
         /\ \A x \in Workspaces : Move(f, w, to)[x] = f[x]
<1> DEFINE g == Move(f, w, to)
<1>1. owner[w] \in Users /\ owner[w] \notin Workspaces /\ to \notin Workspaces
  BY IdsAssumption DEF TypeOK
<1>2. /\ g \in Totals /\ g[owner[w]] = f[owner[w]] - f[w] /\ g[to] = f[to] + f[w]
      /\ \A v \in Users \ {to, owner[w]} : g[v] = f[v]
  BY MoveFacts
<1>3. \A x \in Workspaces : g[x] = f[x] /\ f[x] \in Int
  BY <1>1, TotalType DEF Move, Totals
<1> HIDE DEF g
<1>4. f[u] = SumFunctionOnSet(f, Paid(u)) /\ f[u] \in Int
  BY TotalType DEF UserSums
<1>5. Paid(u)' = IF u = to THEN Paid(u) \cup {w}
                 ELSE IF u = owner[w] THEN Paid(u) \ {w} ELSE Paid(u)
  BY DEF Paid, TypeOK
<1>6. SumFunctionOnSet(g, Paid(u)') = SumFunctionOnSet(f, Paid(u)')
  <2>1. IsFiniteSet(Paid(u)') /\ Paid(u)' \subseteq Workspaces
    <3>1. Paid(u)' \in SUBSET Workspaces
      BY DEF Paid
    <3>2. QED
      BY <3>1, IdsAssumption, FS_Subset
  <2>2. \A x \in Paid(u)' : f[x] \in Int /\ g[x] = f[x]
    BY <1>3, <2>1
  <2>3. QED
    BY <2>1, <2>2, SumSame
<1>7. CASE u = to
  <2>1. w \notin Paid(u)
    BY <1>7 DEF Paid
  <2>2. SumFunctionOnSet(f, Paid(u) \cup {w}) = SumFunctionOnSet(f, Paid(u)) + f[w]
    BY <1>3, <2>1, PaidFacts, SumAdd
  <2>3. QED
    BY <1>2, <1>3, <1>4, <1>5, <1>6, <1>7, <2>2 DEF g
<1>8. CASE u = owner[w]
  <2>1. w \in Paid(u)
    BY <1>8 DEF Paid
  <2>2. SumFunctionOnSet(f, Paid(u) \ {w}) = SumFunctionOnSet(f, Paid(u)) - f[w]
    BY <2>1, PaidFacts, SumRemove
  <2>3. QED
    BY <1>2, <1>3, <1>4, <1>5, <1>6, <1>8, <2>2 DEF g
<1>9. CASE u # to /\ u # owner[w]
  BY <1>2, <1>3, <1>4, <1>5, <1>6, <1>9 DEF g
<1>10. QED
  BY <1>7, <1>8, <1>9

-----------------------------------------------------------------------------
(* A total whose table and whose users are the sums; and the same of the   *)
(* value g a total has after a step.                                       *)
Summed(f, S, T) == TableSums(f, S, T) /\ UserSums(f)
SummedNext(g, S, T) ==
  /\ \A w \in Workspaces : g[w] = SumFunctionOnSet(size', Rows(S, w, T)')
  /\ \A u \in Users : g[u] = SumFunctionOnSet(g, Paid(u)')

(* The step of one row posts what the row's weight changed by.             *)
LEMMA RowPosted ==
  ASSUME TypeOK, TypeOK', owner' = owner, NEW r \in Items,
         \A k \in Items : k # r => status'[k] = status[k] /\ size'[k] = size[k],
         NEW S \in SUBSET Items, NEW T, NEW f \in Totals, Summed(f, S, T),
         NEW n \in Int, n = Weight(r, S, T)' - Weight(r, S, T)
  PROVE  SummedNext(Post(f, r, n), S, T)
<1>1. /\ \A w \in Workspaces :
           Post(f, r, n)[w] = SumFunctionOnSet(size', Rows(S, w, T)')
      /\ f[Home[r]] + n >= 0
  BY TablePosted DEF Summed
<1>2. \A u \in Users : Post(f, r, n)[u] = SumFunctionOnSet(Post(f, r, n), Paid(u))
  BY <1>1, PostedPaid DEF Summed
<1>3. \A u \in Users : Paid(u)' = Paid(u)
  BY DEF Paid
<1>4. QED
  BY <1>1, <1>2, <1>3 DEF SummedNext

LEMMA RowKept ==
  ASSUME TypeOK, TypeOK', owner' = owner, NEW r \in Items,
         \A k \in Items : k # r => status'[k] = status[k] /\ size'[k] = size[k],
         NEW S \in SUBSET Items, NEW T, NEW f \in Totals, Summed(f, S, T),
         Weight(r, S, T)' = Weight(r, S, T)
  PROVE  SummedNext(f, S, T)
<1>1. \A w \in Workspaces : f[w] = SumFunctionOnSet(size', Rows(S, w, T)')
  BY TableKept DEF Summed
<1>2. \A u \in Users : f[u] = SumFunctionOnSet(f, Paid(u)')
  BY DEF Paid, Summed, UserSums
<1>3. QED
  BY <1>1, <1>2 DEF SummedNext

(* A workspace is deleted with its rows.                                   *)
LEMMA RowsDropped ==
  ASSUME TypeOK, owner' = owner, size' = size, NEW w \in Workspaces,
         status' = [r \in Items |-> IF Home[r] = w THEN "gone" ELSE status[r]],
         NEW S \in SUBSET Items, NEW T, "gone" \notin T,
         NEW f \in Totals, Summed(f, S, T)
  PROVE  SummedNext(Drop(f, w), S, T)
<1>1. ASSUME NEW x \in Workspaces
      PROVE  Drop(f, w)[x] = SumFunctionOnSet(size', Rows(S, x, T)')
  <2>1. owner[w] \in Users /\ owner[w] \notin Workspaces
    BY IdsAssumption DEF TypeOK
  <2>2. CASE x = w
    <3>1. Drop(f, w)[x] = 0
      BY <2>1, <2>2 DEF Drop, Totals
    <3>2. Rows(S, x, T)' = {}
      BY <2>2 DEF Rows
    <3>3. QED
      BY <3>1, <3>2, SumEmpty
  <2>3. CASE x # w
    <3>1. Drop(f, w)[x] = f[x]
      BY <2>1, <2>3 DEF Drop, Totals
    <3>2. Rows(S, x, T)' = Rows(S, x, T)
      BY <2>3 DEF Rows
    <3>3. QED
      BY <3>1, <3>2 DEF Summed, TableSums
  <2>4. QED
    BY <2>2, <2>3
<1>2. \A u \in Users : Drop(f, w)[u] = SumFunctionOnSet(Drop(f, w), Paid(u))
  BY DroppedPaid DEF Summed
<1>3. \A u \in Users : Paid(u)' = Paid(u)
  BY DEF Paid
<1>4. QED
  BY <1>1, <1>2, <1>3 DEF SummedNext

(* A workspace changes hands with its rows.                                *)
LEMMA RowsMoved ==
  ASSUME TypeOK, status' = status, size' = size, NEW w \in Workspaces,
         NEW to \in Users, to # owner[w], owner' = [owner EXCEPT ![w] = to],
         NEW S \in SUBSET Items, NEW T, NEW f \in Totals, Summed(f, S, T)
  PROVE  SummedNext(Move(f, w, to), S, T)
<1>1. ASSUME NEW x \in Workspaces
      PROVE  Move(f, w, to)[x] = SumFunctionOnSet(size', Rows(S, x, T)')
  <2>1. Move(f, w, to)[x] = f[x]
    <3>1. owner[w] \in Users
      BY DEF TypeOK
    <3>2. QED
      BY <3>1, MovedPaid DEF Summed
  <2>2. Rows(S, x, T)' = Rows(S, x, T)
    BY DEF Rows
  <2>3. QED
    BY <2>1, <2>2 DEF Summed, TableSums
<1>2. \A u \in Users : Move(f, w, to)[u] = SumFunctionOnSet(Move(f, w, to), Paid(u)')
  BY MovedPaid DEF Summed
<1>3. QED
  BY <1>1, <1>2 DEF SummedNext

(* The four tables of the module. *)
Stored == {"stored"}
Pending == {"pending", "late"}
Late == {"late"}

LEMMA Tables ==
  SumsExact <=> /\ Summed(solid, Uploads, Stored) /\ Summed(notes, Notes, Stored)
                /\ Summed(open, Uploads, Pending) /\ Summed(lapsed, Uploads, Late)
  BY DEF SumsExact, Summed, Stored, Pending, Late

LEMMA TablesNext ==
  ASSUME SummedNext(solid', Uploads, Stored), SummedNext(notes', Notes, Stored),
         SummedNext(open', Uploads, Pending), SummedNext(lapsed', Uploads, Late)
  PROVE  SumsExact'
  BY DEF SumsExact, TableSums, UserSums, SummedNext, Stored, Pending, Late

(* Every action posts to each table what the table's rows change by.       *)
LEMMA SumsNext == TypeOK /\ TypeOK' /\ SumsExact /\ [Next]_vars => SumsExact'
<1> SUFFICES ASSUME TypeOK, TypeOK', SumsExact, [Next]_vars PROVE SumsExact'
  OBVIOUS
<1> USE UploadIsItem, IdsAssumption
<1>a. /\ solid \in Totals /\ notes \in Totals /\ open \in Totals /\ lapsed \in Totals
      /\ \A r \in Items : status[r] \in Statuses /\ size[r] \in Nat
                         /\ status'[r] \in Statuses /\ size'[r] \in Nat
  BY DEF TypeOK
<1>b. /\ Summed(solid, Uploads, Stored) /\ Summed(notes, Notes, Stored)
      /\ Summed(open, Uploads, Pending) /\ Summed(lapsed, Uploads, Late)
  BY Tables
<1>1. ASSUME NEW r \in Items, NEW n \in Sizes, Ask(r, n) PROVE SumsExact'
  <2>1. r \in Items /\ owner' = owner /\ \A k \in Items : k # r => status'[k] = status[k] /\ size'[k] = size[k]
    BY <1>1 DEF Ask, Becomes, TypeOK
  <2>2. SummedNext(solid', Uploads, Stored)
    <3>1. Weight(r, Uploads, Stored)' = Weight(r, Uploads, Stored) /\ solid' = solid
      BY <1>1, <2>1, SizesAssumption DEF Ask, Becomes, TypeOK, Weight, Stored, sums
    <3>2. QED
      BY <1>a, <1>b, <2>1, <3>1, RowKept
  <2>3. SummedNext(notes', Notes, Stored)
    <3>1. Weight(r, Notes, Stored)' = Weight(r, Notes, Stored) /\ notes' = notes
      BY <1>1, <2>1, SizesAssumption DEF Ask, Becomes, TypeOK, Weight, Stored, sums
    <3>2. QED
      BY <1>a, <1>b, <2>1, <3>1, RowKept
  <2>4. SummedNext(open', Uploads, Pending)
    <3>1. Weight(r, Uploads, Pending)' = Weight(r, Uploads, Pending) /\ open' = open
      BY <1>1, <2>1, SizesAssumption DEF Ask, Becomes, TypeOK, Weight, Pending, sums
    <3>2. QED
      BY <1>a, <1>b, <2>1, <3>1, RowKept
  <2>5. SummedNext(lapsed', Uploads, Late)
    <3>1. Weight(r, Uploads, Late)' = Weight(r, Uploads, Late) /\ lapsed' = lapsed
      BY <1>1, <2>1, SizesAssumption DEF Ask, Becomes, TypeOK, Weight, Late, sums
    <3>2. QED
      BY <1>a, <1>b, <2>1, <3>1, RowKept
  <2>6. QED
    BY <2>2, <2>3, <2>4, <2>5, TablesNext
<1>2. ASSUME NEW r \in Items, Reserve(r) PROVE SumsExact'
  <2>1. r \in Items /\ owner' = owner /\ \A k \in Items : k # r => status'[k] = status[k] /\ size'[k] = size[k]
    BY <1>2 DEF Reserve, Becomes, TypeOK
  <2>2. SummedNext(solid', Uploads, Stored)
    <3>1. Weight(r, Uploads, Stored)' = Weight(r, Uploads, Stored) /\ solid' = solid
      BY <1>2, <2>1, SizesAssumption DEF Reserve, Becomes, TypeOK, Weight, Stored, sums
    <3>2. QED
      BY <1>a, <1>b, <2>1, <3>1, RowKept
  <2>3. SummedNext(notes', Notes, Stored)
    <3>1. Weight(r, Notes, Stored)' = Weight(r, Notes, Stored) /\ notes' = notes
      BY <1>2, <2>1, SizesAssumption DEF Reserve, Becomes, TypeOK, Weight, Stored, sums
    <3>2. QED
      BY <1>a, <1>b, <2>1, <3>1, RowKept
  <2>4. SummedNext(open', Uploads, Pending)
    <3>1. Weight(r, Uploads, Pending)' - Weight(r, Uploads, Pending) = size[r] /\ open' = Post(open, r, size[r]) /\ size[r] \in Int
      BY <1>2, <1>a, <2>1, SizesAssumption DEF Reserve, Becomes, TypeOK, Weight, Pending
    <3>2. QED
      BY <1>a, <1>b, <2>1, <3>1, RowPosted
  <2>5. SummedNext(lapsed', Uploads, Late)
    <3>1. Weight(r, Uploads, Late)' = Weight(r, Uploads, Late) /\ lapsed' = lapsed
      BY <1>2, <2>1, SizesAssumption DEF Reserve, Becomes, TypeOK, Weight, Late, sums
    <3>2. QED
      BY <1>a, <1>b, <2>1, <3>1, RowKept
  <2>6. QED
    BY <2>2, <2>3, <2>4, <2>5, TablesNext
<1>3. ASSUME NEW r \in Items, AddSource(r) PROVE SumsExact'
  <2>1. r \in Items /\ owner' = owner /\ \A k \in Items : k # r => status'[k] = status[k] /\ size'[k] = size[k]
    BY <1>3 DEF AddSource, Becomes, TypeOK
  <2>2. SummedNext(solid', Uploads, Stored)
    <3>1. Weight(r, Uploads, Stored)' - Weight(r, Uploads, Stored) = size[r] /\ solid' = Post(solid, r, size[r]) /\ size[r] \in Int
      BY <1>3, <1>a, <2>1, SizesAssumption DEF AddSource, Becomes, TypeOK, Weight, Stored
    <3>2. QED
      BY <1>a, <1>b, <2>1, <3>1, RowPosted
  <2>3. SummedNext(notes', Notes, Stored)
    <3>1. Weight(r, Notes, Stored)' = Weight(r, Notes, Stored) /\ notes' = notes
      BY <1>3, <2>1, SizesAssumption DEF AddSource, Becomes, TypeOK, Weight, Stored, sums
    <3>2. QED
      BY <1>a, <1>b, <2>1, <3>1, RowKept
  <2>4. SummedNext(open', Uploads, Pending)
    <3>1. Weight(r, Uploads, Pending)' = Weight(r, Uploads, Pending) /\ open' = open
      BY <1>3, <2>1, SizesAssumption DEF AddSource, Becomes, TypeOK, Weight, Pending, sums
    <3>2. QED
      BY <1>a, <1>b, <2>1, <3>1, RowKept
  <2>5. SummedNext(lapsed', Uploads, Late)
    <3>1. Weight(r, Uploads, Late)' = Weight(r, Uploads, Late) /\ lapsed' = lapsed
      BY <1>3, <2>1, SizesAssumption DEF AddSource, Becomes, TypeOK, Weight, Late, sums
    <3>2. QED
      BY <1>a, <1>b, <2>1, <3>1, RowKept
  <2>6. QED
    BY <2>2, <2>3, <2>4, <2>5, TablesNext
<1>4. ASSUME NEW r \in Items, CreateMaterial(r) PROVE SumsExact'
  <2>1. r \in Items /\ owner' = owner /\ \A k \in Items : k # r => status'[k] = status[k] /\ size'[k] = size[k]
    BY <1>4 DEF CreateMaterial, Becomes, TypeOK
  <2>2. SummedNext(solid', Uploads, Stored)
    <3>1. Weight(r, Uploads, Stored)' = Weight(r, Uploads, Stored) /\ solid' = solid
      BY <1>4, <2>1, SizesAssumption DEF CreateMaterial, Becomes, TypeOK, Weight, Stored, sums
    <3>2. QED
      BY <1>a, <1>b, <2>1, <3>1, RowKept
  <2>3. SummedNext(notes', Notes, Stored)
    <3>1. Weight(r, Notes, Stored)' - Weight(r, Notes, Stored) = size[r] /\ notes' = Post(notes, r, size[r]) /\ size[r] \in Int
      BY <1>4, <1>a, <2>1, SizesAssumption DEF CreateMaterial, Becomes, TypeOK, Weight, Stored
    <3>2. QED
      BY <1>a, <1>b, <2>1, <3>1, RowPosted
  <2>4. SummedNext(open', Uploads, Pending)
    <3>1. Weight(r, Uploads, Pending)' = Weight(r, Uploads, Pending) /\ open' = open
      BY <1>4, <2>1, SizesAssumption DEF CreateMaterial, Becomes, TypeOK, Weight, Pending, sums
    <3>2. QED
      BY <1>a, <1>b, <2>1, <3>1, RowKept
  <2>5. SummedNext(lapsed', Uploads, Late)
    <3>1. Weight(r, Uploads, Late)' = Weight(r, Uploads, Late) /\ lapsed' = lapsed
      BY <1>4, <2>1, SizesAssumption DEF CreateMaterial, Becomes, TypeOK, Weight, Late, sums
    <3>2. QED
      BY <1>a, <1>b, <2>1, <3>1, RowKept
  <2>6. QED
    BY <2>2, <2>3, <2>4, <2>5, TablesNext
<1>5. ASSUME NEW r \in Uploads, Deadline(r) PROVE SumsExact'
  <2>1. r \in Items /\ owner' = owner /\ \A k \in Items : k # r => status'[k] = status[k] /\ size'[k] = size[k]
    BY <1>5 DEF Deadline, Becomes, TypeOK
  <2>2. SummedNext(solid', Uploads, Stored)
    <3>1. Weight(r, Uploads, Stored)' = Weight(r, Uploads, Stored) /\ solid' = solid
      BY <1>5, <2>1, SizesAssumption DEF Deadline, Becomes, TypeOK, Weight, Stored, sums
    <3>2. QED
      BY <1>a, <1>b, <2>1, <3>1, RowKept
  <2>3. SummedNext(notes', Notes, Stored)
    <3>1. Weight(r, Notes, Stored)' = Weight(r, Notes, Stored) /\ notes' = notes
      BY <1>5, <2>1, SizesAssumption DEF Deadline, Becomes, TypeOK, Weight, Stored, sums
    <3>2. QED
      BY <1>a, <1>b, <2>1, <3>1, RowKept
  <2>4. SummedNext(open', Uploads, Pending)
    <3>1. Weight(r, Uploads, Pending)' = Weight(r, Uploads, Pending) /\ open' = open
      BY <1>5, <2>1, SizesAssumption DEF Deadline, Becomes, TypeOK, Weight, Pending, sums
    <3>2. QED
      BY <1>a, <1>b, <2>1, <3>1, RowKept
  <2>5. SummedNext(lapsed', Uploads, Late)
    <3>1. Weight(r, Uploads, Late)' - Weight(r, Uploads, Late) = size[r] /\ lapsed' = Post(lapsed, r, size[r]) /\ size[r] \in Int
      BY <1>5, <1>a, <2>1, SizesAssumption DEF Deadline, Becomes, TypeOK, Weight, Late
    <3>2. QED
      BY <1>a, <1>b, <2>1, <3>1, RowPosted
  <2>6. QED
    BY <2>2, <2>3, <2>4, <2>5, TablesNext
<1>6. ASSUME NEW r \in Uploads, Finalize(r) PROVE SumsExact'
  <2>1. r \in Items /\ owner' = owner /\ \A k \in Items : k # r => status'[k] = status[k] /\ size'[k] = size[k]
    BY <1>6 DEF Finalize, Becomes, TypeOK
  <2>2. SummedNext(solid', Uploads, Stored)
    <3>1. Weight(r, Uploads, Stored)' - Weight(r, Uploads, Stored) = size[r] /\ solid' = Post(solid, r, size[r]) /\ size[r] \in Int
      BY <1>6, <1>a, <2>1, SizesAssumption DEF Finalize, Becomes, TypeOK, Weight, Stored
    <3>2. QED
      BY <1>a, <1>b, <2>1, <3>1, RowPosted
  <2>3. SummedNext(notes', Notes, Stored)
    <3>1. Weight(r, Notes, Stored)' = Weight(r, Notes, Stored) /\ notes' = notes
      BY <1>6, <2>1, SizesAssumption DEF Finalize, Becomes, TypeOK, Weight, Stored, sums
    <3>2. QED
      BY <1>a, <1>b, <2>1, <3>1, RowKept
  <2>4. SummedNext(open', Uploads, Pending)
    <3>1. Weight(r, Uploads, Pending)' - Weight(r, Uploads, Pending) = -size[r] /\ open' = Post(open, r, -size[r]) /\ -size[r] \in Int
      BY <1>6, <1>a, <2>1, SizesAssumption DEF Finalize, Becomes, TypeOK, Weight, Pending
    <3>2. QED
      BY <1>a, <1>b, <2>1, <3>1, RowPosted
  <2>5. SummedNext(lapsed', Uploads, Late)
    <3>1. Weight(r, Uploads, Late)' = Weight(r, Uploads, Late) /\ lapsed' = lapsed
      BY <1>6, <2>1, SizesAssumption DEF Finalize, Becomes, TypeOK, Weight, Late, sums
    <3>2. QED
      BY <1>a, <1>b, <2>1, <3>1, RowKept
  <2>6. QED
    BY <2>2, <2>3, <2>4, <2>5, TablesNext
<1>7. ASSUME NEW r \in Uploads, Expire(r) PROVE SumsExact'
  <2>1. r \in Items /\ owner' = owner /\ \A k \in Items : k # r => status'[k] = status[k] /\ size'[k] = size[k]
    BY <1>7 DEF Expire, Becomes, TypeOK
  <2>2. SummedNext(solid', Uploads, Stored)
    <3>1. Weight(r, Uploads, Stored)' = Weight(r, Uploads, Stored) /\ solid' = solid
      BY <1>7, <2>1, SizesAssumption DEF Expire, Becomes, TypeOK, Weight, Stored, sums
    <3>2. QED
      BY <1>a, <1>b, <2>1, <3>1, RowKept
  <2>3. SummedNext(notes', Notes, Stored)
    <3>1. Weight(r, Notes, Stored)' = Weight(r, Notes, Stored) /\ notes' = notes
      BY <1>7, <2>1, SizesAssumption DEF Expire, Becomes, TypeOK, Weight, Stored, sums
    <3>2. QED
      BY <1>a, <1>b, <2>1, <3>1, RowKept
  <2>4. SummedNext(open', Uploads, Pending)
    <3>1. Weight(r, Uploads, Pending)' - Weight(r, Uploads, Pending) = -size[r] /\ open' = Post(open, r, -size[r]) /\ -size[r] \in Int
      BY <1>7, <1>a, <2>1, SizesAssumption DEF Expire, Becomes, TypeOK, Weight, Pending
    <3>2. QED
      BY <1>a, <1>b, <2>1, <3>1, RowPosted
  <2>5. SummedNext(lapsed', Uploads, Late)
    <3>1. CASE status[r] = "late"
      <4>1. Weight(r, Uploads, Late)' - Weight(r, Uploads, Late) = -size[r] /\ lapsed' = Post(lapsed, r, -size[r]) /\ -size[r] \in Int
        BY <1>7, <1>a, <2>1, <3>1 DEF Expire, Becomes, TypeOK, Weight, Late
      <4>2. QED
        BY <1>a, <1>b, <2>1, <4>1, RowPosted
    <3>2. CASE status[r] # "late"
      <4>1. Weight(r, Uploads, Late)' = Weight(r, Uploads, Late) /\ lapsed' = lapsed
        BY <1>7, <2>1, <3>2 DEF Expire, Becomes, TypeOK, Weight, Late
      <4>2. QED
        BY <1>a, <1>b, <2>1, <4>1, RowKept
    <3>3. QED
      BY <3>1, <3>2
  <2>6. QED
    BY <2>2, <2>3, <2>4, <2>5, TablesNext
<1>8. ASSUME NEW r \in Items, DeleteFile(r) PROVE SumsExact'
  <2>1. r \in Items /\ owner' = owner /\ \A k \in Items : k # r => status'[k] = status[k] /\ size'[k] = size[k]
    BY <1>8 DEF DeleteFile, Becomes, TypeOK
  <2>2. SummedNext(solid', Uploads, Stored)
    <3>1. Weight(r, Uploads, Stored)' - Weight(r, Uploads, Stored) = -size[r] /\ solid' = Post(solid, r, -size[r]) /\ -size[r] \in Int
      BY <1>8, <1>a, <2>1, SizesAssumption DEF DeleteFile, Becomes, TypeOK, Weight, Stored
    <3>2. QED
      BY <1>a, <1>b, <2>1, <3>1, RowPosted
  <2>3. SummedNext(notes', Notes, Stored)
    <3>1. Weight(r, Notes, Stored)' = Weight(r, Notes, Stored) /\ notes' = notes
      BY <1>8, <2>1, SizesAssumption DEF DeleteFile, Becomes, TypeOK, Weight, Stored, sums
    <3>2. QED
      BY <1>a, <1>b, <2>1, <3>1, RowKept
  <2>4. SummedNext(open', Uploads, Pending)
    <3>1. Weight(r, Uploads, Pending)' = Weight(r, Uploads, Pending) /\ open' = open
      BY <1>8, <2>1, SizesAssumption DEF DeleteFile, Becomes, TypeOK, Weight, Pending, sums
    <3>2. QED
      BY <1>a, <1>b, <2>1, <3>1, RowKept
  <2>5. SummedNext(lapsed', Uploads, Late)
    <3>1. Weight(r, Uploads, Late)' = Weight(r, Uploads, Late) /\ lapsed' = lapsed
      BY <1>8, <2>1, SizesAssumption DEF DeleteFile, Becomes, TypeOK, Weight, Late, sums
    <3>2. QED
      BY <1>a, <1>b, <2>1, <3>1, RowKept
  <2>6. QED
    BY <2>2, <2>3, <2>4, <2>5, TablesNext
<1>9. ASSUME NEW r \in Items, DeleteMaterial(r) PROVE SumsExact'
  <2>1. r \in Items /\ owner' = owner /\ \A k \in Items : k # r => status'[k] = status[k] /\ size'[k] = size[k]
    BY <1>9 DEF DeleteMaterial, Becomes, TypeOK
  <2>2. SummedNext(solid', Uploads, Stored)
    <3>1. Weight(r, Uploads, Stored)' = Weight(r, Uploads, Stored) /\ solid' = solid
      BY <1>9, <2>1, SizesAssumption DEF DeleteMaterial, Becomes, TypeOK, Weight, Stored, sums
    <3>2. QED
      BY <1>a, <1>b, <2>1, <3>1, RowKept
  <2>3. SummedNext(notes', Notes, Stored)
    <3>1. Weight(r, Notes, Stored)' - Weight(r, Notes, Stored) = -size[r] /\ notes' = Post(notes, r, -size[r]) /\ -size[r] \in Int
      BY <1>9, <1>a, <2>1, SizesAssumption DEF DeleteMaterial, Becomes, TypeOK, Weight, Stored
    <3>2. QED
      BY <1>a, <1>b, <2>1, <3>1, RowPosted
  <2>4. SummedNext(open', Uploads, Pending)
    <3>1. Weight(r, Uploads, Pending)' = Weight(r, Uploads, Pending) /\ open' = open
      BY <1>9, <2>1, SizesAssumption DEF DeleteMaterial, Becomes, TypeOK, Weight, Pending, sums
    <3>2. QED
      BY <1>a, <1>b, <2>1, <3>1, RowKept
  <2>5. SummedNext(lapsed', Uploads, Late)
    <3>1. Weight(r, Uploads, Late)' = Weight(r, Uploads, Late) /\ lapsed' = lapsed
      BY <1>9, <2>1, SizesAssumption DEF DeleteMaterial, Becomes, TypeOK, Weight, Late, sums
    <3>2. QED
      BY <1>a, <1>b, <2>1, <3>1, RowKept
  <2>6. QED
    BY <2>2, <2>3, <2>4, <2>5, TablesNext
<1>10. ASSUME NEW r \in Items, NEW n \in Sizes, EditMaterial(r, n) PROVE SumsExact'
  <2>1. r \in Items /\ owner' = owner /\ \A k \in Items : k # r => status'[k] = status[k] /\ size'[k] = size[k]
    BY <1>10 DEF EditMaterial, TypeOK
  <2>2. SummedNext(solid', Uploads, Stored)
    <3>1. Weight(r, Uploads, Stored)' = Weight(r, Uploads, Stored) /\ solid' = solid
      BY <1>10, <2>1, SizesAssumption DEF EditMaterial, TypeOK, Weight, Stored, sums
    <3>2. QED
      BY <1>a, <1>b, <2>1, <3>1, RowKept
  <2>3. SummedNext(notes', Notes, Stored)
    <3>1. Weight(r, Notes, Stored)' - Weight(r, Notes, Stored) = n - size[r] /\ notes' = Post(notes, r, n - size[r]) /\ n - size[r] \in Int
      BY <1>10, <1>a, <2>1, SizesAssumption DEF EditMaterial, TypeOK, Weight, Stored
    <3>2. QED
      BY <1>a, <1>b, <2>1, <3>1, RowPosted
  <2>4. SummedNext(open', Uploads, Pending)
    <3>1. Weight(r, Uploads, Pending)' = Weight(r, Uploads, Pending) /\ open' = open
      BY <1>10, <2>1, SizesAssumption DEF EditMaterial, TypeOK, Weight, Pending, sums
    <3>2. QED
      BY <1>a, <1>b, <2>1, <3>1, RowKept
  <2>5. SummedNext(lapsed', Uploads, Late)
    <3>1. Weight(r, Uploads, Late)' = Weight(r, Uploads, Late) /\ lapsed' = lapsed
      BY <1>10, <2>1, SizesAssumption DEF EditMaterial, TypeOK, Weight, Late, sums
    <3>2. QED
      BY <1>a, <1>b, <2>1, <3>1, RowKept
  <2>6. QED
    BY <2>2, <2>3, <2>4, <2>5, TablesNext
<1>11. ASSUME NEW w \in Workspaces, DeleteWorkspace(w) PROVE SumsExact'
  <2>1. /\ owner' = owner /\ size' = size
        /\ status' = [r \in Items |-> IF Home[r] = w THEN "gone" ELSE status[r]]
        /\ solid' = Drop(solid, w) /\ notes' = Drop(notes, w)
        /\ open' = Drop(open, w) /\ lapsed' = Drop(lapsed, w)
    BY <1>11 DEF DeleteWorkspace
  <2>2. "gone" \notin Stored /\ "gone" \notin Pending /\ "gone" \notin Late
    BY DEF Stored, Pending, Late
  <2>3. SummedNext(solid', Uploads, Stored) /\ SummedNext(notes', Notes, Stored)
    BY <1>a, <1>b, <2>1, <2>2, RowsDropped
  <2>4. SummedNext(open', Uploads, Pending) /\ SummedNext(lapsed', Uploads, Late)
    BY <1>a, <1>b, <2>1, <2>2, RowsDropped
  <2>5. QED
    BY <2>3, <2>4, TablesNext
<1>12. ASSUME NEW w \in Workspaces, NEW to \in Users, Transfer(w, to)
       PROVE  SumsExact'
  <2>1. /\ status' = status /\ size' = size
        /\ to # owner[w] /\ owner' = [owner EXCEPT ![w] = to]
        /\ solid' = Move(solid, w, to) /\ notes' = Move(notes, w, to)
        /\ open' = Move(open, w, to) /\ lapsed' = Move(lapsed, w, to)
    BY <1>12 DEF Transfer, rows
  <2>2. SummedNext(solid', Uploads, Stored) /\ SummedNext(notes', Notes, Stored)
    BY <1>a, <1>b, <2>1, RowsMoved
  <2>3. SummedNext(open', Uploads, Pending) /\ SummedNext(lapsed', Uploads, Late)
    BY <1>a, <1>b, <2>1, RowsMoved
  <2>4. QED
    BY <2>2, <2>3, TablesNext
<1>13. ASSUME UNCHANGED <<owner, rows, sums>> PROVE SumsExact'
  BY <1>13 DEF rows, sums, SumsExact, TableSums, UserSums, Rows, Paid
<1>14. ASSUME NEW u \in Users, Reconcile(u) PROVE SumsExact'
  BY <1>13, <1>14 DEF Reconcile
<1>15. CASE UNCHANGED vars
  BY <1>13, <1>15 DEF vars
<1>16. QED
  BY <1>1, <1>2, <1>3, <1>4, <1>5, <1>6, <1>7, <1>8, <1>9, <1>10, <1>11, <1>12,
     <1>14, <1>15 DEF Next, Create, Upload, Change

LEMMA InitSums == Init => SumsExact
<1> SUFFICES ASSUME Init PROVE SumsExact
  OBVIOUS
<1>1. ASSUME NEW S \in SUBSET Items, NEW T, "none" \notin T, NEW w \in Workspaces
      PROVE  SumFunctionOnSet(size, Rows(S, w, T)) = 0
  <2>1. Rows(S, w, T) = {}
    BY <1>1 DEF Init, StartsWithout, Rows
  <2>2. QED
    BY <2>1, SumEmpty
<1>2. ASSUME NEW u \in Users
      PROVE  SumFunctionOnSet([x \in Users \cup Workspaces |-> 0], Paid(u)) = 0
  <2> DEFINE z == [x \in Users \cup Workspaces |-> 0]
  <2>1. Paid(u) \subseteq Workspaces /\ IsFiniteSet(Paid(u))
    <3>1. Paid(u) \in SUBSET Workspaces
      BY DEF Paid
    <3>2. QED
      BY <3>1, IdsAssumption, FS_Subset
  <2>2. \A w \in Paid(u) : z[w] = 0
    BY <2>1
  <2>3. QED
    BY <2>1, <2>2, SumZero
<1>3. /\ Summed(solid, Uploads, Stored) /\ Summed(notes, Notes, Stored)
      /\ Summed(open, Uploads, Pending) /\ Summed(lapsed, Uploads, Late)
  BY <1>1, <1>2, UploadIsItem
  DEF Init, StartsWithout, Summed, TableSums, UserSums, Stored, Pending, Late
<1>4. QED
  BY <1>3, Tables
(* What the sums say of a table: the row is part of its workspace's sum,    *)
(* and the workspace of its owner's.                                        *)
LEMMA SumBounds ==
  ASSUME TypeOK, NEW S \in SUBSET Items, NEW T, NEW f \in Totals, Summed(f, S, T)
  PROVE  /\ \A u \in Users : f[u] \in Nat
         /\ \A w \in Workspaces : f[w] \in Nat /\ f[w] <= f[owner[w]]
         /\ \A r \in S : status[r] \in T => size[r] <= f[Payer(r)]
<1>1. \A w \in Workspaces : f[w] \in Nat
  BY TotalType
<1>2. ASSUME NEW u \in Users PROVE f[u] \in Nat
  <2>1. f[u] = SumFunctionOnSet(f, Paid(u))
    BY DEF Summed, UserSums
  <2>2. QED
    BY <2>1, PaidFacts, SumNat
<1>3. ASSUME NEW w \in Workspaces PROVE f[w] <= f[owner[w]]
  <2>1. owner[w] \in Users /\ w \in Paid(owner[w])
    BY DEF TypeOK, Paid
  <2>2. f[owner[w]] = SumFunctionOnSet(f, Paid(owner[w]))
    BY <2>1 DEF Summed, UserSums
  <2>3. QED
    BY <2>1, <2>2, PaidFacts, SumAtLeast
<1>4. ASSUME NEW r \in S, status[r] \in T PROVE size[r] <= f[Payer(r)]
  <2>1. Home[r] \in Workspaces /\ size[r] \in Nat /\ owner[Home[r]] \in Users
    BY ItemType DEF Payer
  <2>2. r \in Rows(S, Home[r], T)
    BY <1>4 DEF Rows
  <2>3. size[r] <= SumFunctionOnSet(size, Rows(S, Home[r], T))
    BY <2>2, RowsFacts, SumAtLeast
  <2>4. size[r] <= f[Home[r]] /\ f[Home[r]] <= f[owner[Home[r]]]
    BY <1>3, <2>1, <2>3 DEF Summed, TableSums
  <2>5. f[Home[r]] \in Nat /\ f[owner[Home[r]]] \in Nat
    BY <1>1, <1>2, <2>1
  <2>6. QED
    BY <2>1, <2>4, <2>5 DEF Payer
<1>5. QED
  BY <1>1, <1>2, <1>3, <1>4

(* A counter that is at least the total follows it without the clamp.       *)
LEMMA AdjustExact ==
  ASSUME TypeOK, NEW c \in [Users -> Nat], NEW r \in Items, NEW n \in Int,
         NEW f \in Totals, c[Payer(r)] + n >= 0, NEW v \in Users
  PROVE  /\ Adjust(c, Payer(r), n)[v] - c[v] = Post(f, r, n)[v] - f[v]
         /\ Adjust(c, Payer(r), n)[v] \in Nat /\ Post(f, r, n)[v] \in Int
<1>1. c[v] \in Nat /\ f[v] \in Int /\ Payer(r) \in Users /\ c[Payer(r)] \in Nat
  BY TotalType, ItemType
<1>2. Positive(c[Payer(r)] + n) = c[Payer(r)] + n
  BY <1>1 DEF Positive
<1>3. CASE v = Payer(r)
  <2>1. Adjust(c, Payer(r), n)[v] = c[v] + n
    BY <1>1, <1>2, <1>3 DEF Adjust
  <2>2. Post(f, r, n)[v] = f[v] + n
    BY <1>3, PostFacts
  <2>3. QED
    BY <1>1, <1>3, <2>1, <2>2
<1>4. CASE v # Payer(r)
  <2>1. Adjust(c, Payer(r), n)[v] = c[v]
    BY <1>1, <1>4 DEF Adjust
  <2>2. Post(f, r, n)[v] = f[v]
    BY <1>4, PostFacts
  <2>3. QED
    BY <1>1, <2>1, <2>2
<1>5. QED
  BY <1>3, <1>4

LEMMA DropExact ==
  ASSUME TypeOK, NEW c \in [Users -> Nat], NEW w \in Workspaces, NEW f \in Totals,
         f[w] <= c[owner[w]], NEW v \in Users
  PROVE  /\ Adjust(c, owner[w], -f[w])[v] - c[v] = Drop(f, w)[v] - f[v]
         /\ Adjust(c, owner[w], -f[w])[v] \in Nat /\ Drop(f, w)[v] \in Int
<1>1. /\ c[v] \in Nat /\ f[v] \in Int /\ owner[w] \in Users /\ c[owner[w]] \in Nat
      /\ f[w] \in Nat
  BY TotalType DEF TypeOK
<1>2. Positive(c[owner[w]] + (-f[w])) = c[owner[w]] + (-f[w])
  BY <1>1 DEF Positive
<1>3. CASE v = owner[w]
  <2>1. Adjust(c, owner[w], -f[w])[v] = c[v] + (-f[w])
    BY <1>1, <1>2, <1>3 DEF Adjust
  <2>2. Drop(f, w)[v] = f[v] - f[w]
    BY <1>3, DropFacts
  <2>3. QED
    BY <1>1, <1>3, <2>1, <2>2
<1>4. CASE v # owner[w]
  <2>1. Adjust(c, owner[w], -f[w])[v] = c[v]
    BY <1>1, <1>4 DEF Adjust
  <2>2. Drop(f, w)[v] = f[v]
    BY <1>4, DropFacts
  <2>3. QED
    BY <1>1, <2>1, <2>2
<1>5. QED
  BY <1>3, <1>4

LEMMA MoveExact ==
  ASSUME TypeOK, NEW c \in [Users -> Nat], NEW w \in Workspaces, NEW f \in Totals,
         NEW to \in Users, to # owner[w], NEW v \in Users,
         v = owner[w] => f[w] <= c[v]
  PROVE  /\ Adjust(Adjust(c, owner[w], -f[w]), to, f[w])[v] - c[v]
              = Move(f, w, to)[v] - f[v]
         /\ Adjust(Adjust(c, owner[w], -f[w]), to, f[w])[v] \in Nat
         /\ Move(f, w, to)[v] \in Int
<1>1. /\ c[v] \in Nat /\ f[v] \in Int /\ owner[w] \in Users /\ c[to] \in Nat
      /\ f[w] \in Nat /\ f[w] \in Int /\ -f[w] \in Int
  BY TotalType DEF TypeOK
<1> DEFINE g == Adjust(c, owner[w], -f[w])
<1>2. g \in [Users -> Nat] /\ \A x \in Users : x # owner[w] => g[x] = c[x]
  BY <1>1, AdjustFacts
<1>3. v = owner[w] => g[v] = c[v] - f[w]
  BY <1>1 DEF Adjust, Positive
<1> HIDE DEF g
<1>4. CASE v = owner[w]
  <2>1. Adjust(g, to, f[w])[v] = c[v] - f[w]
    <3>1. \A x \in Users : x # to => Adjust(g, to, f[w])[x] = g[x]
      BY <1>1, <1>2, AdjustFacts
    <3>2. QED
      BY <1>3, <1>4, <3>1
  <2>2. Move(f, w, to)[v] = f[v] - f[w]
    BY <1>4, MoveFacts
  <2>3. QED
    BY <1>1, <1>4, <2>1, <2>2 DEF g
<1>5. CASE v = to
  <2>1. g[to] = c[to] /\ Positive(c[to] + f[w]) = c[to] + f[w]
    BY <1>1, <1>2 DEF Positive
  <2>2. Adjust(g, to, f[w])[v] = c[v] + f[w]
    BY <1>1, <1>2, <1>5, <2>1 DEF Adjust
  <2>3. Move(f, w, to)[v] = f[v] + f[w]
    BY <1>5, MoveFacts
  <2>4. QED
    BY <1>1, <2>2, <2>3 DEF g
<1>6. CASE v # to /\ v # owner[w]
  <2>1. Adjust(g, to, f[w])[v] = c[v]
    BY <1>1, <1>2, <1>6, AdjustFacts
  <2>2. Move(f, w, to)[v] = f[v]
    BY <1>6, MoveFacts
  <2>3. QED
    BY <1>1, <2>1, <2>2 DEF g
<1>7. QED
  BY <1>4, <1>5, <1>6

(* Where no trigger clamps: the counter holds at least the stored bytes.    *)
UsedAboveSolid == \A u \in Users : used[u] >= solid[u]

LEMMA BytesNext ==
  /\ TypeOK /\ TypeOK' /\ SumsExact /\ UsedAboveSolid /\ BytesExact /\ [Next]_vars
  => UsedAboveSolid' /\ BytesExact'
<1> SUFFICES ASSUME TypeOK, TypeOK', SumsExact, UsedAboveSolid, BytesExact, [Next]_vars,
                    NEW v \in Users
             PROVE  used'[v] >= solid'[v] /\ used'[v] + deltas'[v] = solid'[v] + notes'[v]
  BY DEF UsedAboveSolid, BytesExact, Charged
<1> USE UploadIsItem
<1> DEFINE Holds == used'[v] >= solid'[v]
                    /\ used'[v] + deltas'[v] = solid'[v] + notes'[v]
<1>a. /\ used \in [Users -> Nat] /\ solid \in Totals /\ notes \in Totals
      /\ deltas \in [Users -> Int]
  BY DEF TypeOK
<1>b. /\ used[v] \in Nat /\ solid[v] \in Nat /\ notes[v] \in Nat /\ deltas[v] \in Int
      /\ used[v] >= solid[v] /\ used[v] + deltas[v] = solid[v] + notes[v]
  BY <1>a, Tables, SumBounds DEF UsedAboveSolid, BytesExact, Charged
<1>c. /\ Summed(solid, Uploads, Stored) /\ Summed(notes, Notes, Stored)
  BY Tables
<1>1. ASSUME UNCHANGED <<used, deltas, solid, notes>> PROVE Holds
  BY <1>b, <1>1
<1>2. ASSUME NEW r \in Items, AddSource(r) \/ Finalize(r) PROVE Holds
  <2>1. /\ used' = Adjust(used, Payer(r), size[r]) /\ solid' = Post(solid, r, size[r])
        /\ deltas' = deltas /\ notes' = notes
    BY <1>2 DEF AddSource, Finalize
  <2>2. size[r] \in Int /\ used[Payer(r)] + size[r] >= 0
    BY <1>a, ItemType
  <2>3. used'[v] - used[v] = solid'[v] - solid[v] /\ used'[v] \in Nat /\ solid'[v] \in Int
    BY <1>a, <2>1, <2>2, AdjustExact
  <2>4. QED
    BY <1>b, <2>1, <2>3
<1>3. ASSUME NEW r \in Items, DeleteFile(r) PROVE Holds
  <2>1. /\ used' = Adjust(used, Payer(r), -size[r]) /\ solid' = Post(solid, r, -size[r])
        /\ deltas' = deltas /\ notes' = notes
        /\ r \in Uploads /\ status[r] \in Stored
    BY <1>3 DEF DeleteFile, Stored
  <2>2. size[r] \in Int /\ Payer(r) \in Users /\ size[r] <= solid[Payer(r)]
        /\ solid[Payer(r)] <= used[Payer(r)] /\ used[Payer(r)] \in Nat
        /\ solid[Payer(r)] \in Nat
    BY <1>a, <1>c, <2>1, ItemType, SumBounds DEF UsedAboveSolid
  <2>3. -size[r] \in Int /\ used[Payer(r)] + (-size[r]) >= 0
    BY <2>2
  <2>4. used'[v] - used[v] = solid'[v] - solid[v] /\ used'[v] \in Nat /\ solid'[v] \in Int
    BY <1>a, <2>1, <2>3, AdjustExact
  <2>5. QED
    BY <1>b, <2>1, <2>4
<1>4. ASSUME NEW r \in Items, CreateMaterial(r) PROVE Holds
  <2>1. /\ used' = Adjust(used, Payer(r), size[r]) /\ notes' = Post(notes, r, size[r])
        /\ deltas' = deltas /\ solid' = solid
    BY <1>4 DEF CreateMaterial
  <2>2. size[r] \in Nat /\ size[r] \in Int /\ used[Payer(r)] + size[r] >= 0
    BY <1>a, ItemType
  <2>3. used'[v] - used[v] = notes'[v] - notes[v] /\ used'[v] \in Nat /\ notes'[v] \in Int
    BY <1>a, <2>1, <2>2, AdjustExact
  <2>4. notes'[v] >= notes[v]
    <3>1. v = Payer(r) => notes'[v] = notes[v] + size[r]
      BY <1>a, <2>1, <2>2, PostFacts
    <3>2. v # Payer(r) => notes'[v] = notes[v]
      BY <1>a, <2>1, <2>2, PostFacts
    <3>3. QED
      BY <1>b, <2>2, <3>1, <3>2
  <2>5. QED
    BY <1>b, <2>1, <2>3, <2>4
<1>5. ASSUME NEW r \in Items, NEW n \in Int,
             deltas'[v] = IF v = Payer(r) THEN deltas[v] + n ELSE deltas[v],
             notes' = Post(notes, r, n),
             used' = used, solid' = solid
      PROVE  Holds
  <2>1. CASE v = Payer(r)
    <3>1. notes'[v] = notes[v] + n /\ deltas'[v] = deltas[v] + n
      BY <1>a, <1>5, <2>1, PostFacts
    <3>2. QED
      BY <1>b, <1>5, <3>1
  <2>2. CASE v # Payer(r)
    <3>1. notes'[v] = notes[v] /\ deltas'[v] = deltas[v]
      BY <1>a, <1>5, <2>2, PostFacts
    <3>2. QED
      BY <1>b, <1>5, <3>1
  <2>3. QED
    BY <2>1, <2>2
<1>6. ASSUME NEW r \in Items, NEW n \in Sizes, EditMaterial(r, n) PROVE Holds
  <2>1. n - size[r] \in Int
    BY ItemType, SizeType
  <2>2. deltas'[v] = IF v = Payer(r) THEN deltas[v] + (n - size[r]) ELSE deltas[v]
    BY <1>6, <1>a DEF EditMaterial
  <2>3. QED
    BY <1>5, <1>6, <2>1, <2>2 DEF EditMaterial
<1>7. ASSUME NEW r \in Items, DeleteMaterial(r) PROVE Holds
  <2>1. size[r] \in Int /\ -size[r] \in Int /\ Payer(r) \in Users
    BY ItemType
  <2>2. deltas'[v] = IF v = Payer(r) THEN deltas[v] - size[r] ELSE deltas[v]
    BY <1>7, <1>a DEF DeleteMaterial
  <2>3. deltas'[v] = IF v = Payer(r) THEN deltas[v] + (-size[r]) ELSE deltas[v]
    BY <1>b, <2>1, <2>2
  <2>4. QED
    BY <1>5, <1>7, <2>1, <2>3 DEF DeleteMaterial
<1>8. ASSUME NEW w \in Workspaces, DeleteWorkspace(w) PROVE Holds
  <2>1. /\ used' = Adjust(used, owner[w], -solid[w]) /\ solid' = Drop(solid, w)
        /\ deltas' = [deltas EXCEPT ![owner[w]] = @ - notes[w]] /\ notes' = Drop(notes, w)
    BY <1>8 DEF DeleteWorkspace
  <2>2. solid[w] <= used[owner[w]]
    <3>1. /\ solid[w] <= solid[owner[w]] /\ solid[owner[w]] <= used[owner[w]]
          /\ solid[w] \in Nat /\ solid[owner[w]] \in Nat /\ used[owner[w]] \in Nat
      BY <1>a, <1>c, SumBounds DEF TypeOK, UsedAboveSolid
    <3>2. QED
      BY <3>1
  <2>3. used'[v] - used[v] = solid'[v] - solid[v] /\ used'[v] \in Nat /\ solid'[v] \in Int
    BY <1>a, <2>1, <2>2, DropExact
  <2>4. deltas'[v] - deltas[v] = notes'[v] - notes[v] /\ deltas'[v] \in Int
        /\ notes'[v] \in Int
    <3>1. notes[w] \in Int
      BY <1>a, TotalType
    <3>2. CASE v = owner[w]
      <4>1. notes'[v] = notes[v] - notes[w] /\ deltas'[v] = deltas[v] - notes[w]
        BY <1>a, <2>1, <3>2, DropFacts
      <4>2. QED
        BY <1>b, <3>1, <4>1
    <3>3. CASE v # owner[w]
      <4>1. notes'[v] = notes[v] /\ deltas'[v] = deltas[v]
        BY <1>a, <2>1, <3>3, DropFacts
      <4>2. QED
        BY <1>b, <4>1
    <3>4. QED
      BY <3>2, <3>3
  <2>5. QED
    BY <1>b, <2>3, <2>4
<1>9. ASSUME NEW w \in Workspaces, NEW to \in Users, Transfer(w, to) PROVE Holds
  <2>1. /\ used' = Adjust(Adjust(used, owner[w], -solid[w]), to, solid[w])
        /\ deltas' = [deltas EXCEPT ![owner[w]] = @ - notes[w], ![to] = @ + notes[w]]
        /\ solid' = Move(solid, w, to) /\ notes' = Move(notes, w, to) /\ to # owner[w]
    BY <1>9 DEF Transfer
  <2>2. v = owner[w] => solid[w] <= used[v]
    <3>1. /\ solid[w] <= solid[owner[w]] /\ solid[owner[w]] <= used[owner[w]]
          /\ solid[w] \in Nat /\ solid[owner[w]] \in Nat /\ used[owner[w]] \in Nat
      BY <1>a, <1>c, SumBounds DEF TypeOK, UsedAboveSolid
    <3>2. QED
      BY <3>1
  <2>3. used'[v] - used[v] = solid'[v] - solid[v] /\ used'[v] \in Nat /\ solid'[v] \in Int
    BY <1>a, <2>1, <2>2, MoveExact
  <2>4. deltas'[v] - deltas[v] = notes'[v] - notes[v] /\ deltas'[v] \in Int
        /\ notes'[v] \in Int
    <3>1. notes[w] \in Int /\ owner[w] \in Users
      BY <1>a, TotalType DEF TypeOK
    <3>2. CASE v = owner[w]
      <4>1. notes'[v] = notes[v] - notes[w] /\ deltas'[v] = deltas[v] - notes[w]
        BY <1>a, <2>1, <3>2, MoveFacts
      <4>2. QED
        BY <1>b, <3>1, <4>1
    <3>3. CASE v = to
      <4>1. notes'[v] = notes[v] + notes[w] /\ deltas'[v] = deltas[v] + notes[w]
        BY <1>a, <2>1, <3>1, <3>3, MoveFacts
      <4>2. QED
        BY <1>b, <3>1, <4>1
    <3>4. CASE v # to /\ v # owner[w]
      <4>1. notes'[v] = notes[v] /\ deltas'[v] = deltas[v]
        BY <1>a, <2>1, <3>4, MoveFacts
      <4>2. QED
        BY <1>b, <4>1
    <3>5. QED
      BY <3>2, <3>3, <3>4
  <2>5. QED
    BY <1>b, <2>3, <2>4
<1>10. ASSUME NEW u \in Users, Reconcile(u) PROVE Holds
  <2>1. /\ used' = [used EXCEPT ![u] = Positive(solid[u] + notes[u])]
        /\ deltas' = [deltas EXCEPT ![u] = 0] /\ solid' = solid /\ notes' = notes
    BY <1>10 DEF Reconcile, sums, Charged
  <2>2. CASE v = u
    <3>1. Positive(solid[v] + notes[v]) = solid[v] + notes[v]
      BY <1>b DEF Positive
    <3>2. used'[v] = solid[v] + notes[v] /\ deltas'[v] = 0
      BY <1>a, <2>1, <2>2, <3>1
    <3>3. QED
      BY <1>b, <2>1, <3>2
  <2>3. CASE v # u
    BY <1>a, <1>b, <2>1, <2>3
  <2>4. QED
    BY <2>2, <2>3
<1>11. ASSUME NEW r \in Items, NEW n \in Sizes, Ask(r, n) PROVE Holds
  BY <1>1, <1>11 DEF Ask, counters, sums
<1>12. ASSUME NEW r \in Items, Reserve(r) \/ Deadline(r) \/ Expire(r) PROVE Holds
  BY <1>1, <1>12 DEF Reserve, Deadline, Expire, counters
<1>13. CASE UNCHANGED vars
  BY <1>1, <1>13 DEF vars, counters, sums
<1>14. QED
  BY <1>2, <1>3, <1>4, <1>6, <1>7, <1>8, <1>9, <1>10, <1>11, <1>12, <1>13
  DEF Next, Create, Upload, Change

LEMMA InitBytes == Init => UsedAboveSolid /\ BytesExact /\ ReservationsExact
  BY DEF Init, StartsWithout, UsedAboveSolid, BytesExact, ReservationsExact, Charged

(* For any number of users, workspaces and rows: after any sequence of      *)
(* creations, edits, deletions, transfers and reconcile passes the counter  *)
(* and the unfolded deltas of a user are exactly the sizes of the rows of   *)
(* the workspaces the user owns, and no trigger's clamp swallows a byte.    *)
THEOREM BytesAddUp == Spec => []BytesOfRows
<1>1. Init => SumsExact /\ UsedAboveSolid /\ BytesExact
  BY InitSums, InitBytes
<1>2. SumsExact /\ BytesExact => BytesOfRows
  BY DEF BytesOfRows
<1>3. QED
  BY <1>1, <1>2, SumsNext, BytesNext, TypeCorrect, PTL DEF Spec

-----------------------------------------------------------------------------
(* The counter of reservations *)
LEMMA ReservationsNext ==
  TypeOK /\ TypeOK' /\ SumsExact /\ ReservationsExact /\ [Next]_vars => ReservationsExact'
<1> SUFFICES ASSUME TypeOK, TypeOK', SumsExact, ReservationsExact, [Next]_vars,
                    NEW v \in Users, v \notin slipped', v \notin leaked'
             PROVE  reserved'[v] = open'[v]
  BY DEF ReservationsExact
<1> USE UploadIsItem
<1>a. reserved \in [Users -> Nat] /\ open \in Totals /\ lapsed \in Totals
  BY DEF TypeOK
<1>b. Summed(open, Uploads, Pending)
  BY Tables
<1>c. reserved[v] \in Nat /\ open[v] \in Nat
  BY <1>a, <1>b, SumBounds
<1>d. v \notin slipped /\ v \notin leaked => reserved[v] = open[v]
  BY DEF ReservationsExact
<1>1. ASSUME UNCHANGED <<reserved, open, slipped, leaked>> PROVE reserved'[v] = open'[v]
  BY <1>d, <1>1
<1>2. ASSUME NEW r \in Items, Reserve(r) PROVE reserved'[v] = open'[v]
  <2>1. /\ reserved' = [reserved EXCEPT ![asked[r]] = @ + size[r]]
        /\ open' = Post(open, r, size[r])
    BY <1>2 DEF Reserve
  <2>2. size[r] \in Int /\ Payer(r) \in Users /\ asked[r] \in Users
    BY ItemType
  <2>3. CASE asked[r] = Payer(r)
    <3>1. v \notin slipped /\ v \notin leaked
      BY <1>2, <2>3 DEF Reserve
    <3>2. CASE v = Payer(r)
      <4>1. open'[v] = open[v] + size[r] /\ reserved'[v] = reserved[v] + size[r]
        BY <1>a, <2>1, <2>2, <2>3, <3>2, PostFacts
      <4>2. QED
        BY <1>d, <3>1, <4>1
    <3>3. CASE v # Payer(r)
      <4>1. open'[v] = open[v] /\ reserved'[v] = reserved[v]
        BY <1>a, <2>1, <2>2, <2>3, <3>3, PostFacts
      <4>2. QED
        BY <1>d, <3>1, <4>1
    <3>4. QED
      BY <3>2, <3>3
  <2>4. CASE asked[r] # Payer(r)
    <3>1. slipped' = slipped \cup {Payer(r)} /\ leaked' = leaked \cup {asked[r]}
      BY <1>2, <2>4 DEF Reserve
    <3>2. v # Payer(r) /\ v # asked[r] /\ v \notin slipped /\ v \notin leaked
      BY <3>1
    <3>3. open'[v] = open[v] /\ reserved'[v] = reserved[v]
      BY <1>a, <2>1, <2>2, <3>2, PostFacts
    <3>4. QED
      BY <1>d, <3>2, <3>3
  <2>5. QED
    BY <2>3, <2>4
<1>3. ASSUME NEW r \in Uploads, Finalize(r) \/ Expire(r) PROVE reserved'[v] = open'[v]
  <2>1. /\ reserved' = Adjust(reserved, Payer(r), -size[r])
        /\ open' = Post(open, r, -size[r]) /\ slipped' = slipped /\ leaked' = leaked
        /\ status[r] \in Pending
    BY <1>3 DEF Finalize, Expire, faults, Pending
  <2>2. size[r] \in Int /\ -size[r] \in Int /\ Payer(r) \in Users
    BY ItemType
  <2>3. reserved[v] = open[v]
    BY <1>d, <2>1
  <2>4. CASE v = Payer(r)
    <3>1. size[r] <= open[v]
      BY <1>a, <1>b, <2>1, <2>4, SumBounds
    <3>2. Positive(reserved[v] + (-size[r])) = reserved[v] + (-size[r])
      BY <1>c, <2>2, <2>3, <3>1 DEF Positive
    <3>3. reserved'[v] = reserved[v] + (-size[r])
      BY <1>a, <2>1, <2>4, <3>2 DEF Adjust
    <3>4. open'[v] = open[v] + (-size[r])
      BY <1>a, <2>1, <2>2, <2>4, PostFacts
    <3>5. QED
      BY <2>3, <3>3, <3>4
  <2>5. CASE v # Payer(r)
    <3>1. reserved'[v] = reserved[v]
      BY <1>a, <2>1, <2>5 DEF Adjust
    <3>2. open'[v] = open[v]
      <4>1. \A x \in Users : x # Payer(r) => Post(open, r, -size[r])[x] = open[x]
        BY <1>a, <2>2, PostFacts
      <4>2. QED
        BY <2>1, <2>5, <4>1
    <3>3. QED
      BY <2>3, <3>1, <3>2
  <2>6. QED
    BY <2>4, <2>5
<1>4. ASSUME NEW w \in Workspaces, DeleteWorkspace(w) PROVE reserved'[v] = open'[v]
  <2>1. /\ reserved' = Adjust(reserved, owner[w], -open[w]) /\ open' = Drop(open, w)
        /\ slipped' = slipped /\ leaked' = leaked
    BY <1>4 DEF DeleteWorkspace, faults
  <2>2. reserved[v] = open[v] /\ open[w] \in Nat /\ owner[w] \in Users
    BY <1>a, <1>d, <2>1, TotalType DEF TypeOK
  <2>3. CASE v = owner[w]
    <3>1. open[w] <= open[v]
      BY <1>a, <1>b, <2>3, SumBounds
    <3>2. Positive(reserved[v] + (-open[w])) = reserved[v] - open[w]
      BY <1>c, <2>2, <3>1 DEF Positive
    <3>3. reserved'[v] = reserved[v] - open[w]
      BY <1>a, <2>1, <2>3, <3>2 DEF Adjust
    <3>4. open'[v] = open[v] - open[w]
      BY <1>a, <2>1, <2>3, DropFacts
    <3>5. QED
      BY <2>2, <3>3, <3>4
  <2>4. CASE v # owner[w]
    <3>1. reserved'[v] = reserved[v]
      BY <1>a, <2>1, <2>4 DEF Adjust
    <3>2. open'[v] = open[v]
      BY <1>a, <2>1, <2>4, DropFacts
    <3>3. QED
      BY <2>2, <3>1, <3>2
  <2>5. QED
    BY <2>3, <2>4
<1>5. ASSUME NEW w \in Workspaces, NEW to \in Users, Transfer(w, to)
      PROVE  reserved'[v] = open'[v]
  <2>1. /\ reserved' = Adjust(Adjust(reserved, owner[w], -open[w]), to, open[w])
        /\ open' = Move(open, w, to) /\ to # owner[w]
        /\ slipped' = slipped /\ leaked' = leaked
    BY <1>5 DEF Transfer
  <2>2. reserved[v] = open[v]
    BY <1>d, <2>1
  <2>3. v = owner[w] => open[w] <= reserved[v]
    BY <1>a, <1>b, <2>2, SumBounds
  <2>4. reserved'[v] - reserved[v] = open'[v] - open[v] /\ reserved'[v] \in Nat
        /\ open'[v] \in Int
    BY <1>a, <2>1, <2>3, MoveExact
  <2>5. QED
    BY <1>c, <2>2, <2>4
<1>6. ASSUME NEW u \in Users, Reconcile(u) PROVE reserved'[v] = open'[v]
  <2>1. /\ reserved' = [reserved EXCEPT ![u] = Positive(open[u] - lapsed[u])]
        /\ open' = open /\ leaked' = leaked \ {u}
        /\ IF lapsed[u] = 0 THEN slipped' = slipped \ {u} ELSE slipped' = slipped \cup {u}
    BY <1>6 DEF Reconcile, sums
  <2>2. CASE v = u
    <3>1. lapsed[u] = 0
      BY <2>1, <2>2
    <3>2. Positive(open[v] - lapsed[v]) = open[v]
      BY <1>c, <2>2, <3>1 DEF Positive
    <3>3. QED
      BY <1>a, <2>1, <2>2, <3>2
  <2>3. CASE v # u
    <3>1. v \notin slipped /\ v \notin leaked
      BY <2>1, <2>3
    <3>2. QED
      BY <1>a, <1>d, <2>1, <2>3, <3>1
  <2>4. QED
    BY <2>2, <2>3
<1>7. ASSUME NEW r \in Items, NEW n \in Sizes, Ask(r, n) \/ EditMaterial(r, n)
      PROVE  reserved'[v] = open'[v]
  BY <1>1, <1>7 DEF Ask, EditMaterial, counters, sums, faults
<1>8. ASSUME NEW r \in Items, \/ AddSource(r) \/ CreateMaterial(r) \/ Deadline(r)
                              \/ DeleteFile(r) \/ DeleteMaterial(r)
      PROVE  reserved'[v] = open'[v]
  BY <1>1, <1>8 DEF AddSource, CreateMaterial, Deadline, DeleteFile, DeleteMaterial,
                    counters, faults
<1>9. CASE UNCHANGED vars
  BY <1>1, <1>9 DEF vars, counters, sums, faults
<1>10. QED
  BY <1>2, <1>3, <1>4, <1>5, <1>6, <1>7, <1>8, <1>9 DEF Next, Create, Upload, Change

(* For a user whose sessions were neither opened against a stale owner nor  *)
(* reconciled past their window, the counter of reservations is exactly the *)
(* bytes of the pending sessions: whichever of the completion, the sweep,   *)
(* the deletion and the transfer comes first releases them once.            *)
THEOREM ReservationsAddUp == Spec => []ReservationsExact
  BY InitBytes, InitSums, SumsNext, ReservationsNext, TypeCorrect, PTL DEF Spec

-----------------------------------------------------------------------------
(* The number of files: the gate counts the open sessions too. *)
Places(w) == Rows(Sources, w, {"stored", "pending"})
PlacesBounded == \A w \in Workspaces : Cardinality(Places(w)) <= MaxFiles

LEMMA PlacesFacts ==
  ASSUME NEW w
  PROVE  IsFiniteSet(Places(w)) /\ Cardinality(Places(w)) \in Nat
<1>1. Places(w) \in SUBSET Items
  BY UploadIsItem DEF Places, Rows
<1>2. QED
  BY <1>1, IdsAssumption, FS_Subset, FS_CardinalityType

(* A workspace gets at most one place more, and only where there was room. *)
LEMMA PlacesNext == TypeOK /\ PlacesBounded /\ [Next]_vars => PlacesBounded'
<1> SUFFICES ASSUME TypeOK, PlacesBounded, [Next]_vars, NEW w \in Workspaces
             PROVE  Cardinality(Places(w)') <= MaxFiles
  BY DEF PlacesBounded
<1> USE UploadIsItem
<1>a. /\ IsFiniteSet(Places(w)) /\ Cardinality(Places(w)) \in Nat /\ MaxFiles \in Nat
      /\ Cardinality(Places(w)) <= MaxFiles
  BY PlacesFacts, BoundsAssumption DEF PlacesBounded
<1>1. ASSUME Places(w)' \subseteq Places(w) PROVE Cardinality(Places(w)') <= MaxFiles
  <2>1. /\ Cardinality(Places(w)') <= Cardinality(Places(w)) /\ IsFiniteSet(Places(w)')
    BY <1>a, <1>1, FS_Subset
  <2>2. Cardinality(Places(w)') \in Nat
    BY <2>1, FS_CardinalityType
  <2>3. QED
    BY <1>a, <2>1, <2>2
<1>2. ASSUME NEW r \in Items, Home[r] = w => Cardinality(Places(w)) < MaxFiles,
             Places(w)' \subseteq Places(w) \cup (IF Home[r] = w THEN {r} ELSE {})
      PROVE  Cardinality(Places(w)') <= MaxFiles
  <2>1. CASE Home[r] # w
    BY <1>1, <1>2, <2>1
  <2>2. CASE Home[r] = w
    <3>1. /\ IsFiniteSet(Places(w) \cup {r})
          /\ \/ Cardinality(Places(w) \cup {r}) = Cardinality(Places(w))
             \/ Cardinality(Places(w) \cup {r}) = Cardinality(Places(w)) + 1
      BY <1>a, FS_AddElement
    <3>2. /\ Cardinality(Places(w)') <= Cardinality(Places(w) \cup {r})
          /\ IsFiniteSet(Places(w)')
      BY <1>2, <2>2, <3>1, FS_Subset
    <3>3. Cardinality(Places(w)') \in Nat
      BY <3>2, FS_CardinalityType
    <3>4. QED
      BY <1>a, <1>2, <2>2, <3>1, <3>2, <3>3
  <2>3. QED
    BY <2>1, <2>2
<1>3. ASSUME NEW r \in Items, NEW n \in Sizes, Ask(r, n)
      PROVE  Places(w)' \subseteq Places(w)
  BY <1>3 DEF Ask, Places, Rows, Becomes, TypeOK
<1>4. ASSUME NEW r \in Items, Reserve(r) PROVE Cardinality(Places(w)') <= MaxFiles
  <2>1. CASE r \in Sources
    <3>1. Home[r] = w => Cardinality(Places(w)) < MaxFiles
      BY <1>4, <2>1 DEF Reserve, FileRoom, Places
    <3>2. Places(w)' \subseteq Places(w) \cup (IF Home[r] = w THEN {r} ELSE {})
      BY <1>4 DEF Reserve, Places, Rows, Becomes, TypeOK
    <3>3. QED
      BY <1>2, <3>1, <3>2
  <2>2. CASE r \notin Sources
    <3>1. Places(w)' \subseteq Places(w)
      BY <1>4, <2>2 DEF Reserve, Places, Rows, Becomes, TypeOK
    <3>2. QED
      BY <1>1, <3>1
  <2>3. QED
    BY <2>1, <2>2
<1>5. ASSUME NEW r \in Items, AddSource(r) PROVE Cardinality(Places(w)') <= MaxFiles
  <2>1. Home[r] = w => Cardinality(Places(w)) < MaxFiles
    BY <1>5 DEF AddSource, FileRoom, Places
  <2>2. Places(w)' \subseteq Places(w) \cup (IF Home[r] = w THEN {r} ELSE {})
    BY <1>5 DEF AddSource, Places, Rows, Becomes, TypeOK
  <2>3. QED
    BY <1>2, <2>1, <2>2
<1>6. ASSUME NEW r \in Items, CreateMaterial(r) PROVE Places(w)' \subseteq Places(w)
  BY <1>6, IdsAssumption DEF CreateMaterial, Places, Rows, Becomes, TypeOK
<1>7. ASSUME NEW r \in Items, Deadline(r) \/ Finalize(r) \/ Expire(r)
      PROVE  Places(w)' \subseteq Places(w)
  BY <1>7 DEF Deadline, Finalize, Expire, Places, Rows, Becomes, TypeOK
<1>8. ASSUME NEW r \in Items, DeleteFile(r) \/ DeleteMaterial(r)
      PROVE  Places(w)' \subseteq Places(w)
  BY <1>8 DEF DeleteFile, DeleteMaterial, Places, Rows, Becomes, TypeOK
<1>9. ASSUME NEW r \in Items, NEW n \in Sizes, EditMaterial(r, n)
      PROVE  Places(w)' \subseteq Places(w)
  BY <1>9 DEF EditMaterial, Places, Rows
<1>10. ASSUME NEW x \in Workspaces, DeleteWorkspace(x) PROVE Places(w)' \subseteq Places(w)
  BY <1>10 DEF DeleteWorkspace, Places, Rows
<1>11. ASSUME NEW x \in Workspaces, NEW to \in Users, Transfer(x, to)
       PROVE  Places(w)' \subseteq Places(w)
  BY <1>11 DEF Transfer, Places, Rows, rows
<1>12. ASSUME NEW u \in Users, Reconcile(u) PROVE Places(w)' \subseteq Places(w)
  BY <1>12 DEF Reconcile, Places, Rows, rows
<1>13. CASE UNCHANGED vars
  BY <1>1, <1>13 DEF vars, rows, Places, Rows
<1>14. QED
  BY <1>1, <1>3, <1>4, <1>5, <1>6, <1>7, <1>8, <1>9, <1>10, <1>11, <1>12, <1>13
  DEF Next, Create, Upload, Change

(* For any cap and any number of racing reservations, completions and       *)
(* direct creations, a workspace never has more files than the cap.         *)
THEOREM FileCapHolds == Spec => []FilesBounded
<1>1. Init => PlacesBounded
  <2> SUFFICES ASSUME Init, NEW w \in Workspaces PROVE Cardinality(Places(w)) <= MaxFiles
    BY DEF PlacesBounded
  <2>1. Places(w) = {}
    BY UploadIsItem DEF Init, StartsWithout, Places, Rows
  <2>2. QED
    BY <2>1, FS_EmptySet, BoundsAssumption
<1>2. PlacesBounded => FilesBounded
  <2> SUFFICES ASSUME PlacesBounded, NEW w \in Workspaces
               PROVE  Cardinality(Rows(Sources, w, {"stored"})) <= MaxFiles
    BY DEF FilesBounded
  <2> DEFINE F == Rows(Sources, w, {"stored"})
  <2>1. F \subseteq Places(w)
    BY DEF Places, Rows
  <2> HIDE DEF F
  <2>2. IsFiniteSet(Places(w)) /\ Cardinality(Places(w)) \in Nat
    BY PlacesFacts
  <2>3. Cardinality(F) <= Cardinality(Places(w)) /\ IsFiniteSet(F)
    BY <2>1, <2>2, FS_Subset
  <2>4. Cardinality(F) \in Nat /\ Cardinality(Places(w)) <= MaxFiles
    BY <2>3, FS_CardinalityType DEF PlacesBounded
  <2>5. Cardinality(F) <= MaxFiles
    BY <2>2, <2>3, <2>4, BoundsAssumption
  <2>6. QED
    BY <2>5 DEF F
<1>3. QED
  BY <1>1, <1>2, PlacesNext, TypeCorrect, PTL DEF Spec

-----------------------------------------------------------------------------
(* What breaks "concurrent uploads cannot both spend the same remaining    *)
(* quota": only a transfer or a reconcile pass makes the owner a handler   *)
(* read stale, or a counter forget a session.                              *)
Unmoved ==
  /\ transfers = 0 /\ owner = FirstOwner
  /\ \A r \in Items : asked[r] = Payer(r)
  /\ slipped = {} /\ leaked = {} /\ ungated = {}

LEMMA UnmovedNext ==
  ASSUME MaxTransfers = 0, Reconciling = FALSE
  PROVE  TypeOK /\ Unmoved /\ [Next]_vars => Unmoved'
<1> SUFFICES ASSUME TypeOK, Unmoved, [Next]_vars PROVE Unmoved'
  OBVIOUS
<1> USE DEF rows, sums, bounds, faults, counters
<1>1. ASSUME NEW r \in Items, NEW n \in Sizes, Ask(r, n) PROVE Unmoved'
  <2>1. asked' = [asked EXCEPT ![r] = Payer(r)] /\ UNCHANGED <<owner, transfers, slipped, leaked, ungated>>
    BY <1>1 DEF Ask
  <2>2. \A q \in Items : asked'[q] = Payer(q)'
    BY <2>1 DEF TypeOK, Unmoved, Payer
  <2>3. QED
    BY <2>1, <2>2 DEF Unmoved
<1>2. ASSUME NEW r \in Items, Reserve(r) \/ AddSource(r) \/ CreateMaterial(r) PROVE Unmoved'
  <2>1. asked[r] = Payer(r)
    BY DEF Unmoved
  <2>2. UNCHANGED <<transfers, owner, asked, slipped, leaked, ungated>>
    BY <1>2, <2>1 DEF Reserve, AddSource, CreateMaterial, NotesWhoWasGated
  <2>3. QED
    BY <2>2 DEF Unmoved, Payer
<1>3. ASSUME UNCHANGED <<transfers, owner, asked, slipped, leaked, ungated>> PROVE Unmoved'
  BY <1>3 DEF Unmoved, Payer
<1>4. CASE Upload
  BY <1>3, <1>4 DEF Upload, Deadline, Finalize, Expire
<1>5. CASE Change
  BY <1>3, <1>5 DEF Change, DeleteFile, DeleteMaterial, EditMaterial
<1>6. ASSUME NEW w \in Workspaces, DeleteWorkspace(w) PROVE Unmoved'
  BY <1>3, <1>6 DEF DeleteWorkspace
<1>7. ASSUME NEW w \in Workspaces, NEW to \in Users PROVE ~Transfer(w, to)
  BY DEF Transfer, Unmoved
<1>8. ASSUME NEW u \in Users PROVE ~Reconcile(u)
  BY DEF Reconcile
<1>9. CASE UNCHANGED vars
  BY <1>3, <1>9 DEF vars
<1>10. QED
  BY <1>1, <1>2, <1>4, <1>5, <1>6, <1>7, <1>8, <1>9 DEF Next, Create

(* Two uploads never spend the same remaining quota, and every pending      *)
(* session is in its owner's counter, as long as no workspace changes hands *)
(* and no reconcile pass runs: any number of handlers may race, stall       *)
(* between their read and their lock, or be late.  What the run             *)
(* storage_double_spend finds needs one of the two.                         *)
THEOREM NoDoubleSpendUndisturbed ==
  ASSUME MaxTransfers = 0, Reconciling = FALSE
  PROVE  Spec => [](NoDoubleSpend /\ \A u \in Users : reserved[u] = open[u])
<1>1. Init => Unmoved
  BY DEF Init, StartsWithout, Unmoved, Payer
<1>2. TypeOK /\ Unmoved /\ [Next]_vars => Unmoved'
  BY UnmovedNext
<1>3. TypeOK /\ Unmoved /\ SumsExact /\ QuotaHolds => NoDoubleSpend
  <2> SUFFICES ASSUME TypeOK, Unmoved, SumsExact, QuotaHolds, NEW u \in Users
               PROVE  Charged(u) + open[u] - lapsed[u] <= Limit[u] + grown[u]
    BY DEF NoDoubleSpend
  <2>1. Summed(lapsed, Uploads, Late) /\ lapsed \in Totals /\ Uploads \in SUBSET Items
    BY UploadIsItem DEF SumsExact, Summed, Late, TypeOK
  <2>2. lapsed[u] \in Nat
    BY <2>1, SumBounds
  <2>3. Charged(u) + open[u] <= Limit[u] + grown[u]
    BY DEF QuotaHolds, Unmoved
  <2>4. /\ solid[u] \in Int /\ notes[u] \in Int /\ open[u] \in Int
        /\ Limit[u] \in Int /\ grown[u] \in Int
    BY LimitAssumption DEF TypeOK, Totals
  <2>5. QED
    BY <2>2, <2>3, <2>4 DEF Charged
<1>4. Unmoved /\ ReservationsExact => \A u \in Users : reserved[u] = open[u]
  BY DEF Unmoved, ReservationsExact
<1>5. QED
  BY <1>1, <1>2, <1>3, <1>4, InitSums, SumsNext, TypeCorrect, PlanLimitHolds, ReservationsAddUp, PTL DEF Spec
=============================================================================

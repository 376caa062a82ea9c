------------------------ MODULE BlobLifecycleProofs ------------------------
(***************************************************************************)
(* Proofs about BlobLifecycle, for any uploads, clones, requests and       *)
(* reapers: its variables keep their types, OwnObjectKept, NeverOvercounted *)
(* and NoOrphans.                                                          *)
(*                                                                         *)
(* OwnObjectKept is not inductive: that no reaper takes the object of a    *)
(* live row rests on the path not being queued or claimed (Unwanted), that *)
(* on its reference being counted, and both on how an upload begins: until *)
(* its session leaves "pending", nobody has queued the path, no clone has  *)
(* copied it, and only a promoted object lets a request finalize.          *)
(***************************************************************************)
EXTENDS BlobLifecycle, Integers, FiniteSetTheorems, TLAPS

Fresh(p) == session[p] \in {"none", "pending"}
Kept(p) == row[p] \in {"live", "leaving"}

(* Neither queued nor in the hands of a reaper. *)
Unwanted(p) ==
  /\ queue[p] = "no"
  /\ \A r \in Reapers : p \notin claimed[r] /\ p \notin deleted[r]

(* Before the upload is finalized. *)
FreshInv(p) ==
  Fresh(p) =>
    /\ Private(p) /\ Unwanted(p)
    /\ IF p \in Assets /\ session[p] = "pending"
         THEN row[p] = "pending" /\ count[p] = 1
         ELSE row[p] = "none" /\ count[p] = 0

(* While the row lives and no clone copies it. *)
KeptInv(p) ==
  Private(p) /\ Kept(p) => p \in object /\ Unwanted(p) /\ count[p] = 1

(* A request is for a reserved upload, and has promoted the object by the  *)
(* time it finalizes.                                                      *)
CallInv(c) ==
  /\ call[c] # "idle" => session[Target[c]] # "none"
  /\ call[c] \in {"dropping", "finalizing"} /\ session[Target[c]] = "pending"
       => Target[c] \in object

Inv ==
  /\ TypeOK
  /\ \A p \in Paths : FreshInv(p) /\ KeptInv(p)
  /\ \A c \in Calls : CallInv(c)

USE DEF Paths, Rows

-----------------------------------------------------------------------------
(* Type correctness *)

LEMMA TypeInit == Init => TypeOK
  BY BoundsAssumption, OriginAssumption DEF Init, TypeOK

LEMMA PathTyped == ASSUME NEW x \in Rows PROVE PathOf(x) \in Paths
  BY OriginAssumption DEF PathOf

LEMMA RefTyped ==
  ASSUME TypeOK, NEW p \in Paths, Ref(p)
  PROVE  /\ count' \in [Paths -> Nat] /\ queue' \in [Paths -> {"no", "due", "later", "graced"}]
         /\ attempts' \in [Paths -> 0..MaxAttempts]
  BY BoundsAssumption DEF TypeOK, Ref

LEMMA EnqueueTyped ==
  ASSUME TypeOK, NEW p \in Paths, NEW how \in {"due", "graced"}, NEW n, Enqueue(p, how, n)
  PROVE  queue' \in [Paths -> {"no", "due", "later", "graced"}]
  BY DEF TypeOK, Enqueue, Postponed

LEMMA SetsTyped ==
  ASSUME TypeOK, NEW x \in Rows,
         NEW s \in {"none", "pending", "live", "leaving", "copied", "cloning", "gone"},
         Sets(x, s)
  PROVE  row' \in [Rows -> {"none", "pending", "live", "leaving", "copied", "cloning", "gone"}]
  BY DEF TypeOK, Sets

LEMMA UploadTyped == ASSUME TypeOK, Upload PROVE TypeOK'
<1> PICK p \in Paths :
       \/ Reserve(p) \/ Put(p) \/ Deadline(p) \/ Settle(p) \/ WrongSize(p)
       \/ Expire(p) \/ Discard(p) \/ DropSession(p)
  BY DEF Upload
<1>1. CASE Reserve(p)
  BY <1>1, RefTyped, SetsTyped DEF TypeOK, Reserve, bucket, reaping
<1>2. CASE Put(p) \/ Deadline(p) \/ Settle(p) \/ WrongSize(p)
  BY <1>2 DEF TypeOK, Put, Deadline, Settle, WrongSize, database, bucket, reaping
<1>3. CASE Expire(p) \/ DropSession(p)
  BY <1>3, EnqueueTyped DEF TypeOK, Expire, DropSession, bucket, reaping
<1>4. CASE Discard(p)
  BY <1>4, EnqueueTyped, SetsTyped DEF TypeOK, Discard, bucket, reaping
<1> QED BY <1>1, <1>2, <1>3, <1>4

LEMMA CompleteTyped == ASSUME TypeOK, Complete PROVE TypeOK'
<1> PICK c \in Calls : Check(c) \/ Copy(c) \/ Drop(c) \/ Finalize(c) \/ CallEnds(c)
  BY DEF Complete
<1>0. Target[c] \in Paths
  BY TargetAssumption
<1>1. CASE Check(c) \/ Copy(c) \/ Drop(c) \/ CallEnds(c)
  BY <1>0, <1>1 DEF TypeOK, Check, Copy, Drop, CallEnds, Proceeds, database, bucket, reaping
<1>2. CASE Finalize(c)
  BY <1>0, <1>2, RefTyped, SetsTyped DEF TypeOK, Finalize, Proceeds, bucket, reaping
<1> QED BY <1>1, <1>2

LEMMA RemoveTyped == ASSUME TypeOK, Remove PROVE TypeOK'
<1> PICK x \in Rows :
       \/ UnrefDecide(x) \/ UnrefAborts(x)
       \/ \E whole \in BOOLEAN : UnrefShared(x, whole) \/ UnrefLast(x, whole)
  BY DEF Remove
<1>0. PathOf(x) \in Paths
  BY PathTyped
<1>1. CASE UnrefDecide(x) \/ UnrefAborts(x)
  BY <1>1, SetsTyped DEF TypeOK, UnrefDecide, UnrefAborts, bucket, reaping
<1>2. ASSUME NEW whole \in BOOLEAN, UnrefShared(x, whole) PROVE TypeOK'
  BY <1>0, <1>2, SetsTyped DEF TypeOK, UnrefShared, Goes, bucket, reaping
<1>3. ASSUME NEW whole \in BOOLEAN, UnrefLast(x, whole) PROVE TypeOK'
  BY <1>0, <1>3, SetsTyped, EnqueueTyped DEF TypeOK, UnrefLast, Goes, bucket, reaping
<1> QED BY <1>1, <1>2, <1>3

LEMMA CloneTyped == ASSUME TypeOK, Clone PROVE TypeOK'
<1> PICK k \in Clones :
       CloneSnapshot(k) \/ CloneInsert(k) \/ CloneCommit(k) \/ CloneAborts(k)
  BY DEF Clone
<1>0. k \in Rows /\ Origin[k] \in Paths
  BY OriginAssumption
<1>1. CASE CloneSnapshot(k) \/ CloneInsert(k) \/ CloneAborts(k)
  BY <1>0, <1>1, SetsTyped
     DEF TypeOK, CloneSnapshot, CloneInsert, CloneAborts, bucket, reaping
<1>2. CASE CloneCommit(k)
  BY <1>0, <1>2, SetsTyped, RefTyped DEF TypeOK, CloneCommit, bucket, reaping
<1> QED BY <1>1, <1>2

LEMMA ReapTyped == ASSUME TypeOK, Reap PROVE TypeOK'
<1>1. ASSUME NEW p \in Paths, Backoff(p) PROVE TypeOK'
  BY <1>1 DEF TypeOK, Backoff, bucket, reaping
<1>2. ASSUME NEW r \in Reapers, Claim(r) PROVE TypeOK'
  <2>1. attempts' \in [Paths -> 0..MaxAttempts]
    BY <1>2, BoundsAssumption DEF TypeOK, Claim, Due
  <2> QED BY <1>2, <2>1 DEF TypeOK, Claim, bucket
<1>3. ASSUME NEW r \in Reapers, ReaperFails(r) PROVE TypeOK'
  BY <1>3, BoundsAssumption DEF TypeOK, ReaperFails, database, bucket
<1>4. ASSUME NEW r \in Reapers, Finish(r) PROVE TypeOK'
  BY <1>4, BoundsAssumption DEF TypeOK, Finish, bucket
<1>5. ASSUME NEW r \in Reapers, NEW bad \in SUBSET Paths, Delete(r, bad) PROVE TypeOK'
  <2>1. faults' \in 0..MaxFaults
    BY <1>5, BoundsAssumption DEF TypeOK, Delete
  <2> QED BY <1>5, <2>1 DEF TypeOK, Delete, database
<1> QED BY <1>1, <1>2, <1>3, <1>4, <1>5 DEF Reap

LEMMA TypeStep == TypeOK /\ [Next]_vars => TypeOK'
<1> SUFFICES ASSUME TypeOK, [Next]_vars PROVE TypeOK'
  OBVIOUS
<1>1. CASE UNCHANGED vars
  BY <1>1 DEF TypeOK, vars, database, bucket, reaping
<1> QED
  BY <1>1, UploadTyped, CompleteTyped, RemoveTyped, CloneTyped, ReapTyped DEF Next

(* Whatever the uploads, clones, requests and reapers: no count becomes    *)
(* negative and no path is tried more often than blobDeletionMaxAttempts.  *)
THEOREM TypeCorrect == Spec => []TypeOK
  BY TypeInit, TypeStep, PTL DEF Spec

-----------------------------------------------------------------------------
(* The inductive invariant *)

LEMMA PathOfPath == ASSUME NEW p \in Paths PROVE PathOf(p) = p /\ p \notin Clones
  BY RowsAssumption DEF PathOf

(* A path stays private only if the row that changes is no clone of it. *)
LEMMA PrivateBefore ==
  ASSUME TypeOK, NEW x \in Rows, NEW s, s # "none", Sets(x, s), NEW q, Private(q)'
  PROVE  Private(q) /\ (x \in Clones => Origin[x] # q)
  BY DEF TypeOK, Private, Sets

LEMMA PrivateKept ==
  ASSUME TypeOK, NEW x \in Rows, NEW s, Sets(x, s),
         NEW q, x \in Clones => Origin[x] # q, Private(q)
  PROVE  Private(q)'
  BY DEF TypeOK, Private, Sets

LEMMA PathSetsPrivate ==
  ASSUME TypeOK, NEW p \in Paths, NEW s, Sets(p, s), NEW q
  PROVE  Private(q)' <=> Private(q)
  BY PathOfPath DEF TypeOK, Private, Sets

LEMMA InvInit == Init => Inv
<1> SUFFICES ASSUME Init PROVE Inv
  OBVIOUS
<1>1. TypeOK
  BY TypeInit
<1>2. ASSUME NEW p \in Paths PROVE FreshInv(p) /\ KeptInv(p)
  BY <1>2 DEF Init, FreshInv, KeptInv, Kept, Unwanted, Private
<1>3. ASSUME NEW c \in Calls PROVE CallInv(c)
  BY <1>3 DEF Init, CallInv
<1> QED BY <1>1, <1>2, <1>3 DEF Inv

(* Upload: a step of one path leaves every other as it is. *)
LEMMA UploadPaths ==
  ASSUME Inv, Upload, NEW q \in Paths
  PROVE  FreshInv(q)' /\ KeptInv(q)'
<1> USE DEF Unwanted, Kept, Fresh
<1>0. TypeOK /\ FreshInv(q) /\ KeptInv(q)
  BY DEF Inv
<1> PICK p \in Paths :
       \/ Reserve(p) \/ Put(p) \/ Deadline(p) \/ Settle(p) \/ WrongSize(p)
       \/ Expire(p) \/ Discard(p) \/ DropSession(p)
  BY DEF Upload
<1>1. CASE Reserve(p) /\ p \in Assets
  <2>1. Private(q)' <=> Private(q)
    BY <1>0, <1>1, PathSetsPrivate DEF Reserve
  <2>2. CASE q = p
    BY <1>0, <1>1, <2>1, <2>2 DEF TypeOK, Reserve, Ref, Sets, FreshInv, KeptInv, reaping, bucket
  <2>3. CASE q # p
    BY <1>0, <1>1, <2>1, <2>3 DEF TypeOK, Reserve, Ref, Sets, FreshInv, KeptInv, reaping, bucket
  <2> QED BY <2>2, <2>3
<1>2. CASE Reserve(p) /\ p \notin Assets
  BY <1>0, <1>2 DEF TypeOK, Reserve, Private, FreshInv, KeptInv, reaping, bucket
<1>3. CASE Put(p) \/ Deadline(p) \/ Settle(p) \/ WrongSize(p)
  BY <1>0, <1>3
     DEF TypeOK, Put, Deadline, Settle, WrongSize, Private, FreshInv, KeptInv,
         database, bucket, reaping
<1>4. CASE Expire(p)
  BY <1>0, <1>4, RowsAssumption
     DEF TypeOK, Expire, Enqueue, Private, FreshInv, KeptInv, bucket, reaping
<1>5. CASE Discard(p)
  <2>1. Private(q)' <=> Private(q)
    BY <1>0, <1>5, PathSetsPrivate DEF Discard
  <2> QED
    BY <1>0, <1>5, <2>1
       DEF TypeOK, Discard, Sets, Enqueue, FreshInv, KeptInv, bucket, reaping
<1>6. CASE DropSession(p)
  BY <1>0, <1>6
     DEF TypeOK, DropSession, Enqueue, Private, FreshInv, KeptInv, bucket, reaping
<1> QED BY <1>1, <1>2, <1>3, <1>4, <1>5, <1>6

LEMMA CompletePaths ==
  ASSUME Inv, Complete, NEW q \in Paths
  PROVE  FreshInv(q)' /\ KeptInv(q)'
<1> USE DEF Unwanted, Kept, Fresh
<1>0. TypeOK /\ FreshInv(q) /\ KeptInv(q)
  BY DEF Inv
<1> PICK c \in Calls : Check(c) \/ Copy(c) \/ Drop(c) \/ Finalize(c) \/ CallEnds(c)
  BY DEF Complete
<1>1. Target[c] \in Paths /\ CallInv(c)
  BY TargetAssumption DEF Inv
<1>2. CASE Check(c) \/ Copy(c) \/ Drop(c) \/ CallEnds(c)
  BY <1>0, <1>2
     DEF TypeOK, Check, Copy, Drop, CallEnds, Private, FreshInv, KeptInv,
         database, bucket, reaping
<1>3. CASE Finalize(c)
  <2>1. Private(q)' <=> Private(q)
    BY <1>0, <1>1, <1>3, PathSetsPrivate DEF Finalize
  <2>2. CASE q = Target[c]
    BY <1>0, <1>1, <1>3, <2>1, <2>2, RowsAssumption
       DEF TypeOK, Finalize, CallInv, Sets, Ref, FreshInv, KeptInv, bucket, reaping
  <2>3. CASE q # Target[c]
    BY <1>0, <1>1, <1>3, <2>1, <2>3
       DEF TypeOK, Finalize, Sets, Ref, FreshInv, KeptInv, bucket, reaping
  <2> QED BY <2>2, <2>3
<1> QED BY <1>2, <1>3

(* Remove: the row that leaves is the path's own, or a clone of a path that *)
(* is not private.                                                          *)
LEMMA RemovePaths ==
  ASSUME Inv, Remove, NEW q \in Paths
  PROVE  FreshInv(q)' /\ KeptInv(q)'
<1> USE DEF Unwanted, Kept, Fresh
<1>0. TypeOK /\ FreshInv(q) /\ KeptInv(q)
  BY DEF Inv
<1> PICK x \in Rows :
       \/ UnrefDecide(x) \/ UnrefAborts(x)
       \/ \E whole \in BOOLEAN : UnrefShared(x, whole) \/ UnrefLast(x, whole)
  BY DEF Remove
<1>1. PathOf(x) \in Paths /\ (x \in Clones => PathOf(x) = Origin[x])
      /\ (x \notin Clones => PathOf(x) = x) /\ q \notin Clones
  BY PathTyped, PathOfPath DEF PathOf
<1>2. x \in Clones /\ row[x] # "none" => ~Private(Origin[x])
  BY DEF Private
<1>3. CASE UnrefDecide(x) \/ UnrefAborts(x)
  <2>1. Private(q)' => Private(q) /\ (x \in Clones => Origin[x] # q)
    BY <1>0, <1>3, PrivateBefore DEF UnrefDecide, UnrefAborts
  <2>2. Private(q) => Private(q)'
    BY <1>0, <1>2, <1>3, PrivateKept DEF UnrefDecide, UnrefAborts
  <2>3. FreshInv(q)'
    BY <1>0, <1>1, <1>3, <2>2
       DEF TypeOK, UnrefDecide, UnrefAborts, Sets, FreshInv, bucket, reaping
  <2>4. KeptInv(q)'
    BY <1>0, <1>1, <1>3, <2>1
       DEF TypeOK, UnrefDecide, UnrefAborts, Sets, KeptInv, bucket, reaping
  <2> QED BY <2>3, <2>4
<1>4. ASSUME NEW whole \in BOOLEAN, UnrefShared(x, whole)
      PROVE  FreshInv(q)' /\ KeptInv(q)'
  <2>1. Private(q)' => Private(q) /\ (x \in Clones => Origin[x] # q)
    BY <1>0, <1>4, PrivateBefore DEF UnrefShared, Goes
  <2>2. Private(q) => Private(q)'
    BY <1>0, <1>2, <1>4, PrivateKept DEF UnrefShared, Goes
  <2>3. session'[q] = session[q] \/ session'[q] = "deleted"
    BY <1>0, <1>4 DEF TypeOK, UnrefShared, Goes
  <2>4. Private(q) => PathOf(x) # q
    BY <1>0, <1>1, <1>2, <1>4 DEF UnrefShared, KeptInv
  <2>5. FreshInv(q)'
    BY <1>0, <1>1, <1>4, <2>2, <2>3, <2>4
       DEF TypeOK, UnrefShared, Goes, Sets, FreshInv, bucket, reaping
  <2>6. KeptInv(q)'
    BY <1>0, <1>1, <1>4, <2>1, <2>4
       DEF TypeOK, UnrefShared, Goes, Sets, KeptInv, bucket, reaping
  <2> QED BY <2>5, <2>6
<1>5. ASSUME NEW whole \in BOOLEAN, UnrefLast(x, whole)
      PROVE  FreshInv(q)' /\ KeptInv(q)'
  <2>1. Private(q)' => Private(q) /\ (x \in Clones => Origin[x] # q)
    BY <1>0, <1>5, PrivateBefore DEF UnrefLast, Goes
  <2>2. Private(q) => Private(q)'
    BY <1>0, <1>2, <1>5, PrivateKept DEF UnrefLast, Goes
  <2>3. session'[q] = session[q] \/ session'[q] = "deleted"
    BY <1>0, <1>5 DEF TypeOK, UnrefLast, Goes
  <2>4. Fresh(q) => PathOf(x) # q
    BY <1>0, <1>1, <1>2, <1>5 DEF UnrefLast, FreshInv
  <2>5. FreshInv(q)'
    BY <1>0, <1>1, <1>5, <2>2, <2>3, <2>4
       DEF TypeOK, UnrefLast, Goes, Sets, Enqueue, FreshInv, bucket, reaping
  <2>6. KeptInv(q)'
    BY <1>0, <1>1, <1>5, <2>1
       DEF TypeOK, UnrefLast, Goes, Sets, Enqueue, KeptInv, bucket, reaping
  <2> QED BY <2>5, <2>6
<1> QED BY <1>3, <1>4, <1>5

(* Clone: a fresh path has no row to copy; afterwards it is not private. *)
LEMMA ClonePaths ==
  ASSUME Inv, Clone, NEW q \in Paths
  PROVE  FreshInv(q)' /\ KeptInv(q)'
<1> USE DEF Unwanted, Kept, Fresh
<1>0. TypeOK /\ FreshInv(q) /\ KeptInv(q)
  BY DEF Inv
<1> PICK k \in Clones :
       CloneSnapshot(k) \/ CloneInsert(k) \/ CloneCommit(k) \/ CloneAborts(k)
  BY DEF Clone
<1>1. k \in Rows /\ Origin[k] \in Paths /\ q # k
  BY OriginAssumption, PathOfPath
<1>2. Private(q)' => Private(q) /\ Origin[k] # q
  BY <1>0, <1>1, PrivateBefore DEF CloneSnapshot, CloneInsert, CloneCommit, CloneAborts
<1>3. Fresh(q) => Origin[k] # q
  <2> SUFFICES ASSUME Fresh(q), Origin[k] = q PROVE FALSE
    OBVIOUS
  <2>1. row[k] = "none" /\ CloneSnapshot(k)
    BY <1>0 DEF FreshInv, Private, CloneSnapshot, CloneInsert, CloneCommit, CloneAborts
  <2>2. PICK x \in Rows : PathOf(x) = q /\ row[x] \in {"live", "leaving"}
    BY <2>1 DEF CloneSnapshot
  <2>3. CASE x \in Clones
    BY <1>0, <2>2, <2>3 DEF FreshInv, Private, PathOf
  <2>4. CASE x \notin Clones
    BY <1>0, <2>2, <2>4 DEF FreshInv, PathOf
  <2> QED BY <2>3, <2>4
<1>4. Private(q) /\ Origin[k] # q => Private(q)'
  BY <1>0, <1>1, PrivateKept DEF CloneSnapshot, CloneInsert, CloneCommit, CloneAborts
<1>5. CASE CloneSnapshot(k) \/ CloneInsert(k) \/ CloneAborts(k)
  BY <1>0, <1>1, <1>2, <1>3, <1>4, <1>5
     DEF TypeOK, CloneSnapshot, CloneInsert, CloneAborts, Sets, FreshInv, KeptInv,
         bucket, reaping
<1>6. CASE CloneCommit(k)
  BY <1>0, <1>1, <1>2, <1>3, <1>4, <1>6
     DEF TypeOK, CloneCommit, Sets, Ref, FreshInv, KeptInv, bucket, reaping
<1> QED BY <1>5, <1>6

(* Reap: an unwanted path is neither claimed nor deleted. *)
LEMMA ReapUnwanted ==
  ASSUME TypeOK, Reap, NEW q \in Paths, Unwanted(q)
  PROVE  Unwanted(q)' /\ (q \in object => q \in object')
<1>1. ASSUME NEW p \in Paths, Backoff(p) PROVE Unwanted(q)' /\ object' = object
  BY <1>1 DEF TypeOK, Unwanted, Backoff, bucket, reaping
<1>2. ASSUME NEW r \in Reapers, Claim(r) PROVE Unwanted(q)' /\ object' = object
  BY <1>2 DEF TypeOK, Unwanted, Claim, Due, bucket
<1>3. ASSUME NEW r \in Reapers, ReaperFails(r) \/ Finish(r)
      PROVE  Unwanted(q)' /\ object' = object
  BY <1>3 DEF TypeOK, Unwanted, ReaperFails, Finish, database, bucket
<1>4. ASSUME NEW r \in Reapers, NEW bad \in SUBSET Paths, Delete(r, bad)
      PROVE  Unwanted(q)' /\ (q \in object => q \in object')
  BY <1>4 DEF TypeOK, Unwanted, Delete, database
<1> QED BY <1>1, <1>2, <1>3, <1>4 DEF Reap

LEMMA ReapFrame == Reap => UNCHANGED <<session, row, count, call>>
  BY DEF Reap, Backoff, Claim, ReaperFails, Finish, Delete, database

LEMMA ReapPaths ==
  ASSUME Inv, Reap, NEW q \in Paths
  PROVE  FreshInv(q)' /\ KeptInv(q)'
  BY ReapUnwanted, ReapFrame DEF Inv, FreshInv, Fresh, KeptInv, Kept, Private

(* No step takes a promoted object from a request, and only Check and Drop *)
(* lead to "finalizing".                                                   *)
LEMMA CallStep ==
  ASSUME Inv, Next, NEW d \in Calls
  PROVE  CallInv(d)'
<1>0. TypeOK /\ CallInv(d) /\ Target[d] \in Paths /\ FreshInv(Target[d])
  BY TargetAssumption DEF Inv
<1>1. CASE Upload
  <2> PICK p \in Paths :
         \/ Reserve(p) \/ Put(p) \/ Deadline(p) \/ Settle(p) \/ WrongSize(p)
         \/ Expire(p) \/ Discard(p) \/ DropSession(p)
    BY <1>1 DEF Upload
  <2>1. CASE Reserve(p)
    BY <1>0, <2>1 DEF TypeOK, Reserve, CallInv, bucket
  <2>2. CASE Put(p) \/ Deadline(p) \/ Settle(p) \/ WrongSize(p)
    BY <1>0, <2>2
       DEF TypeOK, Put, Deadline, Settle, WrongSize, CallInv, database, bucket
  <2>3. CASE Expire(p) \/ Discard(p) \/ DropSession(p)
    BY <1>0, <2>3 DEF TypeOK, Expire, Discard, DropSession, CallInv, bucket
  <2> QED BY <2>1, <2>2, <2>3
<1>2. CASE Complete
  <2> PICK c \in Calls : Check(c) \/ Copy(c) \/ Drop(c) \/ Finalize(c) \/ CallEnds(c)
    BY <1>2 DEF Complete
  <2>1. Target[c] \in Paths
    BY TargetAssumption
  <2>2. CASE Check(c) \/ Copy(c) \/ Drop(c) \/ CallEnds(c)
    BY <1>0, <2>1, <2>2
       DEF TypeOK, Check, Copy, Drop, CallEnds, Proceeds, CallInv, database, bucket
  <2>3. CASE Finalize(c)
    BY <1>0, <2>1, <2>3 DEF TypeOK, Finalize, Proceeds, CallInv, bucket
  <2> QED BY <2>2, <2>3
<1>3. CASE Remove
  <2>1. UNCHANGED <<call, object>>
    BY <1>3 DEF Remove, UnrefDecide, UnrefAborts, UnrefShared, UnrefLast, bucket
  <2>2. session'[Target[d]] \in {session[Target[d]], "deleted"}
    BY <1>0, <1>3
       DEF TypeOK, Remove, UnrefDecide, UnrefAborts, UnrefShared, UnrefLast, Goes
  <2> QED BY <1>0, <2>1, <2>2 DEF CallInv
<1>4. CASE Clone
  BY <1>0, <1>4
     DEF Clone, CloneSnapshot, CloneInsert, CloneCommit, CloneAborts, CallInv, bucket
<1>5. CASE Reap
  BY <1>0, <1>5, ReapUnwanted, ReapFrame DEF CallInv, FreshInv, Fresh
<1> QED BY <1>1, <1>2, <1>3, <1>4, <1>5 DEF Next

LEMMA InvStep == Inv /\ [Next]_vars => Inv'
<1> SUFFICES ASSUME Inv, [Next]_vars PROVE Inv'
  OBVIOUS
<1>1. CASE Next
  <2>1. TypeOK'
    BY <1>1, TypeStep DEF Inv
  <2>2. ASSUME NEW q \in Paths PROVE FreshInv(q)' /\ KeptInv(q)'
    BY <1>1, <2>2, UploadPaths, CompletePaths, RemovePaths, ClonePaths, ReapPaths DEF Next
  <2>3. ASSUME NEW d \in Calls PROVE CallInv(d)'
    BY <1>1, <2>3, CallStep
  <2> QED BY <2>1, <2>2, <2>3 DEF Inv
<1>2. CASE UNCHANGED vars
  BY <1>2
     DEF Inv, TypeOK, FreshInv, KeptInv, CallInv, Fresh, Kept, Unwanted, Private,
         vars, database, bucket, reaping
<1> QED BY <1>1, <1>2

(* However many requests complete an upload, sweeps expire it, reapers and *)
(* deletions run and crash: the row of a path no clone copies never loses  *)
(* its object.                                                             *)
THEOREM OwnObjectSurvives == Spec => []OwnObjectKept
<1>1. Inv => OwnObjectKept
  BY DEF Inv, KeptInv, Kept, OwnObjectKept
<1> QED BY <1>1, InvInit, InvStep, PTL DEF Spec

(* Every step of the unshared case, stated on its own: a path that is live *)
(* and unshared is neither queued nor claimed, and is counted once.        *)
THEOREM LiveUnwanted ==
  Spec => [](\A p \in Paths : Private(p) /\ Kept(p) => Unwanted(p) /\ count[p] = 1)
<1>1. Inv => \A p \in Paths : Private(p) /\ Kept(p) => Unwanted(p) /\ count[p] = 1
  BY DEF Inv, KeptInv
<1> QED BY <1>1, InvInit, InvStep, PTL DEF Spec

-----------------------------------------------------------------------------
(* The counts.  A count is at most the rows that hold the path, and not     *)
(* equal to them: the DELETE of blob_unref, decided before a clone          *)
(* committed, takes the clone's reference along.                            *)

Counted == \A p \in Paths : count[p] <= Cardinality(Holders(p))

LEMMA HoldersFinite ==
  ASSUME NEW p \in Paths
  PROVE  /\ IsFiniteSet(Holders(p)) /\ Cardinality(Holders(p)) \in Nat
         /\ Cardinality(Holders(p)') \in Nat
<1>1. Holders(p) \in SUBSET Rows /\ Holders(p)' \in SUBSET Rows
  BY DEF Holders
<1> QED BY <1>1, RowsAssumption, FS_Subset, FS_CardinalityType

(* One row changes: it joins its path's holders, leaves them, or neither.   *)
LEMMA HoldersStep ==
  ASSUME TypeOK, NEW x \in Rows, NEW s, Sets(x, s), NEW p \in Paths
  PROVE  /\ PathOf(x) # p => Holders(p)' = Holders(p)
         /\ PathOf(x) = p /\ s \in Holding => Holders(p)' = Holders(p) \cup {x}
         /\ PathOf(x) = p /\ s \notin Holding => Holders(p)' = Holders(p) \ {x}
         /\ x \in Holders(p) <=> PathOf(x) = p /\ row[x] \in Holding
  BY DEF TypeOK, Sets, Holders, PathOf

LEMMA HoldersSame ==
  ASSUME row' = row, NEW p \in Paths
  PROVE  Holders(p)' = Holders(p)
  BY DEF Holders, PathOf

(* How many hold the path afterwards. *)
LEMMA HoldersCount ==
  ASSUME TypeOK, NEW x \in Rows, NEW s, Sets(x, s), NEW p \in Paths
  PROVE  Cardinality(Holders(p)') = Cardinality(Holders(p))
           + (IF PathOf(x) # p THEN 0
              ELSE IF s \in Holding /\ row[x] \notin Holding THEN 1
              ELSE IF s \notin Holding /\ row[x] \in Holding THEN -1 ELSE 0)
<1>1. IsFiniteSet(Holders(p)) /\ Cardinality(Holders(p)) \in Nat
  BY HoldersFinite
<1>2. CASE PathOf(x) # p
  BY <1>1, <1>2, HoldersStep
<1>3. CASE PathOf(x) = p /\ s \in Holding /\ row[x] \notin Holding
  <2>1. Holders(p)' = Holders(p) \cup {x} /\ x \notin Holders(p)
    BY <1>3, HoldersStep
  <2>2. Cardinality(Holders(p) \cup {x}) = Cardinality(Holders(p)) + 1
    BY <1>1, <2>1, FS_AddElement
  <2> QED BY <1>3, <2>1, <2>2
<1>4. CASE PathOf(x) = p /\ s \in Holding /\ row[x] \in Holding
  <2>1. Holders(p)' = Holders(p) \cup {x} /\ x \in Holders(p)
    BY <1>4, HoldersStep
  <2>2. Holders(p)' = Holders(p)
    BY <2>1
  <2> QED BY <1>1, <1>4, <2>2
<1>5. CASE PathOf(x) = p /\ s \notin Holding /\ row[x] \in Holding
  <2>1. Holders(p)' = Holders(p) \ {x} /\ x \in Holders(p)
    BY <1>5, HoldersStep
  <2>2. Cardinality(Holders(p) \ {x}) = Cardinality(Holders(p)) - 1
    BY <1>1, <2>1, FS_RemoveElement
  <2>3. Cardinality(Holders(p)) - 1 = Cardinality(Holders(p)) + (-1)
    BY <1>1
  <2> QED BY <1>5, <2>1, <2>2, <2>3
<1>6. CASE PathOf(x) = p /\ s \notin Holding /\ row[x] \notin Holding
  <2>1. Holders(p)' = Holders(p) \ {x} /\ x \notin Holders(p)
    BY <1>6, HoldersStep
  <2>2. Holders(p)' = Holders(p)
    BY <2>1
  <2> QED BY <1>1, <1>6, <2>2
<1> QED BY <1>2, <1>3, <1>4, <1>5, <1>6

LEMMA CountedUpload ==
  ASSUME Inv, Counted, Upload, NEW q \in Paths
  PROVE  count'[q] <= Cardinality(Holders(q)')
<1>0. /\ TypeOK /\ FreshInv(q) /\ count[q] <= Cardinality(Holders(q))
      /\ count[q] \in Nat /\ Cardinality(Holders(q)) \in Nat
      /\ Cardinality(Holders(q)') \in Nat
  BY HoldersFinite DEF Inv, TypeOK, Counted
<1>1. ASSUME count' = count, row' = row PROVE count'[q] <= Cardinality(Holders(q)')
  BY <1>0, <1>1, HoldersSame
<1> PICK p \in Paths :
       \/ Reserve(p) \/ Put(p) \/ Deadline(p) \/ Settle(p) \/ WrongSize(p)
       \/ Expire(p) \/ Discard(p) \/ DropSession(p)
  BY DEF Upload
<1>2. PathOf(p) = p /\ p \in Rows /\ "pending" \in Holding /\ "none" \notin Holding
  BY PathOfPath DEF Holding
<1>3. CASE Reserve(p) /\ p \in Assets
  <2>1. Sets(p, "pending") /\ Ref(p) /\ session[p] = "none"
    BY <1>3 DEF Reserve
  <2>2. FreshInv(p)
    BY DEF Inv
  <2>3. row[p] = "none"
    BY <2>1, <2>2 DEF FreshInv, Fresh
  <2>4. CASE q = p
    <3>1. count'[q] = count[q] + 1
      BY <1>0, <2>1, <2>4 DEF Ref, TypeOK
    <3>2. Cardinality(Holders(q)') = Cardinality(Holders(q)) + 1
      BY <1>0, <1>2, <2>1, <2>3, <2>4, HoldersCount
    <3> QED BY <1>0, <3>1, <3>2
  <2>5. CASE q # p
    <3>1. count'[q] = count[q]
      BY <1>0, <2>1, <2>5 DEF Ref, TypeOK
    <3>2. Cardinality(Holders(q)') = Cardinality(Holders(q))
      BY <1>0, <1>2, <2>1, <2>5, HoldersStep
    <3> QED BY <1>0, <3>1, <3>2
  <2> QED BY <2>4, <2>5
<1>4. CASE Discard(p)
  <2>1. Sets(p, "gone") /\ count' = [count EXCEPT ![p] = 0]
    BY <1>4 DEF Discard
  <2>2. CASE q = p
    BY <1>0, <2>1, <2>2 DEF TypeOK
  <2>3. CASE q # p
    <3>1. Holders(q)' = Holders(q)
      BY <1>0, <1>2, <2>1, <2>3, HoldersStep
    <3> QED BY <1>0, <2>1, <2>3, <3>1 DEF TypeOK
  <2> QED BY <2>2, <2>3
<1>5. CASE Reserve(p) /\ p \notin Assets
  BY <1>1, <1>5 DEF Reserve
<1>6. CASE Put(p) \/ Deadline(p) \/ Settle(p) \/ WrongSize(p) \/ Expire(p) \/ DropSession(p)
  BY <1>1, <1>6 DEF Put, Deadline, Settle, WrongSize, Expire, DropSession, database
<1> QED BY <1>3, <1>4, <1>5, <1>6

LEMMA CountedComplete ==
  ASSUME Inv, Counted, Complete, NEW q \in Paths
  PROVE  count'[q] <= Cardinality(Holders(q)')
<1>0. /\ TypeOK /\ count[q] <= Cardinality(Holders(q))
      /\ count[q] \in Nat /\ Cardinality(Holders(q)) \in Nat
      /\ Cardinality(Holders(q)') \in Nat
  BY HoldersFinite DEF Inv, TypeOK, Counted
<1> PICK c \in Calls : Check(c) \/ Copy(c) \/ Drop(c) \/ Finalize(c) \/ CallEnds(c)
  BY DEF Complete
<1> DEFINE p == Target[c]
<1>1. /\ p \in Paths /\ PathOf(p) = p /\ p \in Rows /\ FreshInv(p)
      /\ "live" \in Holding /\ "pending" \in Holding /\ "none" \notin Holding
  BY TargetAssumption, PathOfPath DEF Holding, Inv
<1>2. CASE Check(c) \/ Copy(c) \/ Drop(c) \/ CallEnds(c)
  <2>1. count' = count /\ row' = row
    BY <1>2 DEF Check, Copy, Drop, CallEnds, database
  <2> QED BY <1>0, <2>1, HoldersSame
<1>3. CASE Finalize(c)
  <2>1. /\ session[p] = "pending" /\ Sets(p, "live")
        /\ IF p \in Sources THEN Ref(p) ELSE count' = count
    BY <1>3 DEF Finalize
  <2> HIDE DEF p
  <2>2. IF p \in Sources THEN row[p] = "none" ELSE row[p] = "pending"
    BY <1>1, <2>1, RowsAssumption DEF FreshInv, Fresh
  <2>3. CASE q # p
    <3>1. Holders(q)' = Holders(q)
      BY <1>0, <1>1, <2>1, <2>3, HoldersStep
    <3>2. count'[q] = count[q]
      BY <1>0, <2>1, <2>3 DEF Ref, TypeOK
    <3> QED BY <1>0, <3>1, <3>2
  <2>4. CASE q = p /\ p \in Sources
    <3>1. count'[q] = count[q] + 1
      BY <1>0, <1>1, <2>1, <2>4 DEF Ref, TypeOK
    <3>2. Cardinality(Holders(q)') = Cardinality(Holders(q)) + 1
      BY <1>0, <1>1, <2>1, <2>2, <2>4, HoldersCount
    <3> QED BY <1>0, <3>1, <3>2
  <2>5. CASE q = p /\ p \notin Sources
    <3>1. Cardinality(Holders(q)') = Cardinality(Holders(q)) + 0
      BY <1>0, <1>1, <2>1, <2>2, <2>5, HoldersCount
    <3> QED BY <1>0, <2>1, <2>5, <3>1
  <2> QED BY <2>3, <2>4, <2>5
<1> QED BY <1>2, <1>3

LEMMA CountedRemove ==
  ASSUME Inv, Counted, Remove, NEW q \in Paths
  PROVE  count'[q] <= Cardinality(Holders(q)')
<1>0. /\ TypeOK /\ count[q] <= Cardinality(Holders(q))
      /\ count[q] \in Nat /\ Cardinality(Holders(q)) \in Nat
      /\ Cardinality(Holders(q)') \in Nat
  BY HoldersFinite DEF Inv, TypeOK, Counted
<1> PICK x \in Rows :
       \/ UnrefDecide(x) \/ UnrefAborts(x)
       \/ \E whole \in BOOLEAN : UnrefShared(x, whole) \/ UnrefLast(x, whole)
  BY DEF Remove
<1>1. /\ PathOf(x) \in Paths
      /\ "live" \in Holding /\ "leaving" \in Holding /\ "gone" \notin Holding
  BY PathTyped DEF Holding
<1>2. CASE UnrefDecide(x) \/ UnrefAborts(x)
  <2>1. /\ count' = count /\ row[x] \in Holding
        /\ \E s \in Holding : Sets(x, s)
    BY <1>1, <1>2 DEF UnrefDecide, UnrefAborts
  <2>2. PICK s \in Holding : Sets(x, s)
    BY <2>1
  <2>3. Cardinality(Holders(q)') = Cardinality(Holders(q)) + 0
    BY <1>0, <2>1, <2>2, HoldersCount
  <2> QED BY <1>0, <2>1, <2>3
<1>3. ASSUME NEW whole \in BOOLEAN, UnrefShared(x, whole)
      PROVE  count'[q] <= Cardinality(Holders(q)')
  <2>1. /\ Sets(x, "gone") /\ row[x] \in Holding
        /\ count' = [count EXCEPT ![PathOf(x)] = @ - 1]
    BY <1>1, <1>3 DEF UnrefShared, Goes
  <2>2. CASE PathOf(x) = q
    <3>1. Cardinality(Holders(q)') = Cardinality(Holders(q)) + (-1)
      BY <1>0, <1>1, <2>1, <2>2, HoldersCount
    <3>2. count'[q] = count[q] - 1
      BY <1>0, <2>1, <2>2 DEF TypeOK
    <3> QED BY <1>0, <3>1, <3>2
  <2>3. CASE PathOf(x) # q
    <3>1. Holders(q)' = Holders(q)
      BY <1>0, <2>1, <2>3, HoldersStep
    <3> QED BY <1>0, <2>1, <2>3, <3>1 DEF TypeOK
  <2> QED BY <2>2, <2>3
<1>4. ASSUME NEW whole \in BOOLEAN, UnrefLast(x, whole)
      PROVE  count'[q] <= Cardinality(Holders(q)')
  <2>1. Sets(x, "gone") /\ count' = [count EXCEPT ![PathOf(x)] = 0]
    BY <1>4 DEF UnrefLast, Goes
  <2>2. CASE PathOf(x) = q
    BY <1>0, <2>1, <2>2 DEF TypeOK
  <2>3. CASE PathOf(x) # q
    <3>1. Holders(q)' = Holders(q)
      BY <1>0, <2>1, <2>3, HoldersStep
    <3> QED BY <1>0, <2>1, <2>3, <3>1 DEF TypeOK
  <2> QED BY <2>2, <2>3
<1> QED BY <1>2, <1>3, <1>4

LEMMA CountedClone ==
  ASSUME Inv, Counted, Clone, NEW q \in Paths
  PROVE  count'[q] <= Cardinality(Holders(q)')
<1>0. /\ TypeOK /\ count[q] <= Cardinality(Holders(q))
      /\ count[q] \in Nat /\ Cardinality(Holders(q)) \in Nat
      /\ Cardinality(Holders(q)') \in Nat
  BY HoldersFinite DEF Inv, TypeOK, Counted
<1> PICK k \in Clones :
       CloneSnapshot(k) \/ CloneInsert(k) \/ CloneCommit(k) \/ CloneAborts(k)
  BY DEF Clone
<1> DEFINE Idle == {"none", "copied", "cloning", "gone"}
<1>1. /\ k \in Rows /\ Origin[k] \in Paths /\ PathOf(k) = Origin[k]
      /\ "live" \in Holding /\ \A s \in Idle : s \notin Holding
  BY OriginAssumption DEF Holding, PathOf
<1>2. CASE CloneSnapshot(k) \/ CloneInsert(k) \/ CloneAborts(k)
  <2>1. count' = count /\ row[k] \in Idle /\ \E s \in Idle : Sets(k, s)
    BY <1>2 DEF CloneSnapshot, CloneInsert, CloneAborts
  <2>2. PICK s \in Idle : Sets(k, s)
    BY <2>1
  <2>3. Cardinality(Holders(q)') = Cardinality(Holders(q)) + 0
    BY <1>0, <1>1, <2>1, <2>2, HoldersCount
  <2> QED BY <1>0, <2>1, <2>3
<1>3. CASE CloneCommit(k)
  <2>1. Sets(k, "live") /\ Ref(Origin[k]) /\ row[k] \in Idle
    BY <1>3 DEF CloneCommit
  <2>2. CASE Origin[k] = q
    <3>1. Cardinality(Holders(q)') = Cardinality(Holders(q)) + 1
      BY <1>0, <1>1, <2>1, <2>2, HoldersCount
    <3>2. count'[q] = count[q] + 1
      BY <1>0, <2>1, <2>2 DEF Ref, TypeOK
    <3> QED BY <1>0, <3>1, <3>2
  <2>3. CASE Origin[k] # q
    <3>1. Holders(q)' = Holders(q)
      BY <1>0, <1>1, <2>1, <2>3, HoldersStep
    <3> QED BY <1>0, <2>1, <2>3, <3>1 DEF Ref, TypeOK
  <2> QED BY <2>2, <2>3
<1> QED BY <1>2, <1>3

LEMMA CountedStep == Inv /\ Counted /\ [Next]_vars => Counted'
<1> SUFFICES ASSUME Inv, Counted, [Next]_vars, NEW q \in Paths
             PROVE  count'[q] <= Cardinality(Holders(q)')
  BY DEF Counted
<1>1. CASE Reap \/ UNCHANGED vars
  <2>1. count' = count /\ row' = row
    BY <1>1, ReapFrame DEF vars, database
  <2> QED BY <2>1, HoldersSame DEF Counted
<1> QED
  BY <1>1, CountedUpload, CountedComplete, CountedRemove, CountedClone DEF Next

(* However clones, deletions and uploads of the same object interleave, a   *)
(* count never exceeds the rows that hold the path, so nothing keeps an     *)
(* object for ever.                                                         *)
THEOREM CountsHeldRows == Spec => []NeverOvercounted
<1>1. Init => Counted
  <2> SUFFICES ASSUME Init, NEW p \in Paths PROVE count[p] <= Cardinality(Holders(p))
    BY DEF Counted
  <2>1. count[p] = 0 /\ Cardinality(Holders(p)) \in Nat
    BY HoldersFinite DEF Init
  <2> QED BY <2>1
<1>2. Counted => NeverOvercounted
  BY DEF Counted, NeverOvercounted
<1> QED BY <1>1, <1>2, InvInit, InvStep, CountedStep, PTL DEF Spec

-----------------------------------------------------------------------------
(* Objects nobody accounts for.  What a reaper has deleted is not there,   *)
(* unless a copy brought it back; and such a copy is only possible where   *)
(* a deletion did not wait for the requests: of an asset that no clone     *)
(* shares, every deletion does.                                            *)

Unclaimed(p) == \A r \in Reapers : p \notin claimed[r] /\ p \notin deleted[r]

(* A request may still copy. *)
OpenCall(c) == call[c] # "idle" => url[Target[c]] # "quiet"

(* An unshared asset that requests may still copy. *)
GraceInv(p) ==
  p \in Assets /\ Private(p) /\ url[p] # "quiet" =>
    /\ Unclaimed(p) /\ queue[p] \in {"no", "graced"}
    /\ session[p] \in {"none", "pending"} \/ (session[p] = "completed" /\ Kept(p))
       \/ (session[p] = "deleted" /\ row[p] = "gone" /\ queue[p] = "graced")

Accounted(p) ==
  /\ session[p] = "none" => p \notin object
  /\ p \in object \ stray =>
       /\ \A r \in Reapers : p \notin deleted[r]
       /\ \/ count[p] > 0 \/ queue[p] # "no"
          \/ session[p] \in {"pending", "completed", "expired"}

FullInv ==
  /\ Inv
  /\ \A p \in Paths : GraceInv(p) /\ Accounted(p)
  /\ \A c \in Calls : OpenCall(c)

LEMMA FullInit == Init => FullInv
<1> SUFFICES ASSUME Init PROVE FullInv
  OBVIOUS
<1>1. ASSUME NEW p \in Paths PROVE GraceInv(p) /\ Accounted(p)
  BY <1>1 DEF Init, GraceInv, Accounted, Unclaimed
<1>2. ASSUME NEW c \in Calls PROVE OpenCall(c)
  BY <1>2 DEF Init, OpenCall
<1> QED BY <1>1, <1>2, InvInit DEF FullInv

(* A URL only becomes quiet (Settle) when no request is under way, and one *)
(* only begins (Check) while it is open.                                   *)
LEMMA OpenCallStep ==
  ASSUME FullInv, Next, NEW d \in Calls
  PROVE  OpenCall(d)'
<1>0. TypeOK /\ OpenCall(d) /\ Target[d] \in Paths
  BY TargetAssumption DEF FullInv, Inv
<1>1. CASE Upload
  <2> PICK p \in Paths :
         \/ Reserve(p) \/ Put(p) \/ Deadline(p) \/ Settle(p) \/ WrongSize(p)
         \/ Expire(p) \/ Discard(p) \/ DropSession(p)
    BY <1>1 DEF Upload
  <2>1. CASE Deadline(p) \/ Settle(p)
    BY <1>0, <2>1 DEF TypeOK, Deadline, Settle, OpenCall
  <2>2. CASE Reserve(p) \/ Put(p) \/ WrongSize(p) \/ Expire(p) \/ Discard(p) \/ DropSession(p)
    BY <1>0, <2>2 DEF Reserve, Put, WrongSize, Expire, Discard, DropSession, OpenCall
  <2> QED BY <2>1, <2>2
<1>2. CASE Complete
  BY <1>0, <1>2
     DEF TypeOK, Complete, Check, Copy, Drop, Finalize, CallEnds, Proceeds, OpenCall
<1>3. CASE Remove
  BY <1>0, <1>3 DEF Remove, UnrefDecide, UnrefAborts, UnrefShared, UnrefLast, OpenCall
<1>4. CASE Clone
  BY <1>0, <1>4 DEF Clone, CloneSnapshot, CloneInsert, CloneCommit, CloneAborts, OpenCall
<1>5. CASE Reap
  BY <1>0, <1>5 DEF Reap, Backoff, Claim, ReaperFails, Finish, Delete, OpenCall
<1> QED BY <1>1, <1>2, <1>3, <1>4, <1>5 DEF Next

LEMMA UploadAccounts ==
  ASSUME FullInv, Upload, NEW q \in Paths
  PROVE  GraceInv(q)' /\ Accounted(q)'
<1> USE DEF Unclaimed, Kept
<1>0. TypeOK /\ FreshInv(q) /\ KeptInv(q) /\ GraceInv(q) /\ Accounted(q)
  BY DEF FullInv, Inv
<1> PICK p \in Paths :
       \/ Reserve(p) \/ Put(p) \/ Deadline(p) \/ Settle(p) \/ WrongSize(p)
       \/ Expire(p) \/ Discard(p) \/ DropSession(p)
  BY DEF Upload
<1>1. CASE Reserve(p)
  <2>1. Private(q)' <=> Private(q)
    BY <1>0, <1>1, PathSetsPrivate DEF Reserve, Private
  <2>2. GraceInv(q)'
    BY <1>0, <1>1, <2>1 DEF TypeOK, Reserve, Ref, Sets, GraceInv, bucket, reaping
  <2>3. Accounted(q)'
    BY <1>0, <1>1 DEF TypeOK, Reserve, Ref, Accounted, bucket, reaping
  <2> QED BY <2>2, <2>3
<1>2. CASE Put(p) \/ Deadline(p) \/ Settle(p) \/ WrongSize(p)
  BY <1>0, <1>2
     DEF TypeOK, Put, Deadline, Settle, WrongSize, Private, GraceInv, Accounted,
         database, bucket, reaping
<1>3. CASE Expire(p)
  BY <1>0, <1>3, RowsAssumption
     DEF TypeOK, Expire, Enqueue, Postponed, Private, GraceInv, Accounted, bucket, reaping
<1>4. CASE Discard(p)
  <2>1. Private(q)' <=> Private(q)
    BY <1>0, <1>4, PathSetsPrivate DEF Discard
  <2>2. GraceInv(q)'
    BY <1>0, <1>4, <2>1
       DEF TypeOK, Discard, Sets, Enqueue, Postponed, GraceInv, bucket, reaping
  <2>3. Accounted(q)'
    BY <1>0, <1>4 DEF TypeOK, Discard, Enqueue, Postponed, Accounted, bucket, reaping
  <2> QED BY <2>2, <2>3
<1>5. CASE DropSession(p)
  BY <1>0, <1>5, RowsAssumption
     DEF TypeOK, DropSession, Enqueue, Postponed, Private, GraceInv, Accounted,
         bucket, reaping
<1> QED BY <1>1, <1>2, <1>3, <1>4, <1>5

(* Copy: where the path is forgotten, it is shared or a source's, and      *)
(* becomes stray.                                                          *)
LEMMA CompleteAccounts ==
  ASSUME FullInv, Complete, NEW q \in Paths
  PROVE  GraceInv(q)' /\ Accounted(q)'
<1> USE DEF Unclaimed, Kept
<1>0. TypeOK /\ FreshInv(q) /\ KeptInv(q) /\ GraceInv(q) /\ Accounted(q)
  BY DEF FullInv, Inv
<1> PICK c \in Calls : Check(c) \/ Copy(c) \/ Drop(c) \/ Finalize(c) \/ CallEnds(c)
  BY DEF Complete
<1>1. Target[c] \in Paths /\ CallInv(c) /\ OpenCall(c)
  BY TargetAssumption DEF FullInv, Inv
<1>2. CASE Check(c) \/ Drop(c) \/ CallEnds(c)
  BY <1>0, <1>2
     DEF TypeOK, Check, Drop, CallEnds, Private, GraceInv, Accounted,
         database, bucket, reaping
<1>3. CASE Copy(c)
  <2>1. GraceInv(q)'
    BY <1>0, <1>3 DEF TypeOK, Copy, Private, GraceInv, database, reaping
  <2>2. /\ UNCHANGED <<session, count, queue, deleted>>
        /\ object' = object \cup {Target[c]} /\ stray \subseteq stray'
    BY <1>3 DEF Copy, database, reaping
  <2>3. CASE q # Target[c]
    BY <1>0, <2>1, <2>2, <2>3 DEF Accounted
  <2>4. CASE q = Target[c] /\ Forgotten(q)
    <3>1. session[q] # "none"
      BY <1>1, <1>3, <2>4 DEF Copy, CallInv
    <3>2. q \in stray'
      BY <1>3, <2>4 DEF Copy
    <3> QED BY <2>1, <2>2, <2>4, <3>1, <3>2 DEF Accounted
  <2>5. CASE q = Target[c] /\ ~Forgotten(q)
    <3>1. session[q] # "none" /\ url[q] # "quiet"
      BY <1>1, <1>3, <2>5 DEF Copy, CallInv, OpenCall
    <3>2. \A r \in Reapers : q \notin deleted[r]
      BY <1>0, <2>5, <3>1 DEF Forgotten, GraceInv, Private
    <3>3. session[q] = "deleted" => count[q] > 0 \/ queue[q] # "no"
      BY <1>0, <2>5, <3>1 DEF TypeOK, Forgotten, GraceInv, Private
    <3>4. session[q] \in {"none", "pending", "completed", "expired", "deleted"}
      BY <1>0 DEF TypeOK
    <3> QED BY <2>1, <2>2, <2>5, <3>1, <3>2, <3>3, <3>4 DEF Accounted
  <2> QED BY <2>1, <2>3, <2>4, <2>5
<1>4. CASE Finalize(c)
  <2>1. Private(q)' <=> Private(q)
    BY <1>0, <1>1, <1>4, PathSetsPrivate DEF Finalize
  <2>2. GraceInv(q)'
    BY <1>0, <1>1, <1>4, <2>1 DEF TypeOK, Finalize, Sets, Ref, GraceInv, bucket, reaping
  <2>3. Accounted(q)'
    BY <1>0, <1>1, <1>4 DEF TypeOK, Finalize, Ref, Accounted, bucket, reaping
  <2> QED BY <2>2, <2>3
<1> QED BY <1>2, <1>3, <1>4

LEMMA RemoveAccounts ==
  ASSUME FullInv, Remove, NEW q \in Paths
  PROVE  GraceInv(q)' /\ Accounted(q)'
<1> USE DEF Unclaimed, Kept
<1>0. TypeOK /\ FreshInv(q) /\ KeptInv(q) /\ GraceInv(q) /\ Accounted(q)
  BY DEF FullInv, Inv
<1> PICK x \in Rows :
       \/ UnrefDecide(x) \/ UnrefAborts(x)
       \/ \E whole \in BOOLEAN : UnrefShared(x, whole) \/ UnrefLast(x, whole)
  BY DEF Remove
<1>1. PathOf(x) \in Paths /\ (x \in Clones => PathOf(x) = Origin[x])
      /\ (x \notin Clones => PathOf(x) = x) /\ q \notin Clones
  BY PathTyped, PathOfPath DEF PathOf
<1>2. CASE UnrefDecide(x) \/ UnrefAborts(x)
  <2>1. Private(q)' => Private(q) /\ (x \in Clones => Origin[x] # q)
    BY <1>0, <1>2, PrivateBefore DEF UnrefDecide, UnrefAborts
  <2>2. GraceInv(q)'
    BY <1>0, <1>1, <1>2, <2>1
       DEF TypeOK, UnrefDecide, UnrefAborts, Sets, GraceInv, bucket, reaping
  <2>3. Accounted(q)'
    BY <1>0, <1>2 DEF TypeOK, UnrefDecide, UnrefAborts, Accounted, bucket, reaping
  <2> QED BY <2>2, <2>3
<1>3. ASSUME NEW whole \in BOOLEAN, UnrefShared(x, whole)
      PROVE  GraceInv(q)' /\ Accounted(q)'
  <2>1. Private(q)' => Private(q) /\ (x \in Clones => Origin[x] # q)
    BY <1>0, <1>3, PrivateBefore DEF UnrefShared, Goes
  <2>2. Private(q)' => PathOf(x) # q
    BY <1>0, <1>1, <1>3, <2>1 DEF UnrefShared, KeptInv
  <2>3. GraceInv(q)'
    BY <1>0, <1>1, <1>3, <2>1, <2>2
       DEF TypeOK, UnrefShared, Goes, Sets, GraceInv, bucket, reaping
  <2>4. Accounted(q)'
    BY <1>0, <1>1, <1>3 DEF TypeOK, UnrefShared, Goes, Accounted, bucket, reaping
  <2> QED BY <2>3, <2>4
<1>4. ASSUME NEW whole \in BOOLEAN, UnrefLast(x, whole)
      PROVE  GraceInv(q)' /\ Accounted(q)'
  <2>1. Private(q)' => Private(q) /\ (x \in Clones => Origin[x] # q)
    BY <1>0, <1>4, PrivateBefore DEF UnrefLast, Goes
  <2>2. Fresh(q) => PathOf(x) # q
    <3>1. Fresh(q) /\ PathOf(x) = q => x = q
      BY <1>1, <1>4, <1>0 DEF UnrefLast, FreshInv, Private
    <3> QED BY <1>0, <1>4, <3>1 DEF UnrefLast, FreshInv
  <2>3. CASE PathOf(x) # q
    BY <1>0, <1>1, <1>4, <2>1, <2>3
       DEF TypeOK, UnrefLast, Goes, Sets, Enqueue, GraceInv, Accounted, bucket, reaping
  <2>4. CASE PathOf(x) = q
    <3>1. Accounted(q)'
      BY <1>0, <1>1, <1>4, <2>2, <2>4
         DEF TypeOK, UnrefLast, Goes, Enqueue, Postponed, Accounted, Fresh, bucket, reaping
    <3>2. GraceInv(q)'
      BY <1>0, <1>1, <1>4, <2>1, <2>2, <2>4
         DEF TypeOK, UnrefLast, Goes, Sets, Enqueue, Postponed, GraceInv, Fresh,
             bucket, reaping
    <3> QED BY <3>1, <3>2
  <2> QED BY <2>3, <2>4
<1> QED BY <1>2, <1>3, <1>4

LEMMA CloneAccounts ==
  ASSUME FullInv, Clone, NEW q \in Paths
  PROVE  GraceInv(q)' /\ Accounted(q)'
<1> USE DEF Unclaimed, Kept
<1>0. TypeOK /\ GraceInv(q) /\ Accounted(q)
  BY DEF FullInv, Inv
<1> PICK k \in Clones :
       CloneSnapshot(k) \/ CloneInsert(k) \/ CloneCommit(k) \/ CloneAborts(k)
  BY DEF Clone
<1>1. k \in Rows /\ Origin[k] \in Paths /\ q # k
  BY OriginAssumption, PathOfPath
<1>2. Private(q)' => Private(q) /\ Origin[k] # q
  BY <1>0, <1>1, PrivateBefore DEF CloneSnapshot, CloneInsert, CloneCommit, CloneAborts
<1>3. CASE CloneSnapshot(k) \/ CloneInsert(k) \/ CloneAborts(k)
  BY <1>0, <1>1, <1>2, <1>3
     DEF TypeOK, CloneSnapshot, CloneInsert, CloneAborts, Sets, GraceInv, Accounted,
         bucket, reaping
<1>4. CASE CloneCommit(k)
  BY <1>0, <1>1, <1>2, <1>4
     DEF TypeOK, CloneCommit, Sets, Ref, GraceInv, Accounted, bucket, reaping
<1> QED BY <1>3, <1>4

(* Finish drops the queue row of paths whose objects are gone, or stray.   *)
LEMMA ReapAccounts ==
  ASSUME FullInv, Reap, NEW q \in Paths
  PROVE  GraceInv(q)' /\ Accounted(q)'
<1> USE DEF Unclaimed, Kept
<1>0. TypeOK /\ GraceInv(q) /\ Accounted(q)
  BY DEF FullInv, Inv
<1>1. ASSUME NEW p \in Paths, Backoff(p) PROVE GraceInv(q)' /\ Accounted(q)'
  BY <1>0, <1>1 DEF TypeOK, Backoff, Private, GraceInv, Accounted, bucket, reaping
<1>2. ASSUME NEW r \in Reapers, Claim(r) PROVE GraceInv(q)' /\ Accounted(q)'
  BY <1>0, <1>2 DEF TypeOK, Claim, Due, Private, GraceInv, Accounted, bucket
<1>3. ASSUME NEW r \in Reapers, ReaperFails(r) PROVE GraceInv(q)' /\ Accounted(q)'
  BY <1>0, <1>3 DEF TypeOK, ReaperFails, Private, GraceInv, Accounted, database, bucket
<1>4. ASSUME NEW r \in Reapers, Finish(r) PROVE GraceInv(q)' /\ Accounted(q)'
  BY <1>0, <1>4 DEF TypeOK, Finish, Private, GraceInv, Accounted, bucket
<1>5. ASSUME NEW r \in Reapers, NEW bad \in SUBSET Paths, Delete(r, bad)
      PROVE  GraceInv(q)' /\ Accounted(q)'
  BY <1>0, <1>5 DEF TypeOK, Delete, Private, GraceInv, Accounted, database
<1> QED BY <1>1, <1>2, <1>3, <1>4, <1>5 DEF Reap

LEMMA FullStep == FullInv /\ [Next]_vars => FullInv'
<1> SUFFICES ASSUME FullInv, [Next]_vars PROVE FullInv'
  OBVIOUS
<1>1. Inv'
  BY InvStep DEF FullInv
<1>2. CASE Next
  <2>1. ASSUME NEW q \in Paths PROVE GraceInv(q)' /\ Accounted(q)'
    BY <1>2, <2>1, UploadAccounts, CompleteAccounts, RemoveAccounts, CloneAccounts,
       ReapAccounts DEF Next
  <2>2. ASSUME NEW d \in Calls PROVE OpenCall(d)'
    BY <1>2, <2>2, OpenCallStep
  <2> QED BY <1>1, <2>1, <2>2 DEF FullInv
<1>3. CASE UNCHANGED vars
  BY <1>1, <1>3
     DEF FullInv, GraceInv, Accounted, OpenCall, Unclaimed, Kept, Private,
         vars, database, bucket, reaping
<1> QED BY <1>2, <1>3

(* No interleaving of reservation, completion, expiry, deletion, cloning   *)
(* and crashing reapers leaves an object that no reference, no queue row   *)
(* and no session accounts for, but where a late copy brought it back.     *)
THEOREM NothingOrphaned == Spec => []NoOrphans
<1>1. FullInv => NoOrphans
  BY DEF FullInv, Inv, TypeOK, Accounted, NoOrphans
<1> QED BY <1>1, FullInit, FullStep, PTL DEF Spec

-----------------------------------------------------------------------------
(* What the bucket deletes.  A batch is claimed with no reference left; a  *)
(* path can only come by one afterwards through a clone that had begun     *)
(* before, for its own uploads are over by then.                           *)

PendingInv(p) == row[p] = "pending" => session[p] = "pending"

LEMMA PendingInit == Init => \A p \in Paths : PendingInv(p)
  BY DEF Init, PendingInv

LEMMA PendingStep ==
  ASSUME Inv, NEW p \in Paths, PendingInv(p), [Next]_vars
  PROVE  PendingInv(p)'
<1>0. TypeOK /\ FreshInv(p)  BY DEF Inv
<1>1. CASE Upload
  <2>1. PICK q \in Paths : Reserve(q) \/ Put(q) \/ Deadline(q) \/ Settle(q) \/ WrongSize(q)
                           \/ Expire(q) \/ Discard(q) \/ DropSession(q)
    BY <1>1 DEF Upload
  <2>2. CASE Reserve(q)
    BY <1>0, <2>2 DEF Reserve, Sets, TypeOK, PendingInv
  <2>3. CASE Put(q) \/ Deadline(q) \/ Settle(q) \/ WrongSize(q)
    BY <2>3 DEF Put, Deadline, Settle, WrongSize, database, PendingInv
  <2>4. CASE Discard(q)
    BY <1>0, <2>4 DEF Discard, Sets, TypeOK, PendingInv
  <2>5. CASE Expire(q) \/ DropSession(q)
    <3>1. /\ row' = row /\ \E s : session' = [session EXCEPT ![q] = s]
          /\ session[q] = "pending" => q \in Sources
             \/ (session[q] # "pending" /\ url[q] = "quiet")
      BY <2>5 DEF Expire, DropSession
    <3>2. row[p] = "pending" => p \in Assets
      BY <1>0 DEF FreshInv, Fresh, PendingInv
    <3> QED BY <1>0, <3>1, <3>2, RowsAssumption DEF PendingInv, TypeOK
  <2> QED BY <2>1, <2>2, <2>3, <2>4, <2>5
<1>2. CASE Complete
  <2>1. PICK c \in Calls : Check(c) \/ Copy(c) \/ Drop(c) \/ Finalize(c) \/ CallEnds(c)
    BY <1>2 DEF Complete
  <2>2. CASE Finalize(c)
    BY <1>0, <2>2, TargetAssumption DEF Finalize, Sets, TypeOK, PendingInv
  <2>3. CASE ~Finalize(c)
    BY <2>1, <2>3 DEF Check, Copy, Drop, CallEnds, database, PendingInv
  <2> QED BY <2>2, <2>3
<1>3. CASE Remove
  <2>1. PICK x \in Rows : \/ UnrefDecide(x) \/ UnrefAborts(x)
                          \/ \E whole \in BOOLEAN : UnrefShared(x, whole) \/ UnrefLast(x, whole)
    BY <1>3 DEF Remove
  <2>2. /\ row[x] \in {"live", "leaving"}
        /\ \E s \in {"gone", "leaving", "live"} : row' = [row EXCEPT ![x] = s]
        /\ session' = session \/ (x \in Paths /\ session' = [session EXCEPT ![x] = "deleted"])
    BY <2>1 DEF UnrefDecide, UnrefAborts, UnrefShared, UnrefLast, Goes, Sets
  <2> QED BY <1>0, <2>2 DEF TypeOK, PendingInv
<1>4. CASE Clone
  <2>1. PICK k \in Clones : CloneSnapshot(k) \/ CloneInsert(k) \/ CloneCommit(k) \/ CloneAborts(k)
    BY <1>4 DEF Clone
  <2>2. session' = session /\ \E s : row' = [row EXCEPT ![k] = s]
    BY <2>1 DEF CloneSnapshot, CloneInsert, CloneCommit, CloneAborts, Sets
  <2> QED BY <1>0, <2>2, PathOfPath DEF TypeOK, PendingInv
<1>5. CASE Reap
  BY <1>5, ReapFrame DEF PendingInv
<1>6. CASE UNCHANGED vars
  BY <1>6 DEF vars, database, PendingInv
<1> QED BY <1>1, <1>2, <1>3, <1>4, <1>5, <1>6 DEF Next

(* What a reaper has in its hands counts no reference, unless a clone has  *)
(* begun to copy it.                                                       *)
LEMMA ClaimedUncounted ==
  ASSUME Inv, Counted, NEW p \in Paths, PendingInv(p), Private(p), NEW r \in Reapers, p \in claimed[r]
  PROVE  count[p] = 0
<1>0. TypeOK /\ FreshInv(p) /\ KeptInv(p)  BY DEF Inv
<1>1. ~Unwanted(p)  BY DEF Unwanted
<1>2. ~Fresh(p) /\ ~Kept(p)  BY <1>0, <1>1 DEF FreshInv, KeptInv
<1>3. row[p] \notin Holding  BY <1>2 DEF Fresh, Kept, PendingInv, Holding
<1>4. Holders(p) = {}
  <2> SUFFICES ASSUME NEW x \in Rows, PathOf(x) = p  PROVE row[x] \notin Holding
    BY DEF Holders
  <2>1. CASE x \in Clones  BY <2>1 DEF PathOf, Private, Holding
  <2>2. CASE x \notin Clones  BY <1>3, <2>2 DEF PathOf
  <2> QED BY <2>1, <2>2
<1>5. count[p] <= 0  BY <1>4, FS_EmptySet DEF Counted
<1> QED BY <1>0, <1>5 DEF TypeOK

LEMMA DeletedUncounted ==
  ASSUME Inv, Counted, \A p \in Paths : PendingInv(p), Next,
         NEW p \in Paths, p \in object, p \notin object'
  PROVE  count[p] = 0 \/ ~Private(p)
<1>1. ASSUME NEW r \in Reapers, NEW bad, Delete(r, bad)  PROVE count[p] = 0 \/ ~Private(p)
  <2>1. p \in claimed[r]  BY <1>1 DEF Delete
  <2> QED BY <2>1, ClaimedUncounted
<1>2. ~Upload
  BY DEF Upload, Reserve, Put, Deadline, Settle, WrongSize, Expire, Discard, DropSession, bucket
<1>3. ~Complete
  BY DEF Complete, Check, Copy, Drop, Finalize, CallEnds, bucket
<1>4. ~Remove
  BY DEF Remove, UnrefDecide, UnrefAborts, UnrefShared, UnrefLast, bucket
<1>5. ~Clone
  BY DEF Clone, CloneSnapshot, CloneInsert, CloneCommit, CloneAborts, bucket
<1>6. CASE Reap
  BY <1>1, <1>6 DEF Reap, Backoff, Claim, ReaperFails, Finish, bucket
<1> QED BY <1>2, <1>3, <1>4, <1>5, <1>6 DEF Next

(* The whole cause of what the run blob_reaper finds: the second check of   *)
(* ClaimBlobDeletions is enough for every object but those a clone has begun *)
(* to copy.  Nothing the owner of an upload, the sweep or another reaper     *)
(* does makes the bucket delete an object that a row references.             *)
THEOREM OnlyClonedObjectsAreLost ==
  Spec => [][\A p \in Paths : p \in object /\ p \notin object' => count[p] = 0 \/ ~Private(p)]_vars
<1> DEFINE PInv == \A p \in Paths : PendingInv(p)
<1>1. Init => Counted
  BY HoldersFinite DEF Init, Counted
<1>2. Inv /\ PInv /\ [Next]_vars => PInv'
  BY PendingStep
<1>3. Inv /\ Counted /\ PInv /\ [Next]_vars =>
        [\A p \in Paths : p \in object /\ p \notin object' => count[p] = 0 \/ ~Private(p)]_vars
  BY DeletedUncounted
<1>4. Init => PInv
  BY PendingInit
<1> HIDE DEF PInv
<1> QED BY <1>1, <1>2, <1>3, <1>4, InvInit, InvStep, CountedStep, PTL DEF Spec

(* Where nobody clones a workspace, ClaimBlobDeletions keeps its word.      *)
THEOREM ReaperSparesWithoutClones ==
  ASSUME Clones = {}
  PROVE  Spec => ReaperSparesReferenced
<1>1. [\A p \in Paths : p \in object /\ p \notin object' => count[p] = 0 \/ ~Private(p)]_vars =>
        [\A p \in Paths : p \in object /\ p \notin object' => count[p] = 0]_vars
  BY DEF Private
<1> QED BY <1>1, OnlyClonedObjectsAreLost, PTL DEF ReaperSparesReferenced
=============================================================================

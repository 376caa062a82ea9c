-------------------------- MODULE IngestJobsProofs --------------------------
(***************************************************************************)
(* Proofs about IngestJobs, for any jobs, files, hashes, workers, slots,   *)
(* attempts and faults.                                                    *)
(***************************************************************************)
EXTENDS IngestJobs, TLAPS

\* What the claims of the workers have to do with the jobs.
AttemptsNamed == \A w \in Workers : Job(w) \in Jobs => runs[w].attempt \in 1..attempts[Job(w)]
AttemptsDiffer ==
  \A v, w \in Workers : v # w /\ Job(v) \in Jobs /\ Job(v) = Job(w) => runs[v].attempt # runs[w].attempt
PendingCanRun == \A j \in Jobs : status[j] = "pending" => attempts[j] < MaxAttempts
AnnouncedFailed == \A w \in Workers : \A j \in announce[w] : status[j] = "failed"
BusyHasJob == \A w \in Workers : runs[w].phase # "idle" => Job(w) \in Jobs

ClaimInv == AttemptsNamed /\ AttemptsDiffer /\ PendingCanRun /\ AnnouncedFailed /\ BusyHasJob
IInv == TypeOK /\ ClaimInv

\* What the runs know of the content rows.
Knowing == {"attach", "wait", "copy", "vanished", "reattach", "index", "ready", "abandon"}
LinkHasRow == \A w \in Workers : runs[w].link = "live" => Digest(w) \in Hashes /\ rows[Digest(w)].state # "none"
KnowsDigest == \A w \in Workers : runs[w].phase \in Knowing => Digest(w) \in Digests[Job(w)]
\* The phases in which a run takes the row it holds for its own: to write it or to give it up.
Working == {"copy", "index", "ready", "vanished", "abandon"}
WriterOwns == \A w \in Workers : runs[w].phase \in Working /\ Holds(w) => rows[Digest(w)].owner = Job(w)
WrittenBeforeReady ==
  \A w \in Workers : runs[w].phase = "ready" /\ runs[w].link = "live" => rows[Digest(w)].chunks
Unlinked == \A w \in Workers : runs[w].phase \notin Knowing => runs[w].link = "none"

RowInv == Unlinked /\ LinkHasRow /\ KnowsDigest /\ WriterOwns /\ WrittenBeforeReady /\ ReadyHasChunks

\* Where the content of a file is, when its digests agree.
Deterministic == \A j \in Jobs : \A g, h \in Digests[j] : g = h
Found(j) == attached[j] \in Hashes /\ rows[attached[j]].state = "ready"
LinkAttached == \A w \in Workers : runs[w].link = "live" => file[Job(w)] = "gone" \/ attached[Job(w)] = Digest(w)
FinisherFound == \A w \in Workers : runs[w].phase = "finish" => file[Job(w)] = "gone" \/ Found(Job(w))
AttachedDigest == \A j \in Jobs : attached[j] = NoHash \/ attached[j] \in Digests[j]
FoundInv == LinkAttached /\ FinisherFound /\ AttachedDigest /\ Searchable
-----------------------------------------------------------------------------
(* How an action changes the runs. *)

\* Every run keeps its claim; only w changes phase, and nobody becomes idle.
GoesOn(w) ==
  /\ runs' \in [Workers -> RunType]
  /\ \A v \in Workers : /\ runs'[v].job = runs[v].job
                        /\ runs'[v].attempt = runs[v].attempt
                        /\ runs'[v].phase = runs[v].phase \/ v = w

LEMMA AfterType ==
  ASSUME runs \in [Workers -> RunType], NEW w \in Workers, NEW p \in Phases
  PROVE  /\ After(w, p) \in RunType
         /\ After(w, p).job = Job(w)
         /\ After(w, p).attempt = runs[w].attempt
         /\ After(w, p).phase = p
         /\ p \in Claim => After(w, p).link = "none"
         /\ p \notin Claim => After(w, p).link = runs[w].link /\ After(w, p).digest = Digest(w)
  BY DEF After, Only, Keeping, Idle, RunType, Phases, Job, Digest

LEMMA CutType ==
  ASSUME NEW rs \in [Workers -> RunType], NEW gone
  PROVE  /\ Cut(rs, gone) \in [Workers -> RunType]
         /\ \A v \in Workers : /\ Cut(rs, gone)[v].job = rs[v].job
                               /\ Cut(rs, gone)[v].attempt = rs[v].attempt
                               /\ Cut(rs, gone)[v].phase = rs[v].phase
                               /\ Cut(rs, gone)[v].digest = rs[v].digest
                               /\ Cut(rs, gone)[v].link = "live" <=> rs[v].link = "live" /\ rs[v].digest \notin gone
  BY DEF Cut, RunType

LEMMA GotoGoesOn ==
  ASSUME TypeOK, NEW w \in Workers, NEW p \in Phases, Goto(w, p)
  PROVE  GoesOn(w)
  <1>1. runs \in [Workers -> RunType]  BY DEF TypeOK
  <1>2. runs' = [runs EXCEPT ![w] = After(w, p)]  BY DEF Goto
  <1> QED BY <1>1, <1>2, AfterType DEF GoesOn, Job

LEMMA EraseGoesOn ==
  ASSUME TypeOK, NEW w \in Workers, NEW p \in Phases, NEW gone, Erase(gone, w, After(w, p))
  PROVE  GoesOn(w)
  <1> DEFINE rs == [runs EXCEPT ![w] = After(w, p)]
  <1>1. runs \in [Workers -> RunType]  BY DEF TypeOK
  <1>2. runs' = Cut(rs, gone)  BY DEF Erase
  <1>3. rs \in [Workers -> RunType]  BY <1>1, AfterType
  <1>4. \A v \in Workers : rs[v].job = runs[v].job /\ rs[v].attempt = runs[v].attempt
                           /\ (rs[v].phase = runs[v].phase \/ v = w)
    BY <1>1, AfterType DEF Job
  <1> HIDE DEF rs
  <1> QED BY <1>2, <1>3, <1>4, CutType DEF GoesOn

LEMMA AttachGoesOn ==
  ASSUME TypeOK, NEW w \in Workers, NEW p \in Phases, AttachTo(w, p)
  PROVE  GoesOn(w)
  <1> DEFINE r == IF p \in Claim THEN After(w, p) ELSE [After(w, p) EXCEPT !.link = "live"]
             rs == [runs EXCEPT ![w] = r]
  <1>1. runs \in [Workers -> RunType]  BY DEF TypeOK
  <1>2. runs' = Cut(rs, Unreferenced(Job(w)) \ {Digest(w)})  BY DEF AttachTo
  <1>3. r \in RunType /\ r.job = Job(w) /\ r.attempt = runs[w].attempt
    <2> DEFINE q == After(w, p)
    <2>1. q \in RunType /\ q.job = Job(w) /\ q.attempt = runs[w].attempt
      BY <1>1, AfterType
    <2>2. CASE p \in Claim  BY <2>1, <2>2
    <2>3. CASE p \notin Claim
      <3>1. r = [q EXCEPT !.link = "live"]  BY <2>3
      <3> HIDE DEF r, q
      <3> QED BY <2>1, <3>1 DEF RunType
    <2> QED BY <2>2, <2>3
  <1>4. rs \in [Workers -> RunType]  BY <1>1, <1>3
  <1>5. \A v \in Workers : rs[v].job = runs[v].job /\ rs[v].attempt = runs[v].attempt
                           /\ (rs[v].phase = runs[v].phase \/ v = w)
    BY <1>1, <1>3 DEF Job
  <1> HIDE DEF rs, r
  <1> QED BY <1>2, <1>4, <1>5, CutType DEF GoesOn

LEMMA IdleType == Idle \in RunType
  BY BoundsAssumption DEF Idle, RunType, Phases

LEMMA GoIdleType ==
  ASSUME TypeOK, NEW w \in Workers, GoIdle(w)
  PROVE  runs' \in [Workers -> RunType]
  BY IdleType DEF TypeOK, GoIdle

LEMMA RowTypes ==
  /\ NoRow \in RowType
  /\ \A rs \in [Hashes -> RowType] : \A gone : Without(rs, gone) \in [Hashes -> RowType]
  /\ \A att \in [Jobs -> Hashes \cup {NoHash}] : \A gone : Detached(att, gone) \in [Jobs -> Hashes \cup {NoHash}]
  BY DEF NoRow, RowType, Without, Detached

\* A row that is written, or declared ready.
LEMMA RowUpdate ==
  ASSUME NEW r \in RowType
  PROVE  /\ [r EXCEPT !.chunks = TRUE] \in RowType
         /\ [r EXCEPT !.state = "ready", !.owner = Nobody] \in RowType
  BY DEF RowType

\* The same of the table.
LEMMA RowUpdates ==
  ASSUME NEW rs \in [Hashes -> RowType], NEW h, NEW new,
         \/ new = rs
         \/ new = [rs EXCEPT ![h].chunks = TRUE]
         \/ new = [rs EXCEPT ![h].state = "ready", ![h].owner = Nobody]
  PROVE  new \in [Hashes -> RowType]
  <1> DEFINE written == [rs[h] EXCEPT !.chunks = TRUE]
             ready == [rs[h] EXCEPT !.state = "ready", !.owner = Nobody]
  <1>1. h \in Hashes => written \in RowType /\ ready \in RowType
    <2>1. h \in Hashes => rs[h] \in RowType  OBVIOUS
    <2> QED BY <2>1, RowUpdate
  <1>2. new = rs \/ new = [rs EXCEPT ![h] = written] \/ new = [rs EXCEPT ![h] = ready]
    OBVIOUS
  <1> HIDE DEF written, ready
  <1>3. [rs EXCEPT ![h] = written] \in [Hashes -> RowType] /\ [rs EXCEPT ![h] = ready] \in [Hashes -> RowType]
    BY <1>1
  <1> QED BY <1>2, <1>3

\* The phase of a run that has one: its job is a job.
LEMMA AtHasJob ==
  ASSUME IInv, NEW w \in Workers, NEW p, At(w, p), p # "idle"
  PROVE  Job(w) \in Jobs
  BY DEF IInv, ClaimInv, BusyHasJob, At
-----------------------------------------------------------------------------
(* The claims. *)

LEMMA GoesOnClaims ==
  ASSUME IInv, NEW w \in Workers, Job(w) \in Jobs, GoesOn(w), UNCHANGED <<status, attempts, announce>>
  PROVE  ClaimInv'
  <1> USE DEF IInv, ClaimInv, GoesOn, Job
  <1>1. AttemptsNamed'  BY DEF AttemptsNamed
  <1>2. AttemptsDiffer'  BY DEF AttemptsDiffer
  <1>3. PendingCanRun' /\ AnnouncedFailed'  BY DEF PendingCanRun, AnnouncedFailed
  <1>4. BusyHasJob'  BY DEF BusyHasJob
  <1> QED BY <1>1, <1>2, <1>3, <1>4

\* A worker that drops its run, while nobody's claim grows.
LEMMA IdleClaims ==
  ASSUME IInv, NEW w \in Workers, GoIdle(w), attempts' = attempts,
         \A j \in Jobs : status'[j] = "pending" => status[j] = "pending" \/ attempts[j] < MaxAttempts,
         \A j \in Jobs : status[j] = "failed" => status'[j] = "failed",
         \A v \in Workers : announce'[v] \subseteq announce[v]
  PROVE  ClaimInv'
  <1>1. \A v \in Workers \ {w} : runs'[v] = runs[v]
    BY DEF GoIdle, IInv, TypeOK
  <1>2. runs'[w].job = Nobody /\ runs'[w].phase = "idle"
    BY DEF GoIdle, IInv, TypeOK, Idle
  <1> USE DEF IInv, ClaimInv, Job
  <1>3. AttemptsNamed'  BY <1>1, <1>2, JobsAssumption DEF AttemptsNamed
  <1>4. AttemptsDiffer'  BY <1>1, <1>2, JobsAssumption DEF AttemptsDiffer
  <1>5. PendingCanRun'  BY DEF PendingCanRun
  <1>6. AnnouncedFailed'
    <2> SUFFICES ASSUME NEW v \in Workers, NEW j \in announce'[v]  PROVE status'[j] = "failed"
      BY DEF AnnouncedFailed
    <2>1. j \in announce[v]  OBVIOUS
    <2>2. j \in Jobs  BY <2>1 DEF TypeOK
    <2> QED BY <2>1, <2>2 DEF AnnouncedFailed
  <1>7. BusyHasJob'  BY <1>1, <1>2 DEF BusyHasJob
  <1> QED BY <1>3, <1>4, <1>5, <1>6, <1>7

LEMMA OutcomeTypes ==
  ASSUME TypeOK, NEW w \in Workers, NEW s \in {"pending", "done", "failed"},
         NEW f \in {"pending", "processing", "ready", "failed", "gone"}, NEW i \in BOOLEAN, Outcome(w, s, f, i)
  PROVE  /\ status' \in [Jobs -> {"pending", "running", "done", "failed"}]
         /\ lease' \in [Jobs -> {"none", "live", "expired"}]
         /\ file' \in [Jobs -> {"pending", "processing", "ready", "failed", "gone"}]
         /\ indexed' \in [Jobs -> BOOLEAN]
         /\ \A j \in Jobs : status'[j] = status[j] \/ (j = Job(w) /\ Claimed(w) /\ status'[j] = s)
         /\ \A j \in Jobs : status[j] # "running" => status'[j] = status[j]
  <1>1. CASE Claimed(w)
    <2>1. Job(w) \in Jobs /\ status[Job(w)] = "running"  BY <1>1 DEF Claimed
    <2>2. /\ status' = [status EXCEPT ![Job(w)] = s]
          /\ lease' = [lease EXCEPT ![Job(w)] = "none"]
          /\ file' = [file EXCEPT ![Job(w)] = IF @ = "gone" THEN "gone" ELSE f]
          /\ indexed' = [indexed EXCEPT ![Job(w)] = i]
      BY <1>1 DEF Outcome
    <2> QED BY <1>1, <2>1, <2>2 DEF TypeOK
  <1>2. CASE ~Claimed(w)
    BY <1>2 DEF Outcome, TypeOK, fileVars
  <1> QED BY <1>1, <1>2

LEMMA InitIInv == Init => IInv
  <1> SUFFICES ASSUME Init  PROVE IInv
    OBVIOUS
  <1> USE DEF Init, Job
  <1>1. TypeOK
    BY IdleType, RowTypes, BoundsAssumption DEF TypeOK
  <1>2. \A w \in Workers : Job(w) = Nobody /\ runs[w].phase = "idle"
    BY DEF Idle
  <1>3. ClaimInv
    BY <1>2, JobsAssumption, BoundsAssumption
       DEF ClaimInv, AttemptsNamed, AttemptsDiffer, PendingCanRun, AnnouncedFailed, BusyHasJob
  <1> QED BY <1>1, <1>3 DEF IInv

\* A poll claims a job with a number above every other, and sorts the late jobs.
LEMMA PollIInv ==
  ASSUME IInv, NEW w \in Workers, Poll(w)
  PROVE  IInv'
  <1> DEFINE New(c) == [Idle EXCEPT !.job = c, !.attempt = attempts[c] + 1, !.phase = "claimed"]
  <1>1. PICK c \in {j \in Jobs : status[j] = "pending"} \cup {Nobody} :
          /\ status' = [j \in Jobs |-> IF Late(j) THEN Reclaimed(j) ELSE IF j = c THEN "running" ELSE status[j]]
          /\ attempts' = [j \in Jobs |-> IF j = c THEN attempts[j] + 1 ELSE attempts[j]]
          /\ lease' = [j \in Jobs |-> IF Late(j) THEN "none" ELSE IF j = c THEN "live" ELSE lease[j]]
          /\ rows' = Without(rows, OwnedByLate)
          /\ attached' = Detached(attached, OwnedByLate)
          /\ runs' = Cut([runs EXCEPT ![w] = IF c = Nobody THEN Idle ELSE New(c)], OwnedByLate)
          /\ announce' = [announce EXCEPT ![w] = {j \in Jobs : Spent(j)}]
    BY DEF Poll
  <1> DEFINE rs == [runs EXCEPT ![w] = IF c = Nobody THEN Idle ELSE New(c)]
  <1>t. TypeOK  BY DEF IInv
  <1>2. c # Nobody => c \in Jobs /\ status[c] = "pending" /\ attempts[c] < MaxAttempts /\ attempts[c] \in Nat
    BY <1>t DEF IInv, ClaimInv, PendingCanRun, TypeOK
  <1>3. c # Nobody => New(c) \in RunType
    <2> SUFFICES ASSUME c # Nobody  PROVE New(c) \in RunType
      OBVIOUS
    <2>1. c \in Jobs /\ attempts[c] + 1 \in 0..MaxAttempts
      BY <1>2, BoundsAssumption
    <2> QED BY <2>1 DEF Idle, RunType, Phases
  <1>4. rs \in [Workers -> RunType]
    BY <1>3, <1>t, IdleType DEF TypeOK
  <1>5. /\ \A v \in Workers \ {w} : rs[v] = runs[v]
        /\ c = Nobody => rs[w].job = Nobody /\ rs[w].phase = "idle"
        /\ c # Nobody => rs[w].job = c /\ rs[w].phase = "claimed" /\ rs[w].attempt = attempts[c] + 1
    BY <1>t DEF TypeOK, Idle
  <1>a. runs' = Cut(rs, OwnedByLate)
    BY <1>1
  <1> HIDE DEF rs
  <1>6. runs' \in [Workers -> RunType] /\ \A v \in Workers : runs'[v].job = rs[v].job /\ runs'[v].attempt = rs[v].attempt
                                                          /\ runs'[v].phase = rs[v].phase
    BY <1>a, <1>4, CutType
  <1>7. /\ \A v \in Workers \ {w} : runs'[v].job = runs[v].job /\ runs'[v].attempt = runs[v].attempt /\ runs'[v].phase = runs[v].phase
        /\ c = Nobody => runs'[w].job = Nobody /\ runs'[w].phase = "idle"
        /\ c # Nobody => runs'[w].job = c /\ runs'[w].attempt = attempts[c] + 1
    BY <1>5, <1>6
  <1>8. TypeOK'
    <2>1. status' \in [Jobs -> {"pending", "running", "done", "failed"}]
      BY <1>1, <1>t DEF TypeOK, Reclaimed
    <2>2. attempts' \in [Jobs -> 0..MaxAttempts]
      <3>1. c # Nobody => attempts[c] + 1 \in 0..MaxAttempts
        BY <1>2, BoundsAssumption
      <3>2. \A j \in Jobs : j = c => c # Nobody
        BY JobsAssumption
      <3> QED BY <1>1, <3>1, <3>2, <1>t DEF TypeOK
    <2>3. lease' \in [Jobs -> {"none", "live", "expired"}]
      BY <1>1, <1>t DEF TypeOK
    <2>4. rows' \in [Hashes -> RowType] /\ attached' \in [Jobs -> Hashes \cup {NoHash}]
      BY <1>1, <1>t, RowTypes DEF TypeOK
    <2>5. announce' \in [Workers -> SUBSET Jobs]
      BY <1>1, <1>t DEF TypeOK
    <2>6. UNCHANGED <<file, indexed, donors, slots, faults>>
      BY DEF Poll, fileVars
    <2> QED BY <1>6, <1>t, <2>1, <2>2, <2>3, <2>4, <2>5, <2>6 DEF TypeOK
  <1>9. \A j \in Jobs : attempts'[j] = IF j = c THEN attempts[j] + 1 ELSE attempts[j]
    BY <1>1
  <1>10. AttemptsNamed'
    <2> SUFFICES ASSUME NEW v \in Workers, Job(v)' \in Jobs  PROVE runs'[v].attempt \in 1..attempts'[Job(v)']
      BY DEF AttemptsNamed
    <2>1. CASE v = w
      BY <2>1, <1>2, <1>7, <1>9, JobsAssumption DEF Job
    <2>2. CASE v # w
      <3>1. runs[v].attempt \in 1..attempts[Job(v)]
        BY <2>2, <1>7 DEF Job, IInv, ClaimInv, AttemptsNamed
      <3>2. attempts[Job(v)] \in Nat
        BY <2>2, <1>7, <1>t, BoundsAssumption DEF Job, TypeOK
      <3> QED BY <2>2, <3>1, <3>2, <1>7, <1>9 DEF Job
    <2> QED BY <2>1, <2>2
  <1>11. AttemptsDiffer'
    <2>1. \A v \in Workers \ {w} : runs[v].job = c /\ c # Nobody => runs[v].attempt < attempts[c] + 1
      BY <1>2 DEF Job, IInv, ClaimInv, AttemptsNamed
    <2>2. \A v \in Workers \ {w} : runs[v].job = c /\ c # Nobody => runs[v].attempt # attempts[c] + 1
      <3> SUFFICES ASSUME NEW v \in Workers \ {w}, runs[v].job = c, c # Nobody  PROVE runs[v].attempt # attempts[c] + 1
        OBVIOUS
      <3>1. runs[v].attempt \in Int  BY <1>t, BoundsAssumption DEF TypeOK, RunType
      <3> QED BY <2>1, <3>1, <1>2
    <2> QED BY <2>2, <1>7, JobsAssumption DEF Job, IInv, ClaimInv, AttemptsDiffer
  <1>12. PendingCanRun'
    <2> SUFFICES ASSUME NEW j \in Jobs, status'[j] = "pending"  PROVE attempts'[j] < MaxAttempts
      BY DEF PendingCanRun
    <2>1. attempts[j] \in Nat /\ MaxAttempts \in Nat
      BY <1>t, BoundsAssumption DEF TypeOK
    <2>2. j # c /\ attempts'[j] = attempts[j]
      <3>1. j = c => c # Nobody  BY JobsAssumption
      <3>2. j = c => ~Late(j) /\ status'[j] = "running"  BY <3>1, <1>1, <1>2 DEF Late
      <3> QED BY <3>2, <1>1
    <2>3. CASE Late(j)
      <3>1. ~Spent(j)  BY <2>3, <1>1 DEF Reclaimed
      <3> QED BY <3>1, <2>1, <2>2, <2>3 DEF Spent
    <2>4. CASE ~Late(j)
      <3>1. status[j] = "pending"  BY <2>2, <2>4, <1>1
      <3> QED BY <3>1, <2>2 DEF IInv, ClaimInv, PendingCanRun
    <2> QED BY <2>3, <2>4
  <1>13. AnnouncedFailed'
    <2> SUFFICES ASSUME NEW v \in Workers, NEW j \in announce'[v]  PROVE status'[j] = "failed"
      BY DEF AnnouncedFailed
    <2>1. CASE v = w
      <3>1. j \in Jobs /\ Spent(j)  BY <2>1, <1>1, <1>t DEF TypeOK
      <3> QED BY <3>1, <1>1 DEF Spent, Reclaimed
    <2>2. CASE v # w
      <3>1. j \in announce[v] /\ j \in Jobs  BY <2>2, <1>1, <1>t DEF TypeOK
      <3>2. status[j] = "failed"  BY <3>1 DEF IInv, ClaimInv, AnnouncedFailed
      <3>3. ~Late(j) /\ ~Spent(j) /\ j # c  BY <3>2, <1>2, <3>1, JobsAssumption DEF Late, Spent
      <3> QED BY <3>1, <3>2, <3>3, <1>1
    <2> QED BY <2>1, <2>2
  <1>14. BusyHasJob'
    BY <1>2, <1>7 DEF Job, IInv, ClaimInv, BusyHasJob
  <1> QED BY <1>8, <1>10, <1>11, <1>12, <1>13, <1>14 DEF IInv, ClaimInv

\* The actions that only move a run on, to a phase of its own.
Moves(w) ==
  MissingFile(w) \/ NoDonor(w) \/ Full(w) \/ SeeReady(w) \/ Vanished(w) \/ RaisesTerminal(w)

LEMMA MovesIInv ==
  ASSUME IInv, NEW w \in Workers, Moves(w)
  PROVE  IInv'
  <1>1. PICK p \in Phases : Goto(w, p)
    BY DEF Moves, MissingFile, NoDonor, Full, SeeReady, Vanished, RaisesTerminal, Phases
  <1>2. UNCHANGED <<jobVars, fileVars, contentVars, worldVars>>
    BY DEF Moves, MissingFile, NoDonor, Full, SeeReady, Vanished, RaisesTerminal
  <1>3. Job(w) \in Jobs
    BY AtHasJob DEF Moves, MissingFile, NoDonor, Full, SeeReady, Vanished, RaisesTerminal
  <1>4. GoesOn(w)
    BY <1>1, GotoGoesOn DEF IInv
  <1>5. ClaimInv'
    BY <1>2, <1>3, <1>4, GoesOnClaims DEF jobVars, worldVars
  <1>6. TypeOK'
    BY <1>2, <1>4 DEF GoesOn, IInv, TypeOK, jobVars, fileVars, contentVars, worldVars
  <1> QED BY <1>5, <1>6 DEF IInv

\* The actions that learn a digest, or take, give back or keep a slot on the way.
LEMMA ParseIInv ==
  ASSUME IInv, NEW w \in Workers, Donor(w) \/ Acquire(w) \/ Mark(w) \/ Parsed(w) \/ Raises(w)
  PROVE  IInv'
  <1>0. TypeOK  BY DEF IInv
  <1>1. CASE Donor(w)
    <2>1. PICK h \in Digests[Job(w)] :
            runs' = [runs EXCEPT ![w].phase = "attach", ![w].digest = h, ![w].donor = TRUE]
      BY <1>1 DEF Donor
    <2>2. Job(w) \in Jobs  BY <1>1, AtHasJob DEF Donor
    <2>3. h \in Hashes  BY <2>1, <2>2, DigestsAssumption
    <2>4. GoesOn(w)
      <3> DEFINE r == [runs[w] EXCEPT !.phase = "attach", !.digest = h, !.donor = TRUE]
      <3>1. runs[w] \in RunType /\ runs \in [Workers -> RunType]  BY <1>0 DEF TypeOK
      <3>2. r \in RunType /\ r.job = runs[w].job /\ r.attempt = runs[w].attempt
        BY <3>1, <2>3 DEF RunType, Phases
      <3>3. runs' = [runs EXCEPT ![w] = r]  BY <2>1, <3>1
      <3> HIDE DEF r
      <3> QED BY <3>1, <3>2, <3>3 DEF GoesOn
    <2>5. ClaimInv'  BY <1>1, <2>2, <2>4, GoesOnClaims DEF Donor, jobVars, worldVars
    <2>6. TypeOK'
      BY <1>1, <2>4, <1>0 DEF Donor, GoesOn, TypeOK, jobVars, fileVars, contentVars, worldVars
    <2> QED BY <2>5, <2>6 DEF IInv
  <1>2. CASE Acquire(w)
    <2>1. Job(w) \in Jobs  BY <1>2, AtHasJob DEF Acquire
    <2>2. GoesOn(w)  BY <1>2, <1>0, GotoGoesOn DEF Acquire, Phases
    <2>3. ClaimInv'  BY <1>2, <2>1, <2>2, GoesOnClaims DEF Acquire, jobVars
    <2>4. TypeOK'
      BY <1>2, <2>1, <2>2, <1>0 DEF Acquire, GoesOn, TypeOK, jobVars, fileVars, contentVars
    <2> QED BY <2>3, <2>4 DEF IInv
  <1>3. CASE Mark(w)
    <2>1. Job(w) \in Jobs  BY <1>3, AtHasJob DEF Mark
    <2>2. GoesOn(w)  BY <1>3, <1>0, GotoGoesOn DEF Mark, Phases
    <2>3. ClaimInv'  BY <1>3, <2>1, <2>2, GoesOnClaims DEF Mark, jobVars, worldVars
    <2>4. file' \in [Jobs -> {"pending", "processing", "ready", "failed", "gone"}]
      BY <1>3, <1>0 DEF Mark, TypeOK
    <2>5. TypeOK'
      BY <1>3, <2>2, <2>4, <1>0 DEF Mark, GoesOn, TypeOK, jobVars, contentVars, worldVars
    <2> QED BY <2>3, <2>5 DEF IInv
  <1>4. CASE Parsed(w)
    <2>1. PICK h \in Digests[Job(w)] : runs' = [runs EXCEPT ![w].phase = "attach", ![w].digest = h]
      BY <1>4 DEF Parsed
    <2>2. Job(w) \in Jobs  BY <1>4, AtHasJob DEF Parsed
    <2>3. h \in Hashes  BY <2>1, <2>2, DigestsAssumption
    <2>4. GoesOn(w)
      <3> DEFINE r == [runs[w] EXCEPT !.phase = "attach", !.digest = h]
      <3>1. runs[w] \in RunType /\ runs \in [Workers -> RunType]  BY <1>0 DEF TypeOK
      <3>2. r \in RunType /\ r.job = runs[w].job /\ r.attempt = runs[w].attempt
        BY <3>1, <2>3 DEF RunType, Phases
      <3>3. runs' = [runs EXCEPT ![w] = r]  BY <2>1, <3>1
      <3> HIDE DEF r
      <3> QED BY <3>1, <3>2, <3>3 DEF GoesOn
    <2>5. ClaimInv'  BY <1>4, <2>2, <2>4, GoesOnClaims DEF Parsed, jobVars
    <2>6. TypeOK'
      BY <1>4, <2>4, <1>0 DEF Parsed, GoesOn, TypeOK, jobVars, fileVars, contentVars
    <2> QED BY <2>5, <2>6 DEF IInv
  <1>5. CASE Raises(w)
    <2>1. Job(w) \in Jobs  BY <1>5 DEF Raises, IInv, ClaimInv, BusyHasJob
    <2>2. GoesOn(w)  BY <1>5, <1>0, GotoGoesOn DEF Raises, Unwind, Phases
    <2>3. ClaimInv'  BY <1>5, <2>1, <2>2, GoesOnClaims DEF Raises, jobVars
    <2>4. TypeOK'
      BY <1>5, <2>2, <1>0 DEF Raises, GoesOn, TypeOK, jobVars, fileVars, contentVars
    <2> QED BY <2>3, <2>4 DEF IInv
  <1> QED BY <1>1, <1>2, <1>3, <1>4, <1>5

\* The actions on the content rows.
LEMMA ContentIInv ==
  ASSUME IInv, NEW w \in Workers,
         Attach(w) \/ Reattach(w) \/ Steal(w) \/ GiveUpCopy(w) \/ Abandon(w) \/ Copy(w) \/ WriteChunks(w) \/ MarkReady(w)
  PROVE  IInv'
  <1> USE DEF Phases
  <1>0. TypeOK  BY DEF IInv
  <1>1. Job(w) \in Jobs
    BY AtHasJob DEF Attach, Reattach, Steal, GiveUpCopy, Abandon, Copy, WriteChunks, MarkReady
  <1>2. UNCHANGED <<jobVars, fileVars, worldVars>>
    BY DEF Attach, Reattach, Steal, GiveUpCopy, Abandon, Copy, WriteChunks, MarkReady
  <1>3. CASE Attach(w) \/ Reattach(w)
    <2>1. PICK p \in Phases : AttachTo(w, p)
      BY <1>3 DEF Attach, Reattach
    <2>2. GoesOn(w)  BY <2>1, <1>0, AttachGoesOn
    <2>3. Digest(w) \in Hashes => rows' \in [Hashes -> RowType]
      <3> DEFINE row == IF rows[Digest(w)].state = "none" THEN [state |-> "processing", owner |-> Job(w), chunks |-> FALSE]
                        ELSE rows[Digest(w)]
      <3>1. Digest(w) \in Hashes => row \in RowType  BY <1>0, <1>1 DEF TypeOK, RowType
      <3>2. rows' = [Without(rows, Unreferenced(Job(w)) \ {Digest(w)}) EXCEPT ![Digest(w)] = row]
        BY <2>1 DEF AttachTo
      <3>3. Without(rows, Unreferenced(Job(w)) \ {Digest(w)}) \in [Hashes -> RowType]
        BY <1>0, RowTypes DEF TypeOK
      <3> HIDE DEF row
      <3> QED BY <3>1, <3>2, <3>3
    <2>4. rows' \in [Hashes -> RowType]
      <3>1. Digest(w) \notin Hashes =>
              rows' = Without(rows, Unreferenced(Job(w)) \ {Digest(w)})
        BY <2>1 DEF AttachTo, Without
      <3> QED BY <2>3, <3>1, <1>0, RowTypes DEF TypeOK
    <2>5. attached' = [attached EXCEPT ![Job(w)] = Digest(w)]  BY <2>1 DEF AttachTo
    <2>6. Digest(w) \in Hashes \cup {NoHash}  BY <1>0 DEF TypeOK, RunType, Digest
    <2>7. ClaimInv'  BY <1>1, <1>2, <2>2, GoesOnClaims DEF jobVars, worldVars
    <2>8. TypeOK'
      BY <1>0, <1>2, <2>2, <2>4, <2>5, <2>6 DEF GoesOn, TypeOK, jobVars, fileVars, worldVars
    <2> QED BY <2>7, <2>8 DEF IInv
  <1>4. CASE Steal(w) \/ GiveUpCopy(w) \/ Abandon(w)
    <2>1. PICK p \in Phases : \E gone : Erase(gone, w, After(w, p))
      BY <1>4 DEF Steal, GiveUpCopy, Abandon
    <2>2. PICK gone : Erase(gone, w, After(w, p))  BY <2>1
    <2>3. GoesOn(w)  BY <2>2, <1>0, EraseGoesOn
    <2>4. rows' \in [Hashes -> RowType] /\ attached' \in [Jobs -> Hashes \cup {NoHash}]
      BY <2>2, <1>0, RowTypes DEF Erase, TypeOK
    <2>5. ClaimInv'  BY <1>1, <1>2, <2>3, GoesOnClaims DEF jobVars, worldVars
    <2>6. TypeOK'
      BY <1>0, <1>2, <2>3, <2>4 DEF GoesOn, TypeOK, jobVars, fileVars, worldVars
    <2> QED BY <2>5, <2>6 DEF IInv
  <1>5. CASE Copy(w) \/ WriteChunks(w) \/ MarkReady(w)
    <2>1. PICK p \in Phases : Goto(w, p)
      BY <1>5 DEF Copy, WriteChunks, MarkReady
    <2>2. GoesOn(w)  BY <2>1, <1>0, GotoGoesOn
    <2>3. rows' \in [Hashes -> RowType]
      <3>1. \/ rows' = rows
            \/ rows' = [rows EXCEPT ![Digest(w)].chunks = TRUE]
            \/ rows' = [rows EXCEPT ![Digest(w)].state = "ready", ![Digest(w)].owner = Nobody]
        BY <1>5 DEF Copy, WriteChunks, MarkReady
      <3>2. rows \in [Hashes -> RowType]  BY <1>0 DEF TypeOK
      <3> QED BY <3>1, <3>2, RowUpdates
    <2>4. attached' = attached  BY <1>5 DEF Copy, WriteChunks, MarkReady
    <2>5. ClaimInv'  BY <1>1, <1>2, <2>2, GoesOnClaims DEF jobVars, worldVars
    <2>6. TypeOK'
      BY <1>0, <1>2, <2>2, <2>3, <2>4 DEF GoesOn, TypeOK, jobVars, fileVars, worldVars
    <2> QED BY <2>5, <2>6 DEF IInv
  <1> QED BY <1>3, <1>4, <1>5

\* The actions that end a run with an outcome and leave the attempts alone.
LEMMA OutcomeIInv ==
  ASSUME IInv, NEW w \in Workers, Refuse(w) \/ Finish(w) \/ Retry(w) \/ GiveUp(w)
  PROVE  IInv'
  <1>0. TypeOK  BY DEF IInv
  <1>1. Job(w) \in Jobs  BY AtHasJob DEF Refuse, Finish, Retry, GiveUp
  <1>2. GoIdle(w) /\ UNCHANGED <<attempts, contentVars, worldVars>>
    BY DEF Refuse, Finish, Retry, GiveUp
  <1>3. PICK s \in {"pending", "done", "failed"}, f \in {"pending", "processing", "ready", "failed", "gone"}, i \in BOOLEAN :
          Outcome(w, s, f, i) /\ (s = "pending" => runs[w].attempt < MaxAttempts)
    <2>1. file[Job(w)] \in {"pending", "processing", "ready", "failed", "gone"} /\ indexed[Job(w)] \in BOOLEAN
      BY <1>0, <1>1 DEF TypeOK
    <2>2. CASE Refuse(w)  BY <2>2 DEF Refuse
    <2>3. CASE Finish(w)  BY <2>3 DEF Finish
    <2>4. CASE Retry(w)  BY <2>1, <2>4 DEF Retry
    <2>5. CASE GiveUp(w)  BY <2>5 DEF GiveUp
    <2> QED BY <2>2, <2>3, <2>4, <2>5
  <1>4. /\ status' \in [Jobs -> {"pending", "running", "done", "failed"}]
        /\ lease' \in [Jobs -> {"none", "live", "expired"}]
        /\ file' \in [Jobs -> {"pending", "processing", "ready", "failed", "gone"}]
        /\ indexed' \in [Jobs -> BOOLEAN]
        /\ \A j \in Jobs : status'[j] = status[j] \/ (j = Job(w) /\ Claimed(w) /\ status'[j] = s)
        /\ \A j \in Jobs : status[j] # "running" => status'[j] = status[j]
    BY <1>0, <1>3, OutcomeTypes
  <1>5. \A j \in Jobs : status'[j] = "pending" => status[j] = "pending" \/ attempts[j] < MaxAttempts
    BY <1>3, <1>4 DEF Claimed
  <1>6. \A j \in Jobs : status[j] = "failed" => status'[j] = "failed"
    BY <1>4
  <1>7. ClaimInv'
    BY <1>2, <1>5, <1>6, IdleClaims DEF worldVars
  <1>8. TypeOK'
    BY <1>0, <1>2, <1>4, GoIdleType DEF TypeOK, contentVars, worldVars
  <1> QED BY <1>7, <1>8 DEF IInv

\* A yield gives the number back: every other run of the job has a smaller one.
LEMMA YieldIInv ==
  ASSUME IInv, NEW w \in Workers, Yield(w)
  PROVE  IInv'
  <1>0. TypeOK  BY DEF IInv
  <1>1. Job(w) \in Jobs  BY AtHasJob DEF Yield
  <1>2. /\ Outcome(w, "pending", "pending", indexed[Job(w)])
        /\ attempts' = [attempts EXCEPT ![Job(w)] = IF Claimed(w) THEN @ - 1 ELSE @]
        /\ GoIdle(w) /\ UNCHANGED <<contentVars, worldVars>>
    BY DEF Yield
  <1>3. indexed[Job(w)] \in BOOLEAN  BY <1>0, <1>1 DEF TypeOK
  <1>4. /\ status' \in [Jobs -> {"pending", "running", "done", "failed"}]
        /\ lease' \in [Jobs -> {"none", "live", "expired"}]
        /\ file' \in [Jobs -> {"pending", "processing", "ready", "failed", "gone"}]
        /\ indexed' \in [Jobs -> BOOLEAN]
        /\ \A j \in Jobs : status'[j] = status[j] \/ (j = Job(w) /\ Claimed(w) /\ status'[j] = "pending")
        /\ \A j \in Jobs : status[j] # "running" => status'[j] = status[j]
    BY <1>0, <1>2, <1>3, OutcomeTypes
  <1>5. runs[w].attempt \in 1..attempts[Job(w)] /\ attempts[Job(w)] \in 0..MaxAttempts /\ MaxAttempts \in Nat
    BY <1>0, <1>1, BoundsAssumption DEF IInv, ClaimInv, AttemptsNamed, TypeOK
  <1>6. CASE ~Claimed(w)
    <2>1. attempts' = attempts /\ \A j \in Jobs : status'[j] = status[j]
      BY <1>0, <1>2, <1>4, <1>6 DEF TypeOK
    <2>2. ClaimInv'  BY <1>2, <2>1, IdleClaims DEF worldVars
    <2>3. TypeOK'
      BY <1>0, <1>2, <1>4, <2>1, GoIdleType DEF TypeOK, contentVars, worldVars
    <2> QED BY <2>2, <2>3 DEF IInv
  <1>7. CASE Claimed(w)
    <2>1. runs[w].attempt = attempts[Job(w)] /\ status[Job(w)] = "running"  BY <1>7 DEF Claimed
    <2>2. attempts[Job(w)] - 1 \in 0..MaxAttempts /\ attempts[Job(w)] - 1 < MaxAttempts  BY <1>5, <2>1
    <2>3. /\ attempts' \in [Jobs -> 0..MaxAttempts]
          /\ attempts'[Job(w)] = attempts[Job(w)] - 1
          /\ \A j \in Jobs \ {Job(w)} : attempts'[j] = attempts[j]
      BY <1>0, <1>1, <1>2, <1>7, <2>2 DEF TypeOK
    <2>4. /\ \A v \in Workers \ {w} : runs'[v] = runs[v]
          /\ runs'[w].job = Nobody /\ runs'[w].phase = "idle"
      BY <1>0, <1>2 DEF GoIdle, TypeOK, Idle
    <2>5. AttemptsNamed'
      <3> SUFFICES ASSUME NEW v \in Workers, Job(v)' \in Jobs  PROVE runs'[v].attempt \in 1..attempts'[Job(v)']
        BY DEF AttemptsNamed
      <3>1. v # w /\ runs'[v] = runs[v] /\ Job(v)' = Job(v)  BY <2>4, JobsAssumption DEF Job
      <3>2. runs[v].attempt \in 1..attempts[Job(v)]  BY <3>1 DEF IInv, ClaimInv, AttemptsNamed
      <3>3. CASE Job(v) = Job(w)
        <4>1. runs[v].attempt # runs[w].attempt  BY <1>1, <3>1, <3>3 DEF IInv, ClaimInv, AttemptsDiffer
        <4> QED BY <1>5, <2>1, <2>3, <3>1, <3>2, <3>3, <4>1
      <3>4. CASE Job(v) # Job(w)
        BY <2>3, <3>1, <3>2, <3>4
      <3> QED BY <3>3, <3>4
    <2>6. AttemptsDiffer'
      BY <2>4, JobsAssumption DEF Job, IInv, ClaimInv, AttemptsDiffer
    <2>7. PendingCanRun'
      <3> SUFFICES ASSUME NEW j \in Jobs, status'[j] = "pending"  PROVE attempts'[j] < MaxAttempts
        BY DEF PendingCanRun
      <3>1. CASE j = Job(w)  BY <2>2, <2>3, <3>1
      <3>2. CASE j # Job(w)  BY <1>4, <2>3, <3>2 DEF IInv, ClaimInv, PendingCanRun
      <3> QED BY <3>1, <3>2
    <2>8. AnnouncedFailed'
      <3> SUFFICES ASSUME NEW v \in Workers, NEW j \in announce'[v]  PROVE status'[j] = "failed"
        BY DEF AnnouncedFailed
      <3>1. j \in announce[v] /\ j \in Jobs  BY <1>0, <1>2 DEF TypeOK, worldVars
      <3> QED BY <1>4, <3>1 DEF IInv, ClaimInv, AnnouncedFailed
    <2>9. BusyHasJob'
      BY <2>4 DEF Job, IInv, ClaimInv, BusyHasJob
    <2>10. TypeOK'
      BY <1>0, <1>2, <1>4, <2>3, GoIdleType DEF TypeOK, contentVars, worldVars
    <2> QED BY <2>5, <2>6, <2>7, <2>8, <2>9, <2>10 DEF IInv, ClaimInv
  <1> QED BY <1>6, <1>7

\* A run that is lost with its worker, or with the record of its failure.
LEMMA LostIInv ==
  ASSUME IInv, NEW w \in Workers, FailureLost(w) \/ WorkerDies(w)
  PROVE  IInv'
  <1>0. TypeOK  BY DEF IInv
  <1>1. GoIdle(w) /\ UNCHANGED <<jobVars, fileVars, contentVars, donors, slots>>
    BY DEF FailureLost, WorkerDies
  <1>2. announce' \in [Workers -> SUBSET Jobs] /\ \A v \in Workers : announce'[v] \subseteq announce[v]
    BY <1>0 DEF FailureLost, WorkerDies, TypeOK
  <1>3. faults' \in 0..MaxFaults
    BY <1>0, BoundsAssumption DEF FailureLost, WorkerDies, TypeOK
  <1>4. ClaimInv'
    BY <1>0, <1>1, <1>2, IdleClaims DEF jobVars, TypeOK
  <1>5. TypeOK'
    BY <1>0, <1>1, <1>2, <1>3, GoIdleType DEF TypeOK, jobVars, fileVars, contentVars
  <1> QED BY <1>4, <1>5 DEF IInv

\* The announcements: what they say of a job was so already.
LEMMA AnnounceIInv ==
  ASSUME IInv, NEW w \in Workers, Announce(w) \/ AnnounceLost(w)
  PROVE  IInv'
  <1>0. TypeOK  BY DEF IInv
  <1>1. announce' \in [Workers -> SUBSET Jobs] /\ \A v \in Workers : announce'[v] \subseteq announce[v]
    BY <1>0 DEF Announce, AnnounceLost, TypeOK
  <1>2. status' = status
    <2>1. CASE Announce(w)
      <3>1. PICK j \in announce[w] : status' = [status EXCEPT ![j] = "failed"]  BY <2>1 DEF Announce
      <3>2. status[j] = "failed"  BY <3>1 DEF IInv, ClaimInv, AnnouncedFailed
      <3> QED BY <1>0, <3>1, <3>2 DEF TypeOK
    <2>2. CASE AnnounceLost(w)  BY <2>2 DEF AnnounceLost, jobVars
    <2> QED BY <2>1, <2>2
  <1>3. UNCHANGED <<attempts, contentVars, donors, slots, runs, faults>>
    BY DEF Announce, AnnounceLost, jobVars
  <1>4. /\ lease' \in [Jobs -> {"none", "live", "expired"}]
        /\ file' \in [Jobs -> {"pending", "processing", "ready", "failed", "gone"}]
        /\ indexed' \in [Jobs -> BOOLEAN]
    BY <1>0 DEF Announce, AnnounceLost, TypeOK, jobVars, fileVars
  <1>5. TypeOK'
    BY <1>0, <1>1, <1>2, <1>3, <1>4 DEF TypeOK, contentVars
  <1>6. AnnouncedFailed'
    BY <1>1, <1>2 DEF IInv, ClaimInv, AnnouncedFailed
  <1>7. ClaimInv'
    BY <1>2, <1>3, <1>6 DEF IInv, ClaimInv, AttemptsNamed, AttemptsDiffer, PendingCanRun, BusyHasJob, Job
  <1> QED BY <1>5, <1>7 DEF IInv

\* Heartbeats, the passing of time, and users.
LEMMA WorldIInv ==
  ASSUME IInv,
         \/ \E w \in Workers : Heartbeat(w)
         \/ \E j \in Jobs : LeaseLapses(j) \/ LeaseStalls(j) \/ SlotExpires(j)
         \/ \E h \in Hashes : DonorLeaves(h)
         \/ UNCHANGED vars
  PROVE  IInv'
  <1>0. TypeOK  BY DEF IInv
  <1> USE DEF Heartbeat, LeaseLapses, LeaseStalls, SlotExpires, DonorLeaves, vars, jobVars, fileVars, contentVars, worldVars
  <1>1. UNCHANGED <<status, attempts, file, indexed, rows, attached, runs, announce>>
    OBVIOUS
  <1>2. lease' \in [Jobs -> {"none", "live", "expired"}]
    BY <1>0 DEF TypeOK
  <1>3. donors' \subseteq Hashes /\ slots' \subseteq Jobs /\ faults' \in 0..MaxFaults
    BY <1>0, BoundsAssumption DEF TypeOK
  <1>4. TypeOK'
    BY <1>0, <1>1, <1>2, <1>3 DEF TypeOK
  <1>5. ClaimInv'
    BY <1>1 DEF IInv, ClaimInv, AttemptsNamed, AttemptsDiffer, PendingCanRun, AnnouncedFailed, BusyHasJob, Job
  <1> QED BY <1>4, <1>5 DEF IInv

LEMMA DeleteIInv ==
  ASSUME IInv, NEW j \in Jobs, DeleteFile(j)
  PROVE  IInv'
  <1>0. TypeOK  BY DEF IInv
  <1>1. /\ file' = [file EXCEPT ![j] = "gone"]
        /\ rows' = Without(rows, Unreferenced(j))
        /\ attached' = [attached EXCEPT ![j] = NoHash]
        /\ runs' = Cut(runs, Unreferenced(j))
        /\ UNCHANGED <<jobVars, indexed, worldVars>>
    BY DEF DeleteFile
  <1>2. runs \in [Workers -> RunType]  BY <1>0 DEF TypeOK
  <1>3. /\ runs' \in [Workers -> RunType]
        /\ \A v \in Workers : runs'[v].job = runs[v].job /\ runs'[v].attempt = runs[v].attempt /\ runs'[v].phase = runs[v].phase
    BY <1>1, <1>2, CutType
  <1>4. TypeOK'
    BY <1>0, <1>1, <1>3, RowTypes DEF TypeOK, jobVars, worldVars
  <1>5. ClaimInv'
    BY <1>1, <1>3
       DEF jobVars, worldVars, IInv, ClaimInv, AttemptsNamed, AttemptsDiffer, PendingCanRun, AnnouncedFailed, BusyHasJob, Job
  <1> QED BY <1>4, <1>5 DEF IInv

LEMMA NextIInv == IInv /\ [Next]_vars => IInv'
  <1> SUFFICES ASSUME IInv, [Next]_vars  PROVE IInv'
    OBVIOUS
  <1>1. ASSUME NEW w \in Workers, Work(w)  PROVE IInv'
    BY <1>1, PollIInv, AnnounceIInv, MovesIInv, ParseIInv, ContentIInv, OutcomeIInv, YieldIInv
       DEF Work, Begin, Parse, Share, Index, Failure, Moves
  <1>2. ASSUME NEW w \in Workers, AnnounceLost(w) \/ Heartbeat(w) \/ FailureLost(w) \/ WorkerDies(w)  PROVE IInv'
    BY <1>2, AnnounceIInv, WorldIInv, LostIInv
  <1>3. ASSUME NEW j \in Jobs, LeaseLapses(j) \/ LeaseStalls(j) \/ SlotExpires(j) \/ DeleteFile(j)  PROVE IInv'
    BY <1>3, WorldIInv, DeleteIInv
  <1>4. ASSUME NEW h \in Hashes, DonorLeaves(h)  PROVE IInv'
    BY <1>4, WorldIInv
  <1>5. CASE UNCHANGED vars  BY <1>5, WorldIInv
  <1> QED BY <1>1, <1>2, <1>3, <1>4, <1>5 DEF Next

(***************************************************************************)
(* Every variable keeps its type: no job is claimed more often than its    *)
(* policy allows, whatever expires, yields or dies (reclaim_expired_leases *)
(* and _handle_job_failure against max_attempts).                          *)
(***************************************************************************)
THEOREM TypeCorrect == Spec => []TypeOK
  <1>1. IInv => TypeOK  BY DEF IInv
  <1> QED BY InitIInv, NextIInv, <1>1, PTL DEF Spec

(***************************************************************************)
(* claim_is_current holds of one run of a job at most, although a yield    *)
(* counts the fencing token down.                                          *)
(***************************************************************************)
THEOREM OneClaimHolds == Spec => []OneClaim
  <1>1. IInv => OneClaim
    BY DEF IInv, ClaimInv, AttemptsDiffer, OneClaim, Claimed
  <1> QED BY InitIInv, NextIInv, <1>1, PTL DEF Spec

(***************************************************************************)
(* A job that is done or failed stays so: _lost_claim guards every outcome *)
(* and the reaper touches running jobs only.                               *)
(***************************************************************************)
THEOREM OutcomesFinal == Spec => OutcomeFinal
  <1>1. IInv /\ [Next]_vars => [\A j \in Jobs : status[j] \in {"done", "failed"} => status'[j] = status[j]]_vars
    <2> SUFFICES ASSUME IInv, Next, NEW j \in Jobs, status[j] \in {"done", "failed"}  PROVE status'[j] = status[j]
      OBVIOUS
    <2>0. TypeOK  BY DEF IInv
    <2>1. ASSUME NEW w \in Workers, Poll(w)  PROVE status'[j] = status[j]
      BY <2>1, JobsAssumption DEF Poll, Late
    <2>2. ASSUME NEW w \in Workers, Announce(w)  PROVE status'[j] = status[j]
      BY <2>0, <2>2 DEF Announce, TypeOK, IInv, ClaimInv, AnnouncedFailed
    <2>3. ASSUME NEW w \in Workers, NEW t, NEW f, NEW i, Outcome(w, t, f, i)  PROVE status'[j] = status[j]
      BY <2>0, <2>3 DEF Outcome, Claimed, TypeOK
    <2>4. ASSUME NEW w \in Workers, Work(w)  PROVE status'[j] = status[j]
      BY <2>1, <2>2, <2>3, <2>4
         DEF Work, Begin, Parse, Share, Index, Failure, MissingFile, Refuse, NoDonor, Donor, RaisesTerminal, Acquire, Full,
             Yield, Mark, Parsed, Attach, SeeReady, Steal, Copy, Vanished, GiveUpCopy, Reattach, WriteChunks, MarkReady,
             Abandon, Finish, Raises, Retry, GiveUp, jobVars
    <2>5. ASSUME NEW w \in Workers, AnnounceLost(w) \/ Heartbeat(w) \/ FailureLost(w) \/ WorkerDies(w)
          PROVE status'[j] = status[j]
      BY <2>5 DEF AnnounceLost, Heartbeat, FailureLost, WorkerDies, jobVars
    <2>6. ASSUME NEW k \in Jobs, LeaseLapses(k) \/ LeaseStalls(k) \/ SlotExpires(k) \/ DeleteFile(k)
          PROVE status'[j] = status[j]
      BY <2>6 DEF LeaseLapses, LeaseStalls, SlotExpires, DeleteFile, jobVars
    <2>7. ASSUME NEW h \in Hashes, DonorLeaves(h)  PROVE status'[j] = status[j]
      BY <2>7 DEF DonorLeaves, jobVars
    <2> QED BY <2>4, <2>5, <2>6, <2>7 DEF Next
  <1> QED BY InitIInv, NextIInv, <1>1, PTL DEF Spec, OutcomeFinal
-----------------------------------------------------------------------------
(* The content rows. *)

\* A row that a step leaves in place: it keeps its passages, and its owner until it is ready.
RowKept(h) ==
  /\ rows'[h].state # "none"
  /\ rows[h].chunks => rows'[h].chunks
  /\ rows'[h].state = "processing" => rows[h].state = "processing" /\ rows'[h].owner = rows[h].owner

\* A run that a step leaves alone, but for the row it is linked to.
RunKept(v) ==
  /\ runs'[v].job = runs[v].job /\ runs'[v].phase = runs[v].phase /\ runs'[v].digest = runs[v].digest
  /\ runs[v].link = "none" => runs'[v].link = "none"
  /\ runs'[v].link = "live" => runs[v].link = "live" /\ (rows[Digest(v)].state # "none" => RowKept(Digest(v)))

\* What RowInv says of one run.
RowInvOf(v) ==
  /\ runs[v].phase \notin Knowing => runs[v].link = "none"
  /\ runs[v].link = "live" => Digest(v) \in Hashes /\ rows[Digest(v)].state # "none"
  /\ runs[v].phase \in Knowing => Digest(v) \in Digests[Job(v)]
  /\ runs[v].phase \in Working /\ Holds(v) => rows[Digest(v)].owner = Job(v)
  /\ runs[v].phase = "ready" /\ runs[v].link = "live" => rows[Digest(v)].chunks

LEMMA RowInvByRun == RowInv <=> ReadyHasChunks /\ \A v \in Workers : RowInvOf(v)
  BY DEF RowInv, RowInvOf, Unlinked, LinkHasRow, KnowsDigest, WriterOwns, WrittenBeforeReady

LEMMA KeptRun ==
  ASSUME NEW v \in Workers, RowInvOf(v), RunKept(v)
  PROVE  RowInvOf(v)'
  BY DEF RowInvOf, RunKept, RowKept, Working, Holds, Digest, Job

\* Steps after which one run at most is somewhere else.
LEMMA RowStep ==
  ASSUME RowInv, NEW w \in Workers, ReadyHasChunks', RowInvOf(w)', \A v \in Workers \ {w} : RunKept(v)
  PROVE  RowInv'
  <1>1. \A v \in Workers \ {w} : RowInvOf(v)'
    BY RowInvByRun, KeptRun
  <1> QED BY <1>1, RowInvByRun DEF RowInv, RowInvOf, Unlinked, LinkHasRow, KnowsDigest, WriterOwns, WrittenBeforeReady

\* Every run stays where it is.
LEMMA RowStill ==
  ASSUME RowInv, ReadyHasChunks', \A v \in Workers : RunKept(v)
  PROVE  RowInv'
  <1>1. \A v \in Workers : RowInvOf(v)'
    BY RowInvByRun, KeptRun
  <1> QED BY <1>1 DEF RowInv, RowInvOf, Unlinked, LinkHasRow, KnowsDigest, WriterOwns, WrittenBeforeReady

\* With the rows as they are, a run may go to sleep or go on to a phase that does not write.
LEMMA RowIdle ==
  ASSUME IInv, RowInv, NEW w \in Workers, GoIdle(w), rows' = rows
  PROVE  RowInv'
  <1>1. \A v \in Workers \ {w} : RunKept(v)
    BY DEF IInv, TypeOK, GoIdle, RunKept, RowKept
  <1>2. RowInvOf(w)'
    BY DEF IInv, TypeOK, GoIdle, Idle, RowInvOf, Knowing, Working, Holds, Digest, Job
  <1>3. ReadyHasChunks'
    BY DEF RowInv, ReadyHasChunks
  <1> QED BY <1>1, <1>2, <1>3, RowStep

LEMMA RowGoto ==
  ASSUME IInv, RowInv, NEW w \in Workers, NEW p \in Phases, Goto(w, p), rows' = rows,
         p \notin {"copy", "index", "ready", "idle", "claimed"}, p \in Knowing => runs[w].phase \in Knowing,
         p \in Working => runs[w].phase \in Working
  PROVE  RowInv'
  <1>0. runs \in [Workers -> RunType] /\ runs' = [runs EXCEPT ![w] = After(w, p)]
    BY DEF IInv, TypeOK, Goto
  <1>1. \A v \in Workers \ {w} : RunKept(v)
    BY <1>0 DEF RunKept, RowKept
  <1>2. RowInvOf(w)'
    <2>1. RowInvOf(w)  BY RowInvByRun
    <2>2. runs'[w] = After(w, p)  BY <1>0
    <2>3. CASE p \in Claim
      <3>1. runs'[w].link = "none" /\ runs'[w].phase = p /\ p \notin Knowing
        BY <1>0, <2>2, <2>3, AfterType DEF Claim, Knowing
      <3> QED BY <3>1 DEF RowInvOf, Working, Holds, Knowing
    <2>4. CASE p \notin Claim
      <3>1. /\ runs'[w].link = runs[w].link /\ runs'[w].digest = runs[w].digest
            /\ runs'[w].job = runs[w].job /\ runs'[w].phase = p
        BY <1>0, <2>2, <2>4, AfterType DEF Digest, Job
      <3>2. p \in Knowing  BY <2>4 DEF Claim, Knowing, Phases
      <3> QED BY <2>1, <3>1, <3>2 DEF RowInvOf, Working, Holds, Digest, Job
    <2> QED BY <2>3, <2>4
  <1>3. ReadyHasChunks'
    BY DEF RowInv, ReadyHasChunks
  <1> QED BY <1>1, <1>2, <1>3, RowStep

\* A run learns a digest: it has no row yet.
LEMMA RowDigest ==
  ASSUME IInv, RowInv, NEW w \in Workers, Donor(w) \/ Parsed(w)
  PROVE  RowInv'
  <1>0. runs \in [Workers -> RunType] /\ rows' = rows
    BY DEF IInv, TypeOK, Donor, Parsed, contentVars
  <1>1. PICK h \in Digests[Job(w)] :
          \/ runs' = [runs EXCEPT ![w].phase = "attach", ![w].digest = h, ![w].donor = TRUE]
          \/ runs' = [runs EXCEPT ![w].phase = "attach", ![w].digest = h]
    BY DEF Donor, Parsed
  <1>2. runs[w].link = "none"
    BY DEF Donor, Parsed, At, Knowing, RowInv, Unlinked
  <1>3. \A v \in Workers \ {w} : RunKept(v)
    BY <1>0, <1>1 DEF RunKept, RowKept
  <1>4. /\ runs'[w].link = "none" /\ runs'[w].phase = "attach" /\ runs'[w].digest = h /\ runs'[w].job = runs[w].job
    <2>1. runs[w] \in RunType  BY <1>0
    <2>2. CASE runs' = [runs EXCEPT ![w].phase = "attach", ![w].digest = h, ![w].donor = TRUE]
      BY <1>0, <1>2, <2>1, <2>2 DEF RunType
    <2>3. CASE runs' = [runs EXCEPT ![w].phase = "attach", ![w].digest = h]
      BY <1>0, <1>2, <2>1, <2>3 DEF RunType
    <2> QED BY <1>1, <2>2, <2>3
  <1>5. RowInvOf(w)'
    BY <1>1, <1>4 DEF RowInvOf, Working, Holds, Digest, Job, Knowing
  <1>6. ReadyHasChunks'
    BY <1>0 DEF RowInv, ReadyHasChunks
  <1> QED BY <1>3, <1>5, <1>6, RowStep

\* Rows disappear, and the runs linked to them are cut off.
LEMMA CutKeeps ==
  ASSUME IInv, RowInv, NEW rs \in [Workers -> RunType], NEW gone, NEW v \in Workers, rs[v] = runs[v],
         runs' = Cut(rs, gone), \A h \in Hashes \ gone : rows[h].state # "none" => RowKept(h)
  PROVE  RunKept(v)
  <1>1. /\ runs'[v].job = rs[v].job /\ runs'[v].phase = rs[v].phase /\ runs'[v].digest = rs[v].digest
        /\ runs'[v].link = "live" <=> rs[v].link = "live" /\ rs[v].digest \notin gone
    BY CutType
  <1>2. runs[v].link = "none" => runs'[v].link = "none"
    BY DEF Cut
  <1>3. runs[v].link = "live" => Digest(v) \in Hashes
    BY DEF RowInv, LinkHasRow
  <1> QED BY <1>1, <1>2, <1>3 DEF RunKept, Digest

LEMMA WithoutKeeps ==
  ASSUME NEW gone, rows' = Without(rows, gone)
  PROVE  /\ \A h \in Hashes \ gone : rows[h].state # "none" => RowKept(h)
         /\ ReadyHasChunks => ReadyHasChunks'
  BY DEF Without, RowKept, ReadyHasChunks, NoRow

LEMMA RowErase ==
  ASSUME IInv, RowInv, NEW w \in Workers, NEW p \in Phases, NEW gone, Erase(gone, w, After(w, p)),
         p \in {"attach", "reattach", "fail"}, runs[w].phase \in Knowing
  PROVE  RowInv'
  <1> DEFINE rs == [runs EXCEPT ![w] = After(w, p)]
  <1>0. runs \in [Workers -> RunType]  BY DEF IInv, TypeOK
  <1>1. runs' = Cut(rs, gone) /\ rows' = Without(rows, gone)  BY DEF Erase
  <1>2. rs \in [Workers -> RunType] /\ rs[w] = After(w, p) /\ \A v \in Workers \ {w} : rs[v] = runs[v]
    BY <1>0, AfterType
  <1> HIDE DEF rs
  <1>3. \A v \in Workers \ {w} : RunKept(v)
    BY <1>1, <1>2, CutKeeps, WithoutKeeps
  <1>4. ReadyHasChunks'
    BY <1>1, WithoutKeeps DEF RowInv
  <1>5. RowInvOf(w)'
    <2>1. RowInvOf(w)  BY RowInvByRun
    <2>2. /\ runs'[w].job = Job(w) /\ runs'[w].phase = p /\ runs'[w].digest = After(w, p).digest
          /\ runs'[w].link = "live" <=> After(w, p).link = "live" /\ After(w, p).digest \notin gone
      BY <1>0, <1>1, <1>2, CutType, AfterType
    <2>3. CASE p = "fail"
      <3>1. After(w, p).link = "none"  BY <1>0, <2>3, AfterType DEF Claim
      <3>2. runs'[w].link = "none"  BY <1>1, <1>2, <3>1 DEF Cut
      <3> QED BY <2>2, <2>3, <3>2 DEF RowInvOf, Knowing, Working, Holds
    <2>4. CASE p # "fail"
      <3>1. After(w, p).link = runs[w].link /\ After(w, p).digest = Digest(w)
        BY <1>0, <2>4, AfterType DEF Claim
      <3>2. runs'[w].link = "live" => rows'[Digest(w)].state # "none"
        BY <1>1, <2>1, <2>2, <3>1 DEF RowInvOf, Without
      <3> QED BY <2>1, <2>2, <2>4, <3>1, <3>2 DEF RowInvOf, Knowing, Working, Holds, Digest, Job
    <2> QED BY <2>3, <2>4
  <1> QED BY <1>3, <1>4, <1>5, RowStep

\* What a poll makes of its worker's run.
LEMMA PollRun ==
  ASSUME IInv, NEW w \in Workers, Poll(w)
  PROVE  \E r \in RunType : /\ runs' = Cut([runs EXCEPT ![w] = r], OwnedByLate)
                            /\ r.phase \in {"idle", "claimed"} /\ r.link = "none"
  <1>1. PICK c \in {j \in Jobs : status[j] = "pending"} \cup {Nobody} :
          runs' = Cut([runs EXCEPT ![w] = IF c = Nobody THEN Idle ELSE
                         [Idle EXCEPT !.job = c, !.attempt = attempts[c] + 1, !.phase = "claimed"]], OwnedByLate)
    BY DEF Poll
  <1> DEFINE r == IF c = Nobody THEN Idle ELSE
                    [Idle EXCEPT !.job = c, !.attempt = attempts[c] + 1, !.phase = "claimed"]
  <1>2. runs' = Cut([runs EXCEPT ![w] = r], OwnedByLate)
    BY <1>1
  <1>3. r \in RunType /\ r.phase \in {"idle", "claimed"} /\ r.link = "none"
    <2>1. CASE c = Nobody
      BY <2>1, IdleType DEF Idle
    <2>2. CASE c # Nobody
      <3>1. c \in Jobs /\ attempts[c] + 1 \in 0..MaxAttempts
        BY <2>2, BoundsAssumption DEF IInv, TypeOK, ClaimInv, PendingCanRun
      <3>2. r = [job |-> c, attempt |-> attempts[c] + 1, phase |-> "claimed", digest |-> NoHash,
                 donor |-> FALSE, link |-> "none"]
        BY <2>2 DEF Idle
      <3> HIDE DEF r
      <3> QED BY <3>1, <3>2 DEF RunType, Phases
    <2> QED BY <2>1, <2>2
  <1> HIDE DEF r
  <1> QED BY <1>2, <1>3

LEMMA RowPoll ==
  ASSUME IInv, RowInv, NEW w \in Workers, Poll(w)
  PROVE  RowInv'
  <1>1. PICK r \in RunType : /\ runs' = Cut([runs EXCEPT ![w] = r], OwnedByLate)
                            /\ r.phase \in {"idle", "claimed"} /\ r.link = "none"
    BY PollRun
  <1> DEFINE rs == [runs EXCEPT ![w] = r]
  <1>2. rs \in [Workers -> RunType] /\ rs[w] = r /\ \A v \in Workers \ {w} : rs[v] = runs[v]
    BY <1>1 DEF IInv, TypeOK
  <1>3. runs' = Cut(rs, OwnedByLate) /\ rows' = Without(rows, OwnedByLate)
    BY <1>1 DEF Poll
  <1> HIDE DEF rs
  <1>4. \A v \in Workers \ {w} : RunKept(v)
    BY <1>2, <1>3, CutKeeps, WithoutKeeps
  <1>5. ReadyHasChunks'
    BY <1>3, WithoutKeeps DEF RowInv
  <1>6. runs'[w].link = "none" /\ runs'[w].phase \in {"idle", "claimed"}
    BY <1>1, <1>2, <1>3 DEF Cut
  <1>7. RowInvOf(w)'
    BY <1>6 DEF RowInvOf, Knowing, Working, Holds
  <1> QED BY <1>4, <1>5, <1>7, RowStep

LEMMA RowDelete ==
  ASSUME IInv, RowInv, NEW j \in Jobs, DeleteFile(j)
  PROVE  RowInv'
  <1>1. runs \in [Workers -> RunType]  BY DEF IInv, TypeOK
  <1>2. runs' = Cut(runs, Unreferenced(j)) /\ rows' = Without(rows, Unreferenced(j))
    BY DEF DeleteFile
  <1>3. \A v \in Workers : RunKept(v)
    BY <1>1, <1>2, CutKeeps, WithoutKeeps
  <1>4. ReadyHasChunks'
    BY <1>2, WithoutKeeps DEF RowInv
  <1> QED BY <1>3, <1>4, RowStill

\* Attaching creates a row for its own job, or finds one and leaves it.
LEMMA RowAttach ==
  ASSUME IInv, RowInv, NEW w \in Workers, NEW p \in Phases, AttachTo(w, p), runs[w].phase \in Knowing, Job(w) \in Jobs,
         p \in Claim \cup {"copy", "index", "wait"}, p \in {"copy", "index"} => Creates(w)
  PROVE  RowInv'
  <1> DEFINE h == Digest(w)
             gone == Unreferenced(Job(w)) \ {h}
             row == IF rows[h].state = "none" THEN [state |-> "processing", owner |-> Job(w), chunks |-> FALSE] ELSE rows[h]
             r == IF p \in Claim THEN After(w, p) ELSE [After(w, p) EXCEPT !.link = "live"]
             rs == [runs EXCEPT ![w] = r]
  <1>0. runs \in [Workers -> RunType] /\ rows \in [Hashes -> RowType]  BY DEF IInv, TypeOK
  <1>1. rows' = [Without(rows, gone) EXCEPT ![h] = row] /\ runs' = Cut(rs, gone)
    BY DEF AttachTo
  <1>2. h \in Digests[Job(w)] /\ h \in Hashes
    BY DigestsAssumption DEF RowInv, KnowsDigest
  <1>3. /\ r \in RunType /\ r.job = Job(w) /\ r.phase = p
        /\ p \in Claim => r.link = "none"
        /\ p \notin Claim => r.link = "live" /\ r.digest = h
    <2> DEFINE q == After(w, p)
    <2>1. /\ q \in RunType /\ q.job = Job(w) /\ q.phase = p
          /\ p \in Claim => q.link = "none"
          /\ p \notin Claim => q.digest = h
      BY <1>0, AfterType
    <2>2. CASE p \in Claim  BY <2>1, <2>2
    <2>3. CASE p \notin Claim
      <3>1. r = [q EXCEPT !.link = "live"]  BY <2>3
      <3> HIDE DEF r, q, h
      <3> QED BY <2>1, <2>3, <3>1 DEF RunType
    <2> QED BY <2>2, <2>3
  <1> HIDE DEF r
  <1>4. rs \in [Workers -> RunType] /\ rs[w] = r /\ \A v \in Workers \ {w} : rs[v] = runs[v]
    BY <1>0, <1>3
  <1>5. /\ rows'[h] = row
        /\ \A g \in Hashes \ {h} : rows'[g] = IF g \in gone THEN NoRow ELSE rows[g]
    BY <1>1, <1>2 DEF Without
  <1>6. /\ row.state # "none"
        /\ rows[h].state # "none" => row = rows[h]
        /\ rows[h].state = "none" => row.state = "processing" /\ row.owner = Job(w)
    OBVIOUS
  <1> HIDE DEF row, rs, gone
  <1>7. \A g \in Hashes \ gone : rows[g].state # "none" => RowKept(g)
    BY <1>5, <1>6 DEF RowKept
  <1>8. \A v \in Workers \ {w} : RunKept(v)
    BY <1>1, <1>4, <1>7, CutKeeps
  <1>9. ReadyHasChunks'
    BY <1>5, <1>6 DEF RowInv, ReadyHasChunks, NoRow
  <1>10. /\ runs'[w].job = Job(w) /\ runs'[w].phase = p /\ runs'[w].digest = r.digest
         /\ runs'[w].link = "live" => r.link = "live"
         /\ r.link = "none" => runs'[w].link = "none"
    BY <1>1, <1>3, <1>4, CutType DEF Cut
  <1>11. RowInvOf(w)'
    <2>1. CASE p \in Claim
      <3>1. runs'[w].link = "none" /\ p \notin Knowing  BY <1>3, <1>10, <2>1 DEF Claim, Knowing
      <3> QED BY <1>10, <3>1 DEF RowInvOf, Working, Holds, Knowing
    <2>2. CASE p \notin Claim
      <3>1. Digest(w)' = h /\ Job(w)' = Job(w) /\ runs'[w].phase = p /\ p # "ready" /\ p \in Knowing
        BY <1>3, <1>10, <2>2 DEF Digest, Job, Knowing, Claim
      <3>2. rows'[h].state # "none"  BY <1>5, <1>6
      <3>3. p \in {"copy", "index"} => rows'[h].owner = Job(w)
        BY <1>5, <1>6 DEF Creates
      <3> QED BY <1>2, <2>2, <3>1, <3>2, <3>3 DEF RowInvOf, Working, Claim
    <2> QED BY <2>1, <2>2
  <1> QED BY <1>8, <1>9, <1>11, RowStep

\* Passages are written into a row, or a row becomes ready, and the writer goes on.
LEMMA RowWrite ==
  ASSUME IInv, RowInv, NEW w \in Workers, Copy(w) \/ (Owns(w) /\ (WriteChunks(w) \/ MarkReady(w)))
  PROVE  RowInv'
  <1> DEFINE h == Digest(w)
  <1>0. runs \in [Workers -> RunType] /\ rows \in [Hashes -> RowType]  BY DEF IInv, TypeOK
  <1>1. runs[w].link = "live" /\ h \in Hashes /\ rows[h].state # "none" /\ runs[w].phase \in {"copy", "index", "ready"}
    BY DEF Copy, WriteChunks, MarkReady, Owns, At, RowInv, LinkHasRow
  <1>2. RowInvOf(w)  BY RowInvByRun
  <1>3. CASE rows' = [rows EXCEPT ![h].chunks = TRUE] /\ Goto(w, "ready")
    <2>1. \A g \in Hashes : rows[g].state # "none" => RowKept(g)
      BY <1>0, <1>3 DEF RowKept, RowType
    <2>2. rows'[h].chunks /\ rows'[h].state = rows[h].state /\ rows'[h].owner = rows[h].owner
      BY <1>0, <1>1, <1>3 DEF RowType
    <2>3. ReadyHasChunks'
      BY <1>0, <1>1, <1>3 DEF RowInv, ReadyHasChunks, RowType
    <2>4. \A v \in Workers \ {w} : runs'[v] = runs[v]  BY <1>0, <1>3 DEF Goto
    <2>5. \A v \in Workers \ {w} : RunKept(v)
      BY <2>1, <2>4 DEF RunKept, RowInv, LinkHasRow
    <2>6. /\ runs'[w].job = Job(w) /\ runs'[w].phase = "ready" /\ runs'[w].digest = h /\ runs'[w].link = "live"
      BY <1>0, <1>1, <1>3, AfterType DEF Goto, Claim, Phases
    <2>7. RowInvOf(w)'
      BY <1>1, <1>2, <2>2, <2>6 DEF RowInvOf, Working, Holds, Digest, Job, Knowing
    <2> QED BY <2>3, <2>5, <2>7, RowStep
  <1>4. CASE MarkReady(w) /\ rows' = [rows EXCEPT ![h].state = "ready", ![h].owner = Nobody] /\ Goto(w, "finish")
    <2>1. rows[h].chunks  BY <1>1, <1>2, <1>4 DEF MarkReady, At, RowInvOf
    <2>2. rows'[h].chunks = rows[h].chunks /\ rows'[h].state = "ready" /\ \A g \in Hashes \ {h} : rows'[g] = rows[g]
      BY <1>0, <1>1, <1>4 DEF RowType
    <2>3. \A g \in Hashes : rows[g].state # "none" => RowKept(g)
      BY <2>2 DEF RowKept
    <2>4. ReadyHasChunks'
      BY <2>1, <2>2 DEF RowInv, ReadyHasChunks
    <2>5. \A v \in Workers \ {w} : runs'[v] = runs[v]  BY <1>0, <1>4 DEF Goto
    <2>6. \A v \in Workers \ {w} : RunKept(v)
      BY <2>3, <2>5 DEF RunKept, RowInv, LinkHasRow
    <2>7. runs'[w].phase = "finish" /\ runs'[w].link = "none"
      BY <1>0, <1>4, AfterType DEF Goto, Claim, Phases
    <2>8. RowInvOf(w)'
      BY <2>7 DEF RowInvOf, Working, Holds, Knowing
    <2> QED BY <2>4, <2>6, <2>8, RowStep
  <1> QED BY <1>3, <1>4 DEF Copy, WriteChunks, MarkReady

LEMMA InitRowInv == Init => RowInv
  <1> SUFFICES ASSUME Init  PROVE RowInv
    OBVIOUS
  <1>1. \A w \in Workers : runs[w].phase = "idle" /\ runs[w].link = "none"
    BY DEF Init, Idle
  <1>2. ReadyHasChunks  BY DEF Init, ReadyHasChunks, NoRow
  <1>3. \A w \in Workers : RowInvOf(w)
    BY <1>1 DEF RowInvOf, Knowing, Working, Holds
  <1> QED BY <1>2, <1>3, RowInvByRun

\* Rows and runs as they are.
LEMMA RowSame ==
  ASSUME RowInv, rows' = rows, runs' = runs
  PROVE  RowInv'
  <1>1. \A v \in Workers : RunKept(v)  BY DEF RunKept, RowKept
  <1>2. ReadyHasChunks'  BY DEF RowInv, ReadyHasChunks
  <1> QED BY <1>1, <1>2, RowStill

LEMMA RowShare ==
  ASSUME IInv, RowInv, NEW w \in Workers, Share(w)
  PROVE  RowInv'
  <1>1. CASE Attach(w)
    <2> DEFINE p == IF Creates(w) THEN (IF runs[w].donor THEN "copy" ELSE "index")
                    ELSE IF rows[Digest(w)].state = "ready" THEN "finish" ELSE "wait"
    <2>1. AttachTo(w, p) /\ runs[w].phase \in Knowing /\ Job(w) \in Jobs
      BY <1>1, AtHasJob DEF Attach, At, Knowing
    <2>2. /\ p \in Phases /\ p \in Claim \cup {"copy", "index", "wait"}
          /\ p \in {"copy", "index"} => Creates(w)
      BY DEF Phases, Claim
    <2> HIDE DEF p
    <2> QED BY <2>1, <2>2, RowAttach
  <1>2. CASE Reattach(w)
    BY <1>2, AtHasJob, RowAttach DEF Reattach, At, Knowing, Phases, Claim
  <1>3. CASE SeeReady(w)
    BY <1>3, RowGoto DEF SeeReady, Phases, Knowing, Working, contentVars
  <1>4. CASE Vanished(w)
    BY <1>4, RowGoto DEF Vanished, At, Phases, Knowing, Working, contentVars
  <1>5. CASE Steal(w)
    BY <1>5, RowErase DEF Steal, At, Phases, Knowing
  <1>6. CASE GiveUpCopy(w)
    BY <1>6, RowErase DEF GiveUpCopy, At, Phases, Knowing
  <1>7. CASE Copy(w)
    BY <1>7, RowWrite
  <1> QED BY <1>1, <1>2, <1>3, <1>4, <1>5, <1>6, <1>7 DEF Share

LEMMA RowIndex ==
  ASSUME IInv, RowInv, NEW w \in Workers, Index(w)
  PROVE  RowInv'
  <1>1. CASE Owns(w) /\ (WriteChunks(w) \/ MarkReady(w))
    BY <1>1, RowWrite
  <1>2. CASE ~Owns(w) /\ (WriteChunks(w) \/ MarkReady(w))
    <2>1. rows' = rows /\ Goto(w, "abandon") /\ runs[w].phase \in Knowing \cap Working
      BY <1>2 DEF WriteChunks, MarkReady, At, Knowing, Working
    <2> QED BY <2>1, RowGoto DEF Phases
  <1>3. CASE Abandon(w)
    BY <1>3, RowErase DEF Abandon, At, Phases, Knowing
  <1>4. CASE Finish(w)
    BY <1>4, RowIdle DEF Finish, contentVars
  <1> QED BY <1>1, <1>2, <1>3, <1>4 DEF Index

LEMMA RowOther ==
  ASSUME IInv, RowInv, NEW w \in Workers, Begin(w) \/ Parse(w) \/ Failure(w)
  PROVE  RowInv'
  <1>1. CASE MissingFile(w) \/ NoDonor(w) \/ RaisesTerminal(w) \/ Acquire(w) \/ Full(w) \/ Mark(w)
    BY <1>1, RowGoto
       DEF MissingFile, NoDonor, RaisesTerminal, Acquire, Full, Mark, contentVars, Phases, Knowing, Working
  <1>2. CASE Refuse(w) \/ Yield(w) \/ Retry(w) \/ GiveUp(w)
    BY <1>2, RowIdle DEF Refuse, Yield, Retry, GiveUp, contentVars
  <1>3. CASE Donor(w) \/ Parsed(w)
    BY <1>3, RowDigest
  <1>4. CASE Raises(w)
    BY <1>4, RowGoto DEF Raises, Unwind, contentVars, Phases, Knowing, Working
  <1> QED BY <1>1, <1>2, <1>3, <1>4 DEF Begin, Parse, Failure

LEMMA NextRowInv == IInv /\ RowInv /\ [Next]_vars => RowInv'
  <1> SUFFICES ASSUME IInv, RowInv, [Next]_vars  PROVE RowInv'
    OBVIOUS
  <1>1. ASSUME NEW w \in Workers, Work(w)  PROVE RowInv'
    <2>1. CASE Announce(w)
      BY <2>1, RowSame DEF Announce, contentVars
    <2> QED BY <1>1, <2>1, RowPoll, RowOther, RowShare, RowIndex DEF Work
  <1>2. ASSUME NEW w \in Workers, AnnounceLost(w) \/ Heartbeat(w)  PROVE RowInv'
    BY <1>2, RowSame DEF AnnounceLost, Heartbeat, contentVars
  <1>3. ASSUME NEW w \in Workers, FailureLost(w) \/ WorkerDies(w)  PROVE RowInv'
    BY <1>3, RowIdle DEF FailureLost, WorkerDies, contentVars
  <1>4. ASSUME NEW j \in Jobs, LeaseLapses(j) \/ LeaseStalls(j) \/ SlotExpires(j)  PROVE RowInv'
    BY <1>4, RowSame DEF LeaseLapses, LeaseStalls, SlotExpires, contentVars
  <1>5. ASSUME NEW j \in Jobs, DeleteFile(j)  PROVE RowInv'
    BY <1>5, RowDelete
  <1>6. ASSUME NEW h \in Hashes, DonorLeaves(h)  PROVE RowInv'
    BY <1>6, RowSame DEF DonorLeaves, contentVars
  <1>7. CASE UNCHANGED vars
    BY <1>7, RowSame DEF vars
  <1> QED BY <1>1, <1>2, <1>3, <1>4, <1>5, <1>6, <1>7 DEF Next

(***************************************************************************)
(* Two jobs never write one content row: attach_file_content tells a       *)
(* creator from a finder by the owner, and whoever takes the row from its  *)
(* owner cuts the owner's run off from it.                                 *)
(***************************************************************************)
THEOREM SingleWriterHolds == Spec => []SingleWriter
  <1>1. RowInv => SingleWriter
    BY DEF RowInv, WriterOwns, Working, SingleWriter, Writes
  <1> QED BY InitIInv, NextIInv, InitRowInv, NextRowInv, <1>1, PTL DEF Spec

(***************************************************************************)
(* mark_content_ready comes after the passages were written, by its own    *)
(* run or by another attempt of the same job.                              *)
(***************************************************************************)
THEOREM ReadyContentHasPassages == Spec => []ReadyHasChunks
  <1>1. RowInv => ReadyHasChunks
    BY DEF RowInv
  <1> QED BY InitIInv, NextIInv, InitRowInv, NextRowInv, <1>1, PTL DEF Spec
-----------------------------------------------------------------------------
(* Who takes a row away from an owner that is alive. *)

\* Rows that disappear with a set, all others left.
LEMMA TakenWithout ==
  ASSUME NEW gone, NEW h \in Hashes, rows' = Without(rows, gone),
         rows[h].state = "processing", rows'[h].state = "none"
  PROVE  h \in gone
  BY DEF Without

\* A run gives its row up: it knows that row, and the row is its job's.
LEMMA TakenByRun ==
  ASSUME IInv, RowInv, NEW w \in Workers, NEW h \in Hashes, GiveUpCopy(w) \/ Abandon(w),
         rows[h].state = "processing", rows'[h].state = "none"
  PROVE  GivenUp(h)
  <1>1. runs[w].phase \in {"vanished", "abandon"} /\ rows' = Without(rows, {g \in {Digest(w)} : Holds(w)})
    BY DEF GiveUpCopy, Abandon, At, Erase
  <1>2. h = Digest(w) /\ Holds(w)
    BY <1>1, TakenWithout
  <1>3. rows[h].owner = Job(w)
    BY <1>1, <1>2 DEF RowInv, WriterOwns, Working
  <1> QED BY <1>1, <1>3 DEF GivenUp

\* The last file that refers to a row turns to another one.
LEMMA TakenByAttach ==
  ASSUME IInv, RowInv, NEW w \in Workers, NEW p, AttachTo(w, p), runs[w].phase \in Knowing, Job(w) \in Jobs,
         NEW h \in Hashes, rows[h].state = "processing", rows'[h].state = "none"
  PROVE  LastFileLeaves(h)
  <1> DEFINE g == Digest(w)
             gone == Unreferenced(Job(w)) \ {g}
             row == IF rows[g].state = "none" THEN [state |-> "processing", owner |-> Job(w), chunks |-> FALSE] ELSE rows[g]
  <1>1. rows' = [Without(rows, gone) EXCEPT ![g] = row] /\ attached' = [attached EXCEPT ![Job(w)] = g]
    BY DEF AttachTo
  <1>2. g \in Hashes
    BY DigestsAssumption DEF RowInv, KnowsDigest
  <1>3. row.state # "none"
    OBVIOUS
  <1> HIDE DEF row
  <1>4. h # g
    BY <1>1, <1>2, <1>3 DEF Without
  <1>5. h \in gone
    BY <1>1, <1>2, <1>4 DEF Without
  <1>6. attached'[Job(w)] = g
    BY <1>1 DEF IInv, TypeOK
  <1> QED BY <1>2, <1>4, <1>5, <1>6 DEF LastFileLeaves

LEMMA TakenByWork ==
  ASSUME IInv, RowInv, NEW w \in Workers, Work(w), NEW h \in Hashes,
         rows[h].state = "processing", OwnerLives(h), rows'[h].state = "none"
  PROVE  GivenUp(h) \/ LastFileLeaves(h)
  <1>0. rows \in [Hashes -> RowType]
    BY DEF IInv, TypeOK
  <1>1. ~Poll(w)
    <2> SUFFICES ASSUME Poll(w)  PROVE FALSE
      OBVIOUS
    <2>1. h \in OwnedByLate
      BY TakenWithout DEF Poll
    <2> QED BY <2>1 DEF OwnedByLate, Late, OwnerLives
  <1>2. ~Steal(w)
    <2> SUFFICES ASSUME Steal(w)  PROVE FALSE
      OBVIOUS
    <2>1. h \in {g \in {Digest(w)} : Stale(g)}
      BY TakenWithout DEF Steal, Erase
    <2> QED BY <2>1 DEF Stale
  <1>3. ~(Announce(w) \/ Begin(w) \/ Parse(w) \/ Failure(w) \/ SeeReady(w) \/ Vanished(w) \/ Finish(w))
    BY DEF Announce, Begin, Parse, Failure, SeeReady, Vanished, Finish, MissingFile, Refuse, NoDonor, Donor,
           RaisesTerminal, Acquire, Full, Yield, Mark, Parsed, Raises, Retry, GiveUp, contentVars
  <1>4. ~(Copy(w) \/ WriteChunks(w) \/ MarkReady(w))
    BY <1>0 DEF Copy, WriteChunks, MarkReady, RowType
  <1>5. CASE Attach(w) \/ Reattach(w)
    BY <1>5, AtHasJob, TakenByAttach DEF Attach, Reattach, At, Knowing
  <1>6. CASE GiveUpCopy(w) \/ Abandon(w)
    BY <1>6, TakenByRun
  <1> QED BY <1>1, <1>2, <1>3, <1>4, <1>5, <1>6 DEF Work, Share, Index

(***************************************************************************)
(* No thief and no reaper takes the row of an owner that is alive: it goes *)
(* only when a run of that owner gives it up, or with the last file that   *)
(* refers to it (steal_stale_content, _claim_one, abandon_content and the  *)
(* orphan trigger).                                                        *)
(***************************************************************************)
THEOREM LiveOwnerHolds == Spec => LiveOwnerKeepsRow
  <1>1. ASSUME IInv, RowInv, [Next]_vars, NEW h \in Hashes,
               rows[h].state = "processing", OwnerLives(h), rows'[h].state = "none"
        PROVE  GivenUp(h) \/ LastFileLeaves(h)
    <2>1. ASSUME NEW w \in Workers, Work(w)  PROVE GivenUp(h) \/ LastFileLeaves(h)
      BY <1>1, <2>1, TakenByWork
    <2>2. ASSUME NEW w \in Workers, AnnounceLost(w) \/ Heartbeat(w) \/ FailureLost(w) \/ WorkerDies(w)  PROVE FALSE
      BY <1>1, <2>2 DEF AnnounceLost, Heartbeat, FailureLost, WorkerDies, contentVars
    <2>3. ASSUME NEW j \in Jobs, LeaseLapses(j) \/ LeaseStalls(j) \/ SlotExpires(j)  PROVE FALSE
      BY <1>1, <2>3 DEF LeaseLapses, LeaseStalls, SlotExpires, contentVars
    <2>4. ASSUME NEW j \in Jobs, DeleteFile(j)  PROVE LastFileLeaves(h)
      <3>1. h \in Unreferenced(j)
        BY <1>1, <2>4, TakenWithout DEF DeleteFile
      <3>2. file'[j] # file[j]
        BY <1>1, <2>4 DEF DeleteFile, IInv, TypeOK
      <3> QED BY <3>1, <3>2 DEF LastFileLeaves
    <2>5. ASSUME NEW g \in Hashes, DonorLeaves(g)  PROVE FALSE
      BY <1>1, <2>5 DEF DonorLeaves, contentVars
    <2>6. CASE UNCHANGED vars
      BY <1>1, <2>6 DEF vars
    <2> QED BY <1>1, <2>1, <2>2, <2>3, <2>4, <2>5, <2>6 DEF Next
  <1>2. IInv /\ RowInv /\ [Next]_vars =>
          [\A h \in Hashes : rows[h].state = "processing" /\ OwnerLives(h) /\ rows'[h].state = "none" =>
             GivenUp(h) \/ LastFileLeaves(h)]_vars
    BY <1>1
  <1> QED BY InitIInv, NextIInv, InitRowInv, NextRowInv, <1>2, PTL DEF Spec, LiveOwnerKeepsRow
-----------------------------------------------------------------------------
(* Where the content of a file is. *)

\* What FoundInv says of one run and of one file.
RunFound(v) ==
  /\ runs[v].link = "live" => file[Job(v)] = "gone" \/ attached[Job(v)] = Digest(v)
  /\ runs[v].phase = "finish" => file[Job(v)] = "gone" \/ Found(Job(v))

FileFound(j) ==
  /\ attached[j] = NoHash \/ attached[j] \in Digests[j]
  /\ indexed[j] /\ file[j] # "gone" => Found(j)

LEMMA FoundInvByPart == FoundInv <=> (\A v \in Workers : RunFound(v)) /\ (\A j \in Jobs : FileFound(j))
  BY DEF FoundInv, RunFound, FileFound, LinkAttached, FinisherFound, AttachedDigest, Searchable, Found

LEMMA LinkedHasJob ==
  ASSUME IInv, RowInv, NEW v \in Workers, runs[v].link = "live" \/ runs[v].phase = "finish"
  PROVE  Job(v) \in Jobs
  BY DEF IInv, ClaimInv, BusyHasJob, RowInv, Unlinked, Knowing

\* A file that is found stays found, unless its user deletes it.
StaysFound ==
  \A j \in Jobs : /\ file[j] = "gone" => file'[j] = "gone"
                  /\ file'[j] # "gone" /\ Found(j) => Found(j)'

\* A run that a step leaves alone, and the attachment of its file with it.
RunAttached(v) ==
  /\ runs'[v].job = runs[v].job /\ runs'[v].phase = runs[v].phase /\ runs'[v].digest = runs[v].digest
  /\ runs'[v].link = "live" =>
       runs[v].link = "live" /\ (attached[Job(v)] = Digest(v) => file'[Job(v)] = "gone" \/ attached'[Job(v)] = Digest(v))

LEMMA FoundStep ==
  ASSUME IInv, RowInv, FoundInv, NEW W \in SUBSET Workers, StaysFound, \A v \in W : RunAttached(v),
         \A v \in Workers \ W : RunFound(v)', \A j \in Jobs : FileFound(j)'
  PROVE  FoundInv'
  <1>1. ASSUME NEW v \in W  PROVE RunFound(v)'
    <2>1. RunFound(v) /\ RunAttached(v)  BY FoundInvByPart
    <2>2. Job(v)' = Job(v) /\ Digest(v)' = Digest(v)  BY <2>1 DEF RunAttached, Job, Digest
    <2>3. runs'[v].link = "live" => file'[Job(v)] = "gone" \/ attached'[Job(v)] = Digest(v)
      BY <2>1, LinkedHasJob DEF RunAttached, RunFound, StaysFound
    <2>4. runs'[v].phase = "finish" => file'[Job(v)] = "gone" \/ Found(Job(v))'
      <3> SUFFICES ASSUME runs[v].phase = "finish", file'[Job(v)] # "gone"  PROVE Found(Job(v))'
        BY <2>1 DEF RunAttached
      <3>1. Job(v) \in Jobs  BY LinkedHasJob
      <3>2. Found(Job(v))  BY <2>1, <3>1 DEF RunFound, StaysFound
      <3> DEFINE j == Job(v)
      <3>3. \A k \in Jobs : file'[k] # "gone" /\ Found(k) => attached'[k] \in Hashes /\ rows'[attached'[k]].state = "ready"
        BY DEF StaysFound, Found
      <3>4. attached'[j] \in Hashes /\ rows'[attached'[j]].state = "ready"
        BY <3>1, <3>2, <3>3
      <3> QED BY <3>4, <2>2 DEF Found
    <2> QED BY <2>2, <2>3, <2>4 DEF RunFound
  <1>2. \A v \in Workers : RunFound(v)'  BY <1>1
  <1> QED BY <1>2 DEF FoundInv, RunFound, FileFound, LinkAttached, FinisherFound, AttachedDigest, Searchable, Found

\* No content disappears and no file is attached elsewhere.
LEMMA FoundMove ==
  ASSUME IInv, RowInv, FoundInv, NEW w \in Workers, attached' = attached,
         \A h \in Hashes : rows[h].state = "ready" => rows'[h].state = "ready",
         \A v \in Workers \ {w} : runs'[v] = runs[v],
         \A j \in Jobs : file[j] = "gone" => file'[j] = "gone",
         \A j \in Jobs : indexed'[j] /\ file'[j] # "gone" => indexed[j] \/ Found(j),
         runs'[w].link = "live" =>
           runs[w].link = "live" /\ runs'[w].job = runs[w].job /\ runs'[w].digest = runs[w].digest,
         runs'[w].phase = "finish" =>
           Job(w) \in Jobs /\ runs'[w].job = Job(w) /\ (file[Job(w)] = "gone" \/ Found(Job(w))')
  PROVE  FoundInv'
  <1>1. StaysFound  BY DEF StaysFound, Found
  <1>2. \A v \in Workers \ {w} : RunAttached(v)  BY DEF RunAttached
  <1>3. RunFound(w)'
    <2>1. RunFound(w)  BY FoundInvByPart
    <2>2. runs'[w].link = "live" => Job(w) \in Jobs  BY LinkedHasJob
    <2>3. runs'[w].link = "live" => file'[Job(w)'] = "gone" \/ attached'[Job(w)'] = Digest(w)'
      BY <2>1, <2>2 DEF RunFound, Job, Digest
    <2>4. runs'[w].phase = "finish" => file'[Job(w)'] = "gone" \/ Found(Job(w))'
      BY DEF Job
    <2> QED BY <2>3, <2>4 DEF RunFound
  <1>4. \A j \in Jobs : FileFound(j)'
    BY <1>1, FoundInvByPart DEF FileFound, StaysFound, Found
  <1>5. \A v \in Workers \ (Workers \ {w}) : v = w  OBVIOUS
  <1> QED BY <1>1, <1>2, <1>3, <1>4, <1>5, FoundStep

\* Rows that are not ready disappear.
LEMMA FoundCut ==
  ASSUME IInv, RowInv, FoundInv, NEW w \in Workers, NEW r \in RunType, NEW gone,
         runs' = Cut([runs EXCEPT ![w] = r], gone), rows' = Without(rows, gone), attached' = Detached(attached, gone),
         UNCHANGED fileVars, \A h \in Hashes : h \in gone => rows[h].state # "ready",
         r.phase # "finish", r.link = "live" => runs[w].link = "live" /\ r.job = Job(w) /\ r.digest = Digest(w)
  PROVE  FoundInv'
  <1> DEFINE rs == [runs EXCEPT ![w] = r]
  <1>0. runs' = Cut(rs, gone)  OBVIOUS
  <1>1. rs \in [Workers -> RunType] /\ rs[w] = r /\ \A v \in Workers \ {w} : rs[v] = runs[v]
    BY DEF IInv, TypeOK
  <1> HIDE DEF rs
  <1>2. \A v \in Workers : /\ runs'[v].job = rs[v].job /\ runs'[v].phase = rs[v].phase /\ runs'[v].digest = rs[v].digest
                           /\ runs'[v].link = "live" <=> rs[v].link = "live" /\ rs[v].digest \notin gone
    BY <1>0, <1>1, CutType
  <1>3. /\ file' = file /\ indexed' = indexed
        /\ \A j \in Jobs : attached'[j] = IF attached[j] \in gone THEN NoHash ELSE attached[j]
        /\ \A h \in Hashes : h \notin gone => rows'[h] = rows[h]
    BY DEF fileVars, Detached, Without
  <1>4. StaysFound
    BY <1>3 DEF StaysFound, Found
  <1>5. \A v \in Workers \ {w} : RunAttached(v)
    <2> TAKE v \in Workers \ {w}
    <2>1. rs[v] = runs[v] /\ (runs'[v].link = "live" <=> rs[v].link = "live" /\ rs[v].digest \notin gone)
      BY <1>1, <1>2
    <2>2. runs'[v].job = runs[v].job /\ runs'[v].phase = runs[v].phase /\ runs'[v].digest = runs[v].digest
      BY <1>2, <2>1
    <2>3. runs'[v].link = "live" => runs[v].link = "live" /\ Digest(v) \notin gone  BY <2>1 DEF Digest
    <2>4. runs[v].link = "live" => Job(v) \in Jobs  BY LinkedHasJob
    <2>5. runs'[v].link = "live" /\ attached[Job(v)] = Digest(v) => attached'[Job(v)] = Digest(v)
      BY <1>3, <2>3, <2>4
    <2> QED BY <2>2, <2>3, <2>5 DEF RunAttached
  <1>6. RunFound(w)'
    <2>1. runs'[w].phase # "finish"  BY <1>1, <1>2
    <2>2. ASSUME runs'[w].link = "live"  PROVE file'[Job(w)'] = "gone" \/ attached'[Job(w)'] = Digest(w)'
      <3>1. /\ runs[w].link = "live" /\ Job(w)' = Job(w) /\ Digest(w)' = Digest(w) /\ Digest(w) \notin gone
        BY <1>1, <1>2, <2>2 DEF Job, Digest
      <3>2. Job(w) \in Jobs /\ RunFound(w)  BY <3>1, LinkedHasJob, FoundInvByPart
      <3> QED BY <1>3, <3>1, <3>2 DEF RunFound
    <2> QED BY <2>1, <2>2 DEF RunFound
  <1>7. \A j \in Jobs : FileFound(j)'
    BY <1>3, <1>4, FoundInvByPart DEF FileFound, StaysFound, Found
  <1>8. \A v \in Workers \ (Workers \ {w}) : v = w  OBVIOUS
  <1> QED BY <1>4, <1>5, <1>6, <1>7, <1>8, FoundStep

LEMMA OutcomeFound ==
  ASSUME IInv, RowInv, FoundInv, NEW w \in Workers, GoIdle(w), UNCHANGED contentVars,
         NEW s, NEW f \in {"pending", "processing", "ready", "failed", "gone"}, NEW i \in BOOLEAN, Outcome(w, s, f, i),
         i => indexed[Job(w)] \/ runs[w].phase = "finish"
  PROVE  FoundInv'
  <1>1. \A v \in Workers \ {w} : runs'[v] = runs[v]  BY DEF GoIdle, IInv, TypeOK
  <1>2. runs'[w].phase = "idle" /\ runs'[w].link = "none"  BY DEF GoIdle, IInv, TypeOK, Idle
  <1>3. rows' = rows /\ attached' = attached  BY DEF contentVars
  <1>4. /\ \A j \in Jobs : file[j] = "gone" => file'[j] = "gone"
        /\ \A j \in Jobs : indexed'[j] /\ file'[j] # "gone" => indexed[j] \/ Found(j)
    <2>1. CASE ~Claimed(w)
      BY <2>1 DEF Outcome, fileVars
    <2>2. CASE Claimed(w)
      <3>1. /\ Job(w) \in Jobs
            /\ file' = [file EXCEPT ![Job(w)] = IF @ = "gone" THEN "gone" ELSE f]
            /\ indexed' = [indexed EXCEPT ![Job(w)] = i]
        BY <2>2 DEF Outcome, Claimed
      <3>2. \A j \in Jobs : /\ j # Job(w) => file'[j] = file[j] /\ indexed'[j] = indexed[j]
                            /\ file[j] = "gone" => file'[j] = "gone"
        BY <3>1 DEF IInv, TypeOK
      <3>3. indexed'[Job(w)] = i  BY <3>1 DEF IInv, TypeOK
      <3>4. runs[w].phase = "finish" => file[Job(w)] = "gone" \/ Found(Job(w))
        BY DEF FoundInv, FinisherFound
      <3> QED BY <3>1, <3>2, <3>3, <3>4
    <2> QED BY <2>1, <2>2
  <1> QED BY <1>1, <1>2, <1>3, <1>4, FoundMove

\* Files as they are, content as it is: a run goes on, but not to its end.
LEMMA GotoFound ==
  ASSUME IInv, RowInv, FoundInv, NEW w \in Workers, NEW p \in Phases, Goto(w, p), UNCHANGED contentVars,
         \A j \in Jobs : file[j] = "gone" => file'[j] = "gone", indexed' = indexed,
         p = "finish" => Job(w) \in Jobs /\ (file[Job(w)] = "gone" \/ Found(Job(w)))
  PROVE  FoundInv'
  <1>0. runs \in [Workers -> RunType] /\ runs' = [runs EXCEPT ![w] = After(w, p)]
    BY DEF IInv, TypeOK, Goto
  <1>1. \A v \in Workers \ {w} : runs'[v] = runs[v]  BY <1>0
  <1>2. runs'[w] = After(w, p)  BY <1>0
  <1>3. /\ runs'[w].job = runs[w].job /\ runs'[w].phase = p
        /\ runs'[w].link = "live" => runs[w].link = "live" /\ runs'[w].digest = runs[w].digest
    BY <1>0, <1>2, AfterType DEF Job, Digest
  <1>4. rows' = rows /\ attached' = attached  BY DEF contentVars
  <1>5. p = "finish" => Job(w) \in Jobs /\ runs'[w].job = Job(w) /\ (file[Job(w)] = "gone" \/ Found(Job(w))')
    BY <1>3, <1>4 DEF Job, Found
  <1> QED BY <1>1, <1>3, <1>4, <1>5, FoundMove

LEMMA MarkReadyFound ==
  ASSUME IInv, RowInv, FoundInv, NEW w \in Workers, MarkReady(w), Owns(w)
  PROVE  FoundInv'
  <1> DEFINE h == Digest(w)
  <1>0. runs \in [Workers -> RunType] /\ runs' = [runs EXCEPT ![w] = After(w, "finish")]
    BY DEF IInv, TypeOK, MarkReady, Goto
  <1>1. \A v \in Workers \ {w} : runs'[v] = runs[v]  BY <1>0
  <1>2. runs'[w].link = "none" /\ runs'[w].phase = "finish" /\ runs'[w].job = Job(w)
    BY <1>0, AfterType DEF Claim, Phases
  <1>3. h \in Hashes /\ runs[w].link = "live" /\ Job(w) \in Jobs
    BY LinkedHasJob DEF Owns, RowInv, LinkHasRow
  <1>4. rows' = [rows EXCEPT ![h].state = "ready", ![h].owner = Nobody] /\ UNCHANGED <<attached, fileVars>>
    BY DEF MarkReady
  <1>5. rows'[h].state = "ready" /\ \A g \in Hashes \ {h} : rows'[g] = rows[g]
    BY <1>3, <1>4 DEF IInv, TypeOK, RowType
  <1>6. attached' = attached /\ file' = file /\ indexed' = indexed  BY <1>4 DEF fileVars
  <1>7. file[Job(w)] = "gone" \/ Found(Job(w))'
    BY <1>3, <1>5, <1>6, <1>2 DEF FoundInv, LinkAttached, Found, Job
  <1> QED BY <1>1, <1>2, <1>3, <1>5, <1>6, <1>7, FoundMove

LEMMA DeleteFound ==
  ASSUME IInv, RowInv, FoundInv, NEW j \in Jobs, DeleteFile(j)
  PROVE  FoundInv'
  <1> DEFINE gone == Unreferenced(j)
  <1>1. runs \in [Workers -> RunType] /\ runs' = Cut(runs, gone)  BY DEF IInv, TypeOK, DeleteFile
  <1>2. \A v \in Workers : /\ runs'[v].job = runs[v].job /\ runs'[v].phase = runs[v].phase
                           /\ runs'[v].digest = runs[v].digest
                           /\ runs'[v].link = "live" => runs[v].link = "live"
    BY <1>1, CutType
  <1>3. /\ file'[j] = "gone" /\ attached'[j] = NoHash /\ indexed' = indexed
        /\ \A k \in Jobs \ {j} : file'[k] = file[k] /\ attached'[k] = attached[k]
        /\ \A h \in Hashes : h \notin gone => rows'[h] = rows[h]
    BY DEF DeleteFile, IInv, TypeOK, Without
  <1>4. \A k \in Jobs \ {j} : attached[k] \notin gone  BY DEF Unreferenced
  <1>5. StaysFound  BY <1>3, <1>4 DEF StaysFound, Found
  <1>6. \A v \in Workers : RunAttached(v)
    <2> SUFFICES ASSUME NEW v \in Workers, runs'[v].link = "live"
                 PROVE  /\ runs[v].link = "live"
                        /\ attached[Job(v)] = Digest(v) => file'[Job(v)] = "gone" \/ attached'[Job(v)] = Digest(v)
      BY <1>2 DEF RunAttached
    <2>1. runs[v].link = "live"  BY <1>2
    <2>2. Job(v) \in Jobs  BY <2>1, LinkedHasJob
    <2>3. CASE Job(v) = j  BY <1>3, <2>1, <2>3
    <2>4. CASE Job(v) # j  BY <1>3, <2>1, <2>2, <2>4
    <2> QED BY <2>3, <2>4
  <1>7. \A k \in Jobs : FileFound(k)'
    BY <1>3, <1>5, FoundInvByPart DEF FileFound, StaysFound, Found
  <1> QED BY <1>5, <1>6, <1>7, FoundStep

\* Attaching a file again changes nothing for it, as its digests agree.
LEMMA AttachFound ==
  ASSUME Deterministic, IInv, RowInv, FoundInv, NEW w \in Workers, NEW p \in Phases, AttachTo(w, p),
         runs[w].phase \in Knowing, Job(w) \in Jobs, UNCHANGED fileVars,
         p = "finish" => rows[Digest(w)].state = "ready"
  PROVE  FoundInv'
  <1> DEFINE h == Digest(w)
             gone == Unreferenced(Job(w)) \ {h}
             row == IF rows[h].state = "none" THEN [state |-> "processing", owner |-> Job(w), chunks |-> FALSE] ELSE rows[h]
             r == IF p \in Claim THEN After(w, p) ELSE [After(w, p) EXCEPT !.link = "live"]
             rs == [runs EXCEPT ![w] = r]
  <1>0. runs \in [Workers -> RunType] /\ rows \in [Hashes -> RowType] /\ attached \in [Jobs -> Hashes \cup {NoHash}]
    BY DEF IInv, TypeOK
  <1>1. rows' = [Without(rows, gone) EXCEPT ![h] = row] /\ runs' = Cut(rs, gone) /\ attached' = [attached EXCEPT ![Job(w)] = h]
    BY DEF AttachTo
  <1>2. h \in Digests[Job(w)] /\ h \in Hashes
    BY DigestsAssumption DEF RowInv, KnowsDigest
  <1>3. attached[Job(w)] = NoHash \/ attached[Job(w)] = h
    BY <1>2, FoundInvByPart DEF FileFound, Deterministic
  <1>4. \A g \in Hashes : g \notin gone
    BY <1>3, JobsAssumption DEF Unreferenced
  <1>5. r \in RunType /\ r.job = Job(w) /\ r.phase = p /\ (r.link = "live" => r.digest = h)
    <2> DEFINE q == After(w, p)
    <2>1. /\ q \in RunType /\ q.job = Job(w) /\ q.phase = p
          /\ p \in Claim => q.link = "none"
          /\ p \notin Claim => q.digest = h
      BY <1>0, AfterType
    <2>2. CASE p \in Claim  BY <2>1, <2>2
    <2>3. CASE p \notin Claim
      <3>1. r = [q EXCEPT !.link = "live"]  BY <2>3
      <3>2. q \in RunType /\ q.job = Job(w) /\ q.phase = p /\ q.digest = h  BY <2>1, <2>3
      <3> HIDE DEF r, q, h
      <3> QED BY <3>1, <3>2 DEF RunType
    <2> QED BY <2>2, <2>3
  <1> HIDE DEF r
  <1>6. rs \in [Workers -> RunType] /\ rs[w] = r /\ \A v \in Workers \ {w} : rs[v] = runs[v]
    BY <1>0, <1>5
  <1>7. /\ rows'[h] = row /\ (rows[h].state = "ready" => row.state = "ready")
        /\ \A g \in Hashes \ {h} : rows'[g] = rows[g]
    BY <1>0, <1>1, <1>2, <1>4 DEF Without
  <1>8. attached'[Job(w)] = h /\ \A k \in Jobs \ {Job(w)} : attached'[k] = attached[k]
    BY <1>0, <1>1
  <1>9. file' = file /\ indexed' = indexed  BY DEF fileVars
  <1> HIDE DEF row, rs, gone
  <1>10. \A v \in Workers : /\ runs'[v].job = rs[v].job /\ runs'[v].phase = rs[v].phase /\ runs'[v].digest = rs[v].digest
                            /\ runs'[v].link = "live" => rs[v].link = "live"
    BY <1>1, <1>6, CutType
  <1>11. StaysFound
    <2>1. \A g \in Hashes : rows[g].state = "ready" => rows'[g].state = "ready"
      BY <1>7
    <2>2. ASSUME NEW k \in Jobs, attached[k] \in Hashes  PROVE attached'[k] = attached[k]
      BY <1>3, <1>8, <2>2, JobsAssumption
    <2> QED BY <1>9, <2>1, <2>2 DEF StaysFound, Found
  <1>12. \A v \in Workers \ {w} : RunAttached(v)
    <2> SUFFICES ASSUME NEW v \in Workers \ {w}, runs'[v].link = "live"
                 PROVE  runs[v].link = "live" /\ (attached[Job(v)] = Digest(v) => attached'[Job(v)] = Digest(v))
      BY <1>6, <1>10 DEF RunAttached
    <2>1. runs[v].link = "live"  BY <1>6, <1>10
    <2>2. Job(v) \in Jobs /\ Digest(v) \in Hashes  BY <2>1, LinkedHasJob DEF RowInv, LinkHasRow
    <2> QED BY <1>3, <1>8, <2>1, <2>2, JobsAssumption
  <1>13. RunFound(w)'
    <2>1. Job(w)' = Job(w) /\ runs'[w].phase = p /\ (runs'[w].link = "live" => Digest(w)' = h)
      BY <1>5, <1>6, <1>10 DEF Job, Digest
    <2>2. p = "finish" => Found(Job(w))'
      BY <1>2, <1>7, <1>8, <2>1 DEF Found
    <2> QED BY <1>8, <2>1, <2>2 DEF RunFound
  <1>14. \A k \in Jobs : FileFound(k)'
    <2> SUFFICES ASSUME NEW k \in Jobs  PROVE FileFound(k)'
      OBVIOUS
    <2>1. FileFound(k)  BY FoundInvByPart
    <2>2. indexed'[k] /\ file'[k] # "gone" => Found(k)'
      BY <1>9, <1>11, <2>1 DEF FileFound, StaysFound
    <2>3. attached'[k] = NoHash \/ attached'[k] \in Digests[k]
      BY <1>2, <1>8, <2>1 DEF FileFound
    <2> QED BY <2>2, <2>3 DEF FileFound
  <1>15. \A v \in Workers \ (Workers \ {w}) : v = w  OBVIOUS
  <1> QED BY <1>11, <1>12, <1>13, <1>14, <1>15, FoundStep

LEMMA ErasedFound ==
  ASSUME IInv, RowInv, FoundInv, NEW w \in Workers, NEW p \in Phases \ {"finish"}, NEW gone, Erase(gone, w, After(w, p)),
         UNCHANGED fileVars, \A h \in Hashes : h \in gone => rows[h].state = "processing"
  PROVE  FoundInv'
  <1> DEFINE r == After(w, p)
  <1>1. /\ r \in RunType /\ r.phase = p /\ r.job = Job(w)
        /\ r.link = "live" => runs[w].link = "live" /\ r.digest = Digest(w)
    BY AfterType DEF IInv, TypeOK
  <1>2. runs' = Cut([runs EXCEPT ![w] = r], gone) /\ rows' = Without(rows, gone) /\ attached' = Detached(attached, gone)
    BY DEF Erase
  <1> HIDE DEF r
  <1> QED BY <1>1, <1>2, FoundCut

LEMMA PollFound ==
  ASSUME IInv, RowInv, FoundInv, NEW w \in Workers, Poll(w)
  PROVE  FoundInv'
  <1>1. PICK r \in RunType : /\ runs' = Cut([runs EXCEPT ![w] = r], OwnedByLate)
                            /\ r.phase \in {"idle", "claimed"} /\ r.link = "none"
    BY PollRun
  <1>2. rows' = Without(rows, OwnedByLate) /\ attached' = Detached(attached, OwnedByLate) /\ UNCHANGED fileVars
    BY DEF Poll
  <1>3. \A h \in Hashes : h \in OwnedByLate => rows[h].state # "ready"  BY DEF OwnedByLate
  <1> QED BY <1>1, <1>2, <1>3, FoundCut

LEMMA ShareFound ==
  ASSUME Deterministic, IInv, RowInv, FoundInv, NEW w \in Workers, Share(w)
  PROVE  FoundInv'
  <1>1. CASE Attach(w)
    <2> DEFINE p == IF Creates(w) THEN (IF runs[w].donor THEN "copy" ELSE "index")
                    ELSE IF rows[Digest(w)].state = "ready" THEN "finish" ELSE "wait"
    <2>1. AttachTo(w, p) /\ runs[w].phase \in Knowing /\ Job(w) \in Jobs /\ UNCHANGED fileVars
      BY <1>1, AtHasJob DEF Attach, At, Knowing
    <2>2. p \in Phases /\ (p = "finish" => rows[Digest(w)].state = "ready")
      BY DEF Phases
    <2> HIDE DEF p
    <2> QED BY <2>1, <2>2, AttachFound
  <1>2. CASE Reattach(w)
    BY <1>2, AtHasJob, AttachFound DEF Reattach, At, Knowing, Phases
  <1>3. CASE SeeReady(w)
    <2>1. Job(w) \in Jobs /\ RunFound(w) /\ Digest(w) \in Hashes
      BY <1>3, LinkedHasJob, FoundInvByPart DEF SeeReady, RowInv, LinkHasRow
    <2>2. file[Job(w)] = "gone" \/ Found(Job(w))
      BY <1>3, <2>1 DEF SeeReady, RunFound, Found
    <2> QED BY <1>3, <2>1, <2>2, GotoFound DEF SeeReady, Phases, fileVars
  <1>4. CASE Vanished(w)
    BY <1>4, GotoFound DEF Vanished, Phases, fileVars
  <1>5. CASE Steal(w)
    BY <1>5, ErasedFound DEF Steal, Stale, Phases
  <1>6. CASE GiveUpCopy(w)
    BY <1>6, ErasedFound DEF GiveUpCopy, Holds, Phases
  <1>7. CASE Copy(w)
    <2>1. /\ \A v \in Workers \ {w} : runs'[v] = runs[v]
          /\ runs'[w] = After(w, "ready")
      BY <1>7 DEF Copy, Goto, IInv, TypeOK
    <2>2. /\ runs'[w].job = runs[w].job /\ runs'[w].phase = "ready"
          /\ runs'[w].link = "live" => runs[w].link = "live" /\ runs'[w].digest = runs[w].digest
      BY <2>1, AfterType DEF IInv, TypeOK, Job, Digest, Phases
    <2>3. /\ attached' = attached /\ file' = file /\ indexed' = indexed
          /\ \A h \in Hashes : rows'[h].state = rows[h].state
      BY <1>7 DEF Copy, IInv, TypeOK, RowType, fileVars
    <2> QED BY <2>1, <2>2, <2>3, FoundMove
  <1> QED BY <1>1, <1>2, <1>3, <1>4, <1>5, <1>6, <1>7 DEF Share

LEMMA IndexFound ==
  ASSUME IInv, RowInv, FoundInv, NEW w \in Workers, Index(w)
  PROVE  FoundInv'
  <1>1. CASE WriteChunks(w)
    <2>1. PICK p \in {"ready", "abandon"} : Goto(w, p)
      BY <1>1 DEF WriteChunks
    <2>2. /\ \A v \in Workers \ {w} : runs'[v] = runs[v]
          /\ runs'[w] = After(w, p)
      BY <2>1 DEF Goto, IInv, TypeOK
    <2>3. /\ runs'[w].job = runs[w].job /\ runs'[w].phase = p
          /\ runs'[w].link = "live" => runs[w].link = "live" /\ runs'[w].digest = runs[w].digest
      BY <2>2, AfterType DEF IInv, TypeOK, Job, Digest, Phases
    <2>4. attached' = attached /\ file' = file /\ indexed' = indexed
      BY <1>1 DEF WriteChunks, fileVars
    <2>5. \A h \in Hashes : rows[h].state = "ready" => rows'[h].state = "ready"
      BY <1>1 DEF WriteChunks, IInv, TypeOK, RowType
    <2> QED BY <2>2, <2>3, <2>4, <2>5, FoundMove
  <1>2. CASE MarkReady(w) /\ Owns(w)
    BY <1>2, MarkReadyFound
  <1>3. CASE MarkReady(w) /\ ~Owns(w)
    BY <1>3, GotoFound DEF MarkReady, contentVars, fileVars, Phases
  <1>4. CASE Abandon(w)
    BY <1>4, ErasedFound DEF Abandon, Holds, Phases
  <1>5. CASE Finish(w)
    BY <1>5, OutcomeFound DEF Finish, At
  <1> QED BY <1>1, <1>2, <1>3, <1>4, <1>5 DEF Index

LEMMA OtherFound ==
  ASSUME IInv, RowInv, FoundInv, NEW w \in Workers, Begin(w) \/ Parse(w) \/ Failure(w)
  PROVE  FoundInv'
  <1>1. CASE MissingFile(w) \/ NoDonor(w) \/ RaisesTerminal(w) \/ Acquire(w) \/ Full(w)
    BY <1>1, GotoFound DEF MissingFile, NoDonor, RaisesTerminal, Acquire, Full, contentVars, fileVars, Phases
  <1>2. CASE Mark(w)
    <2>1. \A j \in Jobs : file[j] = "gone" => file'[j] = "gone"  BY <1>2 DEF Mark, IInv, TypeOK
    <2> QED BY <1>2, <2>1, GotoFound DEF Mark, Phases
  <1>3. CASE Refuse(w) \/ GiveUp(w)
    BY <1>3, OutcomeFound DEF Refuse, GiveUp
  <1>4. CASE Yield(w) \/ Retry(w)
    <2>1. Job(w) \in Jobs  BY <1>4, AtHasJob DEF Yield, Retry
    <2>2. /\ file[Job(w)] \in {"pending", "processing", "ready", "failed", "gone"}
          /\ indexed[Job(w)] \in BOOLEAN
      BY <2>1 DEF IInv, TypeOK
    <2> QED BY <1>4, <2>2, OutcomeFound DEF Yield, Retry
  <1>5. CASE Donor(w) \/ Parsed(w)
    <2>1. PICK h \in Digests[Job(w)] :
            \/ runs' = [runs EXCEPT ![w].phase = "attach", ![w].digest = h, ![w].donor = TRUE]
            \/ runs' = [runs EXCEPT ![w].phase = "attach", ![w].digest = h]
      BY <1>5 DEF Donor, Parsed
    <2>2. runs[w].link = "none"
      BY <1>5 DEF Donor, Parsed, At, Knowing, RowInv, Unlinked
    <2>3. runs[w] \in RunType  BY DEF IInv, TypeOK
    <2>4. runs'[w].link = "none" /\ runs'[w].phase = "attach"
      <3>1. CASE runs' = [runs EXCEPT ![w].phase = "attach", ![w].digest = h, ![w].donor = TRUE]
        BY <2>2, <2>3, <3>1 DEF RunType, IInv, TypeOK
      <3>2. CASE runs' = [runs EXCEPT ![w].phase = "attach", ![w].digest = h]
        BY <2>2, <2>3, <3>2 DEF RunType, IInv, TypeOK
      <3> QED BY <2>1, <3>1, <3>2
    <2>5. \A v \in Workers \ {w} : runs'[v] = runs[v]  BY <2>1 DEF IInv, TypeOK
    <2>6. UNCHANGED <<rows, attached, file, indexed>>  BY <1>5 DEF Donor, Parsed, contentVars, fileVars
    <2> QED BY <2>4, <2>5, <2>6, FoundMove
  <1>6. CASE Raises(w)
    BY <1>6, GotoFound DEF Raises, Unwind, contentVars, fileVars, Phases
  <1> QED BY <1>1, <1>2, <1>3, <1>4, <1>5, <1>6 DEF Begin, Parse, Failure

\* Steps that neither move a run nor touch content.
LEMMA StillFound ==
  ASSUME FoundInv, UNCHANGED <<rows, attached, runs>>,
         \A j \in Jobs : file[j] = "gone" => file'[j] = "gone",
         \A j \in Jobs : indexed'[j] => indexed[j],
         \A v \in Workers : runs[v].link = "live" \/ runs[v].phase = "finish" => Job(v) \in Jobs
  PROVE  FoundInv'
  BY DEF FoundInv, LinkAttached, FinisherFound, AttachedDigest, Searchable, Found, Job, Digest

LEMMA IdleFound ==
  ASSUME IInv, RowInv, FoundInv, NEW w \in Workers, GoIdle(w), UNCHANGED <<rows, attached, file, indexed>>
  PROVE  FoundInv'
  <1>1. \A v \in Workers \ {w} : runs'[v] = runs[v]  BY DEF GoIdle, IInv, TypeOK
  <1>2. runs'[w].phase = "idle" /\ runs'[w].link = "none"  BY DEF GoIdle, IInv, TypeOK, Idle
  <1> QED BY <1>1, <1>2, FoundMove

LEMMA NextFound ==
  ASSUME Deterministic
  PROVE  IInv /\ RowInv /\ FoundInv /\ [Next]_vars => FoundInv'
  <1> SUFFICES ASSUME IInv, RowInv, FoundInv, [Next]_vars  PROVE FoundInv'
    OBVIOUS
  <1>0. \A v \in Workers : runs[v].link = "live" \/ runs[v].phase = "finish" => Job(v) \in Jobs
    BY LinkedHasJob
  <1>1. ASSUME NEW w \in Workers, Announce(w)  PROVE FoundInv'
    <2>1. /\ \A j \in Jobs : file[j] = "gone" => file'[j] = "gone"
          /\ \A j \in Jobs : indexed'[j] => indexed[j]
      BY <1>1 DEF Announce, IInv, TypeOK
    <2> QED BY <1>0, <1>1, <2>1, StillFound DEF Announce, contentVars
  <1>2. ASSUME NEW w \in Workers, Work(w)  PROVE FoundInv'
    BY <1>1, <1>2, PollFound, OtherFound, ShareFound, IndexFound DEF Work
  <1>3. ASSUME NEW w \in Workers, AnnounceLost(w) \/ Heartbeat(w)  PROVE FoundInv'
    BY <1>0, <1>3, StillFound DEF AnnounceLost, Heartbeat, contentVars, fileVars
  <1>4. ASSUME NEW w \in Workers, FailureLost(w) \/ WorkerDies(w)  PROVE FoundInv'
    BY <1>4, IdleFound DEF FailureLost, WorkerDies, contentVars, fileVars
  <1>5. ASSUME NEW j \in Jobs, LeaseLapses(j) \/ LeaseStalls(j) \/ SlotExpires(j)  PROVE FoundInv'
    BY <1>0, <1>5, StillFound DEF LeaseLapses, LeaseStalls, SlotExpires, contentVars, fileVars
  <1>6. ASSUME NEW j \in Jobs, DeleteFile(j)  PROVE FoundInv'
    BY <1>6, DeleteFound
  <1>7. ASSUME NEW h \in Hashes, DonorLeaves(h)  PROVE FoundInv'
    BY <1>0, <1>7, StillFound DEF DonorLeaves, contentVars, fileVars
  <1>8. CASE UNCHANGED vars
    BY <1>0, <1>8, StillFound DEF vars
  <1> QED BY <1>1, <1>2, <1>3, <1>4, <1>5, <1>6, <1>7, <1>8 DEF Next

LEMMA InitFound == Init => FoundInv
  BY JobsAssumption DEF Init, Idle, FoundInv, LinkAttached, FinisherFound, AttachedDigest, Searchable

(***************************************************************************)
(* A file that is shown as indexed is attached to ready content, when      *)
(* parsing it again gives the same content: no thief, reaper, stale run or *)
(* other file takes the content away. Without that assumption an old run's *)
(* attach_file_content, which no fence guards, can.                        *)
(***************************************************************************)
THEOREM SearchableHolds ==
  ASSUME Deterministic
  PROVE  Spec => []Searchable
  <1>1. FoundInv => Searchable  BY DEF FoundInv
  <1>2. IInv /\ RowInv /\ FoundInv /\ [Next]_vars => FoundInv'  BY NextFound
  <1> QED BY InitIInv, NextIInv, InitRowInv, NextRowInv, InitFound, <1>1, <1>2, PTL DEF Spec
-----------------------------------------------------------------------------
(* What turns the file of a finished job. *)

\* The step of a run that lost its claim, and marks the file of its job all the same.
Straggles(w, j) == Job(w) = j /\ Mark(w) /\ ~Claimed(w)

LEMMA FileChanges ==
  ASSUME IInv, Next, NEW j \in Jobs, status[j] = "done", file[j] = "ready", file'[j] \notin {"ready", "gone"}
  PROVE  \E w \in Workers : Straggles(w, j)
  <1>0. TypeOK  BY DEF IInv
  <1>1. ASSUME NEW w \in Workers, Announce(w)  PROVE file'[j] = file[j]
    <2>1. PICK k \in announce[w] : file' = [file EXCEPT ![k] = IF file[k] = "gone" THEN "gone" ELSE "failed"]
      BY <1>1 DEF Announce
    <2>2. k # j  BY <2>1 DEF IInv, ClaimInv, AnnouncedFailed
    <2> QED BY <1>0, <2>1, <2>2 DEF TypeOK
  <1>2. ASSUME NEW w \in Workers, NEW s, NEW f, NEW i, Outcome(w, s, f, i)  PROVE file'[j] = file[j]
    <2>1. CASE Claimed(w)
      <3>1. file' = [file EXCEPT ![Job(w)] = IF @ = "gone" THEN "gone" ELSE f]  BY <1>2, <2>1 DEF Outcome
      <3>2. Job(w) # j  BY <2>1 DEF Claimed
      <3> QED BY <1>0, <3>1, <3>2 DEF TypeOK
    <2>2. CASE ~Claimed(w)  BY <1>2, <2>2 DEF Outcome, fileVars
    <2> QED BY <2>1, <2>2
  <1>3. ASSUME NEW w \in Workers, Mark(w)  PROVE Straggles(w, j)
    <2>1. file' = [file EXCEPT ![Job(w)] = IF @ = "gone" THEN "gone" ELSE "processing"]  BY <1>3 DEF Mark
    <2>2. Job(w) = j  BY <1>0, <2>1 DEF TypeOK
    <2> QED BY <1>3, <2>2 DEF Straggles, Claimed
  <1>4. ASSUME NEW w \in Workers, Poll(w)  PROVE file'[j] = file[j]
    BY <1>4 DEF Poll, fileVars
  <1>5. ASSUME NEW w \in Workers, Refuse(w) \/ Yield(w) \/ Finish(w) \/ Retry(w) \/ GiveUp(w)
        PROVE  file'[j] = file[j]
    BY <1>2, <1>5 DEF Refuse, Yield, Finish, Retry, GiveUp
  <1>6. ASSUME NEW w \in Workers, Work(w)  PROVE file'[j] = file[j] \/ Straggles(w, j)
    BY <1>1, <1>3, <1>4, <1>5, <1>6
       DEF Work, Begin, Parse, Share, Index, Failure, MissingFile, NoDonor, Donor, RaisesTerminal, Acquire, Full,
           Parsed, Attach, SeeReady, Steal, Copy, Vanished, GiveUpCopy, Reattach, WriteChunks, MarkReady, Abandon,
           Raises, fileVars
  <1>7. ASSUME NEW w \in Workers, AnnounceLost(w) \/ Heartbeat(w) \/ FailureLost(w) \/ WorkerDies(w)
        PROVE  file'[j] = file[j]
    BY <1>7 DEF AnnounceLost, Heartbeat, FailureLost, WorkerDies, fileVars
  <1>8. ASSUME NEW k \in Jobs, LeaseLapses(k) \/ LeaseStalls(k) \/ SlotExpires(k)  PROVE file'[j] = file[j]
    BY <1>8 DEF LeaseLapses, LeaseStalls, SlotExpires, fileVars
  <1>9. ASSUME NEW k \in Jobs, DeleteFile(k)  PROVE file'[j] \in {file[j], "gone"}
    BY <1>0, <1>9 DEF DeleteFile, TypeOK
  <1>10. ASSUME NEW h \in Hashes, DonorLeaves(h)  PROVE file'[j] = file[j]
    BY <1>10 DEF DonorLeaves, fileVars
  <1> QED BY <1>6, <1>7, <1>8, <1>9, <1>10 DEF Next

(***************************************************************************)
(* The whole cause of what the run jobs_stale_write finds: whatever        *)
(* expires, dies or is announced late, the ready file of a done job turns  *)
(* back only in _set_file_status of a run of the same job that has lost    *)
(* its claim, the one write of the pipeline that _lost_claim does not      *)
(* guard.                                                                  *)
(***************************************************************************)
THEOREM OnlyStragglersTurnDoneFiles ==
  Spec => [][\A j \in Jobs : status[j] = "done" /\ file[j] = "ready" /\ file'[j] \notin {"ready", "gone"} =>
               \E w \in Workers : Straggles(w, j)]_vars
  <1>1. IInv /\ [Next]_vars =>
          [\A j \in Jobs : status[j] = "done" /\ file[j] = "ready" /\ file'[j] \notin {"ready", "gone"} =>
             \E w \in Workers : Straggles(w, j)]_vars
    BY FileChanges
  <1> QED BY InitIInv, NextIInv, <1>1, PTL DEF Spec

\* Without faults every run holds the claim of its job, and every claim has its run.
Undisturbed ==
  /\ \A j \in Jobs : lease[j] # "expired"
  /\ \A w \in Workers : announce[w] = {}
  /\ \A w \in Workers : IF runs[w].phase = "idle" THEN Job(w) = Nobody ELSE Claimed(w)
  /\ \A j \in Jobs : status[j] = "running" => \E w \in Workers : Job(w) = j

\* A run goes on with its job, and no job hears of it.
Continues(w) ==
  /\ Job(w) \in Jobs /\ runs[w].phase # "idle"
  /\ GoesOn(w) /\ runs'[w].phase # "idle"
  /\ UNCHANGED <<status, attempts, lease, announce>>

LEMMA MoveContinues ==
  ASSUME IInv, NEW w \in Workers,
         \/ Moves(w) \/ Acquire(w) \/ Mark(w) \/ Raises(w)
         \/ Copy(w) \/ WriteChunks(w) \/ MarkReady(w)
  PROVE  Continues(w)
  <1> USE DEF Moves, MissingFile, NoDonor, Full, SeeReady, Vanished, RaisesTerminal, Acquire, Mark, Raises,
              Copy, WriteChunks, MarkReady
  <1>0. TypeOK  BY DEF IInv
  <1>1. PICK p \in Phases \ {"idle"} : Goto(w, p)
    BY DEF Phases, Unwind
  <1>2. runs[w].phase # "idle" /\ UNCHANGED <<status, attempts, lease, announce>>
    BY DEF At, jobVars, worldVars
  <1>3. Job(w) \in Jobs  BY <1>2 DEF IInv, ClaimInv, BusyHasJob
  <1>4. GoesOn(w)  BY <1>0, <1>1, GotoGoesOn
  <1>5. runs' = [runs EXCEPT ![w] = After(w, p)] /\ runs \in [Workers -> RunType]
    BY <1>0, <1>1 DEF Goto, TypeOK
  <1>6. runs'[w].phase # "idle"  BY <1>1, <1>5, AfterType
  <1> QED BY <1>2, <1>3, <1>4, <1>6 DEF Continues

LEMMA LearnContinues ==
  ASSUME IInv, NEW w \in Workers, Donor(w) \/ Parsed(w)
  PROVE  Continues(w)
  <1>0. runs \in [Workers -> RunType] /\ runs[w] \in RunType  BY DEF IInv, TypeOK
  <1>1. runs[w].phase # "idle" /\ UNCHANGED <<status, attempts, lease, announce>>
    BY DEF Donor, Parsed, At, jobVars, worldVars
  <1>2. Job(w) \in Jobs  BY <1>1 DEF IInv, ClaimInv, BusyHasJob
  <1>3. PICK r \in RunType : /\ runs' = [runs EXCEPT ![w] = r]
                            /\ r.job = runs[w].job /\ r.attempt = runs[w].attempt /\ r.phase = "attach"
    <2>1. CASE Donor(w)
      <3>1. PICK h \in Digests[Job(w)] :
              runs' = [runs EXCEPT ![w].phase = "attach", ![w].digest = h, ![w].donor = TRUE]
        BY <2>1 DEF Donor
      <3> DEFINE q == [runs[w] EXCEPT !.phase = "attach", !.digest = h, !.donor = TRUE]
      <3>2. h \in Hashes  BY <1>2, DigestsAssumption
      <3>3. q \in RunType /\ q.job = runs[w].job /\ q.attempt = runs[w].attempt /\ q.phase = "attach"
        BY <1>0, <3>2 DEF RunType, Phases
      <3>4. runs' = [runs EXCEPT ![w] = q]  BY <1>0, <3>1
      <3> HIDE DEF q
      <3> QED BY <3>3, <3>4
    <2>2. CASE Parsed(w)
      <3>1. PICK h \in Digests[Job(w)] : runs' = [runs EXCEPT ![w].phase = "attach", ![w].digest = h]
        BY <2>2 DEF Parsed
      <3> DEFINE q == [runs[w] EXCEPT !.phase = "attach", !.digest = h]
      <3>2. h \in Hashes  BY <1>2, DigestsAssumption
      <3>3. q \in RunType /\ q.job = runs[w].job /\ q.attempt = runs[w].attempt /\ q.phase = "attach"
        BY <1>0, <3>2 DEF RunType, Phases
      <3>4. runs' = [runs EXCEPT ![w] = q]  BY <1>0, <3>1
      <3> HIDE DEF q
      <3> QED BY <3>3, <3>4
    <2> QED BY <2>1, <2>2
  <1>4. GoesOn(w) /\ runs'[w].phase = "attach"  BY <1>0, <1>3 DEF GoesOn
  <1> QED BY <1>1, <1>2, <1>4 DEF Continues

LEMMA RowContinues ==
  ASSUME IInv, NEW w \in Workers, Attach(w) \/ Reattach(w) \/ Steal(w) \/ GiveUpCopy(w) \/ Abandon(w)
  PROVE  Continues(w)
  <1>0. TypeOK /\ runs \in [Workers -> RunType]  BY DEF IInv, TypeOK
  <1>1. runs[w].phase # "idle" /\ UNCHANGED <<status, attempts, lease, announce>>
    BY DEF Attach, Reattach, Steal, GiveUpCopy, Abandon, At, jobVars, worldVars
  <1>2. Job(w) \in Jobs  BY <1>1 DEF IInv, ClaimInv, BusyHasJob
  <1>3. CASE Attach(w) \/ Reattach(w)
    <2>1. PICK p \in Phases \ {"idle"} : AttachTo(w, p)  BY <1>3 DEF Attach, Reattach, Phases
    <2>2. GoesOn(w)  BY <1>0, <2>1, AttachGoesOn
    <2> DEFINE r == IF p \in Claim THEN After(w, p) ELSE [After(w, p) EXCEPT !.link = "live"]
               rs == [runs EXCEPT ![w] = r]
    <2>3. runs' = Cut(rs, Unreferenced(Job(w)) \ {Digest(w)})  BY <2>1 DEF AttachTo
    <2>4. After(w, p) \in RunType /\ After(w, p).phase = p  BY <1>0, AfterType
    <2>5. r \in RunType /\ r.phase = p
      <3> DEFINE q == After(w, p)
      <3>1. r = q \/ r = [q EXCEPT !.link = "live"]  OBVIOUS
      <3>2. q \in RunType /\ q.phase = p  BY <2>4
      <3> HIDE DEF q, r
      <3> QED BY <3>1, <3>2 DEF RunType
    <2>6. rs \in [Workers -> RunType] /\ rs[w].phase = p  BY <1>0, <2>5
    <2> HIDE DEF rs, r
    <2>7. runs'[w].phase = p  BY <2>3, <2>6, CutType
    <2> QED BY <1>1, <1>2, <2>2, <2>7 DEF Continues
  <1>4. CASE Steal(w) \/ GiveUpCopy(w) \/ Abandon(w)
    <2>1. PICK p \in Phases \ {"idle"} : \E gone : Erase(gone, w, After(w, p))
      BY <1>4 DEF Steal, GiveUpCopy, Abandon, Phases
    <2>2. PICK gone : Erase(gone, w, After(w, p))  BY <2>1
    <2>3. GoesOn(w)  BY <1>0, <2>2, EraseGoesOn
    <2> DEFINE rs == [runs EXCEPT ![w] = After(w, p)]
    <2>4. runs' = Cut(rs, gone)  BY <2>2 DEF Erase
    <2>5. rs \in [Workers -> RunType] /\ rs[w].phase = p  BY <1>0, AfterType
    <2> HIDE DEF rs
    <2>6. runs'[w].phase = p  BY <2>4, <2>5, CutType
    <2> QED BY <1>1, <1>2, <2>3, <2>6 DEF Continues
  <1> QED BY <1>3, <1>4

LEMMA ContinuesUndisturbed ==
  ASSUME Undisturbed, NEW w \in Workers, Continues(w)
  PROVE  Undisturbed'
  <1>1. \A v \in Workers : Job(v)' = Job(v) /\ runs'[v].attempt = runs[v].attempt
                           /\ (runs'[v].phase = "idle" <=> runs[v].phase = "idle")
    BY DEF Continues, GoesOn, Job
  <1>2. \A v \in Workers : Claimed(v)' <=> Claimed(v)
    BY <1>1 DEF Claimed, Continues
  <1> QED BY <1>1, <1>2 DEF Undisturbed, Continues

LEMMA EndsUndisturbed ==
  ASSUME IInv, Undisturbed, NEW w \in Workers, runs[w].phase # "idle",
         Refuse(w) \/ Yield(w) \/ Finish(w) \/ Retry(w) \/ GiveUp(w)
  PROVE  Undisturbed'
  <1>0. TypeOK  BY DEF IInv
  <1>1. Claimed(w) /\ Job(w) \in Jobs  BY DEF Undisturbed, Claimed
  <1>2. PICK s \in {"pending", "done", "failed"} :
          /\ status' = [status EXCEPT ![Job(w)] = s]
          /\ lease' = [lease EXCEPT ![Job(w)] = "none"]
    BY <1>1 DEF Refuse, Yield, Finish, Retry, GiveUp, Outcome
  <1>3. /\ GoIdle(w) /\ announce' = announce
        /\ \A j \in Jobs : j # Job(w) => attempts'[j] = attempts[j]
    BY <1>0 DEF Refuse, Yield, Finish, Retry, GiveUp, TypeOK, worldVars
  <1>4. /\ \A j \in Jobs : j # Job(w) => status'[j] = status[j]
        /\ status'[Job(w)] # "running" /\ \A j \in Jobs : lease'[j] # "expired"
    BY <1>0, <1>1, <1>2 DEF TypeOK, Undisturbed
  <1>5. /\ \A v \in Workers \ {w} : runs'[v] = runs[v]
        /\ runs'[w].job = Nobody /\ runs'[w].phase = "idle"
    BY <1>0, <1>3 DEF GoIdle, TypeOK, Idle
  <1>6. \A v \in Workers \ {w} : Claimed(v) => Claimed(v)'
    <2>1. \A v \in Workers \ {w} : Claimed(v) => Job(v) # Job(w)
      BY <1>1 DEF Claimed, IInv, ClaimInv, AttemptsDiffer
    <2> QED BY <1>3, <1>4, <1>5, <2>1 DEF Claimed, Job
  <1>7. \A v \in Workers : IF runs'[v].phase = "idle" THEN Job(v)' = Nobody ELSE Claimed(v)'
    BY <1>5, <1>6 DEF Undisturbed, Job
  <1>8. \A j \in Jobs : status'[j] = "running" => \E v \in Workers : Job(v)' = j
    BY <1>4, <1>5 DEF Undisturbed, Job
  <1> QED BY <1>3, <1>4, <1>7, <1>8 DEF Undisturbed

LEMMA PollUndisturbed ==
  ASSUME IInv, Undisturbed, NEW w \in Workers, Poll(w)
  PROVE  Undisturbed'
  <1>0. TypeOK  BY DEF IInv
  <1>1. \A j \in Jobs : ~Late(j) /\ ~Spent(j)  BY DEF Undisturbed, Late, Spent
  <1>2. PICK c \in {j \in Jobs : status[j] = "pending"} \cup {Nobody} :
          /\ c = Nobody => \E j \in Jobs : Late(j)
          /\ status' = [j \in Jobs |-> IF Late(j) THEN Reclaimed(j) ELSE IF j = c THEN "running" ELSE status[j]]
          /\ attempts' = [j \in Jobs |-> IF j = c THEN attempts[j] + 1 ELSE attempts[j]]
          /\ lease' = [j \in Jobs |-> IF Late(j) THEN "none" ELSE IF j = c THEN "live" ELSE lease[j]]
          /\ runs' = Cut([runs EXCEPT ![w] = IF c = Nobody THEN Idle ELSE
                            [Idle EXCEPT !.job = c, !.attempt = attempts[c] + 1, !.phase = "claimed"]], OwnedByLate)
          /\ announce' = [announce EXCEPT ![w] = {j \in Jobs : Spent(j)}]
    BY DEF Poll
  <1>3. c \in Jobs /\ status[c] = "pending" /\ c # Nobody  BY <1>1, <1>2, JobsAssumption
  <1> DEFINE r == [Idle EXCEPT !.job = c, !.attempt = attempts[c] + 1, !.phase = "claimed"]
             rs == [runs EXCEPT ![w] = r]
  <1>4. runs' = Cut(rs, OwnedByLate)  BY <1>2, <1>3
  <1>5. r \in RunType /\ r.job = c /\ r.attempt = attempts[c] + 1 /\ r.phase = "claimed"
    <2>1. attempts[c] + 1 \in 0..MaxAttempts
      BY <1>0, <1>3, BoundsAssumption DEF IInv, ClaimInv, PendingCanRun, TypeOK
    <2> QED BY <1>3, <2>1 DEF Idle, RunType, Phases
  <1>6. /\ rs \in [Workers -> RunType] /\ rs[w] = r
        /\ \A v \in Workers \ {w} : rs[v] = runs[v]
    BY <1>0, <1>5 DEF TypeOK
  <1> HIDE DEF rs
  <1>7. \A v \in Workers : runs'[v].job = rs[v].job /\ runs'[v].attempt = rs[v].attempt /\ runs'[v].phase = rs[v].phase
    BY <1>4, <1>6, CutType
  <1> HIDE DEF r
  <1>8. /\ \A v \in Workers \ {w} : /\ Job(v)' = Job(v) /\ runs'[v].attempt = runs[v].attempt
                                    /\ runs'[v].phase = runs[v].phase
        /\ Job(w)' = c /\ runs'[w].attempt = attempts[c] + 1 /\ runs'[w].phase = "claimed"
    BY <1>5, <1>6, <1>7 DEF Job
  <1>9. /\ status'[c] = "running" /\ attempts'[c] = attempts[c] + 1
        /\ \A j \in Jobs \ {c} : status'[j] = status[j] /\ attempts'[j] = attempts[j]
        /\ \A j \in Jobs : lease'[j] # "expired"
        /\ \A v \in Workers : announce'[v] = {}
    BY <1>0, <1>1, <1>2, <1>3 DEF Undisturbed, TypeOK
  <1>10. Claimed(w)' /\ \A v \in Workers \ {w} : Claimed(v) => Claimed(v)'
    BY <1>3, <1>8, <1>9 DEF Claimed
  <1>11. runs[w].phase = "idle"  BY DEF Poll, At
  <1>12. \A v \in Workers : IF runs'[v].phase = "idle" THEN Job(v)' = Nobody ELSE Claimed(v)'
    BY <1>8, <1>10 DEF Undisturbed
  <1>13. Job(w) = Nobody  BY <1>11 DEF Undisturbed
  <1>14. \A j \in Jobs : status'[j] = "running" => \E v \in Workers : Job(v)' = j
    BY <1>8, <1>9, <1>13, JobsAssumption DEF Undisturbed
  <1> QED BY <1>9, <1>12, <1>14 DEF Undisturbed

LEMMA NextUndisturbed ==
  ASSUME MaxFaults = 0
  PROVE  IInv /\ Undisturbed /\ [Next]_vars => Undisturbed'
  <1> SUFFICES ASSUME IInv, Undisturbed, [Next]_vars  PROVE Undisturbed'
    OBVIOUS
  <1>0. TypeOK /\ faults = 0  BY DEF IInv, TypeOK
  <1>1. ASSUME NEW w \in Workers, Work(w)  PROVE Undisturbed'
    <2>1. ~Announce(w)  BY DEF Announce, Undisturbed
    <2>2. ASSUME Refuse(w) \/ Yield(w) \/ Finish(w) \/ Retry(w) \/ GiveUp(w)  PROVE Undisturbed'
      <3>1. runs[w].phase # "idle"  BY <2>2 DEF Refuse, Yield, Finish, Retry, GiveUp, At
      <3> QED BY <2>2, <3>1, EndsUndisturbed
    <2>3. ASSUME Continues(w)  PROVE Undisturbed'  BY <2>3, ContinuesUndisturbed
    <2> QED BY <1>1, <2>1, <2>2, <2>3, PollUndisturbed, MoveContinues, LearnContinues, RowContinues
            DEF Work, Begin, Parse, Share, Index, Failure, Moves
  <1>2. ASSUME NEW w \in Workers
        PROVE  ~AnnounceLost(w) /\ ~Heartbeat(w) /\ ~FailureLost(w) /\ ~WorkerDies(w)
    BY <1>0 DEF AnnounceLost, Heartbeat, FailureLost, WorkerDies, Undisturbed, Claimed
  <1>3. ASSUME NEW j \in Jobs  PROVE ~LeaseLapses(j) /\ ~LeaseStalls(j)
    <2>1. \A w \in Workers : Job(w) = j => Claimed(w)  BY JobsAssumption DEF Undisturbed
    <2> QED BY <1>0, <2>1 DEF LeaseLapses, LeaseStalls, Undisturbed
  <1>4. ASSUME UNCHANGED <<status, attempts, lease, announce>>, runs' \in [Workers -> RunType],
               \A v \in Workers : /\ runs'[v].job = runs[v].job /\ runs'[v].attempt = runs[v].attempt
                                  /\ runs'[v].phase = runs[v].phase
        PROVE  Undisturbed'
    <2>1. \A v \in Workers : Job(v)' = Job(v)  BY <1>4 DEF Job
    <2>2. \A v \in Workers : Claimed(v)' <=> Claimed(v)  BY <1>4, <2>1 DEF Claimed
    <2> QED BY <1>4, <2>1, <2>2 DEF Undisturbed
  <1>5. ASSUME NEW j \in Jobs, SlotExpires(j) \/ DeleteFile(j)  PROVE Undisturbed'
    <2>1. runs' = runs \/ runs' = Cut(runs, Unreferenced(j))  BY <1>5 DEF SlotExpires, DeleteFile
    <2>2. /\ runs' \in [Workers -> RunType]
          /\ \A v \in Workers : /\ runs'[v].job = runs[v].job /\ runs'[v].attempt = runs[v].attempt
                                /\ runs'[v].phase = runs[v].phase
      BY <1>0, <2>1, CutType DEF TypeOK
    <2>3. UNCHANGED <<status, attempts, lease, announce>>
      BY <1>5 DEF SlotExpires, DeleteFile, jobVars, worldVars
    <2> QED BY <1>4, <2>2, <2>3
  <1>6. ASSUME NEW h \in Hashes, DonorLeaves(h)  PROVE Undisturbed'
    BY <1>0, <1>4, <1>6 DEF DonorLeaves, jobVars, TypeOK
  <1>7. CASE UNCHANGED vars  BY <1>0, <1>4, <1>7 DEF vars, TypeOK
  <1> QED BY <1>1, <1>2, <1>3, <1>5, <1>6, <1>7 DEF Next

LEMMA InitUndisturbed == Init => Undisturbed
  BY DEF Init, Undisturbed, Idle, Job

(***************************************************************************)
(* "This run must not write" is kept as long as no heartbeat goes missing, *)
(* no worker dies and no failure goes unrecorded: then every run holds the *)
(* claim of its job, and there are no stragglers. What the run             *)
(* jobs_stale_write finds needs one such fault.                            *)
(***************************************************************************)
THEOREM DoneFilesStayWithoutFaults ==
  ASSUME MaxFaults = 0
  PROVE  Spec => DoneFileStays
  <1>1. IInv /\ Undisturbed /\ [Next]_vars =>
          [\A j \in Jobs : status[j] = "done" /\ file[j] = "ready" => file'[j] \in {"ready", "gone"}]_vars
    <2>1. ASSUME IInv, Undisturbed, NEW w \in Workers, NEW j \in Jobs  PROVE ~Straggles(w, j)
      BY <2>1 DEF Undisturbed, Straggles, Mark, At
    <2> QED BY <2>1, FileChanges
  <1>2. IInv /\ Undisturbed /\ [Next]_vars => Undisturbed'  BY NextUndisturbed
  <1> QED BY InitIInv, NextIInv, InitUndisturbed, <1>1, <1>2, PTL DEF Spec, DoneFileStays
=============================================================================

----------------------------- MODULE IngestJobs -----------------------------
(***************************************************************************)
(* The ingest queue of the Python pipeline: jobs claimed by several        *)
(* workers under a lease, fenced by the attempt number, and the canonical  *)
(* content rows (rag_contents) that the files of one workspace share.      *)
(*                                                                         *)
(* Every job ingests one file, so a job also names its file. A run is what *)
(* a worker does between two polls; its phase is the next thing it asks of *)
(* the database, and each action is one transaction (or one Redis script). *)
(* Clocks are left out: a lease is live or expired, a backoff ends at any  *)
(* moment, and a waiter may lose its patience whenever it looks.           *)
(***************************************************************************)
EXTENDS Integers, FiniteSets

CONSTANTS
  Jobs,         \* ingest jobs, and the files they ingest
  Deletable,    \* the jobs whose file its user may delete
  Workers,      \* worker processes, each of which takes one job at a time
  Hashes,       \* hashes of parsed content, in one workspace
  Digests,      \* Digests[j]: the hashes that parsing the file of j can give
  Nobody,       \* no job
  NoHash,       \* no content
  Slots,        \* parses that may run at once (cfg.parse_fast_slots)
  MaxAttempts,  \* JobPolicy.max_attempts
  MaxFaults     \* bound on stalls, deaths and lost transactions

ASSUME JobsAssumption == Nobody \notin Jobs /\ NoHash \notin Hashes /\ Deletable \subseteq Jobs
ASSUME DigestsAssumption == Digests \in [Jobs -> SUBSET Hashes]
ASSUME BoundsAssumption == Slots \in Nat /\ MaxAttempts \in Nat \ {0} /\ MaxFaults \in Nat

VARIABLES
  status,    \* jobs.status
  attempts,  \* jobs.attempts, the fencing token of a claim
  lease,     \* jobs.lease_expires_at: "none", "live" or "expired"
  file,      \* files.status, "gone" when the file was deleted
  indexed,   \* files.indexed
  rows,      \* rag_contents, one row per hash
  attached,  \* rag_file_contents: the content of a file
  donors,    \* hashes that another workspace holds ready
  slots,     \* the Redis set of the jobs that may parse
  runs,      \* what every worker is doing
  announce,  \* the reclaimed jobs a worker has yet to announce as failed
  faults     \* faults so far

vars == <<status, attempts, lease, file, indexed, rows, attached, donors, slots, runs, announce, faults>>
jobVars == <<status, attempts, lease>>
fileVars == <<file, indexed>>
contentVars == <<rows, attached>>
worldVars == <<donors, slots, announce, faults>>

Phases == {"idle", "claimed", "slot", "mark", "parse", "attach", "wait", "copy", "vanished",
           "reattach", "index", "ready", "finish", "abandon", "yield", "fail", "die"}

NoRow == [state |-> "none", owner |-> Nobody, chunks |-> FALSE]
Idle == [job |-> Nobody, attempt |-> 0, phase |-> "idle", digest |-> NoHash, donor |-> FALSE, link |-> "none"]

RowType == [state: {"none", "processing", "ready"}, owner: Jobs \cup {Nobody}, chunks: BOOLEAN]
RunType == [job: Jobs \cup {Nobody}, attempt: 0..MaxAttempts, phase: Phases,
            digest: Hashes \cup {NoHash}, donor: BOOLEAN, link: {"none", "live", "lost"}]

(***************************************************************************)
(* What the types allow: in particular no job takes more attempts than its *)
(* policy grants, however many leases expire and however often it yields.  *)
(***************************************************************************)
TypeOK ==
  /\ status \in [Jobs -> {"pending", "running", "done", "failed"}]
  /\ attempts \in [Jobs -> 0..MaxAttempts]
  /\ lease \in [Jobs -> {"none", "live", "expired"}]
  /\ file \in [Jobs -> {"pending", "processing", "ready", "failed", "gone"}]
  /\ indexed \in [Jobs -> BOOLEAN]
  /\ rows \in [Hashes -> RowType]
  /\ attached \in [Jobs -> Hashes \cup {NoHash}]
  /\ donors \subseteq Hashes
  /\ slots \subseteq Jobs
  /\ runs \in [Workers -> RunType]
  /\ announce \in [Workers -> SUBSET Jobs]
  /\ faults \in 0..MaxFaults

Init ==
  /\ status = [j \in Jobs |-> "pending"]
  /\ attempts = [j \in Jobs |-> 0]
  /\ lease = [j \in Jobs |-> "none"]
  /\ file = [j \in Jobs |-> "pending"]
  /\ indexed = [j \in Jobs |-> FALSE]
  /\ rows = [h \in Hashes |-> NoRow]
  /\ attached = [j \in Jobs |-> NoHash]
  /\ donors \in SUBSET Hashes
  /\ slots = {}
  /\ runs = [w \in Workers |-> Idle]
  /\ announce = [w \in Workers |-> {}]
  /\ faults = 0
-----------------------------------------------------------------------------
Job(w) == runs[w].job
Digest(w) == runs[w].digest

\* A fence that asks for the attempt and not for the status.
BadClaimed(w) == Job(w) \in Jobs /\ attempts[Job(w)] = runs[w].attempt

\* claim_is_current: nobody has claimed the job since. The lease is not asked.
Claimed(w) == Job(w) \in Jobs /\ status[Job(w)] = "running" /\ attempts[Job(w)] = runs[w].attempt

\* A run is in phase p and its worker has nothing left to announce.
At(w, p) == runs[w].phase = p /\ announce[w] = {}

\* Removing the content rows in gone takes the attachments of every file with it.
Detached(att, gone) == [j \in Jobs |-> IF att[j] \in gone THEN NoHash ELSE att[j]]
Without(rs, gone) == [h \in Hashes |-> IF h \in gone THEN NoRow ELSE rs[h]]
Cut(rs, gone) ==
  [w \in Workers |-> IF rs[w].digest \in gone /\ rs[w].link = "live"
                     THEN [rs[w] EXCEPT !.link = "lost"] ELSE rs[w]]

\* The rows in gone disappear, and worker w goes on with run r.
Erase(gone, w, r) ==
  /\ rows' = Without(rows, gone)
  /\ attached' = Detached(attached, gone)
  /\ runs' = Cut([runs EXCEPT ![w] = r], gone)

\* delete_unreferenced_rag_content: the content that only j refers to.
Unreferenced(j) == {h \in Hashes : attached[j] = h /\ \A k \in Jobs \ {j} : attached[k] # h}

\* The row that a run attached itself to, while it has not been replaced.
Holds(w) == runs[w].link = "live" /\ rows[Digest(w)].state = "processing"
Owns(w) == runs[w].link = "live" /\ rows[Digest(w)].owner = Job(w)

\* In phase p a run still knows its content, or nothing but its claim.
Keeping(w, p) == [runs[w] EXCEPT !.phase = p]
Only(w, p) == [Idle EXCEPT !.job = Job(w), !.attempt = runs[w].attempt, !.phase = p]
Claim == {"slot", "mark", "parse", "yield", "finish", "fail", "die"}
After(w, p) == IF p \in Claim THEN Only(w, p) ELSE Keeping(w, p)

Goto(w, p) == runs' = [runs EXCEPT ![w] = After(w, p)]
GoIdle(w) == runs' = [runs EXCEPT ![w] = Idle]
-----------------------------------------------------------------------------
\* _claim_one: one transaction reclaims the expired leases and claims a job that is due.
Late(j) == status[j] = "running" /\ lease[j] = "expired"
Spent(j) == Late(j) /\ attempts[j] >= MaxAttempts
Reclaimed(j) == IF Spent(j) THEN "failed" ELSE "pending"

\* Keyed on the file of the dead job instead of the owner of the row.
BadOwnedByLate == {h \in Hashes : rows[h].state = "processing" /\ \E j \in Jobs : Late(j) /\ attached[j] = h}

OwnedByLate == {h \in Hashes : rows[h].state = "processing" /\ rows[h].owner \in {j \in Jobs : Late(j)}}

Poll(w) ==
  /\ At(w, "idle")
  /\ \E c \in {j \in Jobs : status[j] = "pending"} \cup {Nobody} :
       /\ c = Nobody => \E j \in Jobs : Late(j)
       /\ status' = [j \in Jobs |-> IF Late(j) THEN Reclaimed(j) ELSE IF j = c THEN "running" ELSE status[j]]
       /\ attempts' = [j \in Jobs |-> IF j = c THEN attempts[j] + 1 ELSE attempts[j]]
       /\ lease' = [j \in Jobs |-> IF Late(j) THEN "none" ELSE IF j = c THEN "live" ELSE lease[j]]
       /\ rows' = Without(rows, OwnedByLate)
       /\ attached' = Detached(attached, OwnedByLate)
       /\ runs' = Cut([runs EXCEPT ![w] = IF c = Nobody THEN Idle ELSE
                         [Idle EXCEPT !.job = c, !.attempt = attempts[c] + 1, !.phase = "claimed"]], OwnedByLate)
       /\ announce' = [announce EXCEPT ![w] = {j \in Jobs : Spent(j)}]
  /\ UNCHANGED <<fileVars, donors, slots, faults>>

\* A second transaction tells the file of a reclaimed job, without a fence.
Announce(w) ==
  /\ \E j \in announce[w] :
       /\ status' = [status EXCEPT ![j] = "failed"]
       /\ lease' = [lease EXCEPT ![j] = "none"]
       /\ file' = [file EXCEPT ![j] = IF file[j] = "gone" THEN "gone" ELSE "failed"]
       /\ indexed' = [indexed EXCEPT ![j] = FALSE]
       /\ announce' = [announce EXCEPT ![w] = @ \ {j}]
  /\ UNCHANGED <<attempts, contentVars, donors, slots, runs, faults>>

\* The announcement raises, and the worker goes on with the job it claimed.
AnnounceLost(w) ==
  /\ \E j \in announce[w] : announce' = [announce EXCEPT ![w] = @ \ {j}]
  /\ UNCHANGED <<jobVars, fileVars, contentVars, donors, slots, runs, faults>>

\* heartbeat_job: only the current claim of a running job, even after its lease expired.
Heartbeat(w) ==
  /\ Claimed(w) /\ announce[w] = {}
  /\ lease[Job(w)] = "expired"
  /\ lease' = [lease EXCEPT ![Job(w)] = "live"]
  /\ UNCHANGED <<status, attempts, fileVars, contentVars, worldVars, runs>>

\* The lease of a job whose worker is gone.
LeaseLapses(j) ==
  /\ status[j] = "running" /\ lease[j] = "live"
  /\ ~\E w \in Workers : Job(w) = j /\ Claimed(w)
  /\ lease' = [lease EXCEPT ![j] = "expired"]
  /\ UNCHANGED <<status, attempts, fileVars, contentVars, worldVars, runs>>

\* The lease of a job whose run still goes on: its heartbeats did not arrive.
LeaseStalls(j) ==
  /\ status[j] = "running" /\ lease[j] = "live" /\ faults < MaxFaults
  /\ \E w \in Workers : Job(w) = j /\ Claimed(w)
  /\ lease' = [lease EXCEPT ![j] = "expired"]
  /\ faults' = faults + 1
  /\ UNCHANGED <<status, attempts, fileVars, contentVars, donors, slots, runs, announce>>
-----------------------------------------------------------------------------
\* The claim's holder writes the job's outcome; a run that lost its claim writes nothing.
Outcome(w, s, f, i) ==
  IF Claimed(w)
  THEN /\ status' = [status EXCEPT ![Job(w)] = s]
       /\ lease' = [lease EXCEPT ![Job(w)] = "none"]
       /\ file' = [file EXCEPT ![Job(w)] = IF @ = "gone" THEN "gone" ELSE f]
       /\ indexed' = [indexed EXCEPT ![Job(w)] = i]
  ELSE UNCHANGED <<status, lease, fileVars>>

\* _process_ingest_job: the file is missing, the account may not ingest, or the work begins.
MissingFile(w) ==
  /\ At(w, "claimed") /\ file[Job(w)] = "gone"
  /\ Goto(w, "die")
  /\ UNCHANGED <<jobVars, fileVars, contentVars, worldVars>>

Refuse(w) ==
  /\ At(w, "claimed") /\ file[Job(w)] # "gone"
  /\ Outcome(w, "failed", "failed", FALSE)
  /\ GoIdle(w)
  /\ UNCHANGED <<attempts, contentVars, worldVars>>

\* find_ready_donor finds nothing; or a ready index of the same source, here or elsewhere.
NoDonor(w) ==
  /\ At(w, "claimed") /\ file[Job(w)] # "gone"
  /\ ~\E h \in Digests[Job(w)] : h \in donors \/ rows[h].state = "ready"
  /\ Goto(w, "slot")
  /\ UNCHANGED <<jobVars, fileVars, contentVars, worldVars>>

Donor(w) ==
  /\ At(w, "claimed") /\ file[Job(w)] # "gone"
  /\ \E h \in Digests[Job(w)] :
       /\ h \in donors \/ rows[h].state = "ready"
       /\ runs' = [runs EXCEPT ![w].phase = "attach", ![w].digest = h, ![w].donor = TRUE]
  /\ UNCHANGED <<jobVars, fileVars, contentVars, worldVars>>

\* slots.try_acquire: the job has a slot already, or one is free.
Acquire(w) ==
  /\ At(w, "slot")
  /\ Job(w) \in slots \/ Cardinality(slots) < Slots
  /\ slots' = slots \cup {Job(w)}
  /\ Goto(w, "mark")
  /\ UNCHANGED <<jobVars, fileVars, contentVars, donors, announce, faults>>

Full(w) ==
  /\ At(w, "slot")
  /\ Job(w) \notin slots /\ Cardinality(slots) >= Slots
  /\ Goto(w, "yield")
  /\ UNCHANGED <<jobVars, fileVars, contentVars, worldVars>>

\* A yield that asks whether the job runs and not which attempt.
BadYield(w) ==
  /\ At(w, "yield")
  /\ IF status[Job(w)] = "running"
     THEN /\ status' = [status EXCEPT ![Job(w)] = "pending"]
          /\ lease' = [lease EXCEPT ![Job(w)] = "none"]
          /\ attempts' = [attempts EXCEPT ![Job(w)] = @ - 1]
     ELSE UNCHANGED jobVars
  /\ GoIdle(w)
  /\ UNCHANGED <<fileVars, contentVars, worldVars>>

\* _yield_for_capacity: the attempt is given back with the job.
Yield(w) ==
  /\ At(w, "yield")
  /\ Outcome(w, "pending", "pending", indexed[Job(w)])
  /\ attempts' = [attempts EXCEPT ![Job(w)] = IF Claimed(w) THEN @ - 1 ELSE @]
  /\ GoIdle(w)
  /\ UNCHANGED <<contentVars, worldVars>>

\* _set_file_status in _chunks_for: no fence.
Mark(w) ==
  /\ At(w, "mark")
  /\ file' = [file EXCEPT ![Job(w)] = IF @ = "gone" THEN "gone" ELSE "processing"]
  /\ Goto(w, "parse")
  /\ UNCHANGED <<jobVars, indexed, contentVars, worldVars>>

\* The parser answers; the slot goes back before anything else.
Parsed(w) ==
  /\ At(w, "parse")
  /\ \E h \in Digests[Job(w)] :
       runs' = [runs EXCEPT ![w].phase = "attach", ![w].digest = h]
  /\ slots' = slots \ {Job(w)}
  /\ UNCHANGED <<jobVars, fileVars, contentVars, donors, announce, faults>>

\* A slot nobody parses under goes when its time is over.
SlotExpires(j) ==
  /\ j \in slots
  /\ ~\E w \in Workers : Job(w) = j /\ runs[w].phase \in {"mark", "parse"}
  /\ slots' = slots \ {j}
  /\ UNCHANGED <<jobVars, fileVars, contentVars, donors, runs, announce, faults>>
-----------------------------------------------------------------------------
\* attach_file_content: create the row, or find it and learn whose it is. Pointing a file
\* elsewhere removes the content that only it referred to. next is where the run goes.
AttachTo(w, next) ==
  LET j == Job(w)
      h == Digest(w)
      row == IF rows[h].state = "none" THEN [state |-> "processing", owner |-> j, chunks |-> FALSE] ELSE rows[h]
      gone == Unreferenced(j) \ {h}
  IN /\ file[j] # "gone"
     /\ rows' = [Without(rows, gone) EXCEPT ![h] = row]
     /\ attached' = [attached EXCEPT ![j] = h]
     /\ runs' = Cut([runs EXCEPT ![w] = IF next \in Claim THEN After(w, next)
                                         ELSE [After(w, next) EXCEPT !.link = "live"]], gone)

\* Any row that is not ready counts as created by its finder.
BadCreates(w) == rows[Digest(w)].state # "ready"

\* created: a new row, or one that an earlier attempt of the same job left.
Creates(w) == rows[Digest(w)].state = "none" \/ (rows[Digest(w)].state # "ready" /\ rows[Digest(w)].owner = Job(w))

Attach(w) ==
  /\ At(w, "attach")
  /\ AttachTo(w, IF Creates(w) THEN (IF runs[w].donor THEN "copy" ELSE "index")
                 ELSE IF rows[Digest(w)].state = "ready" THEN "finish" ELSE "wait")
  /\ UNCHANGED <<jobVars, fileVars, worldVars>>

\* _wait_for_content: the row became ready.
SeeReady(w) ==
  /\ At(w, "wait")
  /\ runs[w].link = "live" /\ rows[Digest(w)].state = "ready"
  /\ Goto(w, "finish")
  /\ UNCHANGED <<jobVars, fileVars, contentVars, worldVars>>

\* The row is gone, or the waiter's patience is: steal_stale_content, then attach again.
OwnerLives(h) == rows[h].owner \in Jobs /\ status[rows[h].owner] = "running" /\ lease[rows[h].owner] = "live"

\* Only an expired lease counts as death, not a job that ended or was put back.
BadStale(h) == rows[h].owner \in Jobs /\ status[rows[h].owner] = "running" /\ lease[rows[h].owner] = "expired"

Stale(h) == rows[h].state = "processing" /\ ~OwnerLives(h)

Steal(w) ==
  /\ At(w, "wait")
  /\ ~(runs[w].link = "live" /\ rows[Digest(w)].state = "ready")
  /\ Erase({h \in {Digest(w)} : Stale(h)}, w, After(w, "attach"))
  /\ UNCHANGED <<jobVars, fileVars, worldVars>>

\* copy_content_from_donor: into the row the run created, which must still be there.
Copy(w) ==
  /\ At(w, "copy")
  /\ Digest(w) \in donors /\ runs[w].link = "live"
  /\ rows' = [rows EXCEPT ![Digest(w)].chunks = TRUE]
  /\ Goto(w, "ready")
  /\ UNCHANGED <<jobVars, fileVars, attached, worldVars>>

\* The donor vanished: give the claim up, attach again, and parse; _reuse_donor drops the
\* second association, so the run no longer knows the row.
Vanished(w) ==
  /\ At(w, "copy") /\ Digest(w) \notin donors
  /\ Goto(w, "vanished")
  /\ UNCHANGED <<jobVars, fileVars, contentVars, worldVars>>

GiveUpCopy(w) ==
  /\ At(w, "vanished")
  /\ Erase({h \in {Digest(w)} : Holds(w)}, w, After(w, "reattach"))
  /\ UNCHANGED <<jobVars, fileVars, worldVars>>

Reattach(w) ==
  /\ At(w, "reattach")
  /\ AttachTo(w, "slot")
  /\ UNCHANGED <<jobVars, fileVars, worldVars>>

\* replace_content_chunks, fenced by the owner of the row.
WriteChunks(w) ==
  /\ At(w, "index")
  /\ IF Owns(w)
     THEN rows' = [rows EXCEPT ![Digest(w)].chunks = TRUE] /\ Goto(w, "ready")
     ELSE rows' = rows /\ Goto(w, "abandon")
  /\ UNCHANGED <<jobVars, fileVars, attached, worldVars>>

\* The fence asks for the job's row of this hash, not for the row the run wrote.
BadMarkReady(w) ==
  /\ At(w, "ready")
  /\ IF rows[Digest(w)].owner = Job(w)
     THEN rows' = [rows EXCEPT ![Digest(w)].state = "ready", ![Digest(w)].owner = Nobody] /\ Goto(w, "finish")
     ELSE rows' = rows /\ Goto(w, "abandon")
  /\ UNCHANGED <<jobVars, fileVars, attached, worldVars>>

\* An UPDATE that found no row passes for success.
BadUnchecked(w) ==
  /\ At(w, "ready")
  /\ rows' = IF Owns(w) THEN [rows EXCEPT ![Digest(w)].state = "ready", ![Digest(w)].owner = Nobody] ELSE rows
  /\ Goto(w, "finish")
  /\ UNCHANGED <<jobVars, fileVars, attached, worldVars>>

\* mark_content_ready, fenced by the owner of the row.
MarkReady(w) ==
  /\ At(w, "ready")
  /\ IF Owns(w)
     THEN rows' = [rows EXCEPT ![Digest(w)].state = "ready", ![Digest(w)].owner = Nobody] /\ Goto(w, "finish")
     ELSE rows' = rows /\ Goto(w, "abandon")
  /\ UNCHANGED <<jobVars, fileVars, attached, worldVars>>

\* abandon_content: by id and state only, so also a row that another attempt is writing.
Abandon(w) ==
  /\ At(w, "abandon")
  /\ Erase({h \in {Digest(w)} : Holds(w)}, w, After(w, "fail"))
  /\ UNCHANGED <<jobVars, fileVars, worldVars>>

\* _finish_ok.
Finish(w) ==
  /\ At(w, "finish")
  /\ Outcome(w, "done", "ready", TRUE)
  /\ GoIdle(w)
  /\ UNCHANGED <<attempts, contentVars, worldVars>>
-----------------------------------------------------------------------------
\* Any step may raise, or run into the wall clock. Parsing gives its slot back, indexing its
\* row; a wait, an attach or a copy that fails leaves the row as it is.
Unwind(p) == IF p \in {"index", "ready"} THEN "abandon" ELSE "fail"

Raises(w) ==
  /\ runs[w].phase \notin {"idle", "abandon", "fail", "die"} /\ announce[w] = {}
  /\ Goto(w, Unwind(runs[w].phase))
  /\ slots' = IF runs[w].phase = "parse" THEN slots \ {Job(w)} ELSE slots
  /\ UNCHANGED <<jobVars, fileVars, contentVars, donors, announce, faults>>

\* A TerminalError: the source is missing, or its pins or parse mode make no sense.
RaisesTerminal(w) ==
  /\ At(w, "claimed") \/ At(w, "slot")
  /\ Goto(w, "die")
  /\ UNCHANGED <<jobVars, fileVars, contentVars, worldVars>>

\* _handle_job_failure: again while attempts remain, otherwise the job and its file fail.
Retry(w) ==
  /\ At(w, "fail") /\ runs[w].attempt < MaxAttempts
  /\ Outcome(w, "pending", file[Job(w)], indexed[Job(w)])
  /\ GoIdle(w)
  /\ UNCHANGED <<attempts, contentVars, worldVars>>

GiveUp(w) ==
  /\ At(w, "die") \/ (At(w, "fail") /\ runs[w].attempt >= MaxAttempts)
  /\ Outcome(w, "failed", "failed", FALSE)
  /\ GoIdle(w)
  /\ UNCHANGED <<attempts, contentVars, worldVars>>

\* Not even the failure could be recorded: the lease reaper is the backstop.
FailureLost(w) ==
  /\ runs[w].phase \in {"fail", "die"} /\ faults < MaxFaults
  /\ GoIdle(w)
  /\ faults' = faults + 1
  /\ UNCHANGED <<jobVars, fileVars, contentVars, donors, slots, announce>>

WorkerDies(w) ==
  /\ runs[w].phase # "idle" \/ announce[w] # {}
  /\ faults < MaxFaults
  /\ GoIdle(w)
  /\ announce' = [announce EXCEPT ![w] = {}]
  /\ faults' = faults + 1
  /\ UNCHANGED <<jobVars, fileVars, contentVars, donors, slots>>

\* A user deletes the file: its attachment cascades, and content nobody else refers to follows.
DeleteFile(j) ==
  /\ j \in Deletable /\ file[j] # "gone"
  /\ file' = [file EXCEPT ![j] = "gone"]
  /\ rows' = Without(rows, Unreferenced(j))
  /\ attached' = [attached EXCEPT ![j] = NoHash]
  /\ runs' = Cut(runs, Unreferenced(j))
  /\ UNCHANGED <<jobVars, indexed, worldVars>>

\* The workspace that held a donor is deleted.
DonorLeaves(h) ==
  /\ h \in donors
  /\ donors' = donors \ {h}
  /\ UNCHANGED <<jobVars, fileVars, contentVars, slots, runs, announce, faults>>
-----------------------------------------------------------------------------
Begin(w) == MissingFile(w) \/ Refuse(w) \/ NoDonor(w) \/ Donor(w) \/ RaisesTerminal(w)
Parse(w) == Acquire(w) \/ Full(w) \/ Yield(w) \/ Mark(w) \/ Parsed(w)
Share(w) == Attach(w) \/ SeeReady(w) \/ Steal(w) \/ Copy(w) \/ Vanished(w) \/ GiveUpCopy(w) \/ Reattach(w)
Index(w) == WriteChunks(w) \/ MarkReady(w) \/ Abandon(w) \/ Finish(w)
Failure(w) == Raises(w) \/ Retry(w) \/ GiveUp(w)
Work(w) == Poll(w) \/ Announce(w) \/ Begin(w) \/ Parse(w) \/ Share(w) \/ Index(w) \/ Failure(w)

Next ==
  \/ \E w \in Workers : Work(w) \/ AnnounceLost(w) \/ Heartbeat(w) \/ FailureLost(w) \/ WorkerDies(w)
  \/ \E j \in Jobs : LeaseLapses(j) \/ LeaseStalls(j) \/ SlotExpires(j) \/ DeleteFile(j)
  \/ \E h \in Hashes : DonorLeaves(h)

Spec == Init /\ [][Next]_vars

\* Every worker goes on working, and what only time changes does change.
Fairness ==
  /\ \A w \in Workers : WF_vars(Work(w))
  /\ WF_vars(\E j \in Jobs : LeaseLapses(j) \/ SlotExpires(j))

FairSpec == Spec /\ Fairness
-----------------------------------------------------------------------------
(***************************************************************************)
(* At most one run holds the claim of a job: the attempt number names its  *)
(* claim, although a yield counts it down and lets the next claim use the  *)
(* same number again.                                                      *)
(***************************************************************************)
OneClaim == \A v, w \in Workers : Job(v) = Job(w) /\ Claimed(v) /\ Claimed(w) => v = w

(***************************************************************************)
(* Two jobs never write one content row: a run that goes on to write or    *)
(* copy passages holds a row of its own job.                               *)
(***************************************************************************)
Writes(w) == runs[w].phase \in {"copy", "index", "ready"} /\ Holds(w)
SingleWriter == \A v, w \in Workers : Writes(v) /\ Writes(w) /\ Digest(v) = Digest(w) => Job(v) = Job(w)

(***************************************************************************)
(* Ready content has its passages: what search and donors read was written *)
(* before the row was declared ready, by whichever attempt did either.     *)
(***************************************************************************)
ReadyHasChunks == \A h \in Hashes : rows[h].state = "ready" => rows[h].chunks

(***************************************************************************)
(* A file the user sees as indexed is found by search: it is attached to   *)
(* ready content, whatever abandoned runs, thieves and other files did.    *)
(* True when the digests of one file agree.                                *)
(***************************************************************************)
Searchable ==
  \A j \in Jobs : indexed[j] /\ file[j] # "gone" =>
    attached[j] \in Hashes /\ rows[attached[j]].state = "ready"

(***************************************************************************)
(* While the owner of a row is alive, only its own runs give the row up;   *)
(* no waiter steals it, no reaper of another job deletes it. The content   *)
(* goes too when the last file that refers to it is deleted or turns to    *)
(* other content.                                                          *)
(***************************************************************************)
GivenUp(h) == \E w \in Workers : Job(w) = rows[h].owner /\ runs[w].phase \in {"abandon", "vanished"}
LastFileLeaves(h) ==
  \E j \in Jobs : h \in Unreferenced(j) /\ (file'[j] # file[j] \/ attached'[j] \in Hashes \ {h})

LiveOwnerKeepsRow ==
  [][\A h \in Hashes : rows[h].state = "processing" /\ OwnerLives(h) /\ rows'[h].state = "none" =>
       GivenUp(h) \/ LastFileLeaves(h)]_vars

(***************************************************************************)
(* The outcome of a job is final: a run that was given up for dead does    *)
(* not turn a finished job around, nor a failed one.                       *)
(***************************************************************************)
OutcomeFinal == [][\A j \in Jobs : status[j] \in {"done", "failed"} => status'[j] = status[j]]_vars

(***************************************************************************)
(* "True when another worker has taken over, so this run must not write":  *)
(* the file of a job that is done is left alone, except by its user.       *)
(***************************************************************************)
DoneFileStays ==
  [][\A j \in Jobs : status[j] = "done" /\ file[j] = "ready" => file'[j] \in {"ready", "gone"}]_vars

(***************************************************************************)
(* Every job ends, done or failed, through faults, yields and waits: in    *)
(* the end, and for good (OutcomeFinal), all of them have.                 *)
(***************************************************************************)
EveryJobEnds == <>(\A j \in Jobs : status[j] \in {"done", "failed"})
=============================================================================

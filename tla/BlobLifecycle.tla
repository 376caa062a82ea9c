--------------------------- MODULE BlobLifecycle ---------------------------
(***************************************************************************)
(* Objects in the bucket and the rows that name them: presigned uploads,   *)
(* the complete handlers that promote an object, the reference counts the  *)
(* triggers keep (blobs), the outbox of deletions (pending_blob_deletions) *)
(* and the reapers that drain it, and workspace clones, which share        *)
(* objects.                                                                *)
(*                                                                         *)
(* Grain.  Bucket calls are steps of their own; so are the snapshot, the   *)
(* insert and the commit of a clone, and the two statements of blob_unref  *)
(* when the first of them finds no other reference: it takes no lock then. *)
(* Other transactions lock the row of blobs they change and are one step.  *)
(*                                                                         *)
(* An upload names its final path; the key it is uploaded to (incoming/)   *)
(* is in staged, and what is left there a rule of the bucket removes.      *)
(* Instead of clocks: a path's presigned URL is open, closed (a request    *)
(* begun under it may still land) or quiet (none can), and a deletion      *)
(* queued with a day of grace falls due only when it is quiet.             *)
(***************************************************************************)
EXTENDS Naturals, FiniteSets

CONSTANTS
  Sources, Assets,    \* uploads of source files and of editor assets
  Clones, Origin,     \* rows that clones insert, and the path each copies
  Calls, Target,      \* complete requests, and the upload each is for
  Reapers,            \* one per replica
  MaxAttempts,        \* blobDeletionMaxAttempts
  MaxFaults           \* bound on failures of the bucket and of reapers

Paths == Sources \cup Assets
Rows == Paths \cup Clones

ASSUME RowsAssumption ==
  Sources \cap Assets = {} /\ Paths \cap Clones = {} /\ IsFiniteSet(Rows)
ASSUME OriginAssumption == Origin \in [Clones -> Paths]
ASSUME TargetAssumption == Target \in [Calls -> Paths]
ASSUME BoundsAssumption == MaxAttempts \in Nat /\ MaxFaults \in Nat

VARIABLES
  session,   \* upload_sessions.status
  url,       \* the presigned PUT URL
  staged,    \* paths whose incoming object exists
  object,    \* paths whose final object exists
  stray,     \* ghost: paths that a copy brought back after their deletion
  row,       \* the rows of files and editor_assets that name a path
  count,     \* blobs.ref_count, 0 for no row
  queue,     \* pending_blob_deletions: when the path falls due
  attempts,  \* pending_blob_deletions.attempts
  call,      \* where a complete request is
  claimed,   \* the batch a reaper has claimed
  deleted,   \* the part of it the bucket deleted
  faults     \* counter of the bound

database == <<session, row, count, queue, attempts>>
bucket == <<staged, object, stray>>
reaping == <<claimed, deleted, faults>>
vars == <<database, bucket, url, call, reaping>>

TypeOK ==
  /\ session \in [Paths -> {"none", "pending", "completed", "expired", "deleted"}]
  /\ url \in [Paths -> {"open", "closed", "quiet"}]
  /\ staged \subseteq Paths /\ object \subseteq Paths /\ stray \subseteq Paths
  /\ row \in [Rows -> {"none", "pending", "live", "leaving", "copied", "cloning", "gone"}]
  /\ count \in [Paths -> Nat]
  /\ queue \in [Paths -> {"no", "due", "later", "graced"}]
  /\ attempts \in [Paths -> 0..MaxAttempts]
  /\ call \in [Calls -> {"idle", "copying", "dropping", "finalizing"}]
  /\ claimed \in [Reapers -> SUBSET Paths] /\ deleted \in [Reapers -> SUBSET Paths]
  /\ faults \in 0..MaxFaults

-----------------------------------------------------------------------------
(* Helpers.  The definitions named Bad... are faulty variants of the       *)
(* definition that follows them; the model uses none of them.              *)

PathOf(x) == IF x \in Clones THEN Origin[x] ELSE x

(* Rows that hold a reference: committed, and not yet deleted. *)
Holding == {"pending", "live", "leaving"}
Holders(p) == {x \in Rows : PathOf(x) = p /\ row[x] \in Holding}

(* A clone that has not committed holds the lock of the path's blobs row,  *)
(* and of its row in the outbox.                                           *)
Locked(p) == \E k \in Clones : Origin[k] = p /\ row[k] = "cloning"

(* ON CONFLICT: the later of the two times. *)
Postponed(q, how) == IF q = "no" \/ how = "graced" THEN how ELSE q

(* blob_enqueue_deletion, by a transaction that leaves n references. *)
Enqueue(p, how, n) ==
  queue' = IF n > 0 THEN queue ELSE [queue EXCEPT ![p] = Postponed(@, how)]

(* blob_ref: one more reference, and a queued deletion is cancelled. *)
Ref(p) ==
  /\ count' = [count EXCEPT ![p] = @ + 1]
  /\ queue' = [queue EXCEPT ![p] = "no"]
  /\ attempts' = [attempts EXCEPT ![p] = 0]

Sets(x, s) == row' = [row EXCEPT ![x] = s]
Proceeds(c, s) == call' = [call EXCEPT ![c] = s]

BadAttempts(p) ==
  /\ queue[p] = "due" \/ (queue[p] = "graced" /\ url[p] = "quiet")
  /\ attempts[p] + 1 < MaxAttempts
  /\ ~Locked(p)

Due(p) ==
  /\ queue[p] = "due" \/ (queue[p] = "graced" /\ url[p] = "quiet")
  /\ attempts[p] < MaxAttempts
  /\ ~Locked(p)

-----------------------------------------------------------------------------
Init ==
  /\ session = [p \in Paths |-> "none"] /\ url = [p \in Paths |-> "open"]
  /\ staged = {} /\ object = {} /\ stray = {}
  /\ row = [x \in Rows |-> "none"] /\ count = [p \in Paths |-> 0]
  /\ queue = [p \in Paths |-> "no"] /\ attempts = [p \in Paths |-> 0]
  /\ call = [c \in Calls |-> "idle"]
  /\ claimed = [r \in Reapers |-> {}] /\ deleted = [r \in Reapers |-> {}]
  /\ faults = 0

(* CreateUploadSession; CreateEditorAssetReservation also inserts the      *)
(* asset, which holds its reference from then on.                          *)
Reserve(p) ==
  /\ session[p] = "none"
  /\ session' = [session EXCEPT ![p] = "pending"]
  /\ IF p \in Assets THEN Sets(p, "pending") /\ Ref(p)
     ELSE UNCHANGED <<row, count, queue, attempts>>
  /\ UNCHANGED <<bucket, url, call, reaping>>

(* The browser's PUT, once or more often. *)
Put(p) ==
  /\ session[p] # "none" /\ url[p] # "quiet" /\ p \notin staged
  /\ staged' = staged \cup {p}
  /\ UNCHANGED <<database, object, stray, url, call, reaping>>

Deadline(p) ==
  /\ session[p] # "none" /\ url[p] = "open"
  /\ url' = [url EXCEPT ![p] = "closed"]
  /\ UNCHANGED <<database, bucket, call, reaping>>

(* A day outlasts the fifteen minutes of the URL, every request and every  *)
(* pass of a reaper.                                                       *)
Settle(p) ==
  /\ url[p] = "closed"
  /\ \A c \in Calls : Target[c] = p => call[c] = "idle"
  /\ \A r \in Reapers : p \notin claimed[r] \cup deleted[r]
  /\ url' = [url EXCEPT ![p] = "quiet"]
  /\ UNCHANGED <<database, bucket, call, reaping>>

-----------------------------------------------------------------------------
(* completeSourceUpload, completeEditorAssetUpload: checks against the     *)
(* session as read without a lock, the copy and the deletion that Promote  *)
(* makes, then the transaction.                                            *)

(* The final object is looked for first, but for an asset the incoming one.*)
Check(c) ==
  LET p == Target[c] IN
  /\ call[c] = "idle"
  /\ session[p] = "pending" /\ url[p] = "open"
  /\ \/ /\ p \in object /\ (p \in Sources \/ p \notin staged)
        /\ Proceeds(c, "finalizing")
     \/ /\ p \in staged /\ (p \in Assets \/ p \notin object)
        /\ Proceeds(c, "copying")
  /\ UNCHANGED <<database, bucket, url, reaping>>

(* A source whose size is not the declared one loses its incoming object. *)
WrongSize(p) ==
  /\ p \in Sources /\ session[p] = "pending" /\ url[p] = "open" /\ p \in staged
  /\ staged' = staged \ {p}
  /\ UNCHANGED <<database, object, stray, url, call, reaping>>

(* A second request may copy after the first one finalized, the row was    *)
(* deleted again, and so was the object: at once, for the row of a source  *)
(* or of a clone.                                                          *)
Forgotten(p) ==
  /\ p \in Sources \/ \E k \in Clones : Origin[k] = p /\ row[k] # "none"
  /\ \/ session[p] = "deleted" /\ count[p] = 0 /\ queue[p] = "no"
     \/ \E r \in Reapers : p \in deleted[r]

Copy(c) ==
  /\ call[c] = "copying" /\ Target[c] \in staged
  /\ object' = object \cup {Target[c]}
  /\ stray' = IF Forgotten(Target[c]) THEN stray \cup {Target[c]} ELSE stray
  /\ Proceeds(c, "dropping")
  /\ UNCHANGED <<database, staged, url, reaping>>

Drop(c) ==
  /\ call[c] = "dropping"
  /\ staged' = staged \ {Target[c]}
  /\ Proceeds(c, "finalizing")
  /\ UNCHANGED <<database, object, stray, url, reaping>>

(* FinalizeUploadSession, FinalizeEditorAssetUpload, under the row lock of *)
(* the session.                                                            *)
BadFinalize(c) ==
  LET p == Target[c] IN
  /\ call[c] = "finalizing"
  /\ url[p] = "open"
  /\ session' = [session EXCEPT ![p] = "completed"]
  /\ Sets(p, "live")
  /\ IF p \in Sources THEN Ref(p) ELSE UNCHANGED <<count, queue, attempts>>
  /\ Proceeds(c, "idle")
  /\ UNCHANGED <<bucket, url, reaping>>

Finalize(c) ==
  LET p == Target[c] IN
  /\ call[c] = "finalizing"
  /\ session[p] = "pending" /\ url[p] = "open"
  /\ session' = [session EXCEPT ![p] = "completed"]
  /\ Sets(p, "live")
  /\ IF p \in Sources THEN Ref(p) ELSE UNCHANGED <<count, queue, attempts>>
  /\ Proceeds(c, "idle")
  /\ UNCHANGED <<bucket, url, reaping>>

(* The handler is refused, meets an error or is gone. *)
CallEnds(c) ==
  /\ call[c] # "idle"
  /\ Proceeds(c, "idle")
  /\ UNCHANGED <<database, bucket, url, reaping>>

-----------------------------------------------------------------------------
(* MarkUploadExpired, by the sweep. *)
Expire(p) ==
  /\ p \in Sources /\ session[p] = "pending" /\ url[p] # "open"
  /\ session' = [session EXCEPT ![p] = "expired"]
  /\ Enqueue(p, "graced", count[p])
  /\ UNCHANGED <<row, count, attempts, bucket, url, call, reaping>>

(* MarkEditorAssetUploadExpired, by the sweep or for an object that failed *)
(* verification: the asset goes and takes the session along.               *)
BadDiscard(p) ==
  /\ p \in Assets /\ session[p] = "pending"
  /\ session' = [session EXCEPT ![p] = "deleted"]
  /\ Sets(p, "gone")
  /\ count' = [count EXCEPT ![p] = 0]
  /\ Enqueue(p, "due", 0)
  /\ UNCHANGED <<attempts, bucket, url, call, reaping>>

Discard(p) ==
  /\ p \in Assets /\ session[p] = "pending"
  /\ session' = [session EXCEPT ![p] = "deleted"]
  /\ Sets(p, "gone")
  /\ count' = [count EXCEPT ![p] = 0]
  /\ Enqueue(p, "graced", 0)
  /\ UNCHANGED <<attempts, bucket, url, call, reaping>>

(* A session goes: that of a source with its workspace after the file did, *)
(* any (PruneUploadSessions) after a week or a month.                      *)
DropSession(p) ==
  /\ session[p] \in {"pending", "completed", "expired"}
  /\ \/ p \in Sources /\ row[p] \in {"none", "gone"}
     \/ session[p] # "pending" /\ url[p] = "quiet"
  /\ session' = [session EXCEPT ![p] = "deleted"]
  /\ Enqueue(p, "graced", count[p])
  /\ UNCHANGED <<row, count, attempts, bucket, url, call, reaping>>

-----------------------------------------------------------------------------
(* A live row is deleted: DeleteFile, or (whole) with its workspace, where *)
(* the session goes along.  An asset only goes with its workspace.         *)

Goes(x, whole) ==
  /\ Sets(x, "gone")
  /\ session' = IF whole /\ x \in Paths THEN [session EXCEPT ![x] = "deleted"] ELSE session
  /\ x \in Assets => whole

(* blob_unref, other references remain. *)
BadUnrefShared(x, whole) ==
  /\ row[x] = "live" /\ count[PathOf(x)] > 1 /\ ~Locked(PathOf(x))
  /\ Goes(x, whole)
  /\ UNCHANGED <<count, queue, attempts, bucket, url, call, reaping>>

UnrefShared(x, whole) ==
  /\ row[x] = "live" /\ count[PathOf(x)] > 1 /\ ~Locked(PathOf(x))
  /\ Goes(x, whole)
  /\ count' = [count EXCEPT ![PathOf(x)] = @ - 1]
  /\ UNCHANGED <<queue, attempts, bucket, url, call, reaping>>

(* blob_unref: its UPDATE sees no other reference and locks nothing. *)

UnrefDecide(x) ==
  /\ row[x] = "live" /\ count[PathOf(x)] <= 1
  /\ Sets(x, "leaving")
  /\ UNCHANGED <<session, count, queue, attempts, bucket, url, call, reaping>>

(* Its DELETE waits for the lock, then removes the row whatever it counts. *)
UnrefLast(x, whole) ==
  /\ row[x] = "leaving" /\ ~Locked(PathOf(x))
  /\ Goes(x, whole)
  /\ count' = [count EXCEPT ![PathOf(x)] = 0]
  /\ Enqueue(PathOf(x), IF whole /\ x \in Paths THEN "graced" ELSE "due", 0)
  /\ UNCHANGED <<attempts, bucket, url, call, reaping>>

UnrefAborts(x) ==
  /\ row[x] = "leaving"
  /\ Sets(x, "live")
  /\ UNCHANGED <<session, count, queue, attempts, bucket, url, call, reaping>>

-----------------------------------------------------------------------------
(* CloneWorkspace, by somebody else: a snapshot in one transaction, the    *)
(* inserts in another.                                                     *)
CloneSnapshot(k) ==
  /\ row[k] = "none"
  /\ \E x \in Rows : PathOf(x) = Origin[k] /\ row[x] \in {"live", "leaving"}
  /\ Sets(k, "copied")
  /\ UNCHANGED <<session, count, queue, attempts, bucket, url, call, reaping>>

CloneInsert(k) ==
  /\ row[k] = "copied" /\ ~Locked(Origin[k])
  /\ Sets(k, "cloning")
  /\ UNCHANGED <<session, count, queue, attempts, bucket, url, call, reaping>>

CloneCommit(k) ==
  /\ row[k] = "cloning"
  /\ Sets(k, "live")
  /\ Ref(Origin[k])
  /\ UNCHANGED <<session, bucket, url, call, reaping>>

CloneAborts(k) ==
  /\ row[k] \in {"copied", "cloning"}
  /\ Sets(k, "gone")
  /\ UNCHANGED <<session, count, queue, attempts, bucket, url, call, reaping>>

-----------------------------------------------------------------------------
(* The reaper. *)

(* ClaimBlobDeletions: what is due and not referenced. *)
Claim(r) ==
  LET batch == {p \in Paths : Due(p) /\ count[p] = 0} IN
  /\ claimed[r] = {} /\ deleted[r] = {}
  /\ batch # {}
  /\ claimed' = [claimed EXCEPT ![r] = batch]
  /\ attempts' = [p \in Paths |-> IF p \in batch THEN attempts[p] + 1 ELSE attempts[p]]
  /\ queue' = [p \in Paths |-> IF p \in batch THEN "later" ELSE queue[p]]
  /\ UNCHANGED <<session, row, count, bucket, url, call, deleted, faults>>

(* The backoff of a claimed path passes, also while its reaper is slow. *)
Backoff(p) ==
  /\ queue[p] = "later"
  /\ queue' = [queue EXCEPT ![p] = "due"]
  /\ UNCHANGED <<session, row, count, attempts, bucket, url, call, reaping>>

(* DeleteObjects, some keys rejected. *)
Delete(r, bad) ==
  /\ claimed[r] # {} /\ bad \subseteq claimed[r]
  /\ bad # {} => faults < MaxFaults
  /\ object' = object \ (claimed[r] \ bad)
  /\ deleted' = [deleted EXCEPT ![r] = claimed[r] \ bad]
  /\ claimed' = [claimed EXCEPT ![r] = {}]
  /\ faults' = IF bad = {} THEN faults ELSE faults + 1
  /\ UNCHANGED <<database, staged, stray, url, call>>

(* The whole request failed, or the process is gone. *)
ReaperFails(r) ==
  /\ claimed[r] # {} \/ deleted[r] # {}
  /\ faults < MaxFaults
  /\ claimed' = [claimed EXCEPT ![r] = {}] /\ deleted' = [deleted EXCEPT ![r] = {}]
  /\ faults' = faults + 1
  /\ UNCHANGED <<database, bucket, url, call>>

(* FinishBlobDeletions *)
Finish(r) ==
  /\ deleted[r] # {}
  /\ queue' = [p \in Paths |-> IF p \in deleted[r] THEN "no" ELSE queue[p]]
  /\ attempts' = [p \in Paths |-> IF p \in deleted[r] THEN 0 ELSE attempts[p]]
  /\ deleted' = [deleted EXCEPT ![r] = {}]
  /\ UNCHANGED <<session, row, count, bucket, url, call, claimed, faults>>

-----------------------------------------------------------------------------
Upload ==
  \E p \in Paths :
    \/ Reserve(p) \/ Put(p) \/ Deadline(p) \/ Settle(p) \/ WrongSize(p)
    \/ Expire(p) \/ Discard(p) \/ DropSession(p)

Complete ==
  \E c \in Calls : Check(c) \/ Copy(c) \/ Drop(c) \/ Finalize(c) \/ CallEnds(c)

Remove ==
  \E x \in Rows :
    \/ UnrefDecide(x) \/ UnrefAborts(x)
    \/ \E whole \in BOOLEAN : UnrefShared(x, whole) \/ UnrefLast(x, whole)

Clone ==
  \E k \in Clones :
    CloneSnapshot(k) \/ CloneInsert(k) \/ CloneCommit(k) \/ CloneAborts(k)

Reap ==
  \/ \E p \in Paths : Backoff(p)
  \/ \E r \in Reapers :
       \/ Claim(r) \/ ReaperFails(r) \/ Finish(r)
       \/ \E bad \in SUBSET Paths : Delete(r, bad)

Next == Upload \/ Complete \/ Remove \/ Clone \/ Reap

Spec == Init /\ [][Next]_vars

(* Requests and transactions end, presigned URLs lapse, the sweep and the  *)
(* reapers run every minute in every replica, and sessions are pruned.     *)
Fairness ==
  /\ \A p \in Paths :
       /\ WF_vars(Deadline(p)) /\ WF_vars(Settle(p)) /\ WF_vars(Backoff(p))
       /\ WF_vars(Expire(p)) /\ WF_vars(url[p] # "open" /\ Discard(p))
       /\ WF_vars(url[p] = "quiet" /\ DropSession(p))
  /\ \A c \in Calls : WF_vars(Copy(c) \/ Drop(c) \/ Finalize(c) \/ CallEnds(c))
  /\ \A x \in Rows :
       WF_vars(UnrefAborts(x) \/ \E whole \in BOOLEAN : UnrefLast(x, whole))
  /\ \A k \in Clones : WF_vars(CloneCommit(k) \/ CloneAborts(k))
  /\ \A r \in Reapers :
       /\ WF_vars(Claim(r)) /\ WF_vars(Finish(r))
       /\ WF_vars(\E bad \in SUBSET Paths : Delete(r, bad))

FairSpec == Spec /\ Fairness

-----------------------------------------------------------------------------
(* Properties *)

(* Paths that no clone has begun to copy. *)
Private(p) == \A k \in Clones : Origin[k] = p => row[k] = "none"

(* However completions, expiry, deletion and reapers interleave, a live    *)
(* row whose path no clone copies has its object.                          *)
OwnObjectKept ==
  \A p \in Paths : Private(p) /\ row[p] \in {"live", "leaving"} => p \in object

(* Shared or not, a path never counts more references than rows hold:      *)
(* nothing keeps an object for ever.                                       *)
NeverOvercounted == \A p \in Paths : count[p] <= Cardinality(Holders(p))

(* Every object the database ever knew of stays accounted for: referenced, *)
(* queued, or named by a session that will queue it; but for those of      *)
(* sources and of shared assets that a late copy brings back after the     *)
(* bucket deleted them, which only the audit of the bucket finds.          *)
NoOrphans ==
  \A p \in object \ stray :
    \/ count[p] > 0 \/ queue[p] # "no"
    \/ session[p] \in {"pending", "completed", "expired"}

(* An object nobody holds is deleted in the end, as long as failures of    *)
(* the bucket and of reapers are fewer than the attempts a path is given.  *)
GarbageCollected ==
  \A p \in Paths :
    (p \in object /\ Holders(p) = {})
      ~> (p \notin object \/ Holders(p) # {} \/ faults >= MaxAttempts \/ p \in stray)

(* What ClaimBlobDeletions says its second check achieves: no object is    *)
(* deleted that a row references again.                                    *)
ReaperSparesReferenced ==
  [][\A p \in Paths : p \in object /\ p \notin object' => count[p] = 0]_vars
=============================================================================

# Verification of evo-notes

This directory models the parts of evo-notes whose correctness rests on
concurrency, failure and accounting, in TLA+. TLC checks every model on small
instances and TLAPS proves the properties that matter most for all instances.
Paths below are relative to the repository root. Where a module's comments say
"the code", they mean the Go API under `server/`, the SQL of
`server/migrations/0001_init.sql`, the Python pipeline under `pipeline/`, the
collaboration service under `collaboration/` or the web client under `src/`.

    tlc -workers 2 -config Credits.cfg MCCredits.tla     model-check one run
    tlapm CreditsProofs.tla                              check one proof module

`PROJECT.json` lists the runs, the definitions with the lines they model, the
mutants (a plausible bug for every property, which its run must catch), the
hazards of the code with the properties that cover them, and the theorems.

Contents: 1 inventory, 2 plan, 3 modules and code, 4 runs and bounds,
5 fairness, 6 proofs, 7 disagreements found, 8 races seen without a run,
9 what is not modelled.

## 1. Inventory

evo-notes is a note-taking product. A React client (`src/`) talks to a Go API
(`server/`) that runs in several replicas over one Postgres database, a Redis
and an S3-compatible bucket (B2). Documents are edited together through a
Node sidecar (`collaboration/`, Hocuspocus and Yjs). Uploaded files are parsed,
summarised and embedded by Python workers (`pipeline/`) that take jobs from a
Postgres table and call a parsing service (`modal/`). Postgres is the only
place where components meet: its row locks, triggers and leases are the
concurrency control, and every handler of the API may run in any replica at
any time.

How they interact:

- API -> client: answers, one stream of events per tab (notifications), one per
  workspace (ingest progress) and one per chat message; none of them keeps
  anything for a client that is not connected.
- client -> API: HTTP; a presigned `PUT` goes from the client to the bucket
  directly, and the client then calls `complete`.
- API -> pipeline: a row in `jobs`; pipeline -> API: rows in `files`,
  `rag_contents`, `notifications`.
- API <-> collaboration sidecar: internal HTTP (authorise, load, store,
  project) and a Redis channel for the eviction of rooms.
- triggers: rows that cost bytes change `user_storage`; rows that name an
  object change `blobs`; rows that lose their last reference queue a deletion.
- tickers in every API replica: upload sweep, blob reaper, credit sweep and
  reconcile, usage rollup, account purge. Nothing elects a
  single runner, except a Postgres advisory lock for the email dispatcher.

| Component | State | Operations | What is hard | What makes it correct |
|---|---|---|---|---|
| Credit ledger (`server/internal/store/credits.go`) | `user_credits`, `credit_reservations`, `usage_events` | reserve, settle, release, record unreserved usage, sweep, reconcile, lazy month rollover | racing requests on one counter, a settle after the sweep, a sweep that dies half way, a statement that writes sums of an old snapshot, month ends under running transactions | no hold forgotten or returned twice, no request billed twice, the plan limit, the counter agrees with the ledger, holds come back |
| Storage accounting (`storage.go`, `uploads.go`, `jobs.go`, `workspace_transfer.go`, triggers) | `user_storage`, `user_storage_deltas`, `upload_sessions`, sizes of files, assets and materials | gate and create, reserve, finalize, expire, delete, edit, transfer, reconcile | the owner is read before the lock; a transfer moves four tables and two counters; the sweep and the reconcile disagree about late sessions | the counter accounts for exactly what is stored, the plan limit, the file cap, abandoned uploads give their bytes back |
| Blob lifecycle (`blobs.go`, `blob_workers.go`, `uploads.go` handlers, `s3.go`, triggers) | `blobs` (reference counts), `pending_blob_deletions`, sessions, the bucket | presign, PUT, complete (copy, drop, finalize), expire, delete, clone, reap | bucket calls outside transactions, a clone that shares an object while its last other reference goes, reapers that die, PUTs that land late | a live row keeps its object, no object is kept for ever, none is unknown to the database |
| Ingest job queue (`pipeline/pipeline/ingest/worker.py`, `store/db.py`, `parse/slots.py`) | `jobs` (lease, attempts), Redis slots | claim, heartbeat, reclaim, finish, fail, yield, retry | a run that outlives its lease, a fencing token that is counted down, capacity shared over workers | one claim per job, outcomes are final, every job ends |
| Canonical content rows (`pipeline/pipeline/retrieval/store.py`, triggers) | `rag_contents`, `rag_file_contents`, passages | attach, wait, steal, copy from a donor, write, mark ready, abandon, orphan trigger | two files with the same content, creators that die, rows that vanish between two statements | one writer per row, ready content is complete, an indexed file is found |
| Collaboration rooms (`collaboration/src`, `yjs_documents.go`) | in-memory rooms per instance, `failedStores`, `pendingCheckpoints`, `material_yjs_documents` with stored and projected version and room schema, Redis registry and eviction keys | load, update, debounced store, checkpoint receipt, retry, evict, compact, project | instances that hold one room, a store that failed and an eviction that forgets it, compaction beside a room still loaded, projections out of order | acknowledged edits are durable, receipts are honest, a stale room never overwrites a compacted one, the projection only moves forward |
| Account lifecycle (`account*.go`) | `users.deletion_requested_at`, `purge_after`, `deleted_at` | request, cancel, purge | the purge is one transaction per workspace, requests of the account go on | a cancelled deletion leaves everything, a purged account leaves nothing |
| Email outbox (`email_outbox.go`, `email_dispatcher_lock.go`, `cmd/api/email.go`) | `email_outbox`, lease tokens, leader lock, send guard | enqueue, withdraw, claim, begin send, finish, retry, cancel, release | an answer lost after the provider took the mail, leases that lapse in a slow dispatcher, events that change under a claimed mail | a mail is accepted again only if nobody could record it, what it tells of still holds, it comes to an end |
| Subscriptions (`subscriptions.go`, `webhooks.go`) | `user_subscriptions`, `webhook_events` | webhook, reconcile, past due | events late, twice, out of order, for a customer nobody knows yet | the newest event decides; an ended subscription stays ended |
| Usage rollup (`credits.go:688-744`) | `usage_rollup_state` (watermark), `usage_daily` | roll up | ids are handed out before commit | every event is counted exactly once |
| Workspaces, members, access (`queries.go`, `share.go`) | `workspaces`, `workspace_members`, invites | invite, accept, change role, remove, leave, transfer, clone | a role read before it is taken away | no write without a role that allows it, one owner |
| Rate limiting (`server/internal/ratelimit`) | Redis keys of the GCRA script, stream leases | allow, acquire, release | several replicas, clocks, an unreachable Redis | no more than the burst in any window, leases lapse |
| Client query cache (`src/src/api/hooks.ts`, TanStack Query) | a cached list per key, fetches, snapshots of optimistic mutations | fetch, patch, roll back, insert, replace, invalidate | a fetch that read before a mutation and lands after it, two optimistic calls on one list, lost answers | a list that is not marked stale shows what the server has |
| Notification bell (`hooks.ts`, `notificationStream.ts`, `sse_notifications.go`) | list, unread count, stream | fetch, patch by event, poll, reconnect, mark | events lost, late or early against fetches | the bell ends with what the server has |
| Source upload dialog (`AddSourceDialog.tsx`, `sourceUpload.ts`) | the files listed, the batch, its workers | pick, upload, retry, abort, leave | some files of a batch fail and are submitted again | a file becomes one row, limits hold |
| Quiz attempt page (`routes/QuizAttempt.tsx`, `features/quizzes`, `huma_quizzes.go`) | answers, stage, attempts, mistakes | answer, judge, submit, retry, leave | answers change while they are judged; answers of calls are lost | an attempt carries the points of its own answers |
| Chat panel (`useChatStream.ts`, `chatStream.ts`, `ChatPanel.tsx`, `chat_stream.go`) | bubbles, the stream, the row of the answer | send, stream, stop, reopen | tokens, ends, aborts and reopened conversations meet | an answer watched ends as its row did |
| Quiz blocks in notes (`document.ts`, `elements.tsx`, `QuizForm.tsx`, `QuizDialog.tsx`) | the block, the form opened from it | convert, edit, duplicate, remove, save | a key named by ids in one and by indices in the other | the key is what its author marked |
| Notifications, notices | rows per user | insert, read | - | - |
| Materials, revisions, discussions | `materials`, `material_revisions`, threads | create, rename, restore, comment | optimistic revisions | no lost revision |
| Generation requests | streams | hold, stream, settle or release | a stream that ends anywhere | what it holds is settled or swept (Credits) |
| Retrieval and question answering | none | rank, prompt | - | - |
| Parsing service (`modal/`) | none | parse | - | - |
| Rest of the web application (`src/`) | forms, routes, drawing | rendering, editing | - | - |
| Deployment, generated code | - | - | - | - |

The last seven rows keep no state whose interleavings could go wrong, or only
state another row already covers; PROJECT.json says so for each.

## 2. Plan

Order: what loses users' money, bytes or documents comes first; what is proved
uses no recursive operator, one action per operation, and invariants that are
conjunctions of named parts.

| # | Module | Models | Abstract specification | Proofs | State |
|---|---|---|---|---|---|
| 1 | `Credits`, `HoldLifecycle` | credit ledger | `HoldLifecycle`: opened once, closed once, billed at most once | `CreditsProofs` | done |
| 2 | `StorageQuota` | storage accounting | - | `StorageQuotaProofs` | done |
| 3 | `BlobLifecycle` | uploads, references, deletions, clones | - | `BlobLifecycleProofs` | done |
| 4 | `IngestJobs` | queue and canonical content, composed: the runs of (4a) are the writers of (4b) | - | `IngestJobsProofs` | done |
| 5 | `CollabRoom`, `DurableNote` | rooms on several instances, stores, checkpoints, eviction, compaction, projection | `DurableNote`: what is stored only grows, receipts promise what is stored, readers move forward through it | `CollabRoomProofs` | done |
| 6 | `CachedQuery`, `QueryCache` | every mutation hook over one cached list | the server's rows | `ClientProofs` | done |
| 7 | `NotificationFeed` | the bell | the server's notifications | `ClientProofs` (types) | done |
| 8 | `SourceUpload` | a batch of uploads | - | `ClientProofs` | done |
| 9 | `QuizAttempt` | one visit to a quiz | - | `ClientProofs` | done |
| 10 | `ChatStream` | messages and their streams | - | `ClientProofs` | done |
| 11 | `StudyBlock` | a quiz block and its form | - | `ClientProofs` | done |
| 12 | `AccountLifecycle` | request, cancel, purge beside memberships and transfers | - | - | planned |
| 13 | `EmailOutbox` | mails beside the events they tell of, dispatchers with leader lock, leases and send guard | - | `EmailOutboxProofs` | done |
| 14 | `Subscriptions`, `UsageRollup` | events and reconcile; a watermark over ids that commit out of order | - | - | planned |
| 15 | `Access`, `RateLimit`, `LockOrder` | roles against requests in flight; GCRA; the locks creating handlers take | - | - | planned |

Compositions: `BlobLifecycle` and `StorageQuota` share the upload session; the
two are kept apart because neither decides on the other's state (a session is
charged by its size and counted by its path). `IngestJobs` composes the queue
and the content rows, which do decide on each other's state. `CollabRoom`
composes editors, instances and the row they store, with the projection that
`StorageQuota` sees as `EditMaterial`. The modules of the client each hold a
part of the page together with what the server does to the same rows; they
share no state with each other, and `MCWeb` puts them in one run.

Every safety property that a run checks has its theorem (section 6). What is
left to prove comes with the planned modules.

## 3. Modules and the code

Every module says in its header at which grain it works. The rule: what one
transaction does under a lock it took before reading what it decides on is one
action; whatever reads before it locks, works outside a transaction, or commits
in between is split exactly there. The map in PROJECT.json names the lines of
each definition.

### Credits, HoldLifecycle (`server/internal/store/credits.go`)

State: the row of `user_credits` (`period`, `used`, `reserved`), the rows of
`credit_reservations` (`status`, `amount`), the ledger `usage_events` as the
aggregates the code asks of it (`since`, `billed`), and what the two
maintenance passes hold between their commits (`sweeping`, `audit`).

| Action | Code |
|---|---|
| `ReserveCredits` | `Store.ReserveCredits`: lock the counter, roll the period over, gate, insert |
| `SettleOpen`, `SettleClosed` | `Store.SettleCredits`, `settleClosedReservationTx`: settle, settle late or again; neither rolls the period over |
| `ReleaseCredits`, `RecordUsage` | their namesakes |
| `SweepRelease`, `SweepCredit`, `SweepDies` | `SweepExpiredReservations`: the statement that releases and the later loop that credits, and its death |
| `ReconcileBegin`, `ReconcileRow` | `ReconcileCredits`: one snapshot, rows written as their locks come |
| `MonthEnds`, `StragglersEnd` | the clock of the database; a transaction's `now()` is its start |

`HoldLifecycle` is what the ledger promises of one hold; `ImplementsLifecycle`
says that Credits implements it (the refinement mapping is the identity on
`status` and `billed`; everything else of Credits stutters).

Abstractions: a user's counter row exists from the first month on; the plan's
limit is constant; the sweep's one UPDATE is taken hold by hold, which allows
every order in which it can meet the locks of settling requests; the branch for a reservation that
does not exist is unreachable because ids come from the reservation; reads for
display are left out.

### StorageQuota (`storage.go`, `uploads.go`, `editor_assets.go`, `jobs.go`, `queries.go`, `workspace_transfer.go`, triggers)

State: `user_storage` (`used`, `reserved`), the unfolded `deltas` of material
edits, a status and a size per row that costs bytes, who owns which workspace,
and the owner a creating handler has read (`asked`).

| Action | Code |
|---|---|
| `Ask`, then `Reserve`, `AddSource` or `CreateMaterial` | `storageOwnerTx` reads the owner without a lock; the rest of the handler locks that user's counter, gates and inserts, and the trigger charges the owner of that moment |
| `Deadline`, `Finalize`, `Expire` | the presign window, `FinalizeUploadSession` and its asset twin, `MarkUploadExpired` from the sweep |
| `EditMaterial` | the projection of a document: `account_material_storage` inserts a delta, no gate |
| `DeleteFile`, `DeleteMaterial`, `DeleteWorkspace` | deletions and the triggers they fire |
| `Transfer` | `TransferWorkspace`: locks both counters, gates, moves four tables |
| `Reconcile` | `reconcileStorageUserTx`: counter and rows `FOR UPDATE`, so one action |

Abstractions: an account that refuses new content for its lifecycle is one more
reason for the gate to refuse; conflicts of row locks that Postgres resolves by
aborting one side leave no trace. `Transfer` is one action because it holds the
counters of both parties, which a creating handler gated on either of them
waits for; a handler that read owner A before a finished transfer from A to B
locks neither counter of a second transfer from B to C and could insert in its
middle: that interleaving is not modelled.
`Positive` (the clamp of the counters at zero) is modelled where the triggers
and statements apply it. The history variables `grown`, `slipped`, `leaked` and
`ungated` say exactly which users the known races of section 8 have touched;
the invariants hold for everybody else, and without them for everybody.

### BlobLifecycle (`blobs.go`, `blob_workers.go`, `uploads.go`, `s3.go`, `share.go`, triggers)

State: sessions, presigned URLs, the incoming and final objects, the rows that
name a path, `blobs.ref_count`, `pending_blob_deletions`, and where every
complete request and reaper is.

| Action | Code |
|---|---|
| `Reserve`, `Put`, `Deadline`, `Settle` | presign; a PUT may begin until the URL lapses and land after it |
| `Check`, `WrongSize`, `Copy`, `Drop`, `Finalize`, `CallEnds` | `completeSourceUpload`: head, `S3.Promote` (copy, then delete), `FinalizeUploadSession`, the error paths |
| `Expire`, `Discard`, `DropSession` | the sweep, abandoned assets, pruning of sessions (a trigger queues the path with a day of grace) |
| `UnrefShared`, `UnrefDecide`, `UnrefLast`, `UnrefAborts` | `blob_unref`: its UPDATE, or, if that finds no other reference, the DELETE that follows |
| `CloneSnapshot`, `CloneInsert`, `CloneCommit`, `CloneAborts` | `CloneWorkspace` under its snapshot |
| `Claim`, `Backoff`, `Delete`, `ReaperFails`, `Finish` | `ClaimBlobDeletions`, `DeleteObjects`, `FinishBlobDeletions` |

`stray` is a ghost: the paths of sources and shared assets whose object a late
copy brought back after its deletion (section 8). `NoOrphans` holds for all
others, so for every asset that no clone shares.

Abstractions: clocks are phases (a URL is open, closed, quiet; a graced
deletion is due only when its URL is quiet, because a day is longer than a
presign window and a request). Clones are another user's: a clone of one's own
workspace serialises with `DeleteFile` on the counter's lock. Incoming objects
are removed by a lifecycle rule of the bucket and no property speaks of them.
Cascades delete row by row. A session's trigger fires after that of its row, so
the path of an asset deleted with its session ends with the longer grace.

### IngestJobs (`pipeline/pipeline`: `ingest/worker.py`, `store/db.py`, `retrieval/store.py`, `parse/slots.py`)

State: the `jobs` columns (`status`, `attempts`, `lease`), the file a job
ingests (`file`, `indexed`), `rag_contents` (`rows`) and `rag_file_contents`
(`attached`), ready content of other workspaces (`donors`), the Redis set of
parse slots, and per worker a run: which job and attempt it works for, its next
step (`phase`), the digest it computed, and what became of the content row it
attached (`link`).

| Action | Code |
|---|---|
| `Poll`, `Announce` | `_claim_one`: reclaim expired leases, claim, and, after the commit, mark the files of jobs that failed |
| `Heartbeat`, `LeaseLapses`, `LeaseStalls` | `heartbeat_job`; a lease lapses because its run is gone, or while it still runs |
| `MissingFile`, `Refuse`, `NoDonor`, `Donor` | the beginning of `_process_ingest_job` |
| `Acquire`, `Full`, `Yield`, `Mark`, `Parsed` | `_chunks_for`: slot, capacity yield, `files.status`, parse |
| `Attach`, `SeeReady`, `Steal`, `Copy`, `Vanished`, `GiveUpCopy`, `Reattach` | `attach_file_content`, `_wait_for_content`, `steal_stale_content`, `_reuse_donor` |
| `WriteChunks`, `MarkReady`, `Abandon`, `Finish` | `replace_content_chunks`, `mark_content_ready`, `abandon_content`, `_finish_ok` |
| `Raises`, `RaisesTerminal`, `Retry`, `GiveUp`, `FailureLost`, `WorkerDies` | the failure path and what it may not reach |
| `DeleteFile`, `DonorLeaves` | the API and cascades, with the orphan trigger |

Abstractions: text sources take the same path without a slot; clocks are left
out (a lease is live or expired, a backoff ends at any moment, a waiter may
lose patience whenever it looks, the 90 s floor of `steal_stale_content` is
dropped, which only allows more). What parsing yields is a digest; captions are
written by a model, so two attempts at one file may disagree: `Digests[j]` is a
set.

### CollabRoom, DurableNote (`collaboration/src`: `server.ts`, `persistence.ts`, `projection.ts`; `src/src/features/notes`: `Collaboration.tsx`, `NoteEditorCore.tsx`)

State: the row of `material_yjs_documents` (its edits, `version`, `projected`,
room epoch), `materials.content` as readers see it (`content`), projections on
their way (`posts`), a room per instance and epoch with its edits, its dirty
flag, the receipts that are pending and claimed, a failed store and its retry,
the channel of evictions (`inbox`), the compaction under way (`comp`) and one
editor per client. An edit is an element of a set; the stored state is a set of
pairs of an edit and the epoch it was merged in, so an edit merged twice is
visible.

| Action | Code |
|---|---|
| `Connect`, `Sync`, `Drop`, `Remount` | the provider: authorise, load the room, exchange states, lose the connection, come back with a token for a newer room |
| `Edit`, `EditRejected`, `Ask`, `Command` | an update of the document, one refused for its size (`validateUpdate`), `requestCheckpoint` and `onStateless`, a command of the service |
| `StoreBegin`, `StoreCommit`, `StoreFails`, `StoreRejected` | `onStoreDocument`, `store.store`, `rejectRoom` (`server.ts:440-502`, `persistence.ts:217-283`) |
| `RetryBegin`, `RetryCommit`, `RetryFails` | `retryFailedStores` (`server.ts:621-642`) |
| `Project`, `PostLost`, `Reproject` | `ProjectMaterialContent` and the retry of `projection.ts:56-76` |
| `EvictBegin`, `EvictEnd`, `Unload` | `evictLocalRoom`, an idle room that is unloaded |
| `CompactAsk`, `CompactGivesUp`, `Compact` | `compactIdleDocuments`, `withDistributedEviction`, `store.compact` (`persistence.ts:313-379`) |
| `Crash` | an instance is gone, with its rooms |

`DurableNote` is what the service promises of one note; `ImplementsNote` says
that CollabRoom implements it (`saved` is the set of edits of the stored row,
`promised` the edits that some receipt acknowledged, `view` what readers see).

Abstractions: one material; edits commute, as Yjs updates do; an edit is sent
to the other editors and instances in the step that applies it; the debounce of
stores is the freedom of `StoreBegin`; the size limit is a set of edits that
outgrow it (`Big`); registrations of instances are looked at when a compaction
asks, and may have lapsed (`lapsed`).

### CachedQuery, QueryCache (`src/src/api/hooks.ts`, `client.ts`, `queryClient.ts`)

State: the watched list (`list`), its fetch, the calls of mutation hooks, what
the server has (`committed`), snapshots for rollbacks, uploads whose last
ingest event is to come. A row set is the set of calls whose effect it shows.
`Hooks` is the table of all mutation hooks: what a call changes on the server
(read from the handlers of the API), and what its callbacks patch, insert,
replace and invalidate. A behaviour takes any key and any two hooks.

| Action | Code |
|---|---|
| `Mutate` | `onMutate`: cancel, snapshot, patch |
| `Commit`, `Refuse` | the request at the server |
| `Answered`, `Failed` | `onSuccess`, `onError`, `onSettled` |
| `Read`, `Land`, `FetchFails`, `Remounted` | a fetch of TanStack Query, and what starts one by itself |
| `IngestEvent`, `IngestEventLost` | `useIngestProgress` |

`ListsAgree` holds but for `missed`: effects of hooks that change a list and
never refresh it (`KnownGaps`), and the other reasons the module names. Section
8 lists them.

### NotificationFeed (`hooks.ts:203-417`, `notificationStream.ts`, `NotificationBell.tsx`, `sse_notifications.go`)

State: the notifications (`box`), events committed and not published, events on
the wire, the stream and its poll timer, the cached list and count with their
fetches, the user's marking. Actions: `Notify`, `Withdraw`, `ReadElsewhere`
(commit), `Publish`, `Unpublished` (after it, or never); `Subscribe`,
`markConnected`, `Hear`, `Down`, `ConnectFails`, `StreamEnds`, `Reconnect`,
`Poll` (the stream); `FeedRead` to `FetchesFail` (the two fetches); `MarkOne`,
`MarkAll`, `MarkCommit`, `MarkAnswered`, `MarkFails`.
`applyNotificationEvent` is translated case by case.

### SourceUpload (`AddSourceDialog.tsx`, `sourceUpload.ts`, `client.ts:152-262`)

State: what the dialog lists, per file where its upload is (`task`), how often
the server made a row of it and how often the answer was lost, attempts,
whether uploads are direct. Actions: `Pick`, `Unlist`, `Submit`, `Start` (a
worker of `mapWithConcurrency`), `Reserved`, `Put`, `Create`, `Uploaded`,
`PutOff`, `CallAgain` (`withUploadRetry`), `Rejected`, `Unheard`, `Finish` (what
stays listed), `Leave` (abort).

### QuizAttempt (`routes/QuizAttempt.tsx`, `scoreAttempt.ts`, `judge.ts`, `grade.ts`, `huma_quizzes.go`)

State: the answers, the question shown, the stage, what the judge was asked and
awarded, the submission, and on the server the attempts and mistakes. Actions:
`AnswerQuestion`, `ShowQuestion`, `finish`, `JudgeAnswers` (one question after
the other, over the answers of the moment `finish` was called), `SubmitAttempt`,
`CreateAttempt`, `AddMistakes`, `ClearMistakesExcept`, `MistakesNotUpdated`,
`AttemptAnswered`, `AttemptUnheard`, `AttemptFails`, `LeaveQuiz`. Points are
counted in halves.

### ChatStream (`useChatStream.ts`, `chatStream.ts`, `ChatPanel.tsx`, `chat_stream.go`)

State: the messages sent, the row of each answer on the server, the connection
and what is on it, the bubbles shown (a set: in which order they
stand is left out), the conversation chosen. Actions:
`sendMessage`, `stop`, `openConversation`, `openNew`, `FetchMessages`,
`HearAnswer`, `StreamOver`, `LinkBreaks` (client); `StartAssistantMessage`,
`RefuseMessage`, `relayToken`, `FinalizeAssistantMessage` (gateway, which reads
that the browser is gone between two of its steps).

### StudyBlock (`document.ts`, `elements.tsx`, `QuizForm.tsx`, `QuizDialog.tsx`)

State: the elements of one quiz block, the questions in the form opened from
it, ids handed out. The conversions `quizQuestionNode` and
`quizQuestionElementToQuestion` are operators over elements and questions;
opening, saving, duplicating, deleting, typing in place and every button of the
form are actions.

### EmailOutbox (`email_outbox.go`, `email_dispatcher_lock.go`, `cmd/api/email.go`, `collaboration.go`)

State: the rows (`kind`, `status`, `attempts`, `waiting` for a backoff, `lease`,
`lapsed`), what the mails tell of (the workspace, an open invitation, a
membership, each stamped with the mail that told of it last, as `token_hash`
and `updated_at` do), who holds the advisory lock, and per dispatcher where it
is, its batch (the mails it has still to deal with; it is at the oldest of them,
`First`), whether the transaction of its guard lives and what the provider
answered.

| Action | Code |
|---|---|
| `CreateWorkspaceInvite`, `AcceptWorkspaceInvite`, `ExpireWorkspaceInvites`, `SetWorkspaceMemberRole`, `RemoveWorkspaceMember`, `DeleteWorkspace`, `PurgeUser`, `NotifyTx` | one transaction each: change the domain, withdraw pending mails, enqueue one |
| `TryAcquireEmailDispatcherLock`, `Alive`, `ClaimEmails` | the leader's loop: the lock is looked at once per batch |
| `BeginEmailSend`, `Send`, `MarkSent`, `MarkFailed`, `CancelEmailClaim` | `sendOutboxEmail`: the row stays locked from the check to the mark |
| `Due`, `Lapse`, `Stall` | a backoff ends; two minutes pass for a claim that is abandoned, or under a dispatcher at work |
| `LoseLock`, `LoseGuard`, `BeginFails`, `Crash`, `Shutdown` | a session or a transaction breaks, an instance dies, or ends in order and runs `ReleaseEmailClaims` |

Abstractions: one user and one workspace; the user may have turned off mails on
memberships, not those of invitations; a role is as good as any other, so only
when it was set matters. `accepted` and `calls` leave out what no row can tell
of: an acceptance whose commit was lost, a call a shutdown gave back. In the code
such a mail goes out again, with the same idempotency key.

`MCWeb` runs the six modules of the client side by side: a behaviour is one of
one part, so the run asks the question of each part on its own and adds no
interleavings between parts that share nothing. `WebSpec` is also what
`ClientProofs` proves about: six invariants, one per part, and a step moves
the state of one part only.

## 4. Runs and bounds

The first column gives distinct states in parentheses; a violation run stops at
its counterexample.

| Run | Module, cfg | Instance | Checks |
|---|---|---|---|
| `credits` (1,123,555) | MCCredits, Credits.cfg | 1 user, 2 holds, limit 2, estimates 1 and 2, cost 2, months 0 to 2, one unreserved charge, one sweep death, reconcile on; fairness | `HoldsCovered`, `HoldsOfRows`, `SpendWithinLimit`, `UsedCoveredByLedger`, `ImplementsLifecycle`, `HoldsComeBack` |
| `credits_rollover` | MCCredits, CreditsRollover.cfg | the same with interchangeable holds and two months | `RolloverLosesNothing` is violated |
| `storage` (630,206) | MCStorageQuota, StorageQuota.cfg | 2 users with a workspace each; in the first a material and, as the initial state chooses, two sources, or a source and an editor asset; limit 2, sizes 1 and 2, file cap 1, one transfer, one edit, reconcile on; fairness | `BytesCovered`, `BytesOfRows`, `ReservationsCovered`, `ReservationsExact`, `QuotaHolds`, `FilesBounded`, `CountersConverge` |
| `storage_double_spend` | MCStorageQuota, StorageDouble.cfg | one user, four interchangeable sources of size 1, limit 2 | `NoDoubleSpend` is violated |
| `blob` (289,375) | MCBlobLifecycle, Blob.cfg | a source, an asset, a clone of the source, a complete request for each; or a source, a clone of it and two requests; one reaper, 2 attempts, 2 faults, fairness | `OwnObjectKept`, `NeverOvercounted`, `NoOrphans`, `GarbageCollected` |
| `blob_reaper` | MCBlobLifecycle, BlobReaper.cfg | a source, a clone, one reaper | `ReaperSparesReferenced` is violated |
| `jobs` (542,062) | MCIngestJobs, IngestJobs.cfg | 2 jobs whose files have the same content, one file deletable, 2 workers, 1 slot, 2 attempts, 1 fault, fairness | `OneClaim`, `SingleWriter`, `ReadyHasChunks`, `Searchable`, `LiveOwnerKeepsRow`, `OutcomeFinal`, `EveryJobEnds` |
| `jobs_stale_write` | MCIngestJobs, IngestDone.cfg | the same | `DoneFileStays` is violated |
| `room` (125,925) | MCCollabRoom, CollabRoom.cfg | 2 instances, 2 room epochs; the initial states choose among: one editor with a receipt, one compaction and one fault; the same with a command and no receipt; two editors, a command and a fault; an edit that outgrows the limit beside a compaction; two editors of which one outgrows it; fairness | `NothingTwice`, `ImplementsNote`, `ReachesDisk`, `ReadersCatchUp` |
| `web` (609,306) | MCWeb, Web.cfg | 2 calls of any hooks on any key; 1 notification, 2 acts, 1 fault; 3 files with a cap of 2, 2 workers, 2 attempts, 1 fault; 2 questions of which one is open, 1 fault; 2 messages of 1 token, 1 fault; 2 questions of 3 options and 6 edits; fairness of the bell | `WebTypeOK`, `ListsAgree`, `BellSettles`, `UploadsOnce`, `AttemptsAsMarked`, `AnswersSettle`, `KeyKept` |
| `mail` (889,488) | EmailOutbox, Mail.cfg | 2 dispatchers, 2 mails, 2 attempts, batches of 2, one fault, one lease that lapses under a dispatcher at work; the user is a member at first or not; fairness | `MailTypeOK`, `SentOnce`, `NeverOutdated`, `MailsSettle` |
| `mail_dropped` | EmailOutbox, MailDropped.cfg | one mail, no fault, one stalled lease | `NoMailDropped` is violated |

Why these bounds are enough for what is asked of them:

- Credits: every counter belongs to one user and no action of one user reads
  another's, so one user shows every interleaving of requests, passes and month
  ends; two holds make a hold and its rival. A limit of 2 with estimates 1 and 2 has full,
  partial and refused admissions; a cost of 2 exceeds an estimate of 1. Three
  months give a straggler of a month that ended before the current counter's.
- StorageQuota: two users are what a transfer needs; two sources race for one
  place under a cap of 1 and for 2 bytes under a limit of 2; the material is
  there for growth no gate sees; an asset's session has no file of its own to
  count. In `storage_double_spend` four sources are the
  fewest that show the second spending.
- BlobLifecycle: an initial state chooses one of two instances (the uploads of
  the other are over). In the first the requests for a source and an asset race
  the sweep and the reaper; the asset takes the path with a row from the start,
  the clone shares the source's object. In the second two requests complete one
  source, and the later may copy after the first one's file is deleted. Two
  faults spend both attempts of one path. `MaxAttempts` is 8 in
  the code; two attempts reach the exhausted queue.
- IngestJobs: two jobs with one digest is the smallest sharing; two workers let
  one job have two runs or both jobs run at once; one slot is contended. The
  code's policy grants three attempts; two reach both the retry and the spent
  job. One fault is enough for a stalled, dead or failing run at any point.
- CollabRoom: two instances are what an eviction and a compaction have to agree
  over; two epochs are a room and its successor; two editors show a receipt
  claimed for the edits of another. Typed edits, a command and one that is too
  large are the three ways an edit meets a store. A single fault is a crash, a
  failed store, a lost projection or a lapsed registration at any point;
  `ReachesDisk` is claimed for that one (section 8, F4).
- EmailOutbox: two mails are a mail and the one that outdates it or waits behind
  it in a batch; two dispatchers are a leader and one that takes over while the
  first still works. Two of the code's six attempts reach a retry and the end of
  the budget. One fault and one stalled lease together give two dispatchers that
  both believe they hold a claim (`LoseLock`, then `Stall`).
- Web: two calls are a mutation and its rival (the same properties were checked
  with three: 13.1 million states); one notification is created, read and
  withdrawn in every order; a batch that cannot take every file, with fewer
  workers than files; a closed and an open question; a message and the next one
  that overtakes its end; six edits open, change, save and reopen a block.
- The proofs (section 6) drop these bounds for the safety properties they cover.

`CHECK_DEADLOCK FALSE` is in every cfg because the instances are finite: once
every hold, upload or job of the instance is used up and every bound reached,
nothing more happens. That something which must happen does is what the
liveness properties say.

Symmetry is used only in `credits_rollover`, over ids that no constant and no
property tells apart.

## 5. Fairness

- Credits: `sweep` is a loop on a ticker in every replica
  (`cmd/api/usage_workers.go`), so a sweep always comes, a row lock is granted in
  the end, and transactions end. Nothing is assumed of the reconcile pass:
  `HoldsComeBack` speaks of behaviours in which no sweep died and none ran. Nothing makes a user send
  or settle a request, and nothing makes a month end: `HoldsComeBack` must and
  does hold without.
- StorageQuota: presign windows close with time, the upload sweep runs every
  minute in every replica (`cmd/api/main.go:317-340`), the reconcile command is
  run daily (`deploy/docker-compose.yml:235-248`). Nothing makes a client
  complete its upload.
- BlobLifecycle: requests and transactions end, URLs lapse, sweep and reapers
  run every minute, completed and expired sessions are pruned. A reaper may
  fail `MaxFaults` times. `GarbageCollected` excuses a path only if failures
  may have spent its attempts: the code gives up on such a path on purpose.
- IngestJobs: every worker goes on working (its loop never returns), and time
  passes: the lease of a run that is gone lapses and slots expire. Deaths and
  stalls are bounded by `MaxFaults`; without the bound a job may be reclaimed
  until it fails, which is an end too.
- CollabRoom: a provider that is connected synchronises and one whose room
  moved remounts; stores, their retries, projections, evictions and compactions
  under way come to an end, because they are timers and promises of a process
  that lives or whose successor does the same. Nothing makes anyone type, ask
  for a receipt, disconnect or begin a compaction, and no fault is fair.
- NotificationFeed: the server bounds the life of a stream
  (`sse_notifications.go:80-120`) and a timer reconnects; connecting and
  fetching succeed in the end if they are tried for ever (strong fairness, as a
  fetch may be replaced before it lands). Nothing makes the user mark anything.
- EmailOutbox: dispatchers are loops in every instance, a backoff and the lease of
  a claim nobody works on run out, the provider answers or the call times out.
  Nothing makes anybody invite, and no fault is fair: `MailsSettle` is claimed
  over one of each.

## 6. Proofs

Assumptions are the named ASSUMEs of the modules: constants have their types
(amounts, costs, sizes and bounds are natural numbers, ids of different kinds
differ; a question has room for two options, and some text can be typed; ids over
whose rows something is added up or counted are finitely many). They put no
limit on the number of users, ids, workers, or on any bound. Nothing else is
assumed but what a theorem's statement names: `Deterministic` (see
`SearchableHolds`), or, in the four theorems that say what the disagreements of
section 7 come from, that one kind of event does not happen (`MaxTransfers = 0`
and `Reconciling = FALSE`, `Clones = {}`, `MaxFaults = 0`, `Stalls = 0`); every
other number stays arbitrary. The theorems are of `Spec`,
`CacheSpec`, `UploadSpec`, `QuizSpec`, `WebSpec` or `MailSpec`, and none of
them uses fairness.

| Theorem | States | Rests on |
|---|---|---|
| `CreditsProofs!TypeCorrect` | `TypeOK` | itself inductive |
| `NoHoldForgotten` | `HoldsCovered` | inductive with `TypeOK` and `AuditStarted`: a snapshot exists only after a reconcile began, so before one nothing but a reservation or its end touches the counter |
| `LimitRespected` | `SpendWithinLimit` | the same; the gate reads what it is about to change under its lock, and every charge beyond a hold enters `excess` |
| `UsedIsCovered` | `UsedCoveredByLedger` | `LedgerInv`: what the ledger shows from a month on shrinks as that month grows, and a running reconcile's snapshot never shows more than the ledger does now; a reconcile that writes an old snapshot then still writes something covered |
| `LifecycleImplemented` | `ImplementsLifecycle` | `BilledOnce`: holds are billed at most once, and an open one not at all; each action of Credits maps to one of `HoldLifecycle` or to a stutter |
| `HoldsCloseForGood` | a hold is billed at most once and only when it is over; one that is over stays as it is, and what was billed stays billed | `BilledOnce` and the refinement: it is what the steps of `HoldLifecycle` leave alone |
| `HoldsAddUp` | `HoldsOfRows` | `SumsExact` (the aggregates of the model are the sums over the rows) with `SweptReleased`; then `HoldsExact`: while no sweep died and no reconcile ran, the amount given back is a row of those sums, so it is in the counter and the clamp at zero never bites |
| `StorageQuotaProofs!TypeCorrect` | `TypeOK` | itself inductive |
| `CounterCoversContent` | `BytesCovered` | inductive with `TypeOK`: every action posts the same amount to the counter (or the deltas) and to the bytes of the same payer, and the clamp only rounds up |
| `CounterCoversReservations` | `ReservationsCovered` | inductive with `TypeOK`, for the users outside `slipped` |
| `PlanLimitHolds` | `QuotaHolds` | needs all of the above and `SlippedAreUngated`: the gate compares counters, so it bounds the content only because counters cover it |
| `BytesAddUp` | `BytesOfRows` | `SumsExact` (per user and table, the aggregate is the sum over the rows whose workspace the user owns), then `UsedAboveSolid` (the counter without its deltas covers what is stored in full) with `BytesExact`: every decrement is of bytes that are in the counter |
| `ReservationsAddUp` | `ReservationsExact` | the same for pending sessions, of users neither slipped nor reconciled past a window |
| `FileCapHolds` | `FilesBounded` | `PlacesBounded`: stored files and pending sessions of a workspace together, as its gate counts them, are within the cap; a finalised session takes the place it had |
| `NoDoubleSpendUndisturbed` | `MaxTransfers = 0`, `Reconciling = FALSE`: `NoDoubleSpend`, and the reservation counter of every user is exactly the user's pending bytes | `Unmoved`: every session is charged to the owner of its workspace, so no one is slipped, and counter and sessions change by the same amount |
| `BlobLifecycleProofs!TypeCorrect` | `TypeOK` | itself inductive |
| `OwnObjectSurvives` | `OwnObjectKept` | `FreshInv` (until its session leaves "pending" a path is not queued, claimed or cloned), `KeptInv` (a live, unshared path has its object, one counted reference, and is neither queued nor claimed), `CallInv` (a request finalizes only what it promoted) |
| `LiveUnwanted` | a live path that no clone copies is counted once and is neither queued nor in a reaper's hands | a part of `KeptInv` worth a name: it is why no reaper, however late, can hold it |
| `NothingOrphaned` | `NoOrphans` | `Accounted`: what a reaper deleted is gone or stray, so that `FinishBlobDeletions` may drop the queue row; `GraceInv` with `OpenCall`: while a request may still copy, an unshared asset is queued with grace and in no reaper's hands |
| `CountsHeldRows` | `NeverOvercounted` | `Counted`: the count of a path is at most the number of its holders, which are finitely many (`HoldersFinite`); each action that raises the count adds a holder, and each that takes one away lowers it |
| `OnlyClonedObjectsAreLost` | an object is deleted only if no row references it, or a clone has begun to copy its path | `PendingInv`: a path in a reaper's hands that no clone copies has a count of zero, and nothing but a clone can raise it from there |
| `ReaperSparesWithoutClones` | `Clones = {}`: `ReaperSparesReferenced` | the former |
| `IngestJobsProofs!TypeCorrect` | `TypeOK` | with `PendingCanRun`, which is why attempts stay within the policy although a yield gives one back |
| `OneClaimHolds` | `OneClaim` | `AttemptsDiffer`: two runs of one job never carry the same attempt, although numbers are used again: a yield counts down only under a current claim, and then forgets its run |
| `OutcomesFinal` | `OutcomeFinal` | the claim invariants: every outcome is fenced by a current claim, which a finished job has not |
| `SingleWriterHolds` | `SingleWriter` | `WriterOwns`: a run about to write, whose row still exists, works for the job that owns it |
| `LiveOwnerHolds` | `LiveOwnerKeepsRow` | `WriterOwns`, for the phases in which a run gives its row up too: what an abandoning run removes is its own, and a thief needs an owner that is over |
| `OnlyStragglersTurnDoneFiles` | the ready file of a done job turns back only in the status write of a run of that job that lost its claim | the claim invariants and `FileChanges`, which lists the steps that write the file of a job |
| `DoneFilesStayWithoutFaults` | `MaxFaults = 0`: `DoneFileStays` | `Undisturbed`: every run holds the claim of its job, so that there are no stragglers |
| `ReadyContentHasPassages` | `ReadyHasChunks` | `WrittenBeforeReady`: a run about to mark a row ready has written that very row, or lost it |
| `SearchableHolds` | `Deterministic => []Searchable` | `LinkAttached`, `FinisherFound`, `AttachedDigest`: with agreeing digests nothing but the deletion of a file detaches it |
| `CollabRoomProofs!TypeCorrect` | `TypeOK` | with `Underway`: what evictions and compactions are about |
| `NeverRepeated` | `NothingTwice` | `Lineage`: every stored edit carries the epoch of the row, because a store of another epoch is refused and a compaction carries all of them over |
| `ServiceImplementsNote` | `ImplementsNote` | `Pending`, `Claimed`, `Asked`, `InStep`: what a receipt will promise is in the room, then in the store under way, then in the row; and, by `Ordered`, later versions hold more edits and the projected version names the content |
| `PromisedIsStored` | `acked` and `content` are within `Saved`, and none of the three ever shrinks | the refinement, and the same of `DurableNote` |
| `ClientProofs!ListsAlwaysAgree` | `ListsAgree` | `HooksSound`: each hook of the table refreshes, replaces or inserts into each list it changes, or is one of `KnownGaps`, and one that patches refreshes whenever it settles; then `FetchInv` and `ListInv`: rows fit if they show nothing the server lacks and lack only what a callback to come will bring |
| `UploadTypeCorrect` | `UploadTypeOK` | the same invariant as the next |
| `UploadedOnce` | `UploadsOnce` | `RowsInv` (per file: the rows made are the answers lost and what its upload's state says), `BatchInv` (nothing outside the batch is under way), `LimitsInv`; `TakenFit` bounds the batch by an injection |
| `MarkedAsAnswered` | `AttemptsAsMarked` | `AwardsInv` (what was awarded was judged of the answers taken when marking began), `AttemptsInv`, `CountsInv`, `MistakesInv` |
| `AnswersAlwaysSettle` | `AnswersSettle` | `LinkInv`: what is on the wire is a start, tokens and an end, as far as gateway and panel are apart (`WireHas`, `Progress`), and a bubble of the answer under way lacks exactly the tokens on the wire (`Awaited`); `BubbleFits` for the others |
| `KeysAlwaysKept` | `KeyKept` | `StudyInv`: ids were handed out and are distinct, every element is one of `GoodElements` (its options are named by its id, its key is the options its author marked) and every question of the form one of `GoodQuestions`; each conversion, copy and button stays among them (`ElementIsGood`, `QuestionIsGood`, `MarkedIsGood`, ...) |
| `ClientTypes` | `WebTypeOK` | `ClientInv`, the invariants of the six parts together; `FetchTyped`, `FeedTypesInv`, `QuizTypesInv` add that a fetch that was answered has an answer and that awards and attempts are of their questions |
| `ClientKeeps` | `ListsAgree`, `UploadsOnce`, `AttemptsAsMarked` of the parts side by side | `ClientInv` |
| `EmailOutboxProofs!MailTypes` | `MailTypeOK` | `MailInv`, as the next two |
| `MailsSentOnce` | `SentOnce` | `GuardInv` (a living guard has its row locked under its own claim), `AcceptedInv` (the acceptances that count are one for a row that says sent, and otherwise the one a dispatcher can still record), `CallsInv` (the calls made and those still to come on claims are within the attempts) |
| `OutdatedNotSent` | `NeverOutdated` | `CheckedInv`: between check and call the mail is valid or in `overtaken` |
| `DropsHaveAReason` | a claim with attempts left is failed only if its lease ran out, its event was undone, or it is of a removal | `CancelInv`: a dispatcher about to cancel a claim it still has, has such a reason; `OnlyCancelFails` names the only step |
| `DueMailsKept` | `Stalls = 0`: only if its event was undone, or it is of a removal | the same with `ClaimsFresh`: a lease that ran out is of a claim no dispatcher at work has |
| `NoWaitingInCircles` | whoever waits for a locked mail waits for another dispatcher in the middle of its send | `GuardInv` and `HeardInv` |

Sums over tables. `HoldsOfRows` and `BytesOfRows` speak of
`SumFunctionOnSet`, a fold, and that the fold of a changed function changes by
the same amount is an induction, which takes an operator as a parameter in the
library's theorems and is then out of the provers' reach. `SumTheorems` goes
round it: it builds, for a finite set, a function with the defining equation of
the fold (`Additive`), shows that the function the fold chooses agrees with it,
and makes each induction a least counterexample by the well-foundedness of `<`
on the naturals, or of cardinality. What the other proofs use of it: the sum of
nothing, of one more, of one less, of a changed row, and of equal functions.

The proofs are one lemma per group of actions and, inside it, one step per
action; the invariants over workers (`RowInv`, `FoundInv`) are first rewritten
as one statement per worker, so that an action moves one run and leaves the
others by a single lemma (`RowStep`, `FoundStep`).

Two refinements are proved: Credits implements `HoldLifecycle`, and CollabRoom
implements `DurableNote`; in both, every action is shown to map to a step of the
abstract specification or to a stutter.

The type invariants with a theorem `TypeCorrect` are proved and no longer run:
TLC agreed with them before.

Only model-checked:

- liveness (`HoldsComeBack`, `CountersConverge`, `GarbageCollected`,
  `EveryJobEnds`, `ReachesDisk`, `ReadersCatchUp`, `MailsSettle`, `BellSettles`): it needs
  ENABLED, which is out of their reach.

## 7. Disagreements found

Each is a run whose counterexample follows the code; PROJECT.json quotes the
line that is contradicted.

1. `credits_rollover`: `SettleCredits` and `RecordUsage` charge the counter
   without rolling it over. What is charged in a new month before that month's
   first `ReserveCredits` is set to zero by it (`credits.go:154`).
2. `storage_double_spend`: the reconcile command leaves late sessions out of
   `reserved_bytes`, and `MarkUploadExpired` subtracts them afterwards all the
   same; the bytes of another open upload become spendable again
   (`storage.go:432`).
3. `blob_reaper`: a clone references a path between the reaper's check and the
   bucket's deletion; the clone has a row and no object (`blobs.go:50`).
4. `jobs_stale_write`: a run whose lease expired sets the file of a finished
   job back to "processing", where it stays (`worker.py:549`).
5. `mail_dropped`: a claim whose lease lapses before its dispatcher gets to it is
   cancelled as if its event no longer held: the mail fails for good with
   attempts left (`email_outbox.go:212`, `email.go:143`).

That these have no other cause is proved, for every instance, of four of them:
`NoDoubleSpendUndisturbed` (2), `OnlyClonedObjectsAreLost` (3),
`OnlyStragglersTurnDoneFiles` (4), `DropsHaveAReason` and `DueMailsKept` (5). TLC
agreed with each conditional theorem on a small instance of its own before. The last
two leave removals out, for a reason TLC showed: `NoMailDropped` can be violated
without a stalled lease when a member is removed, invited again and accepts just
before the mail of the removal is checked, and is gone again, by a deletion of
the workspace that enqueues no mail, just before it is cancelled; then the one mail
that stands for both is given up. For (1) there is no such theorem: a straggler's
`ReserveCredits` may set the period back besides.

## 8. Races seen without a run of their own

Credits: a reconcile statement that waits for a row's lock writes sums of its
older snapshot (covered: `UsedCoveredByLedger` holds, `HoldsCovered` is claimed
only before a reconcile); a sweep that dies leaves its holds counted until the
next reconcile.

Storage: a handler that read its owner before a transfer charges a reservation
to one user and holds it against another (`slipped`, `leaked`); the transfer's
gate leaves late sessions out while the trigger moves all pending ones
(`ungated`).

Blobs: a clone that lands between the two statements of `blob_unref` has its
reference removed by the second, which re-reads the row it waits for; a
completed session that is completed again after its file is gone promotes
nothing but may leave an incoming object; a second complete request may copy
after the first one's file, its workspace and the object are deleted: `blob_unref`
queues a path without the grace the trigger of the sessions gives it, and
`FinishBlobDeletions` drops the row that trigger had queued since, so the object
is left to the audit of `blob_workers.go` (found as a violation of `NoOrphans`
without `stray`; the same for an asset whose last clone goes within the
fifteen minutes of its URL); attempts of a path are spent by
outages that say nothing of it.

Ingest: `attach_file_content` is not fenced, so a stale run whose digest
differs repoints a finished file and the orphan trigger may delete the ready
content: this is why `Searchable` needs agreeing digests (set
`Digests <- AnyDigest`, `Hashes <- TwoHashes` in IngestJobs.cfg to see it);
slots are keyed by job, so a stale run gives back the slot of its successor; an
unreachable Redis lets every parse through; a crash between the commit of a
reclaim and its announcement leaves a failed job's file "processing";
`abandon_content` is by row id, not by owner; a run charges for its work even
if its claim was lost; the docstring of `claim_is_current` says attempts only
grow, but a capacity yield counts them down (`OneClaim` holds nevertheless and
is proved).

Rooms: F1, the editor shows "saved" as soon as no receipt is pending, though
updates may be unsent, and "synced" is set even offline. F2, a receipt asked
for after connecting and before synchronising can be given for another's store,
without the edits made offline (`server.ts:442`). F3, a failed store that is
retried with success commits without telling the clients, although
`collaboration/README.md:57-59` says receipts are broadcast after the commit.
F4, the retry deletes the failed store of a room after committing an old
snapshot and so forgets a newer one that failed meanwhile (`server.ts:629`; it
takes two faults). Also: an eviction on one instance drops edits of another
that no store has taken (`server.ts:215`); updates that come in the second step
of a synchronisation are not checked for size; copies received over Redis are
not scheduled for a store, so an edit is safe once its own instance stored it
(the premise `Scheduled` of `ReachesDisk`); after a failed distributed eviction
its key stays until it expires.

Mail: `ReleaseEmailClaims` takes back the attempt of the mail whose call was
under way at the shutdown, although its comment says the provider was not
reached, so restarts are not counted; an event undone between the check and the
provider's answer still goes out (`overtaken`); a purge withdraws pending mails
only, and one that is being sent or is put back afterwards keeps its address; the
lock's session is looked at before a batch and not within it.

Client lists: hooks that change a list and never refresh it: useTransferWorkspace
(workspaces: it invalidates `['workspaces', null]`, which matches no list),
useImportSources (chapters), useDeleteWorkspace (quizzes, decks),
useDeleteChapter (materials), useDeleteMaterial and useDeleteQuiz (attempts),
useUpdateMaterial (quizzes, decks). An answer that replaces a list can be
overwritten by a fetch that read earlier; the first fetch of a list is not
restarted by an invalidation; a hook that refreshes only on success never does
when its answer is lost; an upload that adds its row takes away the mark of a
refetch that failed, and the list is right again only with the event of the
end of its ingest; rows of a refused move survive two rollbacks in the wrong
order, until the refetch, and if that fails until the same unmarking hides them.

Bell: the count drifts until the next fetch; "mark all" shows as read what
arrived after its UPDATE; an event on a full page drops its last row.

Upload dialog: leaving the page aborts only the uploads under way, and files
still queued start all the same; an abort during completion does nothing; a
retry after 429 takes a new reservation; the workspace's file count is not
refreshed; when pages cannot be counted, captions stay on.

Accounts and subscriptions (from the code; their modules are planned): the
webhook marks an event processed also when handling it failed
(`webhooks.go:236`), so the provider's retry is answered "already processed"
and the change waits for the reconcile; the reconcile asks for active
subscriptions only (`billing/stripe.go:107`), so it ends one that is past due
although `subscriptions.go:31-35` lets that keep its access; a purge looks at
the account's state once, at its start (`account_purge.go:46`), and each
workspace goes in a transaction of its own: a deletion cancelled meanwhile is
not noticed; an account that shares a workspace by then is refused on every
tick, and ten of those fill the batch of `ClaimUsersDueForPurge`.

Quiz: answers may change while they are marked, so the results shown may differ
from the attempt that is recorded; marking goes on after the page is left, and
submits; one failed call throws all marks away; an answer lost after the commit
and Finish once more make a second attempt; half an award on half a point
rounds up to the whole; the judge has no timeout; an ordering question that was
not touched is shuffled anew on every render and counts as unanswered; the
result page shows an unanswered boolean whose key is False as correct; a
review's clearing of mistakes deletes those another tab added meanwhile.

Chat: history opened before the stream's first event makes the next message go
to the other conversation; history fetched in the middle of an answer leaves a
bubble that spins, or repeats its last tokens; stop after the end turns a
complete answer into an aborted one; the stream is not aborted on unmount; an
error of `FinalizeAssistantMessage` is ignored; an upstream that ends without
its last event is recorded as complete; a refused message may leave an empty
conversation.

Quiz blocks: typing into an accepted answer or a matching pair in place changes
only the text shown, and the form reverts it; a form saved over a block that
changed meanwhile is lost or overwrites the change.

Elsewhere in the client, without a module: previews of AI edits are never
cleared by a new request and accept applies to the old range; a second review of
a card before the refetch uses its old schedule; a file that finishes while
items are dragged ties with a position and lands in the middle, and a stale item
makes the whole reorder fail.

Locks: creating a source with a new chapter takes a key-share lock on the
workspace before the counter, other handlers after it (`jobs.go:30`); Postgres
aborts one of two such requests.

## 9. What is not modelled

- Parts planned for later modules: section 2. What can go wrong in them: ids of
  ledger rows are handed out before commit, and a row that commits more than a
  minute late falls behind the rollup's watermark (`credits.go:701`); the lock
  order of creating handlers (`jobs.go:30`); a purge is one transaction per
  workspace and another for the user (`account_purge.go:80`); events of a
  subscription out of order or for an unknown customer (`subscriptions.go:123`,
  `webhooks.go:211`).
- Of the client: previews of AI edits, the order of content, the study of decks,
  comments, presence, the import tabs, and everything that is drawing.
- Of modelled parts: the direct multipart POST (`server.go:485`: a crash between the object and
  its row leaves the object to the orphan audit) and the parse-artifact cache's
  short-lived references (BlobLifecycle); notifications, progress events,
  charging, blob-only jobs, slots given back by a stale run (`slots.py:94`) and
  an unreachable Redis (IngestJobs); reads for
  display (all).
- Rendering, ranking, prompting and parsing compute; they keep no state that
  others change under them. What they return is a value of a small set.
- Deployment files and generated clients are configuration; the schedules that
  fairness rests on are read from them.
- That the Go and Python code builds the SQL it means to, and that Postgres
  implements READ COMMITTED row locks, triggers and snapshots as documented, is
  taken as given.

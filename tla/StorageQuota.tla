---------------------------- MODULE StorageQuota ----------------------------
(***************************************************************************)
(* The storage bill of a workspace owner: the counter row (user_storage),  *)
(* the unfolded deltas of material edits (user_storage_deltas), the rows   *)
(* that cost bytes (files, editor assets, materials, upload sessions), and *)
(* the triggers of migrations/0001_init.sql that keep the two in step.     *)
(*                                                                         *)
(* Grain.  A creating handler reads the workspace's owner without a lock,  *)
(* then locks THAT user's counter and decides; the row it inserts is       *)
(* charged by a trigger to whoever owns the workspace by then.  So the     *)
(* read (Ask) and the rest (Reserve, AddSource, CreateMaterial) are two    *)
(* steps.  Everything else holds the counter's lock, or the row's, from    *)
(* what it reads to its commit, and is one action.                         *)
(*                                                                         *)
(* Sums over tables are carried along: solid, notes, open and lapsed are   *)
(* the bytes of files and ready assets, of materials, of pending sessions  *)
(* and of those past their deadline, per workspace and per payer.          *)
(***************************************************************************)
EXTENDS Integers, FiniteSets, Functions

CONSTANTS
  Users, Workspaces,
  Sources, Assets, Notes,  \* ids of source files, editor assets, materials
  Home,                    \* the workspace an id is created in
  FirstOwner,
  Limit,                   \* StorageLimitBytes of the user's plan
  MaxFiles,                \* MaxFilesPerWorkspace
  Sizes,                   \* sizes a row may have
  MaxTransfers, MaxEdits,  \* bounds
  Reconciling              \* whether cmd/reconcile runs in this instance

Uploads == Sources \cup Assets
Items == Uploads \cup Notes

ASSUME IdsAssumption ==
  /\ Sources \cap Assets = {} /\ Uploads \cap Notes = {}
  /\ Users \cap Workspaces = {}
  /\ IsFiniteSet(Items) /\ IsFiniteSet(Workspaces)
ASSUME HomeAssumption == Home \in [Items -> Workspaces]
ASSUME OwnerAssumption == FirstOwner \in [Workspaces -> Users]
ASSUME LimitAssumption == Limit \in [Users -> Nat]
ASSUME SizesAssumption == Sizes \subseteq Nat
ASSUME BoundsAssumption ==
  MaxTransfers \in Nat /\ MaxEdits \in Nat /\ MaxFiles \in Nat
ASSUME ReconcilingAssumption == Reconciling \in BOOLEAN

VARIABLES
  owner,       \* workspaces.user_id, which every row of the workspace carries
  live,        \* workspaces that have not been deleted
  used,        \* user_storage.used_bytes
  reserved,    \* user_storage.reserved_bytes
  deltas,      \* sum of the user's rows in user_storage_deltas
  status,      \* what became of an id
  size,        \* size_bytes, declared_size
  asked,       \* the owner a creating handler read before it took any lock
  solid, notes, open, lapsed,
  \* Counters of the bounds, and history that only properties read:
  transfers, edits,
  grown,       \* bytes a user's materials grew by, which no gate sees
  slipped,     \* users with pending sessions their counter does not hold
  leaked,      \* users whose counter holds sessions that are not theirs
  ungated      \* users who were charged for bytes their gate did not count

counters == <<used, reserved, deltas>>
rows == <<status, size, asked>>
sums == <<solid, notes, open, lapsed>>
bounds == <<transfers, edits>>
faults == <<slipped, leaked, ungated>>
vars == <<owner, live, counters, rows, sums, bounds, grown, faults>>

Statuses == {"none", "asked", "pending", "late", "stored", "gone"}
Totals ==
  {f \in [Users \cup Workspaces -> Int] : \A w \in Workspaces : f[w] >= 0}

TypeOK ==
  /\ owner \in [Workspaces -> Users] /\ live \subseteq Workspaces
  /\ used \in [Users -> Nat] /\ reserved \in [Users -> Nat]
  /\ deltas \in [Users -> Int]
  /\ status \in [Items -> Statuses] /\ size \in [Items -> Nat]
  /\ asked \in [Items -> Users]
  /\ solid \in Totals /\ notes \in Totals /\ open \in Totals
  /\ lapsed \in Totals
  /\ transfers \in 0..MaxTransfers /\ edits \in 0..MaxEdits
  /\ grown \in [Users -> Nat]
  /\ slipped \subseteq Users /\ leaked \subseteq Users /\ ungated \subseteq Users

-----------------------------------------------------------------------------
(* Helpers.  The definitions named Bad... are faulty variants of the       *)
(* definition that follows them; the model uses none of them.              *)

Positive(x) == IF x > 0 THEN x ELSE 0

(* Who pays for an id: the owner of its workspace. *)
Payer(r) == owner[Home[r]]

(* adjust_user_storage_used, adjust_user_storage_reserved *)
Adjust(f, u, n) == [f EXCEPT ![u] = Positive(@ + n)]

(* The rows of a workspace, of the ids in S and the statuses in T. *)
Rows(S, w, T) == {r \in S : Home[r] = w /\ status[r] \in T}

(* A row of n bytes appears (or, n < 0, disappears) in a table.  A sum of  *)
(* sizes is never negative: Positive changes nothing here (SumsExact), it  *)
(* keeps the types free of the sums.                                       *)
Post(f, r, n) ==
  [f EXCEPT ![Home[r]] = Positive(@ + n), ![Payer(r)] = @ + n]

(* All rows of a workspace change their payer, or disappear. *)
Move(f, w, to) == [f EXCEPT ![owner[w]] = @ - f[w], ![to] = @ + f[w]]
Drop(f, w) == [f EXCEPT ![owner[w]] = @ - f[w], ![w] = 0]

(* gateStorageTx, under the lock of u's counter *)
BadFits(u, n) == used[u] + reserved[u] + n <= Limit[u]
Fits(u, n) == used[u] + deltas[u] + reserved[u] + n <= Limit[u]

(* gateWorkspaceFilesTx: an open session that can still become a file      *)
(* holds its place.                                                        *)
BadFileRoom(w) == Cardinality(Rows(Sources, w, {"stored"})) < MaxFiles
FileRoom(w) == Cardinality(Rows(Sources, w, {"stored", "pending"})) < MaxFiles

Becomes(r, s) == status' = [status EXCEPT ![r] = s]

(* A creation checked against asked[r] and charged to Payer(r). *)
NotesWhoWasGated(r) ==
  ungated' = IF asked[r] = Payer(r) THEN ungated ELSE ungated \cup {Payer(r)}

Charged(u) == solid[u] + notes[u]

-----------------------------------------------------------------------------
(* Accounts with nothing in them, the ids in S being used up already. *)
StartsWithout(S) ==
  /\ owner = FirstOwner /\ live = Workspaces
  /\ used = [u \in Users |-> 0] /\ reserved = [u \in Users |-> 0]
  /\ deltas = [u \in Users |-> 0]
  /\ status = [r \in Items |-> IF r \in S THEN "gone" ELSE "none"]
  /\ size = [r \in Items |-> 0]
  /\ asked = [r \in Items |-> FirstOwner[Home[r]]]
  /\ solid = [x \in Users \cup Workspaces |-> 0]
  /\ notes = [x \in Users \cup Workspaces |-> 0]
  /\ open = [x \in Users \cup Workspaces |-> 0]
  /\ lapsed = [x \in Users \cup Workspaces |-> 0]
  /\ transfers = 0 /\ edits = 0 /\ grown = [u \in Users |-> 0]
  /\ slipped = {} /\ leaked = {} /\ ungated = {}

Init == StartsWithout({})

(* A handler that wants to create r reads the owner: storageOwnerTx. *)
Ask(r, n) ==
  /\ status[r] = "none" /\ Home[r] \in live
  /\ Becomes(r, "asked")
  /\ size' = [size EXCEPT ![r] = n]
  /\ asked' = [asked EXCEPT ![r] = Payer(r)]
  /\ UNCHANGED <<owner, live, counters, sums, bounds, grown, faults>>

(* CreateUploadSession, CreateEditorAssetReservation.  The handler adds to *)
(* the counter itself: no trigger fires when a session is inserted.        *)
Reserve(r) ==
  /\ status[r] = "asked" /\ r \in Uploads /\ Home[r] \in live
  /\ Fits(asked[r], size[r])
  /\ r \in Sources => FileRoom(Home[r])
  /\ Becomes(r, "pending")
  /\ reserved' = [reserved EXCEPT ![asked[r]] = @ + size[r]]
  /\ open' = Post(open, r, size[r])
  /\ IF asked[r] = Payer(r) THEN UNCHANGED <<slipped, leaked>>
     ELSE slipped' = slipped \cup {Payer(r)} /\ leaked' = leaked \cup {asked[r]}
  /\ NotesWhoWasGated(r)
  /\ UNCHANGED <<owner, live, used, deltas, size, asked, solid, notes, lapsed,
                 bounds, grown>>

(* AddSource, CreateSourceWithJob: a file without an upload session. *)
AddSource(r) ==
  /\ status[r] = "asked" /\ r \in Sources /\ Home[r] \in live
  /\ Fits(asked[r], size[r]) /\ FileRoom(Home[r])
  /\ Becomes(r, "stored")
  /\ used' = Adjust(used, Payer(r), size[r])
  /\ solid' = Post(solid, r, size[r])
  /\ NotesWhoWasGated(r)
  /\ UNCHANGED <<owner, live, reserved, deltas, size, asked, notes, open, lapsed,
                 bounds, grown, slipped, leaked>>

(* The presigned window of a pending session closes. *)
Deadline(r) ==
  /\ status[r] = "pending"
  /\ Becomes(r, "late")
  /\ lapsed' = Post(lapsed, r, size[r])
  /\ UNCHANGED <<owner, live, counters, size, asked, solid, notes, open, bounds,
                 grown, faults>>

(* FinalizeUploadSession, FinalizeEditorAssetUpload: the reservation       *)
(* becomes a file, or the asset ready.  Refused once the window closed; a  *)
(* repeated call on a completed session changes nothing.                   *)
Finalize(r) ==
  /\ status[r] = "pending"
  /\ Becomes(r, "stored")
  /\ used' = Adjust(used, Payer(r), size[r])
  /\ reserved' = Adjust(reserved, Payer(r), -size[r])
  /\ solid' = Post(solid, r, size[r])
  /\ open' = Post(open, r, -size[r])
  /\ UNCHANGED <<owner, live, deltas, size, asked, notes, lapsed, bounds, grown,
                 faults>>

(* MarkUploadExpired and MarkEditorAssetUploadExpired: the sweep, for      *)
(* sessions past their window, and for an asset that failed verification.  *)
BadExpire(r) ==
  /\ status[r] = "late"
  /\ Becomes(r, "gone")
  /\ open' = Post(open, r, -size[r])
  /\ lapsed' = Post(lapsed, r, -size[r])
  /\ UNCHANGED <<owner, live, counters, size, asked, solid, notes, bounds, grown,
                 faults>>

Expire(r) ==
  /\ \/ status[r] = "late"
     \/ status[r] = "pending" /\ r \in Assets
  /\ Becomes(r, "gone")
  /\ reserved' = Adjust(reserved, Payer(r), -size[r])
  /\ open' = Post(open, r, -size[r])
  /\ lapsed' = IF status[r] = "late" THEN Post(lapsed, r, -size[r]) ELSE lapsed
  /\ UNCHANGED <<owner, live, used, deltas, size, asked, solid, notes, bounds, grown,
                 faults>>

(* DeleteFile; a ready asset only disappears with its workspace. *)
DeleteFile(r) ==
  /\ status[r] = "stored" /\ r \in Sources
  /\ Becomes(r, "gone")
  /\ used' = Adjust(used, Payer(r), -size[r])
  /\ solid' = Post(solid, r, -size[r])
  /\ UNCHANGED <<owner, live, reserved, deltas, size, asked, notes, open, lapsed,
                 bounds, grown, faults>>

-----------------------------------------------------------------------------
(* Materials: the first size goes to the counter, every change after it,   *)
(* the deletion included, to the deltas.                                   *)

BadCreateMaterial(r) ==
  /\ status[r] = "asked" /\ r \in Notes /\ Home[r] \in live
  /\ Fits(asked[r], size[r])
  /\ Becomes(r, "stored")
  /\ used' = Adjust(used, asked[r], size[r])
  /\ notes' = Post(notes, r, size[r])
  /\ NotesWhoWasGated(r)
  /\ UNCHANGED <<owner, live, reserved, deltas, size, asked, solid, open, lapsed,
                 bounds, grown, slipped, leaked>>

CreateMaterial(r) ==
  /\ status[r] = "asked" /\ r \in Notes /\ Home[r] \in live
  /\ Fits(asked[r], size[r])
  /\ Becomes(r, "stored")
  /\ used' = Adjust(used, Payer(r), size[r])
  /\ notes' = Post(notes, r, size[r])
  /\ NotesWhoWasGated(r)
  /\ UNCHANGED <<owner, live, reserved, deltas, size, asked, solid, open, lapsed,
                 bounds, grown, slipped, leaked>>

(* An edit or a collaboration projection: no gate, no counter lock. *)
EditMaterial(r, n) ==
  /\ status[r] = "stored" /\ r \in Notes
  /\ n # size[r]
  /\ edits < MaxEdits
  /\ edits' = edits + 1
  /\ size' = [size EXCEPT ![r] = n]
  /\ deltas' = [deltas EXCEPT ![Payer(r)] = @ + (n - size[r])]
  /\ notes' = Post(notes, r, n - size[r])
  /\ grown' = [grown EXCEPT ![Payer(r)] = @ + Positive(n - size[r])]
  /\ UNCHANGED <<owner, live, used, reserved, status, asked, solid, open, lapsed,
                 transfers, faults>>

BadDeleteMaterial(r) ==
  /\ status[r] = "stored" /\ r \in Notes
  /\ Becomes(r, "gone")
  /\ used' = Adjust(used, Payer(r), -size[r])
  /\ notes' = Post(notes, r, -size[r])
  /\ UNCHANGED <<owner, live, reserved, deltas, size, asked, solid, open, lapsed,
                 bounds, grown, faults>>

DeleteMaterial(r) ==
  /\ status[r] = "stored" /\ r \in Notes
  /\ Becomes(r, "gone")
  /\ deltas' = [deltas EXCEPT ![Payer(r)] = @ - size[r]]
  /\ notes' = Post(notes, r, -size[r])
  /\ UNCHANGED <<owner, live, used, reserved, size, asked, solid, open, lapsed,
                 bounds, grown, faults>>

-----------------------------------------------------------------------------
(* DeleteWorkspaceWithResult: the cascade runs the triggers row by row. *)
DeleteWorkspace(w) ==
  /\ w \in live
  /\ live' = live \ {w}
  /\ status' = [r \in Items |-> IF Home[r] = w THEN "gone" ELSE status[r]]
  /\ used' = Adjust(used, owner[w], -solid[w])
  /\ reserved' = Adjust(reserved, owner[w], -open[w])
  /\ deltas' = [deltas EXCEPT ![owner[w]] = @ - notes[w]]
  /\ solid' = Drop(solid, w) /\ notes' = Drop(notes, w)
  /\ open' = Drop(open, w) /\ lapsed' = Drop(lapsed, w)
  /\ UNCHANGED <<owner, size, asked, bounds, grown, faults>>

(* TransferWorkspace, with both counters locked.  The gate of the          *)
(* recipient counts the sessions whose window is open; the triggers move   *)
(* every pending one.                                                      *)
BadTransfer(w, to) ==
  /\ w \in live /\ to # owner[w]
  /\ transfers < MaxTransfers
  /\ Fits(to, solid[w] + notes[w] + open[w] - lapsed[w])
  /\ transfers' = transfers + 1
  /\ owner' = [owner EXCEPT ![w] = to]
  /\ used' = Adjust(Adjust(used, owner[w], -solid[w]), to, solid[w])
  /\ reserved' = reserved
  /\ deltas' = [deltas EXCEPT ![owner[w]] = @ - notes[w], ![to] = @ + notes[w]]
  /\ solid' = Move(solid, w, to) /\ notes' = Move(notes, w, to)
  /\ open' = Move(open, w, to) /\ lapsed' = Move(lapsed, w, to)
  /\ ungated' = IF lapsed[w] = 0 THEN ungated ELSE ungated \cup {to}
  /\ UNCHANGED <<live, rows, edits, grown, slipped, leaked>>

Transfer(w, to) ==
  /\ w \in live /\ to # owner[w]
  /\ transfers < MaxTransfers
  /\ Fits(to, solid[w] + notes[w] + open[w] - lapsed[w])
  /\ transfers' = transfers + 1
  /\ owner' = [owner EXCEPT ![w] = to]
  /\ used' = Adjust(Adjust(used, owner[w], -solid[w]), to, solid[w])
  /\ reserved' = Adjust(Adjust(reserved, owner[w], -open[w]), to, open[w])
  /\ deltas' = [deltas EXCEPT ![owner[w]] = @ - notes[w], ![to] = @ + notes[w]]
  /\ solid' = Move(solid, w, to) /\ notes' = Move(notes, w, to)
  /\ open' = Move(open, w, to) /\ lapsed' = Move(lapsed, w, to)
  /\ ungated' = IF lapsed[w] = 0 THEN ungated ELSE ungated \cup {to}
  /\ UNCHANGED <<live, rows, edits, grown, slipped, leaked>>

(* reconcileStorageUserTx: counter and rows are locked; sessions past      *)
(* their window are not in the sum.  (Positive: as in Post.)               *)
BadReconcile(u) ==
  /\ Reconciling
  /\ used' = [used EXCEPT ![u] = Charged(u)]
  /\ deltas' = [deltas EXCEPT ![u] = 0]
  /\ UNCHANGED <<owner, live, reserved, rows, sums, bounds, grown, faults>>

Reconcile(u) ==
  /\ Reconciling
  /\ used' = [used EXCEPT ![u] = Positive(Charged(u))]
  /\ reserved' = [reserved EXCEPT ![u] = Positive(open[u] - lapsed[u])]
  /\ deltas' = [deltas EXCEPT ![u] = 0]
  /\ leaked' = leaked \ {u}
  /\ IF lapsed[u] = 0 THEN slipped' = slipped \ {u} /\ UNCHANGED ungated
     ELSE slipped' = slipped \cup {u} /\ ungated' = ungated \cup {u}
  /\ UNCHANGED <<owner, live, rows, sums, bounds, grown>>

-----------------------------------------------------------------------------
Create ==
  \E r \in Items :
    \/ \E n \in Sizes : Ask(r, n)
    \/ Reserve(r) \/ AddSource(r) \/ CreateMaterial(r)

Upload == \E r \in Uploads : Deadline(r) \/ Finalize(r) \/ Expire(r)

Change ==
  \E r \in Items :
    \/ DeleteFile(r) \/ DeleteMaterial(r)
    \/ \E n \in Sizes : EditMaterial(r, n)

Next ==
  \/ Create \/ Upload \/ Change
  \/ \E w \in Workspaces : DeleteWorkspace(w)
  \/ \E w \in Workspaces, to \in Users : Transfer(w, to)
  \/ \E u \in Users : Reconcile(u)

Spec == Init /\ [][Next]_vars

(* Windows close by themselves, the sweep runs every minute in every       *)
(* replica, and the reconcile command is run once a day.                   *)
Fairness ==
  /\ \A r \in Uploads : WF_vars(Deadline(r)) /\ WF_vars(Expire(r))
  /\ \A u \in Users : WF_vars(Reconcile(u))

FairSpec == Spec /\ Fairness

-----------------------------------------------------------------------------
(* Properties *)

(* The counter and the unfolded deltas never account for less than the     *)
(* content a user is charged for: transfers, reconcile passes and handlers *)
(* that read a stale owner included.                                       *)
BytesCovered == \A u \in Users : used[u] + deltas[u] >= Charged(u)

(* And exactly for that: no decrement ever meets the clamp at zero, which  *)
(* would swallow part of it.                                               *)
BytesExact == \A u \in Users : used[u] + deltas[u] = Charged(u)

(* The sums the module carries are those of the queries and triggers. *)
Paid(u) == {w \in Workspaces : owner[w] = u}
TableSums(f, S, T) ==
  \A w \in Workspaces : f[w] = SumFunctionOnSet(size, Rows(S, w, T))
UserSums(f) == \A u \in Users : f[u] = SumFunctionOnSet(f, Paid(u))

SumsExact ==
  /\ TableSums(solid, Uploads, {"stored"}) /\ UserSums(solid)
  /\ TableSums(notes, Notes, {"stored"}) /\ UserSums(notes)
  /\ TableSums(open, Uploads, {"pending", "late"}) /\ UserSums(open)
  /\ TableSums(lapsed, Uploads, {"late"}) /\ UserSums(lapsed)

(* So the counter and the deltas of a user are exactly the sizes of the    *)
(* rows the user is charged for, after any transfer, edit or deletion.     *)
BytesOfRows == SumsExact /\ BytesExact

(* Every pending session is held back from the budget of the user it is    *)
(* charged to, except those a stale owner read or a reconcile pass let     *)
(* slip; and nothing else is, except what a stale owner read leaked.       *)
ReservationsCovered ==
  \A u \in Users \ slipped : reserved[u] >= open[u]
ReservationsExact ==
  \A u \in Users \ (slipped \cup leaked) : reserved[u] = open[u]

(* Racing creations, finalisations and transfers never take a user past    *)
(* the plan's limit: what exceeds it is growth of existing materials.      *)
QuotaHolds ==
  \A u \in Users \ ungated : Charged(u) + open[u] <= Limit[u] + grown[u]

(* No workspace gets more files than the cap, however reservations, late   *)
(* completions and direct creations interleave.                            *)
FilesBounded ==
  \A w \in Workspaces : Cardinality(Rows(Sources, w, {"stored"})) <= MaxFiles

(* Whatever slipped or leaked, the reservation counter comes back to what  *)
(* the pending sessions add up to: abandoned uploads return their bytes.   *)
CountersConverge == \A u \in Users : <>[](reserved[u] = open[u])

(* What authorization-permissions-lifecycles.md says of reservations:      *)
(* concurrent uploads cannot both spend the same remaining quota.          *)
NoDoubleSpend ==
  \A u \in Users : Charged(u) + open[u] - lapsed[u] <= Limit[u] + grown[u]
=============================================================================

----------------------------- MODULE CollabRoom -----------------------------
(***************************************************************************)
(* The collaboration service and the note editors of one material: rooms   *)
(* held in memory by several instances, edits and requests for receipts on *)
(* their way to them, the debounced store into PostgreSQL, the projection  *)
(* into materials.content, and the eviction and compaction of rooms.       *)
(*                                                                         *)
(* A document is the set of edits it has; merging is union, as Yjs merges. *)
(* A room is named by its schema (epoch), and compaction begins a new one  *)
(* whose document has the same text under new identities: the stored state *)
(* is a set of pairs <<edit, epoch of its identity>>, and merging a copy   *)
(* of an older epoch would repeat its text.                                *)
(*                                                                         *)
(* Grain.  Messages of a connection arrive in order and so at once: one    *)
(* that is lost with its connection is one that was made after the loss,   *)
(* which its sender had not noticed.  A store claims receipts and reads    *)
(* the document in one step, and commits and answers in another.  A        *)
(* projection is under way from the commit on.  Instances share the edits  *)
(* of a room through Redis at once.  Hocuspocus runs the stores of one     *)
(* document one after the other, and two evictions of one room follow each *)
(* other.  The 'comment' and 'shrink' accesses are left out: every client  *)
(* may write.                                                              *)
(***************************************************************************)
EXTENDS Naturals, FiniteSets

CONSTANTS
  Instances,  \* replicas of the collaboration service
  Nowhere,    \* in place of an instance, where there is none
  Clients,    \* mounted note editors
  Service,    \* the author of service commands
  Edits,      \* what is typed, each edit once
  Author,     \* who makes an edit
  Big,        \* the edits that break the limits of a document
  PendCap,    \* MAX_PENDING_CHECKPOINTS
  MaxEpoch,   \* the last schema of a room
  MaxAsks,    \* bound on the receipts of one editor
  Budgets     \* bounds on the editors, edits, receipts, compactions asked
              \* for and faults of a behaviour

Epochs == 1..MaxEpoch
Rooms == Instances \X Epochs
Ids == Clients \X (1..MaxAsks)

ASSUME AuthorAssumption == Author \in [Edits -> Clients \cup {Service}]
ASSUME NowhereAssumption == Nowhere \notin Instances
ASSUME BigAssumption == Big \subseteq Edits
ASSUME EpochAssumption == MaxEpoch \in Nat \ {0}
ASSUME BoundAssumption == MaxAsks \in Nat /\ PendCap \in Nat

Budget == [editors : SUBSET Clients, edits : SUBSET Edits, asks : SUBSET Ids,
           tries : Nat, faults : Nat]

ASSUME BudgetAssumption == Budgets \subseteq Budget

VARIABLES
  row,       \* material_yjs_documents: epoch, state, version, projected
  content,   \* materials.content, as the edits it shows
  posts,     \* projections on their way to the API
  room,      \* the rooms of each instance and what it keeps by their name
  inbox,     \* messages of the eviction channels, by instance
  comp,      \* the compaction under way
  client,    \* the editors
  covers,    \* ghost: what the state held that a receipt was asked about
  acked,     \* ghost: the edits some client got a receipt for
  budget     \* what is left of the bounds

note == <<row, content, posts>>
eviction == <<inbox, comp>>
ghosts == <<covers, acked>>
vars == <<note, room, eviction, client, ghosts, budget>>

RoomState == [loaded : BOOLEAN, edits : SUBSET Edits, dirty : BOOLEAN,
              pend : SUBSET Ids, gate : {"open", "closing"}, due : BOOLEAN,
              storing : BOOLEAN, snap : SUBSET Edits, claimed : SUBSET Ids,
              fail : SUBSET Edits, retry : SUBSET Edits]

ClientState == [epoch : Epochs, at : Instances \cup {Nowhere},
                conn : {"off", "open", "synced"}, doc : SUBSET Edits,
                unsaved : BOOLEAN, pending : SUBSET Ids]

TypeOK ==
  /\ row \in [epoch : Epochs, state : SUBSET (Edits \X Epochs),
              version : Nat, projected : Nat]
  /\ content \subseteq Edits
  /\ posts \subseteq [version : Nat, edits : SUBSET Edits]
  /\ room \in [Rooms -> RoomState]
  /\ inbox \in [Instances -> SUBSET ({"evict", "moved", "rejected"} \X Epochs)]
  /\ comp \in [by : Instances \cup {Nowhere}, epoch : Epochs,
               waiting : SUBSET Instances]
  /\ client \in [Clients -> ClientState]
  /\ covers \in [Ids -> SUBSET Edits] /\ acked \subseteq Edits
  /\ budget \in Budget
  /\ \A c \in Clients : client[c].conn # "off" =>
       client[c].at # Nowhere /\ room[<<client[c].at, client[c].epoch>>].loaded

-----------------------------------------------------------------------------
(* Helpers.  The definitions named Bad... are faulty variants of the       *)
(* definition that follows them; the model uses none of them.              *)

Text(state) == {s[1] : s \in state}
Saved == Text(row.state)

Empty == [loaded |-> FALSE, edits |-> {}, dirty |-> FALSE, pend |-> {},
          gate |-> "open", due |-> FALSE, storing |-> FALSE, snap |-> {},
          claimed |-> {}, fail |-> {}, retry |-> {}]

(* A Y.Doc, its pending receipts and its connection: all of it is new when *)
(* the editor is mounted.                                                  *)
Fresh(epoch) == [epoch |-> epoch, at |-> Nowhere, conn |-> "off", doc |-> {},
                 unsaved |-> FALSE, pending |-> {}]

Cut(k) == [k EXCEPT !.at = Nowhere, !.conn = "off"]

In(c, r) == client[c].at = r[1] /\ client[c].epoch = r[2] /\ client[c].conn # "off"

RoomOf(c) == <<client[c].at, client[c].epoch>>

(* Edits and requests join a room: new edits schedule a store there, and   *)
(* reach the rooms of other instances and the editors that are synced; a   *)
(* request is dropped if too many are pending.                             *)
Peers(r) == {q \in Rooms \ {r} : q[2] = r[2] /\ room[q].loaded}

Joined(r, edits, asks) ==
  [q \in Rooms |->
     IF q = r
       THEN [room[r] EXCEPT
               !.edits = @ \cup edits,
               !.dirty = @ \/ ~(edits \subseteq room[r].edits),
               !.pend = IF Cardinality(@ \cup asks) <= PendCap THEN @ \cup asks ELSE @]
       ELSE IF q \in Peers(r) THEN [room[q] EXCEPT !.edits = @ \cup edits] ELSE room[q]]

Heard(r, edits) ==
  [c \in Clients |-> IF client[c].epoch = r[2] /\ client[c].conn = "synced"
                     THEN [client[c] EXCEPT !.doc = @ \cup edits] ELSE client[c]]

(* onAuthenticate and onLoadDocument let a room be opened. *)
Available(r) ==
  room[r].gate = "open" /\ ~(comp.by # Nowhere /\ comp.epoch = r[2])

(* The editors connected to the room are told and disconnected. *)
Closed(r) == [c \in Clients |-> IF In(c, r) THEN Cut(client[c]) ELSE client[c]]

(* A message to the instances that hold a room, or a state to retry: the   *)
(* others have nothing to evict.                                           *)
Holding(e) == {i \in Instances : room[<<i, e>>] # Empty}
Tell(kind, e, to) ==
  [i \in Instances |-> IF i \in to THEN inbox[i] \cup {<<kind, e>>} ELSE inbox[i]]

(* The document was rejected: its editors start over. *)
Restarted(r) ==
  [c \in Clients |-> IF In(c, r) THEN Fresh(row.epoch) ELSE client[c]]

(* recoversMaterialLimits: the merged document breaks the limits, and did  *)
(* not break them as badly before.                                         *)
TooBig(S) == (S \cap Big) \ Saved # {}

Fault == budget.faults > 0 /\ budget' = [budget EXCEPT !.faults = @ - 1]

Init ==
  /\ row = [epoch |-> 1, state |-> {}, version |-> 0, projected |-> 0]
  /\ content = {} /\ posts = {}
  /\ room = [r \in Rooms |-> Empty]
  /\ inbox = [i \in Instances |-> {}]
  /\ comp = [by |-> Nowhere, epoch |-> 1, waiting |-> {}]
  /\ client = [c \in Clients |-> Fresh(1)]
  /\ covers = [x \in Ids |-> {}] /\ acked = {}
  /\ budget \in Budgets

-----------------------------------------------------------------------------
(* The editor.                                                             *)

(* store.load: the first load of a note makes the row from its content,    *)
(* and a room of another epoch is refused.                                 *)
Load(r) ==
  /\ row.epoch = r[2]
  /\ row' = IF row.version > 0 THEN row
            ELSE [row EXCEPT !.state = content \X {row.epoch},
                             !.version = 1, !.projected = 1]
  /\ room' = [room EXCEPT ![r].loaded = TRUE, ![r].edits =
       Text(row'.state) \cup UNION {room[q].edits : q \in Peers(r)}]

Opened(r) == IF room[r].loaded THEN UNCHANGED <<row, room>> ELSE Load(r)

(* The provider connects; a room that is already loaded is joined without  *)
(* another look at the row.                                                *)
Connect(c, i) ==
  LET r == <<i, client[c].epoch>> IN
  /\ client[c].conn = "off" /\ c \in budget.editors
  /\ Available(r)
  /\ Opened(r)
  /\ client' = [client EXCEPT ![c].conn = "open", ![c].at = i]
  /\ UNCHANGED <<content, posts, eviction, ghosts, budget>>

(* The two documents are exchanged; receipts that were asked for and not   *)
(* answered are asked for again.  This update is not measured, whatever    *)
(* its size.                                                               *)
Sync(c) ==
  LET k == client[c] IN
  /\ k.conn = "open"
  /\ room' = Joined(RoomOf(c), k.doc, k.pending)
  /\ client' = [Heard(RoomOf(c), k.doc) EXCEPT
                  ![c].conn = "synced", ![c].doc = @ \cup room[RoomOf(c)].edits]
  /\ UNCHANGED <<note, eviction, ghosts, budget>>

(* onValueChange: the edit is in the Y.Doc at once and sent if it can be.  *)
Made(c, e) ==
  /\ Author[e] = c /\ e \in budget.edits
  /\ budget' = [budget EXCEPT !.edits = @ \ {e}]
  /\ UNCHANGED <<note, eviction, ghosts>>

Edit(c, e) ==
  /\ Made(c, e)
  /\ IF client[c].conn = "off"
       THEN /\ client' = [client EXCEPT ![c].doc = @ \cup {e}, ![c].unsaved = TRUE]
            /\ UNCHANGED room
       ELSE /\ client' = [Heard(RoomOf(c), {e}) EXCEPT
                            ![c].doc = @ \cup {e}, ![c].unsaved = TRUE]
            /\ room' = Joined(RoomOf(c), {e}, {})

(* validateUpdate: an update that breaks the limits closes its connection, *)
(* and its editor starts over.  Not every update is measured.              *)
EditRejected(c, e) ==
  /\ Made(c, e)
  /\ e \in Big /\ client[c].conn # "off"
  /\ client' = [client EXCEPT ![c] = Fresh(row.epoch)]
  /\ UNCHANGED room

(* requestCheckpoint, and onStateless.  A request that goes out after the  *)
(* connection opened and before the documents were exchanged can overtake  *)
(* the edits made offline: it covers nothing.                              *)
Ask(c, n) ==
  LET k == client[c]
      id == <<c, n>> IN
  /\ k.unsaved \/ k.pending # {}
  /\ id \in budget.asks /\ ~\E m \in 1..n - 1 : <<c, m>> \in budget.asks
  /\ budget' = [budget EXCEPT !.asks = @ \ {id}]
  /\ client' = [client EXCEPT ![c].pending = @ \cup {id}, ![c].unsaved = FALSE]
  /\ room' = IF k.conn = "off" THEN room ELSE Joined(RoomOf(c), {}, {id})
  /\ covers' = [covers EXCEPT ![id] = IF k.conn = "open" THEN {} ELSE k.doc]
  /\ UNCHANGED <<note, eviction, acked>>

(* The connection is lost. *)
Drop(c) ==
  /\ Fault
  /\ client[c].conn # "off"
  /\ client' = [client EXCEPT ![c] = Cut(@)]
  /\ UNCHANGED <<note, room, eviction, ghosts>>

(* A new token names another room: the editor is mounted again, with a     *)
(* document of its own.                                                    *)
Remount(c) ==
  /\ client[c].conn = "off" /\ client[c].epoch # row.epoch
  /\ client' = [client EXCEPT ![c] = Fresh(row.epoch)]
  /\ UNCHANGED <<note, room, eviction, ghosts, budget>>

-----------------------------------------------------------------------------
(* The room.                                                               *)

(* A command of the service: the edit is made if the block it replaces is  *)
(* as the service expects it.                                              *)
Command(i, e) ==
  LET r == <<i, row.epoch>> IN
  /\ Made(Service, e)
  /\ Available(r) /\ room[r].loaded
  /\ room' = Joined(r, {e}, {})
  /\ client' = Heard(r, {e})

-----------------------------------------------------------------------------
(* Stores and projections.                                                 *)

(* onStoreDocument after the debounce.  A room that is being evicted or    *)
(* was rejected is not stored, and its state is not kept for a retry.      *)
StoreBegin(r) ==
  /\ room[r].loaded /\ room[r].dirty /\ ~room[r].storing
  /\ room' = [room EXCEPT ![r] =
       IF room[r].gate = "open"
         THEN [@ EXCEPT !.dirty = FALSE, !.storing = TRUE, !.snap = room[r].edits,
                        !.claimed = room[r].pend]
         ELSE [@ EXCEPT !.dirty = FALSE]]
  /\ UNCHANGED <<note, eviction, client, ghosts, budget>>

(* store.store: the row is locked, its room compared, the state merged.    *)
BadMerge(r, S) ==
  /\ row' = [row EXCEPT !.state = @ \cup (S \X {r[2]}), !.version = @ + 1]
  /\ posts' = posts \cup {[version |-> row'.version, edits |-> Text(row'.state)]}
Merge(r, S) ==
  /\ row.epoch = r[2]
  /\ row' = [row EXCEPT !.state = @ \cup (S \X {r[2]}), !.version = @ + 1]
  /\ posts' = posts \cup {[version |-> row'.version, edits |-> Text(row'.state)]}

(* The receipts that were claimed are given, to every editor of the room.  *)
BadGiven(r) == room[r].pend
Given(r) == room[r].claimed

StoreCommit(r) ==
  /\ room[r].storing
  /\ ~TooBig(room[r].snap)
  /\ Merge(r, room[r].snap)
  /\ room' = [room EXCEPT ![r].storing = FALSE, ![r].snap = {}, ![r].claimed = {},
                          ![r].pend = @ \ Given(r), ![r].fail = {}]
  /\ client' = [c \in Clients |->
       IF In(c, r) THEN [client[c] EXCEPT !.pending = @ \ Given(r)] ELSE client[c]]
  /\ acked' = acked \cup UNION {covers[x] : x \in
       {y \in Given(r) : In(y[1], r) /\ y \in client[y[1]].pending}}
  /\ UNCHANGED <<content, eviction, covers, budget>>

(* The database fails, or refuses a room of another epoch: the state is    *)
(* kept for a retry, but for a room that is being evicted.                 *)
BadKept(r) == {}
Kept(r) == IF room[r].gate = "open" THEN room[r].edits ELSE room[r].fail

StoreFails(r) ==
  /\ room[r].storing
  /\ \/ row.epoch # r[2] /\ UNCHANGED budget
     \/ row.epoch = r[2] /\ Fault
  /\ room' = [room EXCEPT ![r].storing = FALSE, ![r].snap = {}, ![r].claimed = {},
                          ![r].fail = Kept(r)]
  /\ UNCHANGED <<note, eviction, client, ghosts>>

(* rejectRoom: a document over the limits is thrown away everywhere.       *)
StoreRejected(r) ==
  /\ room[r].storing /\ row.epoch = r[2]
  /\ TooBig(room[r].snap)
  /\ room' = [room EXCEPT ![r].storing = FALSE, ![r].snap = {}, ![r].claimed = {},
                          ![r].gate = "closing",
                          ![r].fail = {}, ![r].dirty = FALSE]
  /\ client' = Restarted(r)
  /\ inbox' = Tell("rejected", r[2], Holding(r[2]) \ {r[1]})
  /\ UNCHANGED <<note, comp, ghosts, budget>>

(* retryFailedStores: no receipt is given, whatever the state contains.    *)
RetryBegin(r) ==
  /\ room[r].fail # {} /\ room[r].retry = {} /\ room[r].gate = "open"
  /\ room' = [room EXCEPT ![r].retry = room[r].fail]
  /\ UNCHANGED <<note, eviction, client, ghosts, budget>>

RetryCommit(r) ==
  /\ room[r].retry # {}
  /\ ~TooBig(room[r].retry)
  /\ Merge(r, room[r].retry)
  /\ room' = [room EXCEPT ![r].retry = {}, ![r].fail = {}]
  /\ UNCHANGED <<content, eviction, client, ghosts, budget>>

RetryFails(r) ==
  /\ room[r].retry # {}
  /\ IF row.epoch # r[2] \/ TooBig(room[r].retry) THEN UNCHANGED budget ELSE Fault
  /\ room' = [room EXCEPT ![r].retry = {}]
  /\ UNCHANGED <<note, eviction, client, ghosts>>

(* ProjectMaterialContent: a version that is not newer is ignored, one     *)
(* that is not stored is refused.                                          *)
BadNewer(p) == p.version > row.projected + 1
Newer(p) == p.version > row.projected

Project(p) ==
  /\ p \in posts
  /\ posts' = posts \ {p}
  /\ IF Newer(p)
       THEN /\ content' = p.edits
            /\ row' = [row EXCEPT !.projected = p.version]
       ELSE UNCHANGED <<content, row>>
  /\ UNCHANGED <<room, eviction, client, ghosts, budget>>

PostLost(p) ==
  /\ Fault
  /\ p \in posts
  /\ posts' = posts \ {p}
  /\ UNCHANGED <<row, content, room, eviction, client, ghosts>>

(* retryPending, every five seconds. *)
Behind == row.projected < row.version

Reproject ==
  LET p == [version |-> row.version, edits |-> Saved] IN
  /\ Behind /\ p \notin posts
  /\ posts' = posts \cup {p}
  /\ UNCHANGED <<row, content, room, eviction, client, ghosts, budget>>

-----------------------------------------------------------------------------
(* Eviction and compaction.                                                *)

(* evictLocalRoom, the first half: the gate closes, the state kept for a   *)
(* retry is forgotten, the editors are told and disconnected.              *)
EvictBegin(i, x) ==
  LET r == <<i, x[2]>> IN
  /\ x \in inbox[i] /\ room[r].gate = "open"
  /\ inbox' = [inbox EXCEPT ![i] = @ \ {x}]
  /\ room' = [room EXCEPT ![r].gate = "closing", ![r].fail = {},
                          ![r].due = x[1] = "evict"]
  /\ client' = IF x[1] = "rejected" THEN Restarted(r) ELSE Closed(r)
  /\ UNCHANGED <<note, comp, ghosts, budget>>

(* The second half: the stores are over and the room is unloaded, with the *)
(* edits that were not stored and the requests that were not answered.     *)
Quiet(r) == ~room[r].storing /\ room[r].retry = {}

EvictEnd(r) ==
  /\ room[r].gate = "closing" /\ Quiet(r)
  /\ room' = [room EXCEPT ![r] = Empty]
  /\ comp' = IF room[r].due THEN [comp EXCEPT !.waiting = @ \ {r[1]}] ELSE comp
  /\ UNCHANGED <<note, inbox, client, ghosts, budget>>

(* compactIdleDocuments on an instance that has no editor in the room, and *)
(* withDistributedEviction up to the request.  An instance that missed its *)
(* heartbeats is not waited for, and still serves its rooms.               *)
CompactAsk(i, lapsed) ==
  /\ budget.tries > 0 /\ (lapsed = {} \/ budget.faults > 0)
  /\ budget' = [budget EXCEPT !.tries = @ - 1,
                              !.faults = IF lapsed = {} THEN @ ELSE @ - 1]
  /\ comp.by = Nowhere /\ row.epoch < MaxEpoch
  /\ row.version > 0 /\ row.projected = row.version
  /\ ~\E c \in Clients : In(c, <<i, row.epoch>>)
  /\ comp' = [by |-> i, epoch |-> row.epoch,
               waiting |-> Holding(row.epoch) \ (lapsed \ {i})]
  /\ inbox' = Tell("evict", row.epoch, Holding(row.epoch))
  /\ UNCHANGED <<note, room, client, ghosts>>

(* An acknowledgement is missing, or says that the eviction failed; what   *)
(* is still under way answers a request that nobody knows any more.        *)
Forgotten == [i \in Instances |->
  {<<IF x[1] = "evict" THEN "moved" ELSE x[1], x[2]>> : x \in inbox[i]}]

CompactGivesUp ==
  /\ comp.by # Nowhere
  /\ comp' = [comp EXCEPT !.by = Nowhere, !.waiting = {}]
  /\ inbox' = Forgotten
  /\ room' = [r \in Rooms |-> [room[r] EXCEPT !.due = FALSE]]
  /\ UNCHANGED <<note, client, ghosts, budget>>

(* store.compact: a document of the same text and a room of its own, if    *)
(* the content is up to date; the old room's editors are told to move.     *)
Settled == row.version = row.projected

Compact ==
  /\ comp.by # Nowhere /\ comp.waiting = {}
  /\ comp' = [comp EXCEPT !.by = Nowhere]
  /\ IF row.epoch = comp.epoch /\ Settled
       THEN /\ row' = [epoch |-> row.epoch + 1, state |-> content \X {row.epoch + 1},
                       version |-> row.version + 1, projected |-> row.version + 1]
            /\ inbox' = Tell("moved", comp.epoch, Holding(comp.epoch))
       ELSE UNCHANGED <<row, inbox>>
  /\ UNCHANGED <<content, posts, room, client, ghosts, budget>>

(* The last editor left. *)
Unload(r) ==
  /\ room[r].loaded /\ ~room[r].storing /\ ~room[r].dirty
  /\ room[r].gate = "open" /\ ~\E c \in Clients : In(c, r)
  /\ room' = [room EXCEPT ![r] = [Empty EXCEPT !.fail = room[r].fail,
                                               !.retry = room[r].retry]]
  /\ UNCHANGED <<note, eviction, client, ghosts, budget>>

(* An instance dies and another takes its place. *)
Crash(i) ==
  /\ Fault
  /\ room' = [r \in Rooms |-> IF r[1] = i THEN Empty
                              ELSE [room[r] EXCEPT !.due = @ /\ comp.by # i]]
  /\ client' = [c \in Clients |-> IF client[c].at = i THEN Cut(client[c]) ELSE client[c]]
  /\ inbox' = [IF comp.by = i THEN Forgotten ELSE inbox EXCEPT ![i] = {}]
  /\ comp' = IF comp.by = i THEN [comp EXCEPT !.by = Nowhere, !.waiting = {}] ELSE comp
  /\ UNCHANGED <<note, ghosts>>

Next ==
  \/ \E c \in Clients, i \in Instances : Connect(c, i)
  \/ \E c \in Clients : Sync(c)
  \/ \E c \in Clients, e \in Edits : Edit(c, e)
  \/ \E c \in Clients, e \in Edits : EditRejected(c, e)
  \/ \E c \in Clients, n \in 1..MaxAsks : Ask(c, n)
  \/ \E c \in Clients : Drop(c)
  \/ \E c \in Clients : Remount(c)
  \/ \E i \in Instances, e \in Edits : Command(i, e)
  \/ \E r \in Rooms : StoreBegin(r)
  \/ \E r \in Rooms : StoreCommit(r)
  \/ \E r \in Rooms : StoreFails(r)
  \/ \E r \in Rooms : StoreRejected(r)
  \/ \E r \in Rooms : RetryBegin(r)
  \/ \E r \in Rooms : RetryCommit(r)
  \/ \E r \in Rooms : RetryFails(r)
  \/ \E p \in posts : Project(p)
  \/ \E p \in posts : PostLost(p)
  \/ Reproject
  \/ \E i \in Instances : \E x \in inbox[i] : EvictBegin(i, x)
  \/ \E r \in Rooms : EvictEnd(r)
  \/ \E i \in Instances, lapsed \in SUBSET Instances : CompactAsk(i, lapsed)
  \/ CompactGivesUp
  \/ Compact
  \/ \E r \in Rooms : Unload(r)
  \/ \E i \in Instances : Crash(i)

(* Timers, message delivery and the retries of the provider are fair;      *)
(* whether somebody types, or a fault happens, is not.                     *)
Fairness ==
  /\ \A c \in Clients : WF_vars(Sync(c)) /\ WF_vars(Remount(c))
  /\ \A r \in Rooms : /\ WF_vars(StoreBegin(r))
                      /\ WF_vars(StoreCommit(r) \/ StoreFails(r) \/ StoreRejected(r))
                      /\ WF_vars(RetryBegin(r)) /\ WF_vars(RetryCommit(r) \/ RetryFails(r))
                      /\ WF_vars(EvictEnd(r))
  /\ \A i \in Instances :
       WF_vars(\E x \in inbox[i] : EvictBegin(i, x))
  /\ WF_vars(\E p \in posts : Project(p)) /\ WF_vars(Reproject)
  /\ WF_vars(Compact) /\ WF_vars(CompactGivesUp)

Spec == Init /\ [][Next]_vars

FairSpec == Spec /\ Fairness

-----------------------------------------------------------------------------
(* Properties.                                                             *)

(* The service keeps the promises of DurableNote: the stored document only *)
(* grows, through compactions too; a receipt that reaches an editor covers *)
(* only edits that are stored, however it was sent again, claimed by an    *)
(* earlier store or overtaken by drops; and what readers see moves forward *)
(* through stored states although projections arrive late and in any       *)
(* order (server.ts:440-502, persistence.ts:217-283, 313-379).             *)
Note == INSTANCE DurableNote WITH saved <- Saved, promised <- acked, view <- content
ImplementsNote == Note!Spec

(* No edit is in the stored document twice: a copy of a room of an older   *)
(* schema, on an instance that missed the compaction, is never merged into *)
(* the document that took its place (persistence.ts:234-239, 313-379).     *)
NothingTwice == \A s, t \in row.state : s[1] = t[1] => s = t

(* An edit whose store an instance has scheduled is stored in the end, or  *)
(* the instance no longer has it in a room: when the store fails, the      *)
(* state kept for a retry takes its place (server.ts:440-502, 621-642).    *)
Scheduled(i, e) == \E r \in Rooms : r[1] = i /\ room[r].dirty /\ e \in room[r].edits
Has(i, e) == \E r \in Rooms : r[1] = i /\ e \in room[r].edits

ReachesDisk ==
  \A i \in Instances, e \in Edits : Scheduled(i, e) ~> (e \in Saved \/ ~Has(i, e))

(* Readers see in the end what is stored, although posts to the API are    *)
(* lost (projection.ts:56-76).                                             *)
ReadersCatchUp == <>[](row.projected = row.version /\ content = Saved)
=============================================================================

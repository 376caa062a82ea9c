-------------------------- MODULE CollabRoomProofs --------------------------
(***************************************************************************)
(* The service of CollabRoom keeps its variables' types, never merges a    *)
(* copy of an older room, and implements DurableNote, for any instances,   *)
(* editors, edits and bounds.                                              *)
(*                                                                         *)
(* The argument.  What is stored has identities of the present room only   *)
(* (Lineage).  Posts carry stored states, in the order of their versions,  *)
(* and what readers see is the state of the projected version (Ordered).   *)
(* A receipt is covered by the copy that has it pending, and, once it is   *)
(* claimed, by what the store has read (Pending, Claimed); for a receipt   *)
(* that is yet to be sent this is so because its editor's document has     *)
(* what it covers (Asked), and a synced document has nothing that  *)
(* its room has not (InStep).                                              *)
(***************************************************************************)
EXTENDS CollabRoom, TLAPS

Lineage == \A s \in row.state : s[2] = row.epoch

Ordered ==
  /\ row.projected <= row.version
  /\ content \subseteq Saved
  /\ row.projected = row.version => content = Saved
  /\ \A p \in posts : /\ p.version <= row.version /\ p.edits \subseteq Saved
                      /\ p.version = row.version => p.edits = Saved
                      /\ p.version > row.projected => content \subseteq p.edits
  /\ \A p, q \in posts : p.version < q.version => p.edits \subseteq q.edits
  /\ \A p, q \in posts : p.version = q.version => p.edits = q.edits

Idle == \A r \in Rooms :
  /\ ~room[r].loaded => room[r].pend = {} /\ ~room[r].storing
  /\ ~room[r].storing => room[r].claimed = {}

Pending == \A r \in Rooms : \A x \in room[r].pend : covers[x] \subseteq room[r].edits

Claimed == \A r \in Rooms : \A x \in room[r].claimed : covers[x] \subseteq room[r].snap

InStep == \A c \in Clients :
  client[c].conn = "synced" => client[c].doc \subseteq room[RoomOf(c)].edits

Asked == \A c \in Clients : \A x \in client[c].pending : covers[x] \subseteq client[c].doc

Unasked == \A x \in budget.asks :
  /\ \A r \in Rooms : x \notin room[r].pend /\ x \notin room[r].claimed
  /\ \A c \in Clients : x \notin client[c].pending

Shut == \A r \in Rooms : room[r].gate = "closing" => \A c \in Clients : ~In(c, r)

Covered == acked \subseteq Saved

Underway == comp.by # Nowhere => comp.epoch < MaxEpoch

NoteInv == Lineage /\ Ordered
RoomInv == Idle /\ Pending /\ Claimed /\ InStep /\ Asked /\ Unasked /\ Shut
IInv == TypeOK /\ NoteInv /\ RoomInv /\ Covered /\ Underway

(* The parts of TypeOK. *)
NoteType ==
  /\ row \in [epoch : Epochs, state : SUBSET (Edits \X Epochs), version : Nat, projected : Nat]
  /\ content \subseteq Edits
  /\ posts \subseteq [version : Nat, edits : SUBSET Edits]
EvictionType ==
  /\ inbox \in [Instances -> SUBSET ({"evict", "moved", "rejected"} \X Epochs)]
  /\ comp \in [by : Instances \cup {Nowhere}, epoch : Epochs, waiting : SUBSET Instances]
BoundType == covers \in [Ids -> SUBSET Edits] /\ acked \subseteq Edits /\ budget \in Budget
RoomType == room \in [Rooms -> RoomState]
ClientType == client \in [Clients -> ClientState]
Connected == \A c \in Clients : client[c].conn # "off" =>
  client[c].at # Nowhere /\ room[<<client[c].at, client[c].epoch>>].loaded

InNext(c, q) ==
  client'[c].at = q[1] /\ client'[c].epoch = q[2] /\ client'[c].conn # "off"

(* What a step that brings nothing into the rooms may do to a room and to  *)
(* an editor.                                                              *)
Fewer(q) ==
  LET a == room[q]
      b == room'[q] IN
  \/ /\ b.pend = {} /\ ~b.storing /\ b.claimed = {} /\ b.gate = "open"
     /\ \A c \in Clients : ~InNext(c, q)
  \/ /\ b.loaded = a.loaded /\ b.edits = a.edits /\ b.pend \subseteq a.pend
     /\ \/ b.storing = a.storing /\ b.snap = a.snap /\ b.claimed = a.claimed
        \/ ~b.storing /\ b.claimed = {}
        \/ a.loaded /\ b.storing /\ b.snap = a.edits /\ b.claimed = a.pend
     /\ b.gate = a.gate \/ \A c \in Clients : ~InNext(c, q)

Left(c) ==
  LET a == client[c]
      b == client'[c] IN
  /\ b.pending \subseteq a.pending
  /\ \/ b.conn = "off" /\ (b.doc = a.doc \/ b.pending = {})
     \/ b.conn = a.conn /\ b.at = a.at /\ b.epoch = a.epoch /\ b.doc = a.doc

(* What a step that brings edits and requests into the room r does to all  *)
(* the rooms.                                                              *)
Joins(r, edits, asks) == \A q \in Rooms :
  LET a == room[q]
      b == room'[q] IN
  /\ b.loaded = a.loaded /\ b.gate = a.gate /\ b.storing = a.storing
  /\ b.claimed = a.claimed /\ b.snap = a.snap /\ a.edits \subseteq b.edits
  /\ b.pend \subseteq a.pend \cup (IF q = r THEN asks ELSE {})
  /\ (q = r \/ (q[2] = r[2] /\ a.loaded)) => edits \subseteq b.edits

-----------------------------------------------------------------------------
(* Operators.                                                              *)

LEMMA EmptyType == Empty \in RoomState
BY DEF Empty, RoomState

LEMMA FreshType == ASSUME NEW e \in Epochs PROVE Fresh(e) \in ClientState
BY DEF Fresh, ClientState

LEMMA CutType == ASSUME NEW k \in ClientState PROVE Cut(k) \in ClientState
BY DEF Cut, ClientState

LEMMA RoomParts ==
  ASSUME NEW r \in Rooms
  PROVE  r[1] \in Instances /\ r[2] \in Epochs /\ r = <<r[1], r[2]>>
BY DEF Rooms

(* A connected editor is in a loaded room. *)
LEMMA ConnectedRoom ==
  ASSUME TypeOK, NEW c \in Clients, client[c].conn # "off"
  PROVE  RoomOf(c) \in Rooms /\ room[RoomOf(c)].loaded /\ In(c, RoomOf(c))
<1>1. client[c] \in ClientState
  BY DEF TypeOK
<1>2. client[c].at \in Instances /\ client[c].epoch \in Epochs
  BY <1>1 DEF TypeOK, ClientState
<1>. QED
  BY <1>2 DEF TypeOK, RoomOf, Rooms, In

LEMMA InRoom ==
  ASSUME TypeOK, NEW c \in Clients, NEW r \in Rooms, In(c, r)
  PROVE  r = RoomOf(c) /\ client[c].conn # "off" /\ room[r].loaded
BY RoomParts, ConnectedRoom DEF In, RoomOf

LEMMA ChangedType ==
  ASSUME NEW m \in RoomState, NEW e \in SUBSET Edits, NEW d \in BOOLEAN, NEW p \in SUBSET Ids
  PROVE  [m EXCEPT !.edits = e, !.dirty = d, !.pend = p] \in RoomState
BY ZenonT(30) DEF RoomState

(* What joins a room changes its edits, its pending receipts and whether a *)
(* store is due, and the edits of its peers.                               *)
LEMMA JoinedFacts ==
  ASSUME room \in [Rooms -> RoomState], NEW r \in Rooms,
         NEW edits \in SUBSET Edits, NEW asks \in SUBSET Ids
  PROVE  /\ Joined(r, edits, asks) \in [Rooms -> RoomState]
         /\ \A q \in Rooms :
              LET m == Joined(r, edits, asks)[q] IN
              /\ m.loaded = room[q].loaded /\ m.gate = room[q].gate
              /\ m.storing = room[q].storing /\ m.claimed = room[q].claimed
              /\ m.snap = room[q].snap /\ room[q].edits \subseteq m.edits
              /\ m.pend \subseteq room[q].pend \cup (IF q = r THEN asks ELSE {})
              /\ (q = r \/ (q[2] = r[2] /\ room[q].loaded)) => edits \subseteq m.edits
<1> DEFINE J == Joined(r, edits, asks)
<1>. HIDE DEF J
<1>1. J = [q \in Rooms |-> J[q]]
  BY DEF J, Joined
<1>2. ASSUME NEW q \in Rooms
      PROVE  /\ J[q] \in RoomState
             /\ J[q].loaded = room[q].loaded /\ J[q].gate = room[q].gate
             /\ J[q].storing = room[q].storing /\ J[q].claimed = room[q].claimed
             /\ J[q].snap = room[q].snap /\ room[q].edits \subseteq J[q].edits
             /\ J[q].pend \subseteq room[q].pend \cup (IF q = r THEN asks ELSE {})
             /\ (q = r \/ (q[2] = r[2] /\ room[q].loaded)) => edits \subseteq J[q].edits
  <2>0. room[q] \in RoomState
    OBVIOUS
  <2>1. CASE q = r
    <3> DEFINE e == room[r].edits \cup edits
               d == room[r].dirty \/ ~(edits \subseteq room[r].edits)
               p == IF Cardinality(room[r].pend \cup asks) <= PendCap
                    THEN room[r].pend \cup asks ELSE room[r].pend
    <3>1. J[q] = [room[r] EXCEPT !.edits = e, !.dirty = d, !.pend = p]
      BY <2>1 DEF J, Joined
    <3>2. /\ e \in SUBSET Edits /\ d \in BOOLEAN /\ p \in SUBSET Ids
          /\ p \subseteq room[r].pend \cup asks /\ e = room[q].edits \cup edits
      BY <2>0, <2>1 DEF RoomState
    <3>. HIDE DEF e, d, p
    <3>0. room[r] \in RoomState
      OBVIOUS
    <3>a. [room[r] EXCEPT !.edits = e, !.dirty = d, !.pend = p] \in RoomState
      BY <3>0, <3>2, ChangedType
    <3>3. J[q] \in RoomState
      BY <3>1, <3>a
    <3>4. /\ J[q].loaded = room[q].loaded /\ J[q].gate = room[q].gate
          /\ J[q].storing = room[q].storing /\ J[q].claimed = room[q].claimed
          /\ J[q].snap = room[q].snap
      BY <2>0, <2>1, <3>1 DEF RoomState
    <3>5. J[q].edits = e /\ J[q].pend = p
      BY <2>0, <2>1, <3>1 DEF RoomState
    <3>. QED
      BY <2>1, <3>2, <3>3, <3>4, <3>5
  <2>2. CASE q # r /\ q \in Peers(r)
    <3>1. J[q] = [room[q] EXCEPT !.edits = room[q].edits \cup edits]
      BY <2>2 DEF J, Joined
    <3>. QED
      BY <2>0, <2>2, <3>1 DEF RoomState
  <2>3. CASE q # r /\ q \notin Peers(r)
    <3>1. J[q] = room[q]
      BY <2>3 DEF J, Joined
    <3>. QED
      BY <2>0, <2>3, <3>1 DEF Peers
  <2>. QED
    BY <2>1, <2>2, <2>3
<1>3. J \in [Rooms -> RoomState]
  BY <1>1, <1>2
<1>. QED
  BY <1>2, <1>3 DEF J

(* What is heard only adds edits to documents, of synced editors of rooms  *)
(* of that schema.                                                         *)
LEMMA HeardFacts ==
  ASSUME client \in [Clients -> ClientState], NEW r, NEW edits \in SUBSET Edits
  PROVE  /\ Heard(r, edits) \in [Clients -> ClientState]
         /\ \A c \in Clients :
              LET k == Heard(r, edits)[c] IN
              /\ k.conn = client[c].conn /\ k.at = client[c].at
              /\ k.epoch = client[c].epoch /\ k.pending = client[c].pending
              /\ k.unsaved = client[c].unsaved
              /\ client[c].doc \subseteq k.doc
              /\ IF client[c].epoch = r[2] /\ client[c].conn = "synced"
                 THEN k.doc = client[c].doc \cup edits ELSE k.doc = client[c].doc
BY DEF Heard, ClientState

LEMMA TypeParts ==
  TypeOK <=> NoteType /\ EvictionType /\ BoundType /\ RoomType /\ ClientType /\ Connected
BY DEF TypeOK, NoteType, EvictionType, BoundType, RoomType, ClientType, Connected

LEMMA TextFacts ==
  /\ Text({}) = {}
  /\ \A A, B : Text(A \cup B) = Text(A) \cup Text(B)
  /\ \A S, e : Text(S \X {e}) = S
  /\ \A S, E : \A state \in SUBSET (S \X E) : Text(state) \subseteq S
<1>1. Text({}) = {}
  BY DEF Text
<1>2. \A A, B : Text(A \cup B) = Text(A) \cup Text(B)
  BY DEF Text
<1>3. ASSUME NEW S, NEW e PROVE Text(S \X {e}) = S
  <2>1. ASSUME NEW x \in S PROVE x \in Text(S \X {e})
    <3>1. <<x, e>> \in S \X {e} /\ <<x, e>>[1] = x
      OBVIOUS
    <3>. QED
      BY <3>1 DEF Text
  <2>2. Text(S \X {e}) \subseteq S
    BY DEF Text
  <2>. QED
    BY <2>1, <2>2
<1>4. \A S, E : \A state \in SUBSET (S \X E) : Text(state) \subseteq S
  BY DEF Text
<1>. QED
  BY <1>1, <1>2, <1>3, <1>4

(* Steps that bring nothing into the rooms preserve the invariants of the  *)
(* rooms and of the editors.                                               *)
LEMMA Losing ==
  ASSUME IInv, \A q \in Rooms : Fewer(q), \A c \in Clients : Left(c),
         covers' = covers, budget'.asks \subseteq budget.asks, ClientType'
  PROVE  RoomInv' /\ Connected'
<1>. USE DEF IInv, RoomInv
<1>1. Idle'
  BY DEF Idle, Fewer
<1>2. Pending'
  BY DEF Pending, Fewer
<1>3. Claimed'
  BY DEF Claimed, Pending, Fewer
<1>4. Asked'
  BY DEF Asked, Left
<1>5. Unasked'
  <2>1. ASSUME NEW x \in budget'.asks, NEW q \in Rooms
        PROVE  x \notin room'[q].pend /\ x \notin room'[q].claimed
    BY <2>1 DEF Unasked, Fewer
  <2>2. ASSUME NEW x \in budget'.asks, NEW c \in Clients
        PROVE  x \notin client'[c].pending
    BY <2>2 DEF Unasked, Left
  <2>. QED
    BY <2>1, <2>2 DEF Unasked
<1>6. Shut'
  <2>. SUFFICES ASSUME NEW q \in Rooms, room'[q].gate = "closing", NEW c \in Clients
                PROVE  ~InNext(c, q)
    BY DEF Shut, In, InNext
  <2>1. Fewer(q) /\ Left(c) /\ (room[q].gate = "closing" => ~In(c, q))
    BY DEF Shut
  <2>. QED
    BY <2>1 DEF Fewer, Left, In, InNext
<1>7. ASSUME NEW c \in Clients, client'[c].conn # "off"
      PROVE  /\ <<client'[c].at, client'[c].epoch>> = RoomOf(c) /\ RoomOf(c) \in Rooms
             /\ client[c].conn = client'[c].conn /\ client'[c].doc = client[c].doc
             /\ client'[c].at = client[c].at /\ client'[c].at # Nowhere
             /\ room'[RoomOf(c)].loaded /\ room'[RoomOf(c)].edits = room[RoomOf(c)].edits
  <2>1. /\ client[c].conn = client'[c].conn /\ client'[c].doc = client[c].doc
        /\ client'[c].at = client[c].at /\ client'[c].epoch = client[c].epoch
    BY <1>7 DEF Left
  <2>2. RoomOf(c) \in Rooms /\ room[RoomOf(c)].loaded /\ client[c].at # Nowhere
    BY <1>7, <2>1, ConnectedRoom DEF TypeOK
  <2>3. client'[c].at = RoomOf(c)[1] /\ client'[c].epoch = RoomOf(c)[2]
    BY <2>1 DEF RoomOf
  <2>4. Fewer(RoomOf(c))
    BY <2>2
  <2>. QED
    BY <1>7, <2>1, <2>2, <2>3, <2>4 DEF Fewer, InNext, RoomOf
<1>8. InStep'
  BY <1>7 DEF InStep, RoomOf
<1>9. Connected'
  BY <1>7 DEF Connected, RoomOf
<1>. QED
  BY <1>1, <1>2, <1>3, <1>4, <1>5, <1>6, <1>8, <1>9

(* Steps that bring edits and requests into a room preserve the invariants *)
(* of the rooms.                                                           *)
LEMMA Joining ==
  ASSUME IInv, NEW r, NEW edits, NEW asks, Joins(r, edits, asks),
         asks = {} \/ (r \in Rooms /\ room[r].loaded),
         asks \subseteq Ids, asks \cap budget'.asks = {},
         \A x \in asks : covers'[x] \subseteq room'[r].edits,
         \A x \in Ids \ budget.asks : covers'[x] = covers[x],
         budget.asks \in SUBSET Ids, budget'.asks \subseteq budget.asks,
         \A c \in Clients : /\ client'[c].at = client[c].at
                            /\ client'[c].epoch = client[c].epoch
                            /\ client'[c].conn = "off" <=> client[c].conn = "off"
  PROVE  /\ Idle' /\ Pending' /\ Claimed' /\ Shut' /\ Connected'
         /\ \A x \in budget'.asks, q \in Rooms :
              x \notin room'[q].pend /\ x \notin room'[q].claimed
<1>. USE DEF IInv, RoomInv
<1>1. Idle'
  BY DEF Idle, Joins
<1>2. ASSUME NEW q \in Rooms, NEW x \in room[q].pend \cup room[q].claimed
      PROVE  covers'[x] = covers[x]
  <2>1. x \in Ids
    BY DEF TypeOK, RoomState
  <2>2. x \notin budget.asks
    BY DEF Unasked
  <2>. QED
    BY <2>1, <2>2
<1>3. Pending'
  BY <1>2 DEF Pending, Joins
<1>4. Claimed'
  BY <1>2 DEF Claimed, Joins
<1>5. Shut'
  BY DEF Shut, Joins, In
<1>6. Connected'
  <2>. SUFFICES ASSUME NEW c \in Clients, client'[c].conn # "off"
                PROVE  client[c].at # Nowhere /\ room'[RoomOf(c)].loaded
    BY DEF Connected, RoomOf
  <2>1. RoomOf(c) \in Rooms /\ room[RoomOf(c)].loaded /\ client[c].at # Nowhere
    BY ConnectedRoom DEF TypeOK
  <2>. QED
    BY <2>1 DEF Joins
<1>7. \A x \in budget'.asks, q \in Rooms :
        x \notin room'[q].pend /\ x \notin room'[q].claimed
  BY DEF Unasked, Joins
<1>. QED
  BY <1>1, <1>3, <1>4, <1>5, <1>6, <1>7

(* A synced editor's document is in step with its room when both have      *)
(* heard the same.                                                         *)
LEMMA HeardInStep ==
  ASSUME IInv, NEW r \in Rooms, NEW edits \in SUBSET Edits, NEW asks, Joins(r, edits, asks),
         NEW c \in Clients, client[c].conn = "synced"
  PROVE  Heard(r, edits)[c].doc \subseteq room'[RoomOf(c)].edits
<1>1. RoomOf(c) \in Rooms /\ room[RoomOf(c)].loaded
  BY ConnectedRoom DEF IInv
<1>2. client[c].doc \subseteq room'[RoomOf(c)].edits
  BY <1>1 DEF IInv, RoomInv, InStep, Joins
<1>3. Heard(r, edits)[c].doc
        = IF client[c].epoch = r[2] THEN client[c].doc \cup edits ELSE client[c].doc
  <2>1. client \in [Clients -> ClientState]
    BY DEF IInv, TypeOK
  <2>. QED
    BY <2>1 DEF Heard, ClientState
<1>4. client[c].epoch = r[2] => edits \subseteq room'[RoomOf(c)].edits
  BY <1>1 DEF Joins, RoomOf
<1>. QED
  BY <1>2, <1>3, <1>4

LEMMA JoinedJoins ==
  ASSUME RoomType, NEW r \in Rooms, NEW edits \in SUBSET Edits, NEW asks \in SUBSET Ids,
         room' = Joined(r, edits, asks)
  PROVE  RoomType' /\ Joins(r, edits, asks)
<1>1. room \in [Rooms -> RoomState]
  BY DEF RoomType
<1> DEFINE J == Joined(r, edits, asks)
<1>2. J \in [Rooms -> RoomState] /\ \A q \in Rooms :
        /\ J[q].loaded = room[q].loaded /\ J[q].gate = room[q].gate
        /\ J[q].storing = room[q].storing /\ J[q].claimed = room[q].claimed
        /\ J[q].snap = room[q].snap /\ room[q].edits \subseteq J[q].edits
        /\ J[q].pend \subseteq room[q].pend \cup (IF q = r THEN asks ELSE {})
        /\ (q = r \/ (q[2] = r[2] /\ room[q].loaded)) => edits \subseteq J[q].edits
  BY <1>1, JoinedFacts, Zenon
<1>3. room' = J
  OBVIOUS
<1>. HIDE DEF J
<1>. QED
  BY <1>2, <1>3 DEF RoomType, Joins
-----------------------------------------------------------------------------
(* The editor's steps.                                                     *)

LEMMA SyncStep ==
  ASSUME IInv, NEW c \in Clients, Sync(c)
  PROVE  RoomType' /\ ClientType' /\ Connected' /\ RoomInv'
<1> DEFINE r == RoomOf(c)
           k == client[c]
           H == Heard(r, k.doc)
<1>1. r \in Rooms /\ room[r].loaded
  BY ConnectedRoom DEF Sync, IInv
<1>2. k \in ClientState /\ k.doc \in SUBSET Edits /\ k.pending \in SUBSET Ids
      /\ k.epoch = r[2]
  BY DEF IInv, TypeOK, ClientState, RoomOf
<1>3. RoomType' /\ Joins(r, k.doc, k.pending)
  BY <1>1, <1>2, JoinedJoins DEF Sync, IInv, TypeOK, RoomType
<1>4. H \in [Clients -> ClientState] /\ H[c].doc = k.doc /\ H[c].conn = "open"
      /\ H[c].at = k.at /\ H[c].epoch = k.epoch /\ H[c].pending = k.pending
  BY <1>2, HeardFacts DEF Sync, IInv, TypeOK
<1>5. \A d \in Clients : /\ client'[d].at = client[d].at /\ client'[d].epoch = client[d].epoch
                         /\ client'[d].pending = client[d].pending
                         /\ client[d].doc \subseteq client'[d].doc
                         /\ d # c => client'[d] = H[d] /\ client'[d].conn = client[d].conn
  <2>1. client \in [Clients -> ClientState]
    BY DEF IInv, TypeOK
  <2>2. \A d \in Clients : /\ H[d].at = client[d].at /\ H[d].epoch = client[d].epoch
                           /\ H[d].pending = client[d].pending /\ H[d].conn = client[d].conn
                           /\ client[d].doc \subseteq H[d].doc
    BY <1>2, <2>1, HeardFacts
  <2>3. client' = [H EXCEPT ![c].conn = "synced", ![c].doc = @ \cup room[r].edits]
    BY DEF Sync
  <2>. HIDE DEF H
  <2>. QED
    BY <1>4, <2>1, <2>2, <2>3 DEF ClientState
<1>6. client'[c].conn = "synced" /\ client'[c].doc = k.doc \cup room[r].edits
  BY <1>4 DEF Sync, ClientState
<1>7. ClientType'
  <2> DEFINE x == H[c].doc \cup room[r].edits
  <2>1. x \in SUBSET Edits /\ H[c] \in ClientState
    BY <1>1, <1>2, <1>4 DEF IInv, TypeOK, RoomState
  <2>2. client' = [H EXCEPT ![c] = [H[c] EXCEPT !.conn = "synced", !.doc = x]]
    BY <1>4 DEF Sync
  <2>. HIDE DEF x, H
  <2>3. [H[c] EXCEPT !.conn = "synced", !.doc = x] \in ClientState
    BY <2>1, ZenonT(30) DEF ClientState
  <2>. QED
    BY <1>4, <2>2, <2>3 DEF ClientType
<1>. HIDE DEF H
<1>8. /\ budget.asks \in SUBSET Ids /\ budget' = budget /\ covers' = covers
      /\ k.conn = "open"
  BY DEF Sync, IInv, TypeOK, Budget, ghosts
<1>9. k.pending \cap budget.asks = {} /\ \A x \in k.pending : covers[x] \subseteq k.doc
  BY DEF IInv, RoomInv, Unasked, Asked
<1>10. \A x \in k.pending : covers'[x] \subseteq room'[r].edits
  BY <1>1, <1>3, <1>8, <1>9 DEF Joins
<1>11. /\ Idle' /\ Pending' /\ Claimed' /\ Shut' /\ Connected'
       /\ \A x \in budget'.asks, q \in Rooms :
            x \notin room'[q].pend /\ x \notin room'[q].claimed
  <2>. HIDE DEF r, k
  <2>1. \A d \in Clients : client'[d].conn = "off" <=> client[d].conn = "off"
    BY <1>5, <1>6, <1>8 DEF k
  <2>. QED
    BY <1>1, <1>2, <1>3, <1>5, <1>8, <1>9, <1>10, <2>1, Joining
<1>12. InStep'
  <2>. SUFFICES ASSUME NEW d \in Clients, client'[d].conn = "synced"
                PROVE  client'[d].doc \subseteq room'[RoomOf(d)].edits
    BY <1>5 DEF InStep, RoomOf
  <2>1. CASE d = c
    BY <1>1, <1>3, <1>6, <2>1 DEF Joins
  <2>2. CASE d # c
    BY <1>1, <1>2, <1>3, <1>5, <2>2, HeardInStep DEF H
  <2>. QED
    BY <2>1, <2>2
<1>13. Asked'
  BY <1>5, <1>8 DEF IInv, RoomInv, Asked
<1>14. Unasked'
  BY <1>5, <1>8, <1>11 DEF IInv, RoomInv, Unasked
<1>. QED
  BY <1>3, <1>7, <1>11, <1>12, <1>13, <1>14 DEF RoomInv

(* An edit of an editor's own that joins its document and its room.        *)
LEMMA EditStep ==
  ASSUME IInv, NEW c \in Clients, NEW e \in Edits, Edit(c, e)
  PROVE  RoomType' /\ ClientType' /\ Connected' /\ RoomInv'
<1> DEFINE r == RoomOf(c)
           k == client[c]
           H == IF k.conn = "off" THEN client ELSE Heard(r, {e})
           x == H[c].doc \cup {e}
<1>1. client \in [Clients -> ClientState] /\ k \in ClientState
  BY DEF IInv, TypeOK
<1>2. H \in [Clients -> ClientState]
      /\ \A d \in Clients : /\ H[d].at = client[d].at /\ H[d].epoch = client[d].epoch
                            /\ H[d].pending = client[d].pending /\ H[d].conn = client[d].conn
                            /\ client[d].doc \subseteq H[d].doc
  BY <1>1, HeardFacts
<1>3. client' = [H EXCEPT ![c] = [H[c] EXCEPT !.doc = x, !.unsaved = TRUE]]
  BY <1>1 DEF Edit
<1>4. H[c] \in ClientState /\ x \in SUBSET Edits
  BY <1>2 DEF ClientState
<1>5. room' = IF k.conn = "off" THEN room ELSE Joined(r, {e}, {})
  BY DEF Edit
<1>6. k.conn # "off" => r \in Rooms /\ room[r].loaded /\ RoomType' /\ Joins(r, {e}, {})
  <2>. SUFFICES ASSUME k.conn # "off"
                PROVE  r \in Rooms /\ room[r].loaded /\ RoomType' /\ Joins(r, {e}, {})
    OBVIOUS
  <2>1. r \in Rooms /\ room[r].loaded
    BY ConnectedRoom DEF IInv
  <2>2. RoomType /\ room' = Joined(r, {e}, {})
    BY <1>5 DEF IInv, TypeOK, RoomType
  <2>. HIDE DEF r
  <2>. QED
    BY <2>1, <2>2, JoinedJoins
<1>7. k.conn = "off" => RoomType' /\ Joins(r, {}, {})
  BY <1>5 DEF IInv, TypeOK, RoomType, Joins
<1>8. client'[c].doc = x
  BY <1>2, <1>3, <1>4 DEF ClientState
<1>9. k.conn = "off" => \A d \in Clients \ {c} : H[d] = client[d]
  OBVIOUS
<1>10. k.conn # "off" => H = Heard(r, {e})
  OBVIOUS
<1>11. k.conn = "synced" => H[c].doc = k.doc \cup {e}
  BY <1>1, <1>10 DEF Heard, RoomOf, ClientState
<1>. HIDE DEF H, x
<1>12. /\ ClientType' /\ client'[c].conn = k.conn /\ client'[c].epoch = k.epoch
       /\ client'[c].at = k.at /\ client'[c].pending = k.pending
       /\ \A d \in Clients \ {c} : client'[d] = H[d]
  <2>1. [H[c] EXCEPT !.doc = x, !.unsaved = TRUE] \in ClientState
    BY <1>4, ZenonT(30) DEF ClientState
  <2>2. ClientType'
    BY <1>2, <1>3, <2>1 DEF ClientType
  <2>. QED
    BY <1>2, <1>3, <1>4, <2>2 DEF ClientState
<1>13. \A d \in Clients : /\ client'[d].at = client[d].at /\ client'[d].epoch = client[d].epoch
                          /\ client'[d].pending = client[d].pending
                          /\ client'[d].conn = client[d].conn
                          /\ client[d].doc \subseteq client'[d].doc
  <2>1. client[c].doc \subseteq client'[c].doc
    BY <1>2, <1>8 DEF x
  <2>. QED
    BY <1>2, <1>12, <2>1
<1>14. /\ budget.asks \in SUBSET Ids /\ budget'.asks = budget.asks /\ covers' = covers
  BY DEF Edit, Made, IInv, TypeOK, Budget, ghosts
<1>15. RoomType' /\ \E S : Joins(r, S, {})
  BY <1>6, <1>7
<1>16. /\ Idle' /\ Pending' /\ Claimed' /\ Shut' /\ Connected'
       /\ \A y \in budget'.asks, q \in Rooms :
            y \notin room'[q].pend /\ y \notin room'[q].claimed
  <2>. HIDE DEF r, k
  <2>1. PICK S : Joins(r, S, {})
    BY <1>15
  <2>. QED
    BY <1>13, <1>14, <2>1, Joining
<1>17. InStep'
  <2>. SUFFICES ASSUME NEW d \in Clients, client'[d].conn = "synced"
                PROVE  client'[d].doc \subseteq room'[RoomOf(d)].edits
    BY <1>13 DEF InStep, RoomOf
  <2>1. client[d].conn = "synced"
    BY <1>13
  <2>2. CASE k.conn = "off"
    <3>1. d # c
      BY <2>1, <2>2
    <3>. QED
      BY <1>5, <1>9, <1>12, <2>1, <2>2, <3>1 DEF IInv, RoomInv, InStep
  <2>3. CASE k.conn # "off"
    <3>1. H[d].doc \subseteq room'[RoomOf(d)].edits
      BY <1>6, <1>10, <2>1, <2>3, HeardInStep
    <3>2. client'[d].doc = H[d].doc
      <4>1. CASE d = c
        BY <1>8, <1>11, <2>1, <4>1 DEF x
      <4>2. CASE d # c
        BY <1>12, <4>2
      <4>. QED
        BY <4>1, <4>2
    <3>. QED
      BY <3>1, <3>2
  <2>. QED
    BY <2>2, <2>3
<1>18. Asked'
  BY <1>13, <1>14 DEF IInv, RoomInv, Asked
<1>19. Unasked'
  BY <1>13, <1>14, <1>16 DEF IInv, RoomInv, Unasked
<1>. QED
  BY <1>12, <1>15, <1>16, <1>17, <1>18, <1>19 DEF RoomInv

(* A command of the service that joins a room and the editors' documents.  *)
LEMMA CommandStep ==
  ASSUME IInv, NEW i \in Instances, NEW e \in Edits, Command(i, e)
  PROVE  RoomType' /\ ClientType' /\ Connected' /\ RoomInv'
<1> DEFINE r == <<i, row.epoch>>
<1>1. r \in Rooms /\ room[r].loaded
  BY DEF Command, IInv, TypeOK, Rooms
<1>2. RoomType' /\ Joins(r, {e}, {})
  BY <1>1, JoinedJoins DEF Command, IInv, TypeOK, RoomType
<1>3. client' = Heard(r, {e})
  BY DEF Command
<1>. HIDE DEF r
<1>4. ClientType'
      /\ \A d \in Clients : /\ client'[d].at = client[d].at /\ client'[d].epoch = client[d].epoch
                            /\ client'[d].pending = client[d].pending
                            /\ client'[d].conn = client[d].conn
                            /\ client[d].doc \subseteq client'[d].doc
  <2>1. client \in [Clients -> ClientState]
    BY DEF IInv, TypeOK
  <2>. QED
    BY <1>3, <2>1, HeardFacts DEF ClientType
<1>5. /\ budget.asks \in SUBSET Ids /\ budget'.asks = budget.asks /\ covers' = covers
  BY DEF Command, Made, IInv, TypeOK, Budget, ghosts
<1>6. /\ Idle' /\ Pending' /\ Claimed' /\ Shut' /\ Connected'
      /\ \A y \in budget'.asks, q \in Rooms :
           y \notin room'[q].pend /\ y \notin room'[q].claimed
  <2>1. PICK S : Joins(r, S, {})
    BY <1>2
  <2>2. \A d \in Clients : /\ client'[d].at = client[d].at
                           /\ client'[d].epoch = client[d].epoch
                           /\ client'[d].conn = "off" <=> client[d].conn = "off"
    BY <1>4
  <2>. QED
    BY <1>5, <2>1, <2>2, Joining
<1>7. InStep'
  <2>. SUFFICES ASSUME NEW d \in Clients, client'[d].conn = "synced"
                PROVE  client'[d].doc \subseteq room'[RoomOf(d)].edits
    BY <1>4 DEF InStep, RoomOf
  <2>1. client[d].conn = "synced"
    BY <1>4
  <2>. QED
    BY <1>1, <1>2, <1>3, <2>1, HeardInStep
<1>8. Asked'
  BY <1>4, <1>5 DEF IInv, RoomInv, Asked
<1>9. Unasked'
  BY <1>4, <1>5, <1>6 DEF IInv, RoomInv, Unasked
<1>. QED
  BY <1>2, <1>4, <1>6, <1>7, <1>8, <1>9 DEF RoomInv

(* A request covers nothing, or what the room has already.                 *)
LEMMA AskStep ==
  ASSUME IInv, NEW c \in Clients, NEW n \in 1..MaxAsks, Ask(c, n)
  PROVE  RoomType' /\ ClientType' /\ Connected' /\ RoomInv' /\ BoundType'
<1> DEFINE r == RoomOf(c)
           k == client[c]
           id == <<c, n>>
           asks == IF k.conn = "off" THEN {} ELSE {id}
<1>1. /\ client \in [Clients -> ClientState] /\ k \in ClientState /\ id \in Ids
      /\ covers \in [Ids -> SUBSET Edits] /\ budget \in Budget /\ id \in budget.asks
      /\ k.doc \in SUBSET Edits /\ k.pending \in SUBSET Ids
  BY DEF IInv, TypeOK, Ids, Ask, ClientState
<1>2. /\ budget' = [budget EXCEPT !.asks = @ \ {id}]
      /\ client' = [client EXCEPT ![c] =
                      [k EXCEPT !.pending = k.pending \cup {id}, !.unsaved = FALSE]]
      /\ room' = (IF k.conn = "off" THEN room ELSE Joined(r, {}, {id}))
      /\ covers' = [covers EXCEPT ![id] = IF k.conn = "open" THEN {} ELSE k.doc]
  BY <1>1 DEF Ask
<1>3. budget' \in Budget /\ budget'.asks = budget.asks \ {id} /\ budget.asks \in SUBSET Ids
  BY <1>1, <1>2 DEF Budget
<1>4. BoundType'
  BY <1>1, <1>2, <1>3 DEF BoundType, IInv, TypeOK, Ask
<1>5. k.conn # "off" => r \in Rooms /\ room[r].loaded /\ RoomType' /\ Joins(r, {}, asks)
  <2>. SUFFICES ASSUME k.conn # "off"
                PROVE  r \in Rooms /\ room[r].loaded /\ RoomType' /\ Joins(r, {}, asks)
    OBVIOUS
  <2>1. r \in Rooms /\ room[r].loaded
    BY ConnectedRoom DEF IInv
  <2>2. RoomType /\ room' = Joined(r, {}, asks) /\ asks \in SUBSET Ids
    BY <1>1, <1>2 DEF IInv, TypeOK, RoomType
  <2>. HIDE DEF r, asks
  <2>. QED
    BY <2>1, <2>2, JoinedJoins
<1>6. k.conn = "off" => RoomType' /\ Joins(r, {}, asks)
  BY <1>2 DEF IInv, TypeOK, RoomType, Joins
<1>7. /\ client'[c].at = k.at /\ client'[c].epoch = k.epoch /\ client'[c].conn = k.conn
      /\ client'[c].doc = k.doc /\ client'[c].pending = k.pending \cup {id}
      /\ \A d \in Clients \ {c} : client'[d] = client[d]
  BY <1>1, <1>2 DEF ClientState
<1>8. ClientType'
  <2> DEFINE y == k.pending \cup {id}
  <2>1. y \in SUBSET Ids
    BY <1>1
  <2>. HIDE DEF y, k, id
  <2>2. [k EXCEPT !.pending = y, !.unsaved = FALSE] \in ClientState
    BY <1>1, <2>1, ZenonT(30) DEF ClientState
  <2>. QED
    BY <1>1, <1>2, <2>2 DEF ClientType, y
<1>9. \A x \in Ids \ budget.asks : covers'[x] = covers[x]
  BY <1>1, <1>2
<1>10. \A x \in asks : covers'[x] \subseteq room'[r].edits
  <2>. SUFFICES ASSUME k.conn # "off" PROVE covers'[id] \subseteq room'[r].edits
    OBVIOUS
  <2>1. CASE k.conn = "open"
    BY <1>1, <1>2, <2>1
  <2>2. CASE k.conn = "synced"
    <3>1. k.doc \subseteq room[r].edits
      BY <2>2 DEF IInv, RoomInv, InStep
    <3>2. room[r].edits \subseteq room'[r].edits
      BY <1>5, <2>2 DEF Joins
    <3>. QED
      BY <1>1, <1>2, <2>2, <3>1, <3>2
  <2>. QED
    BY <1>1, <2>1, <2>2 DEF ClientState
<1>11. /\ Idle' /\ Pending' /\ Claimed' /\ Shut' /\ Connected'
       /\ \A y \in budget'.asks, q \in Rooms :
            y \notin room'[q].pend /\ y \notin room'[q].claimed
  <2>1. Joins(r, {}, asks) /\ (asks = {} \/ (r \in Rooms /\ room[r].loaded))
    BY <1>5, <1>6
  <2>2. asks \subseteq Ids /\ asks \cap budget'.asks = {} /\ budget'.asks \subseteq budget.asks
    BY <1>1, <1>3
  <2>3. \A d \in Clients : /\ client'[d].at = client[d].at
                           /\ client'[d].epoch = client[d].epoch
                           /\ client'[d].conn = "off" <=> client[d].conn = "off"
    BY <1>7
  <2>. HIDE DEF r, asks, k, id
  <2>. QED
    BY <1>3, <1>9, <1>10, <2>1, <2>2, <2>3, Joining
<1>12. InStep'
  <2>. SUFFICES ASSUME NEW d \in Clients, client[d].conn = "synced"
                PROVE  client[d].doc \subseteq room'[RoomOf(d)].edits
    BY <1>7 DEF InStep, RoomOf
  <2>1. RoomOf(d) \in Rooms /\ client[d].doc \subseteq room[RoomOf(d)].edits
    BY ConnectedRoom DEF IInv, RoomInv, InStep
  <2>. QED
    BY <1>5, <1>6, <2>1 DEF Joins
<1>13. Asked'
  <2>1. ASSUME NEW d \in Clients, NEW x \in client[d].pending
        PROVE  covers'[x] = covers[x] /\ covers[x] \subseteq client[d].doc
    <3>1. x \in Ids /\ x \notin budget.asks
      BY <1>1 DEF IInv, RoomInv, Unasked, ClientState
    <3>. QED
      BY <1>9, <3>1 DEF IInv, RoomInv, Asked
  <2>2. covers'[id] \subseteq k.doc
    BY <1>1, <1>2
  <2>. QED
    BY <1>7, <2>1, <2>2 DEF Asked
<1>14. Unasked'
  BY <1>3, <1>7, <1>11 DEF IInv, RoomInv, Unasked
<1>. QED
  BY <1>4, <1>5, <1>6, <1>8, <1>11, <1>12, <1>13, <1>14 DEF RoomInv

(* A connection opens, and may load its room.                              *)
LEMMA ConnectStep ==
  ASSUME IInv, NEW c \in Clients, NEW i \in Instances, Connect(c, i)
  PROVE  TypeOK' /\ NoteInv' /\ RoomInv' /\ Saved' = Saved
<1> DEFINE r == <<i, client[c].epoch>>
           k == client[c]
           m == room[r]
<1>. USE DEF IInv
<1>1. /\ client \in [Clients -> ClientState] /\ k \in ClientState /\ r \in Rooms
      /\ room \in [Rooms -> RoomState] /\ m \in RoomState
  BY DEF TypeOK, ClientState, Rooms
<1>2. client' = [client EXCEPT ![c] = [k EXCEPT !.conn = "open", !.at = i]]
  BY DEF Connect
<1>3. /\ client'[c].conn = "open" /\ client'[c].at = i /\ client'[c].epoch = k.epoch
      /\ client'[c].doc = k.doc /\ client'[c].pending = k.pending
      /\ \A d \in Clients \ {c} : client'[d] = client[d]
  BY <1>1, <1>2 DEF ClientState
<1>4. ClientType'
  <2>1. [k EXCEPT !.conn = "open", !.at = i] \in ClientState
    BY <1>1, ZenonT(30) DEF ClientState
  <2>. QED
    BY <1>1, <1>2, <2>1 DEF ClientType
<1>5. /\ NoteType' /\ NoteInv' /\ Saved' = Saved /\ RoomType'
      /\ \A q \in Rooms \ {r} : room'[q] = room[q]
      /\ room'[r].loaded
      /\ room'[r].pend = m.pend /\ room'[r].storing = m.storing /\ room'[r].snap = m.snap
      /\ room'[r].claimed = m.claimed /\ room'[r].gate = m.gate
      /\ m.loaded => room'[r].edits = m.edits
  <2>1. CASE m.loaded
    <3>1. row' = row /\ room' = room
      BY <2>1 DEF Connect, Opened
    <3>2. content' = content /\ posts' = posts
      BY DEF Connect
    <3>. QED
      BY <1>1, <2>1, <3>1, <3>2
      DEF NoteType, NoteInv, Lineage, Ordered, Saved, RoomType, TypeOK
  <2>2. CASE ~m.loaded
    <3> DEFINE e == Text(row'.state) \cup UNION {room[q].edits : q \in Peers(r)}
    <3>1. /\ row.epoch = r[2]
          /\ row' = IF row.version > 0 THEN row
                    ELSE [row EXCEPT !.state = content \X {row.epoch},
                                     !.version = 1, !.projected = 1]
          /\ room' = [room EXCEPT ![r] = [m EXCEPT !.loaded = TRUE, !.edits = e]]
      BY <2>2 DEF Connect, Opened, Load
    <3>2. content' = content /\ posts' = posts
      BY DEF Connect
    <3>3. NoteType
      BY TypeParts
    <3>4. ASSUME row.version > 0 PROVE NoteType' /\ NoteInv' /\ Saved' = Saved
      <4>1. row' = row
        BY <3>1, <3>4
      <4>2. NoteType' /\ NoteInv' /\ Saved' = Saved
        BY <3>2, <3>3, <4>1 DEF NoteType, NoteInv, Lineage, Ordered, Saved
      <4>. QED
        BY <4>2
    <3>5. ASSUME ~(row.version > 0) PROVE NoteType' /\ NoteInv' /\ Saved' = Saved
      <4>1. row.version = 0 /\ row.projected = 0
        BY <3>3, <3>5 DEF NoteType, NoteInv, Ordered
      <4>2. content = Saved
        BY <4>1 DEF NoteInv, Ordered
      <4>3. /\ row'.state = content \X {row.epoch} /\ row'.version = 1 /\ row'.projected = 1
            /\ row'.epoch = row.epoch
        BY <3>1, <3>3, <3>5 DEF NoteType
      <4>4. NoteType'
        <5>1. content \X {row.epoch} \in SUBSET (Edits \X Epochs)
          BY <3>3 DEF NoteType
        <5>. QED
          BY <3>1, <3>2, <3>3, <3>5, <5>1 DEF NoteType
      <4>5. Saved' = content
        BY <4>3, TextFacts DEF Saved
      <4>6. Lineage'
        BY <4>3 DEF Lineage
      <4>7. Ordered'
        BY <3>2, <3>3, <4>1, <4>2, <4>3, <4>5 DEF Ordered, NoteInv, NoteType
      <4>. QED
        BY <4>2, <4>4, <4>5, <4>6, <4>7 DEF NoteInv
    <3>6. NoteType' /\ NoteInv' /\ Saved' = Saved
      BY <3>4, <3>5
    <3>7. e \in SUBSET Edits
      <4>1. Text(row'.state) \subseteq Edits
        BY <3>6, TextFacts DEF NoteType
      <4>2. \A q \in Peers(r) : room[q].edits \subseteq Edits
        BY <1>1 DEF Peers, RoomState
      <4>. QED
        BY <4>1, <4>2
    <3>. HIDE DEF e, m
    <3>8. [m EXCEPT !.loaded = TRUE, !.edits = e] \in RoomState
      BY <1>1, <3>7, ZenonT(30) DEF RoomState
    <3>9. RoomType'
      BY <1>1, <3>1, <3>8 DEF RoomType
    <3>. QED
      BY <1>1, <2>2, <3>1, <3>6, <3>7, <3>9 DEF RoomState, m
  <2>. QED
    BY <2>1, <2>2
<1>6. EvictionType' /\ BoundType' /\ covers' = covers /\ budget' = budget
  BY TypeParts DEF Connect, EvictionType, BoundType, eviction, ghosts
<1>7. m.gate = "open" /\ k.conn = "off" /\ i # Nowhere
  BY NowhereAssumption DEF Connect, Available
<1>8. ASSUME NEW d \in Clients, d # c, client[d].conn # "off"
      PROVE  /\ RoomOf(d) \in Rooms /\ client[d].at # Nowhere
             /\ room'[RoomOf(d)].loaded /\ room'[RoomOf(d)].edits = room[RoomOf(d)].edits
  <2>1. RoomOf(d) \in Rooms /\ room[RoomOf(d)].loaded /\ client[d].at # Nowhere
    BY <1>8, ConnectedRoom DEF TypeOK
  <2>. QED
    BY <1>5, <2>1
<1>9. Connected'
  <2>. SUFFICES ASSUME NEW d \in Clients, client'[d].conn # "off"
                PROVE  /\ client'[d].at # Nowhere
                       /\ room'[<<client'[d].at, client'[d].epoch>>].loaded
    BY DEF Connected
  <2>. QED
    BY <1>3, <1>5, <1>7, <1>8 DEF RoomOf
<1>10. Idle'
  <2>. SUFFICES ASSUME NEW q \in Rooms
                PROVE  /\ ~room'[q].loaded => room'[q].pend = {} /\ ~room'[q].storing
                       /\ ~room'[q].storing => room'[q].claimed = {}
    BY DEF Idle
  <2>. QED
    BY <1>5 DEF RoomInv, Idle
<1>11. Pending'
  BY <1>5, <1>6 DEF RoomInv, Idle, Pending
<1>12. Claimed'
  BY <1>5, <1>6 DEF RoomInv, Claimed
<1>13. InStep'
  <2>. SUFFICES ASSUME NEW d \in Clients, client'[d].conn = "synced"
                PROVE  client'[d].doc \subseteq room'[<<client'[d].at, client'[d].epoch>>].edits
    BY DEF InStep, RoomOf
  <2>1. d # c /\ client'[d] = client[d]
    BY <1>3
  <2>. QED
    BY <1>8, <2>1 DEF RoomInv, InStep, RoomOf
<1>14. Asked'
  BY <1>3, <1>6 DEF RoomInv, Asked
<1>15. Unasked'
  BY <1>3, <1>5, <1>6 DEF RoomInv, Unasked
<1>16. Shut'
  <2>. SUFFICES ASSUME NEW q \in Rooms, room'[q].gate = "closing", NEW d \in Clients
                PROVE  ~InNext(d, q)
    BY DEF Shut, In, InNext
  <2>1. q # r /\ room[q].gate = "closing"
    BY <1>5, <1>7
  <2>2. CASE d = c
    BY <1>3, <2>1, <2>2, RoomParts DEF InNext
  <2>3. CASE d # c
    BY <1>3, <2>1, <2>3 DEF InNext, RoomInv, Shut, In
  <2>. QED
    BY <2>2, <2>3
<1>17. TypeOK'
  BY <1>4, <1>5, <1>6, <1>9 DEF TypeOK, NoteType, EvictionType, BoundType, RoomType,
     ClientType, Connected
<1>. QED
  BY <1>5, <1>10, <1>11, <1>12, <1>13, <1>14, <1>15, <1>16, <1>17 DEF RoomInv

-----------------------------------------------------------------------------
(* The steps that bring nothing into the rooms.                            *)

Loses == RoomType' /\ ClientType' /\ (\A q \in Rooms : Fewer(q)) /\ (\A c \in Clients : Left(c))

(* Editors that stay, lose their connection, or start over.                *)
LEMMA Leaving ==
  ASSUME TypeOK, client' = [c \in Clients |-> client'[c]],
         \A c \in Clients : client'[c] \in {client[c], Cut(client[c]), Fresh(row.epoch)}
  PROVE  ClientType' /\ \A c \in Clients : Left(c)
<1>1. row.epoch \in Epochs
  BY DEF TypeOK
<1>2. ASSUME NEW c \in Clients PROVE client'[c] \in ClientState /\ Left(c)
  <2>1. client[c] \in ClientState
    BY DEF TypeOK
  <2>2. client'[c] \in ClientState
    BY <1>1, <2>1, CutType, FreshType
  <2>3. CASE client'[c] = client[c]
    BY <2>2, <2>3 DEF Left
  <2>4. CASE client'[c] = Cut(client[c])
    BY <2>1, <2>2, <2>4 DEF Left, Cut, ClientState
  <2>5. CASE client'[c] = Fresh(row.epoch)
    BY <2>2, <2>5 DEF Left, Fresh
  <2>. QED
    BY <2>2, <2>3, <2>4, <2>5
<1>. QED
  BY <1>2 DEF ClientType

(* A room that is told to close has no editor left.                        *)
LEMMA ClosedRoom ==
  ASSUME TypeOK, NEW r \in Rooms, client' = Closed(r) \/ client' = Restarted(r)
  PROVE  /\ client' = [c \in Clients |-> client'[c]]
         /\ \A c \in Clients : client'[c] \in {client[c], Cut(client[c]), Fresh(row.epoch)}
         /\ \A c \in Clients : ~InNext(c, r)
<1>1. ASSUME NEW c \in Clients
      PROVE  client'[c].conn = "off" \/ (client'[c] = client[c] /\ ~In(c, r))
  <2>1. client[c] \in ClientState
    BY DEF TypeOK
  <2>2. Cut(client[c]).conn = "off" /\ Fresh(row.epoch).conn = "off"
    BY <2>1 DEF Cut, Fresh, ClientState
  <2>. QED
    BY <2>2 DEF Closed, Restarted
<1>2. \A c \in Clients : ~InNext(c, r)
  BY <1>1 DEF InNext, In
<1>3. \A c \in Clients : client'[c] \in {client[c], Cut(client[c]), Fresh(row.epoch)}
  BY DEF Closed, Restarted
<1>. QED
  BY <1>2, <1>3 DEF Closed, Restarted

(* A step that leaves the rooms' contents alone.                           *)
LEMMA RoomsAlone ==
  ASSUME TypeOK, room' = room PROVE RoomType' /\ \A q \in Rooms : Fewer(q)
BY DEF TypeOK, RoomType, Fewer

LEMMA ClientsAlone ==
  ASSUME TypeOK, client' = client PROVE ClientType' /\ \A c \in Clients : Left(c)
BY DEF TypeOK, ClientType, Left

(* One room changes, into m.                                               *)
LEMMA OneRoom ==
  ASSUME TypeOK, NEW r \in Rooms, NEW m \in RoomState, room' = [room EXCEPT ![r] = m]
  PROVE  RoomType' /\ room'[r] = m /\ \A q \in Rooms \ {r} : Fewer(q)
<1>1. room \in [Rooms -> RoomState]
  BY DEF TypeOK
<1>2. room'[r] = m /\ \A q \in Rooms \ {r} : room'[q] = room[q]
  BY <1>1
<1>. QED
  BY <1>1, <1>2 DEF RoomType, Fewer

LEMMA DropLoses == ASSUME TypeOK, NEW c \in Clients, Drop(c) PROVE Loses
BY RoomsAlone, Leaving DEF Drop, Loses, TypeOK

LEMMA RemountLoses == ASSUME TypeOK, NEW c \in Clients, Remount(c) PROVE Loses
BY RoomsAlone, Leaving DEF Remount, Loses, TypeOK

LEMMA EditRejectedLoses ==
  ASSUME TypeOK, NEW c \in Clients, NEW e \in Edits, EditRejected(c, e) PROVE Loses
BY RoomsAlone, Leaving DEF EditRejected, Loses, TypeOK

LEMMA StoreBeginLoses ==
  ASSUME TypeOK, NEW r \in Rooms, StoreBegin(r) PROVE Loses
<1> DEFINE e == room[r].edits
           p == room[r].pend
           m == IF room[r].gate = "open"
                  THEN [room[r] EXCEPT !.dirty = FALSE, !.storing = TRUE, !.snap = e,
                                       !.claimed = p]
                  ELSE [room[r] EXCEPT !.dirty = FALSE]
<1>1. room[r] \in RoomState /\ e \in SUBSET Edits /\ p \in SUBSET Ids
  BY DEF TypeOK, RoomState
<1>2. room' = [room EXCEPT ![r] = m] /\ client' = client /\ room[r].loaded
  BY DEF StoreBegin
<1>3. m \in RoomState
  <2>. HIDE DEF e, p
  <2>1. [room[r] EXCEPT !.dirty = FALSE, !.storing = TRUE, !.snap = e, !.claimed = p]
          \in RoomState
    BY <1>1, ZenonT(30) DEF RoomState
  <2>2. [room[r] EXCEPT !.dirty = FALSE] \in RoomState
    BY <1>1, ZenonT(30) DEF RoomState
  <2>. QED
    BY <2>1, <2>2
<1>4. /\ m.loaded = room[r].loaded /\ m.edits = e /\ m.pend = p /\ m.gate = room[r].gate
      /\ \/ m.storing = room[r].storing /\ m.snap = room[r].snap /\ m.claimed = room[r].claimed
         \/ m.storing /\ m.snap = e /\ m.claimed = p
  BY <1>1 DEF RoomState
<1>. HIDE DEF m
<1>5. RoomType' /\ room'[r] = m /\ \A q \in Rooms \ {r} : Fewer(q)
  BY <1>2, <1>3, OneRoom
<1>6. Fewer(r)
  BY <1>2, <1>4, <1>5 DEF Fewer
<1>. QED
  BY <1>2, <1>5, <1>6, ClientsAlone DEF Loses

LEMMA StoreCommitLoses ==
  ASSUME TypeOK, NEW r \in Rooms, StoreCommit(r) PROVE Loses
<1> DEFINE p == room[r].pend \ Given(r)
           m == [room[r] EXCEPT !.storing = FALSE, !.snap = {}, !.claimed = {}, !.pend = p,
                                !.fail = {}]
<1>1. room[r] \in RoomState /\ p \in SUBSET Ids /\ p \subseteq room[r].pend
      /\ room \in [Rooms -> RoomState] /\ client \in [Clients -> ClientState]
  BY DEF TypeOK, RoomState
<1>2. room' = [room EXCEPT ![r] = m]
  BY <1>1 DEF StoreCommit
<1>. HIDE DEF p
<1>3. m \in RoomState
  BY <1>1, ZenonT(30) DEF RoomState
<1>4. /\ m.loaded = room[r].loaded /\ m.edits = room[r].edits /\ m.pend = p
      /\ m.gate = room[r].gate /\ ~m.storing /\ m.claimed = {}
  BY <1>1 DEF RoomState
<1>. HIDE DEF m
<1>5. RoomType' /\ room'[r] = m /\ \A q \in Rooms \ {r} : Fewer(q)
  BY <1>2, <1>3, OneRoom
<1>6. Fewer(r)
  BY <1>1, <1>4, <1>5 DEF Fewer
<1>7. ASSUME NEW c \in Clients PROVE client'[c] \in ClientState /\ Left(c)
  <2> DEFINE k == client[c]
             y == k.pending \ Given(r)
  <2>1. client'[c] = IF In(c, r) THEN [k EXCEPT !.pending = y] ELSE k
    BY DEF StoreCommit
  <2>2. k \in ClientState /\ y \in SUBSET Ids /\ y \subseteq k.pending
    BY <1>1 DEF ClientState
  <2>. HIDE DEF y
  <2>3. [k EXCEPT !.pending = y] \in ClientState
    BY <2>2, ZenonT(30) DEF ClientState
  <2>. QED
    BY <2>1, <2>2, <2>3 DEF Left, ClientState
<1>8. ClientType' /\ \A c \in Clients : Left(c)
  BY <1>7 DEF StoreCommit, ClientType
<1>. QED
  BY <1>5, <1>6, <1>8 DEF Loses

LEMMA StoreFailsLoses ==
  ASSUME TypeOK, NEW r \in Rooms, StoreFails(r) PROVE Loses
<1> DEFINE f == Kept(r)
           m == [room[r] EXCEPT !.storing = FALSE, !.snap = {}, !.claimed = {}, !.fail = f]
<1>1. room[r] \in RoomState /\ f \in SUBSET Edits /\ room \in [Rooms -> RoomState]
  BY DEF TypeOK, RoomState, Kept
<1>2. room' = [room EXCEPT ![r] = m] /\ client' = client
  BY <1>1 DEF StoreFails
<1>. HIDE DEF f
<1>3. m \in RoomState
  BY <1>1, ZenonT(30) DEF RoomState
<1>4. /\ m.loaded = room[r].loaded /\ m.edits = room[r].edits /\ m.pend = room[r].pend
      /\ m.gate = room[r].gate /\ ~m.storing /\ m.claimed = {}
  BY <1>1 DEF RoomState
<1>. HIDE DEF m
<1>5. RoomType' /\ room'[r] = m /\ \A q \in Rooms \ {r} : Fewer(q)
  BY <1>2, <1>3, OneRoom
<1>6. Fewer(r)
  BY <1>4, <1>5 DEF Fewer
<1>. QED
  BY <1>2, <1>5, <1>6, ClientsAlone DEF Loses

LEMMA StoreRejectedLoses ==
  ASSUME TypeOK, NEW r \in Rooms, StoreRejected(r) PROVE Loses
<1> DEFINE m == [room[r] EXCEPT !.storing = FALSE, !.snap = {}, !.claimed = {},
                                !.gate = "closing", !.fail = {}, !.dirty = FALSE]
<1>1. room[r] \in RoomState /\ room \in [Rooms -> RoomState]
  BY DEF TypeOK
<1>2. room' = [room EXCEPT ![r] = m] /\ client' = Restarted(r)
  BY <1>1 DEF StoreRejected
<1>3. m \in RoomState
  BY <1>1, ZenonT(60) DEF RoomState
<1>4. /\ m.loaded = room[r].loaded /\ m.edits = room[r].edits /\ m.pend = room[r].pend
      /\ ~m.storing /\ m.claimed = {}
  BY <1>1 DEF RoomState
<1>. HIDE DEF m
<1>5. RoomType' /\ room'[r] = m /\ \A q \in Rooms \ {r} : Fewer(q)
  BY <1>2, <1>3, OneRoom
<1>6. Fewer(r)
  BY <1>2, <1>4, <1>5, ClosedRoom DEF Fewer
<1>7. ClientType' /\ \A c \in Clients : Left(c)
  BY <1>2, ClosedRoom, Leaving
<1>. QED
  BY <1>5, <1>6, <1>7 DEF Loses

LEMMA RetryLoses ==
  ASSUME TypeOK, NEW r \in Rooms, RetryBegin(r) \/ RetryCommit(r) \/ RetryFails(r)
  PROVE  Loses
<1>1. room[r] \in RoomState /\ room \in [Rooms -> RoomState]
  BY DEF TypeOK
<1>2. PICK a \in SUBSET Edits, b \in SUBSET Edits :
        room' = [room EXCEPT ![r] = [room[r] EXCEPT !.retry = a, !.fail = b]]
  <2>1. room[r].fail \in SUBSET Edits /\ room[r] = [room[r] EXCEPT !.fail = room[r].fail]
    BY <1>1 DEF RoomState
  <2>2. CASE RetryBegin(r)
    <3>1. room' = [room EXCEPT ![r] = [room[r] EXCEPT !.retry = room[r].fail]]
      BY <1>1, <2>2 DEF RetryBegin
    <3>2. [room[r] EXCEPT !.retry = room[r].fail]
            = [room[r] EXCEPT !.retry = room[r].fail, !.fail = room[r].fail]
      BY <1>1 DEF RoomState
    <3>. QED
      BY <2>1, <3>1, <3>2
  <2>3. CASE RetryCommit(r)
    <3>1. room' = [room EXCEPT ![r] = [room[r] EXCEPT !.retry = {}, !.fail = {}]]
      BY <1>1, <2>3 DEF RetryCommit
    <3>. QED
      BY <3>1
  <2>4. CASE RetryFails(r)
    <3>1. room' = [room EXCEPT ![r] = [room[r] EXCEPT !.retry = {}]]
      BY <1>1, <2>4 DEF RetryFails
    <3>2. [room[r] EXCEPT !.retry = {}] = [room[r] EXCEPT !.retry = {}, !.fail = room[r].fail]
      BY <1>1 DEF RoomState
    <3>. QED
      BY <2>1, <3>1, <3>2
  <2>. QED
    BY <2>2, <2>3, <2>4
<1> DEFINE m == [room[r] EXCEPT !.retry = a, !.fail = b]
<1>3. m \in RoomState
  BY <1>1, ZenonT(30) DEF RoomState
<1>4. /\ m.loaded = room[r].loaded /\ m.edits = room[r].edits /\ m.pend = room[r].pend
      /\ m.gate = room[r].gate /\ m.storing = room[r].storing /\ m.snap = room[r].snap
      /\ m.claimed = room[r].claimed
  BY <1>1 DEF RoomState
<1>. HIDE DEF m
<1>5. RoomType' /\ room'[r] = m /\ \A q \in Rooms \ {r} : Fewer(q)
  BY <1>2, <1>3, OneRoom DEF m
<1>6. Fewer(r)
  BY <1>4, <1>5 DEF Fewer
<1>7. client' = client
  BY DEF RetryBegin, RetryCommit, RetryFails
<1>. QED
  BY <1>5, <1>6, <1>7, ClientsAlone DEF Loses

LEMMA EvictBeginLoses ==
  ASSUME TypeOK, NEW i \in Instances, NEW x \in inbox[i], EvictBegin(i, x) PROVE Loses
<1> DEFINE r == <<i, x[2]>>
           d == (x[1] = "evict")
           m == [room[r] EXCEPT !.gate = "closing", !.fail = {}, !.due = d]
<1>1. r \in Rooms /\ room[r] \in RoomState /\ room \in [Rooms -> RoomState] /\ d \in BOOLEAN
  BY DEF TypeOK, Rooms
<1>2. /\ room' = [room EXCEPT ![r] = m]
      /\ client' = Restarted(r) \/ client' = Closed(r)
  BY <1>1 DEF EvictBegin
<1>. HIDE DEF d
<1>3. m \in RoomState
  BY <1>1, ZenonT(30) DEF RoomState
<1>4. /\ m.loaded = room[r].loaded /\ m.edits = room[r].edits /\ m.pend = room[r].pend
      /\ m.storing = room[r].storing /\ m.snap = room[r].snap
      /\ m.claimed = room[r].claimed
  BY <1>1 DEF RoomState
<1>. HIDE DEF m, r
<1>5. RoomType' /\ room'[r] = m /\ \A q \in Rooms \ {r} : Fewer(q)
  BY <1>1, <1>2, <1>3, OneRoom
<1>6. Fewer(r)
  BY <1>1, <1>2, <1>4, <1>5, ClosedRoom DEF Fewer
<1>7. ClientType' /\ \A c \in Clients : Left(c)
  BY <1>1, <1>2, ClosedRoom, Leaving
<1>. QED
  BY <1>5, <1>6, <1>7 DEF Loses

(* A room is reset that no editor is in.                                   *)
LEMMA ResetRoom ==
  ASSUME TypeOK, NEW r \in Rooms, \A c \in Clients : ~In(c, r), client' = client,
         NEW m \in RoomState, room' = [room EXCEPT ![r] = m],
         m.pend = {} /\ ~m.storing /\ m.claimed = {} /\ m.gate = "open"
  PROVE  Loses
<1>1. RoomType' /\ room'[r] = m /\ \A q \in Rooms \ {r} : Fewer(q)
  BY OneRoom
<1>2. Fewer(r)
  BY <1>1 DEF Fewer, In, InNext
<1>. QED
  BY <1>1, <1>2, ClientsAlone DEF Loses

LEMMA EmptyFacts ==
  Empty.pend = {} /\ ~Empty.storing /\ Empty.claimed = {} /\ Empty.gate = "open"
BY DEF Empty

LEMMA EvictEndLoses ==
  ASSUME TypeOK, Shut, NEW r \in Rooms, EvictEnd(r) PROVE Loses
<1>1. /\ \A c \in Clients : ~In(c, r)
      /\ client' = client /\ room' = [room EXCEPT ![r] = Empty]
  BY DEF EvictEnd, Shut
<1>. QED
  BY <1>1, EmptyType, EmptyFacts, ResetRoom

LEMMA UnloadLoses ==
  ASSUME TypeOK, NEW r \in Rooms, Unload(r) PROVE Loses
<1> DEFINE f == room[r].fail
           y == room[r].retry
           m == [Empty EXCEPT !.fail = f, !.retry = y]
<1>1. f \in SUBSET Edits /\ y \in SUBSET Edits
  BY DEF TypeOK, RoomState
<1>2. /\ \A c \in Clients : ~In(c, r)
      /\ client' = client /\ room' = [room EXCEPT ![r] = m]
  BY DEF Unload
<1>. HIDE DEF f, y
<1>3. m \in RoomState
  BY <1>1, EmptyType, ZenonT(30) DEF RoomState
<1>4. m.pend = {} /\ ~m.storing /\ m.claimed = {} /\ m.gate = "open"
  BY DEF Empty
<1>. HIDE DEF m
<1>. QED
  BY <1>2, <1>3, <1>4, ResetRoom

(* Only whether an answer is awaited changes in a room.                    *)
LEMMA DueLoses ==
  ASSUME TypeOK, NEW q \in Rooms, NEW d \in BOOLEAN, room'[q] = [room[q] EXCEPT !.due = d]
  PROVE  room'[q] \in RoomState /\ Fewer(q)
<1>1. room[q] \in RoomState
  BY DEF TypeOK
<1>2. [room[q] EXCEPT !.due = d] \in RoomState
  BY <1>1, ZenonT(30) DEF RoomState
<1>. QED
  BY <1>1, <1>2 DEF Fewer, RoomState

LEMMA CompactGivesUpLoses ==
  ASSUME TypeOK, CompactGivesUp PROVE Loses
<1>1. \A q \in Rooms : room'[q] \in RoomState /\ Fewer(q)
  BY DueLoses DEF CompactGivesUp
<1>2. RoomType' /\ client' = client
  BY <1>1 DEF CompactGivesUp, RoomType
<1>. QED
  BY <1>1, <1>2, ClientsAlone DEF Loses

LEMMA CrashLoses ==
  ASSUME TypeOK, NEW i \in Instances, Crash(i) PROVE Loses
<1>1. ASSUME NEW q \in Rooms PROVE room'[q] \in RoomState /\ Fewer(q)
  <2>1. CASE q[1] = i
    <3>1. room'[q] = Empty
      BY <2>1 DEF Crash
    <3>2. ASSUME NEW c \in Clients PROVE ~InNext(c, q)
      <4>1. client[c] \in ClientState /\ i # Nowhere
        BY NowhereAssumption DEF TypeOK
      <4>2. client'[c] = IF client[c].at = i THEN Cut(client[c]) ELSE client[c]
        BY DEF Crash
      <4>. QED
        BY <2>1, <4>1, <4>2 DEF InNext, Cut, ClientState
    <3>. QED
      BY <3>1, <3>2, EmptyType, EmptyFacts DEF Fewer
  <2>2. CASE q[1] # i
    <3> DEFINE d == room[q].due /\ comp.by # i
    <3>1. d \in BOOLEAN
      BY DEF TypeOK, RoomState
    <3>2. room'[q] = [room[q] EXCEPT !.due = d]
      BY <2>2 DEF Crash
    <3>. HIDE DEF d
    <3>. QED
      BY <3>1, <3>2, DueLoses
  <2>. QED
    BY <2>1, <2>2
<1>2. RoomType'
  BY <1>1 DEF Crash, RoomType
<1>3. ClientType' /\ \A c \in Clients : Left(c)
  BY Leaving DEF Crash
<1>. QED
  BY <1>1, <1>2, <1>3 DEF Loses

-----------------------------------------------------------------------------
(* The note, its posts and the receipts.                                   *)

LEMMA SavedType == ASSUME NoteType PROVE Saved \in SUBSET Edits
<1>1. row.state \in SUBSET (Edits \X Epochs)
  BY DEF NoteType
<1>. QED
  BY <1>1 DEF Saved, Text

(* A store that commits, of what has been read before.                     *)
LEMMA MergeNote ==
  ASSUME NoteType, NoteInv, NEW r \in Rooms, NEW S \in SUBSET Edits, Merge(r, S),
         content' = content
  PROVE  NoteType' /\ NoteInv' /\ Saved' = Saved \cup S
<1>1. /\ row.epoch = r[2] /\ row.epoch \in Epochs /\ row.version \in Nat
      /\ row'.state = row.state \cup (S \X {r[2]}) /\ row'.version = row.version + 1
      /\ row'.projected = row.projected /\ row'.epoch = row.epoch
  BY DEF Merge, NoteType
<1>2. Saved' = Saved \cup S
  <2>1. Text(row.state \cup (S \X {r[2]})) = Text(row.state) \cup Text(S \X {r[2]})
    BY TextFacts
  <2>2. Text(S \X {r[2]}) = S
    BY TextFacts
  <2>. QED
    BY <1>1, <2>1, <2>2 DEF Saved
<1>3. Saved' \in SUBSET Edits
  BY <1>2, SavedType
<1>4. NoteType'
  <2>1. row.state \cup (S \X {r[2]}) \in SUBSET (Edits \X Epochs)
    BY <1>1 DEF NoteType
  <2>2. row' \in [epoch : Epochs, state : SUBSET (Edits \X Epochs), version : Nat, projected : Nat]
    <3> DEFINE X == row.state \cup (S \X {r[2]})
               n == row.version + 1
    <3>1. row' = [row EXCEPT !.state = X, !.version = n] /\ n \in Nat
      BY <1>1 DEF Merge
    <3>. HIDE DEF X, n
    <3>2. row \in [epoch : Epochs, state : SUBSET (Edits \X Epochs), version : Nat, projected : Nat]
      BY DEF NoteType
    <3>3. X \in SUBSET (Edits \X Epochs)
      BY <2>1 DEF X
    <3>. QED
      BY <3>1, <3>2, <3>3, ZenonT(30)
  <2>3. posts' \subseteq [version : Nat, edits : SUBSET Edits]
    <3>1. posts' = posts \cup {[version |-> row.version + 1, edits |-> Saved']}
      BY <1>1 DEF Merge, Saved
    <3>. QED
      BY <1>1, <1>3, <3>1 DEF NoteType
  <2>. QED
    BY <2>2, <2>3 DEF NoteType
<1>5. Lineage'
  BY <1>1 DEF NoteInv, Lineage
<1>6. posts' = posts \cup {[version |-> row.version + 1, edits |-> Saved']}
  BY <1>1 DEF Merge, Saved
<1>7. \A p \in posts' : \/ p \in posts /\ p.version <= row.version /\ p.edits \subseteq Saved
                        \/ p.version = row.version + 1 /\ p.edits = Saved'
  BY <1>6 DEF NoteInv, Ordered
<1>8. Ordered'
  <2>1. /\ row'.projected <= row'.version /\ content' \subseteq Saved'
        /\ row'.projected = row'.version => content' = Saved'
    BY <1>1, <1>2 DEF NoteInv, Ordered, NoteType
  <2>2. \A p \in posts' : /\ p.version <= row'.version /\ p.edits \subseteq Saved'
                          /\ p.version = row'.version => p.edits = Saved'
                          /\ p.version > row'.projected => content' \subseteq p.edits
    BY <1>1, <1>2, <1>6, <1>7 DEF NoteInv, Ordered, NoteType
  <2>3. \A p, q \in posts' : p.version < q.version => p.edits \subseteq q.edits
    BY <1>1, <1>2, <1>6, <1>7 DEF NoteInv, Ordered, NoteType
  <2>4. ASSUME NEW p \in posts', NEW q \in posts', p.version = q.version
        PROVE  p.edits = q.edits
    <3>1. row.version \in Nat /\ row.version + 1 > row.version
      BY <1>1
    <3>. QED
      BY <1>7, <2>4, <3>1 DEF NoteInv, Ordered, NoteType
  <2>. QED
    BY <2>1, <2>2, <2>3, <2>4, Zenon DEF Ordered
<1>. QED
  BY <1>2, <1>4, <1>5, <1>8 DEF NoteInv

LEMMA ProjectNote ==
  ASSUME NoteType, NoteInv, NEW p \in posts, Project(p)
  PROVE  /\ NoteType' /\ NoteInv' /\ Saved' = Saved
         /\ content \subseteq content' /\ content' \subseteq Saved
<1>1. p \in [version : Nat, edits : SUBSET Edits] /\ posts' = posts \ {p}
  BY DEF NoteType, Project
<1>2. CASE Newer(p)
  <2>1. /\ content' = p.edits /\ row' = [row EXCEPT !.projected = p.version]
        /\ p.version > row.projected
    BY <1>2 DEF Project, Newer
  <2>2. /\ row'.projected = p.version /\ row'.version = row.version /\ row'.state = row.state
        /\ row'.epoch = row.epoch
    BY <2>1 DEF NoteType
  <2>3. NoteType'
    BY <1>1, <2>1 DEF NoteType
  <2>4. Saved' = Saved /\ Lineage'
    BY <2>2 DEF Saved, NoteInv, Lineage
  <2>5. content \subseteq content' /\ content' \subseteq Saved
    BY <2>1 DEF NoteInv, Ordered
  <2>6. Ordered'
    BY <1>1, <2>1, <2>2, <2>4 DEF NoteInv, Ordered, NoteType
  <2>. QED
    BY <2>3, <2>4, <2>5, <2>6 DEF NoteInv
<1>3. CASE ~Newer(p)
  <2>1. row' = row /\ content' = content
    BY <1>3 DEF Project
  <2>. QED
    BY <1>1, <2>1 DEF NoteType, NoteInv, Ordered, Lineage, Saved
<1>. QED
  BY <1>2, <1>3

LEMMA PostsNote ==
  ASSUME NoteType, NoteInv, Reproject \/ \E p \in posts : PostLost(p)
  PROVE  NoteType' /\ NoteInv' /\ Saved' = Saved /\ content' = content
<1>1. row' = row /\ content' = content /\ Saved' = Saved
  BY DEF Reproject, PostLost, Saved
<1>2. CASE Reproject
  <2> DEFINE p == [version |-> row.version, edits |-> Saved]
  <2>1. posts' = posts \cup {p} /\ row.projected < row.version
    BY <1>2 DEF Reproject, Behind
  <2>2. Saved \in SUBSET Edits /\ row.version \in Nat
    BY SavedType DEF NoteType
  <2>3. p \in [version : Nat, edits : SUBSET Edits] /\ p.version = row.version /\ p.edits = Saved
    BY <2>2
  <2>. HIDE DEF p
  <2>4. NoteType'
    BY <1>1, <2>1, <2>3 DEF NoteType
  <2>5. Ordered'
    BY <1>1, <2>1, <2>2, <2>3 DEF NoteInv, Ordered, NoteType
  <2>. QED
    BY <1>1, <2>4, <2>5 DEF NoteInv, Lineage
<1>3. CASE \E p \in posts : PostLost(p)
  <2>1. posts' \subseteq posts
    BY <1>3 DEF PostLost
  <2>. QED
    BY <1>1, <2>1 DEF NoteType, NoteInv, Ordered, Lineage
<1>. QED
  BY <1>2, <1>3

LEMMA CompactNote ==
  ASSUME TypeOK, NoteType, NoteInv, Underway, Compact
  PROVE  NoteType' /\ NoteInv' /\ Saved' = Saved /\ content' = content
<1>1. content' = content /\ posts' = posts
  BY DEF Compact
<1>2. CASE row.epoch = comp.epoch /\ Settled
  <2>1. row' = [epoch |-> row.epoch + 1, state |-> content \X {row.epoch + 1},
                version |-> row.version + 1, projected |-> row.version + 1]
    BY <1>2 DEF Compact
  <2>2. row.epoch + 1 \in Epochs
    BY <1>2, EpochAssumption DEF NoteType, Underway, Compact, Epochs
  <2>3. content = Saved
    BY <1>2 DEF Settled, NoteInv, Ordered
  <2>4. Saved' = content
    BY <2>1, TextFacts DEF Saved
  <2>5. NoteType'
    <3>1. content \X {row.epoch + 1} \in SUBSET (Edits \X Epochs)
      BY <2>2 DEF NoteType
    <3>. QED
      BY <1>1, <2>1, <2>2, <3>1 DEF NoteType
  <2>6. Lineage'
    BY <2>1 DEF Lineage
  <2>7. Ordered'
    BY <1>1, <2>1, <2>3, <2>4 DEF NoteInv, Ordered, NoteType
  <2>. QED
    BY <1>1, <2>3, <2>4, <2>5, <2>6, <2>7 DEF NoteInv
<1>3. CASE ~(row.epoch = comp.epoch /\ Settled)
  <2>1. row' = row
    BY <1>3 DEF Compact
  <2>. QED
    BY <1>1, <2>1 DEF NoteType, NoteInv, Ordered, Lineage, Saved
<1>. QED
  BY <1>2, <1>3

-----------------------------------------------------------------------------
(* Every step preserves the invariant, and is a step of DurableNote or no  *)
(* step of it.                                                             *)

Moves ==
  \/ Saved' = Saved /\ acked' = acked /\ content' = content
  \/ /\ Saved \subseteq Saved' /\ acked \subseteq acked' /\ acked' \subseteq Saved'
     /\ Saved' \subseteq Edits /\ content' = content
  \/ /\ Saved' = Saved /\ acked' = acked
     /\ content \subseteq content' /\ content' \subseteq Saved

LEMMA FaultBudget ==
  ASSUME budget \in Budget, Fault PROVE budget' \in Budget /\ budget'.asks = budget.asks
BY DEF Budget, Fault

LEMMA MadeBudget ==
  ASSUME budget \in Budget, NEW c, NEW e, Made(c, e)
  PROVE  budget' \in Budget /\ budget'.asks = budget.asks
BY DEF Budget, Made

(* What is left of the step once the rooms and editors, the note and the   *)
(* receipts are dealt with.                                                *)
LEMMA Assembled ==
  ASSUME IInv, RoomType', ClientType', Connected', RoomInv', NoteType', NoteInv',
         EvictionType', BoundType', Underway', Moves
  PROVE  IInv' /\ Moves
<1>1. TypeOK'
  BY DEF TypeOK, NoteType, EvictionType, BoundType, RoomType, ClientType, Connected
<1>2. Covered'
  BY DEF IInv, Covered, Moves
<1>. QED
  BY <1>1, <1>2 DEF IInv

LEMMA LosingStep ==
  ASSUME IInv, Loses, covers' = covers, budget'.asks \subseteq budget.asks
  PROVE  RoomType' /\ ClientType' /\ Connected' /\ RoomInv'
BY Losing DEF Loses

(* Steps that leave the note and the channels alone.                       *)
LEMMA NoteAlone ==
  ASSUME IInv, note' = note PROVE NoteType' /\ NoteInv' /\ Saved' = Saved /\ content' = content
<1>1. row' = row /\ content' = content /\ posts' = posts
  BY DEF note
<1>2. NoteType /\ NoteInv
  BY TypeParts DEF IInv
<1>. QED
  BY <1>1, <1>2 DEF NoteType, NoteInv, Lineage, Ordered, Saved

LEMMA EvictionAlone ==
  ASSUME IInv, eviction' = eviction PROVE EvictionType' /\ Underway'
<1>1. inbox' = inbox /\ comp' = comp
  BY DEF eviction
<1>. QED
  BY <1>1, TypeParts DEF IInv, EvictionType, Underway

LEMMA BoundAlone ==
  ASSUME IInv, ghosts' = ghosts, budget' \in Budget PROVE BoundType'
<1>1. covers' = covers /\ acked' = acked
  BY DEF ghosts
<1>. QED
  BY <1>1, TypeParts DEF IInv, BoundType

LEMMA EditorSteps ==
  ASSUME IInv,
         \/ \E c \in Clients, i \in Instances : Connect(c, i)
         \/ \E c \in Clients : Sync(c)
         \/ \E c \in Clients, e \in Edits : Edit(c, e)
         \/ \E c \in Clients, e \in Edits : EditRejected(c, e)
         \/ \E c \in Clients, n \in 1..MaxAsks : Ask(c, n)
         \/ \E c \in Clients : Drop(c)
         \/ \E c \in Clients : Remount(c)
         \/ \E i \in Instances, e \in Edits : Command(i, e)
  PROVE  IInv' /\ Moves
<1>0. TypeOK /\ budget \in Budget
  BY DEF IInv, TypeOK
<1>1. ASSUME NEW c \in Clients, NEW i \in Instances, Connect(c, i) PROVE IInv' /\ Moves
  <2>1. TypeOK' /\ NoteInv' /\ RoomInv' /\ Saved' = Saved
    BY <1>1, ConnectStep
  <2>2. content' = content /\ acked' = acked /\ comp' = comp
    BY <1>1 DEF Connect, ghosts, eviction
  <2>. QED
    BY <2>1, <2>2 DEF IInv, Covered, Underway, Moves
<1>2. ASSUME NEW c \in Clients, Sync(c) PROVE IInv' /\ Moves
  <2>1. note' = note /\ eviction' = eviction /\ ghosts' = ghosts /\ budget' = budget
    BY <1>2 DEF Sync
  <2>2. RoomType' /\ ClientType' /\ Connected' /\ RoomInv'
    BY <1>2, SyncStep
  <2>. QED
    BY <1>0, <2>1, <2>2, NoteAlone, EvictionAlone, BoundAlone, Assembled DEF Moves, ghosts
<1>3. ASSUME NEW c \in Clients, NEW e \in Edits, Edit(c, e) PROVE IInv' /\ Moves
  <2>1. note' = note /\ eviction' = eviction /\ ghosts' = ghosts /\ Made(c, e)
    BY <1>3 DEF Edit, Made
  <2>2. RoomType' /\ ClientType' /\ Connected' /\ RoomInv'
    BY <1>3, EditStep
  <2>. QED
    BY <1>0, <2>1, <2>2, MadeBudget, NoteAlone, EvictionAlone, BoundAlone, Assembled
    DEF Moves, ghosts
<1>4. ASSUME NEW c \in Clients, NEW e \in Edits, EditRejected(c, e) PROVE IInv' /\ Moves
  <2>1. note' = note /\ eviction' = eviction /\ ghosts' = ghosts /\ Made(c, e)
    BY <1>4 DEF EditRejected, Made
  <2>2. budget' \in Budget /\ budget'.asks = budget.asks /\ covers' = covers
    BY <1>0, <2>1, MadeBudget DEF ghosts
  <2>3. RoomType' /\ ClientType' /\ Connected' /\ RoomInv'
    BY <1>0, <1>4, <2>2, EditRejectedLoses, LosingStep
  <2>. QED
    BY <2>1, <2>2, <2>3, NoteAlone, EvictionAlone, BoundAlone, Assembled DEF Moves, ghosts
<1>5. ASSUME NEW c \in Clients, NEW n \in 1..MaxAsks, Ask(c, n) PROVE IInv' /\ Moves
  <2>1. note' = note /\ eviction' = eviction /\ acked' = acked
    BY <1>5 DEF Ask
  <2>2. RoomType' /\ ClientType' /\ Connected' /\ RoomInv' /\ BoundType'
    BY <1>5, AskStep
  <2>. QED
    BY <2>1, <2>2, NoteAlone, EvictionAlone, Assembled DEF Moves
<1>6. ASSUME NEW c \in Clients, Drop(c) \/ Remount(c) PROVE IInv' /\ Moves
  <2>1. note' = note /\ eviction' = eviction /\ ghosts' = ghosts
    BY <1>6 DEF Drop, Remount
  <2>2. budget' \in Budget /\ budget'.asks = budget.asks /\ covers' = covers
    BY <1>0, <1>6, <2>1, FaultBudget DEF Drop, Remount, ghosts
  <2>3. RoomType' /\ ClientType' /\ Connected' /\ RoomInv'
    BY <1>0, <1>6, <2>2, DropLoses, RemountLoses, LosingStep
  <2>. QED
    BY <2>1, <2>2, <2>3, NoteAlone, EvictionAlone, BoundAlone, Assembled DEF Moves, ghosts
<1>7. ASSUME NEW i \in Instances, NEW e \in Edits, Command(i, e) PROVE IInv' /\ Moves
  <2>1. note' = note /\ eviction' = eviction /\ ghosts' = ghosts /\ Made(Service, e)
    BY <1>7 DEF Command, Made
  <2>2. RoomType' /\ ClientType' /\ Connected' /\ RoomInv'
    BY <1>7, CommandStep
  <2>. QED
    BY <1>0, <2>1, <2>2, MadeBudget, NoteAlone, EvictionAlone, BoundAlone, Assembled
    DEF Moves, ghosts
<1>. QED
  BY <1>1, <1>2, <1>3, <1>4, <1>5, <1>6, <1>7

(* Receipts that are given cover what the store has read.                  *)
LEMMA StoreCommitStep ==
  ASSUME IInv, NEW r \in Rooms, StoreCommit(r) PROVE IInv' /\ Moves
<1>1. /\ Merge(r, room[r].snap) /\ content' = content /\ covers' = covers
      /\ eviction' = eviction /\ budget' = budget
      /\ acked' = acked \cup UNION {covers[x] : x \in
           {y \in Given(r) : In(y[1], r) /\ y \in client[y[1]].pending}}
  BY DEF StoreCommit
<1>2. TypeOK /\ NoteType /\ NoteInv /\ room[r].snap \in SUBSET Edits /\ budget \in Budget
      /\ covers \in [Ids -> SUBSET Edits]
  BY TypeParts DEF IInv, TypeOK, RoomState
<1>3. NoteType' /\ NoteInv' /\ Saved' = Saved \cup room[r].snap
  BY <1>1, <1>2, MergeNote
<1>4. RoomType' /\ ClientType' /\ Connected' /\ RoomInv'
  BY <1>1, <1>2, StoreCommitLoses, LosingStep
<1>5. \A x \in Given(r) : covers[x] \subseteq room[r].snap
  BY DEF Given, IInv, RoomInv, Claimed
<1>6. acked \subseteq acked' /\ acked' \subseteq acked \cup room[r].snap
  BY <1>1, <1>5
<1>7. acked \subseteq Saved /\ Saved \in SUBSET Edits
  BY <1>2, SavedType DEF IInv, Covered
<1>8. Moves
  BY <1>1, <1>2, <1>3, <1>6, <1>7 DEF Moves
<1>9. BoundType'
  BY <1>1, <1>2, <1>6, <1>7 DEF BoundType
<1>. QED
  BY <1>1, <1>3, <1>4, <1>8, <1>9, EvictionAlone, Assembled

LEMMA RetryCommitStep ==
  ASSUME IInv, NEW r \in Rooms, RetryCommit(r) PROVE IInv' /\ Moves
<1>1. /\ Merge(r, room[r].retry) /\ content' = content /\ ghosts' = ghosts
      /\ eviction' = eviction /\ budget' = budget /\ covers' = covers /\ acked' = acked
  BY DEF RetryCommit, ghosts
<1>2. TypeOK /\ NoteType /\ NoteInv /\ room[r].retry \in SUBSET Edits /\ budget \in Budget
  BY TypeParts DEF IInv, TypeOK, RoomState
<1>3. NoteType' /\ NoteInv' /\ Saved' = Saved \cup room[r].retry
  BY <1>1, <1>2, MergeNote
<1>4. RoomType' /\ ClientType' /\ Connected' /\ RoomInv'
  BY <1>1, <1>2, RetryLoses, LosingStep
<1>5. acked \subseteq Saved /\ Saved \in SUBSET Edits
  BY <1>2, SavedType DEF IInv, Covered
<1>6. Moves
  BY <1>1, <1>2, <1>3, <1>5 DEF Moves
<1>. QED
  BY <1>1, <1>2, <1>3, <1>4, <1>6, EvictionAlone, BoundAlone, Assembled

LEMMA StoreSteps ==
  ASSUME IInv,
         \/ \E r \in Rooms : StoreBegin(r) \/ StoreFails(r) \/ StoreRejected(r)
         \/ \E r \in Rooms : RetryBegin(r) \/ RetryFails(r) \/ Unload(r)
  PROVE  IInv' /\ Moves
<1>0. TypeOK /\ budget \in Budget
  BY DEF IInv, TypeOK
<1>1. note' = note /\ ghosts' = ghosts /\ covers' = covers
  BY DEF StoreBegin, StoreFails, StoreRejected, RetryBegin, RetryFails, Unload, ghosts
<1>2. budget' \in Budget /\ budget'.asks = budget.asks
  BY <1>0, FaultBudget DEF StoreBegin, StoreFails, StoreRejected, RetryBegin, RetryFails, Unload
<1>3. RoomType' /\ ClientType' /\ Connected' /\ RoomInv'
  BY <1>0, <1>1, <1>2, StoreBeginLoses, StoreFailsLoses, StoreRejectedLoses, RetryLoses,
     UnloadLoses, LosingStep
<1>4. EvictionType' /\ Underway'
  <2>1. CASE \E r \in Rooms : StoreRejected(r)
    <3>1. PICK r \in Rooms : StoreRejected(r)
      BY <2>1
    <3>2. /\ inbox' = Tell("rejected", r[2], Holding(r[2]) \ {r[1]})
          /\ comp' = comp
      BY <3>1 DEF StoreRejected
    <3>3. <<"rejected", r[2]>> \in {"evict", "moved", "rejected"} \X Epochs
      BY RoomParts
    <3>. QED
      BY <1>0, <3>2, <3>3 DEF IInv, EvictionType, TypeOK, Underway, Tell
  <2>2. CASE ~\E r \in Rooms : StoreRejected(r)
    <3>1. eviction' = eviction
      BY <2>2 DEF StoreBegin, StoreFails, RetryBegin, RetryFails, Unload
    <3>. QED
      BY <3>1, EvictionAlone
  <2>. QED
    BY <2>1, <2>2
<1>. QED
  BY <1>0, <1>1, <1>2, <1>3, <1>4, NoteAlone, BoundAlone, Assembled DEF Moves, ghosts

LEMMA PostSteps ==
  ASSUME IInv, (\E p \in posts : Project(p) \/ PostLost(p)) \/ Reproject
  PROVE  IInv' /\ Moves
<1>0. TypeOK /\ budget \in Budget /\ NoteType /\ NoteInv
  BY TypeParts DEF IInv, TypeOK
<1>1. /\ room' = room /\ client' = client /\ ghosts' = ghosts /\ covers' = covers
      /\ eviction' = eviction /\ acked' = acked
  BY DEF Project, PostLost, Reproject, ghosts
<1>2. budget' \in Budget /\ budget'.asks = budget.asks
  BY <1>0, FaultBudget DEF Project, PostLost, Reproject
<1>3. RoomType' /\ ClientType' /\ Connected' /\ RoomInv'
  BY <1>0, <1>1, <1>2, RoomsAlone, ClientsAlone, LosingStep DEF Loses
<1>4. /\ NoteType' /\ NoteInv' /\ Saved' = Saved
      /\ content \subseteq content' /\ (content' = content \/ content' \subseteq Saved)
  <2>1. CASE \E p \in posts : Project(p)
    BY <1>0, <2>1, ProjectNote
  <2>2. CASE Reproject \/ \E p \in posts : PostLost(p)
    BY <1>0, <2>2, PostsNote
  <2>. QED
    BY <2>1, <2>2
<1>. QED
  BY <1>1, <1>2, <1>3, <1>4, EvictionAlone, BoundAlone, Assembled DEF Moves

LEMMA EvictionSteps ==
  ASSUME IInv,
         \/ \E i \in Instances : \E x \in inbox[i] : EvictBegin(i, x)
         \/ \E r \in Rooms : EvictEnd(r)
         \/ \E i \in Instances, lapsed \in SUBSET Instances : CompactAsk(i, lapsed)
         \/ CompactGivesUp
         \/ \E i \in Instances : Crash(i)
  PROVE  IInv' /\ Moves
<1>0. TypeOK /\ budget \in Budget /\ Shut /\ EvictionType
  BY TypeParts DEF IInv, TypeOK, RoomInv
<1>1. note' = note /\ ghosts' = ghosts /\ covers' = covers
  BY DEF EvictBegin, EvictEnd, CompactAsk, CompactGivesUp, Crash, ghosts
<1>2. budget' \in Budget /\ budget'.asks = budget.asks
  <2>1. CASE \E i \in Instances, lapsed \in SUBSET Instances : CompactAsk(i, lapsed)
    <3>1. PICK lapsed \in SUBSET Instances :
            /\ budget.tries > 0 /\ (lapsed = {} \/ budget.faults > 0)
            /\ budget' = [budget EXCEPT !.tries = @ - 1,
                                        !.faults = IF lapsed = {} THEN @ ELSE @ - 1]
      BY <2>1 DEF CompactAsk
    <3> DEFINE n == budget.tries - 1
               f == IF lapsed = {} THEN budget.faults ELSE budget.faults - 1
    <3>2. n \in Nat /\ f \in Nat
      BY <1>0, <3>1 DEF Budget
    <3>3. budget' = [budget EXCEPT !.tries = n, !.faults = f]
      BY <3>1
    <3>. HIDE DEF n, f
    <3>4. [budget EXCEPT !.tries = n, !.faults = f] \in Budget
      BY <1>0, <3>2, ZenonT(30) DEF Budget
    <3>5. budget'.asks = budget.asks
      BY <1>0, <3>3 DEF Budget
    <3>. QED
      BY <3>3, <3>4, <3>5
  <2>2. CASE ~\E i \in Instances, lapsed \in SUBSET Instances : CompactAsk(i, lapsed)
    BY <1>0, <2>2, FaultBudget DEF EvictBegin, EvictEnd, CompactGivesUp, Crash
  <2>. QED
    BY <2>1, <2>2
<1>3. RoomType' /\ ClientType' /\ Connected' /\ RoomInv'
  <2>1. CASE \E i \in Instances, lapsed \in SUBSET Instances : CompactAsk(i, lapsed)
    <3>1. room' = room /\ client' = client
      BY <2>1 DEF CompactAsk
    <3>. QED
      BY <1>0, <1>1, <1>2, <3>1, RoomsAlone, ClientsAlone, LosingStep DEF Loses
  <2>2. CASE ~\E i \in Instances, lapsed \in SUBSET Instances : CompactAsk(i, lapsed)
    BY <1>0, <1>1, <1>2, <2>2, EvictBeginLoses, EvictEndLoses, CompactGivesUpLoses, CrashLoses,
       LosingStep
  <2>. QED
    BY <2>1, <2>2
<1>4. EvictionType' /\ Underway'
  <2>1. Forgotten \in [Instances -> SUBSET ({"evict", "moved", "rejected"} \X Epochs)]
    BY <1>0 DEF EvictionType, Forgotten
  <2>2. ASSUME NEW i \in Instances, NEW x \in inbox[i], EvictBegin(i, x)
        PROVE  EvictionType' /\ Underway'
    BY <1>0, <2>2 DEF EvictBegin, EvictionType, Underway, IInv
  <2>3. ASSUME NEW r \in Rooms, EvictEnd(r) PROVE EvictionType' /\ Underway'
    BY <1>0, <2>3 DEF EvictEnd, EvictionType, Underway, IInv
  <2>4. ASSUME NEW i \in Instances, NEW lapsed \in SUBSET Instances, CompactAsk(i, lapsed)
        PROVE  EvictionType' /\ Underway'
    <3>1. row.epoch \in Epochs /\ row.epoch < MaxEpoch
      BY <1>0, <2>4 DEF TypeOK, CompactAsk
    <3>2. inbox' = Tell("evict", row.epoch, Holding(row.epoch))
          /\ comp' = [by |-> i, epoch |-> row.epoch,
                      waiting |-> Holding(row.epoch) \ (lapsed \ {i})]
      BY <2>4 DEF CompactAsk
    <3>3. Holding(row.epoch) \subseteq Instances
      BY DEF Holding
    <3>4. <<"evict", row.epoch>> \in {"evict", "moved", "rejected"} \X Epochs
      BY <3>1
    <3>5. inbox' \in [Instances -> SUBSET ({"evict", "moved", "rejected"} \X Epochs)]
      <4> DEFINE H == Holding(row.epoch)
      <4>1. inbox' = Tell("evict", row.epoch, H)
        BY <3>2
      <4>. HIDE DEF H
      <4>. QED
        BY <1>0, <3>4, <4>1 DEF EvictionType, Tell
    <3>. QED
      BY <3>1, <3>2, <3>3, <3>5 DEF EvictionType, Underway
  <2>5. ASSUME CompactGivesUp PROVE EvictionType' /\ Underway'
    BY <1>0, <2>1, <2>5 DEF CompactGivesUp, EvictionType, Underway, IInv
  <2>6. ASSUME NEW i \in Instances, Crash(i) PROVE EvictionType' /\ Underway'
    <3>1. inbox' \in [Instances -> SUBSET ({"evict", "moved", "rejected"} \X Epochs)]
      BY <1>0, <2>1, <2>6 DEF Crash, EvictionType
    <3>2. comp' = (IF comp.by = i THEN [comp EXCEPT !.by = Nowhere, !.waiting = {}] ELSE comp)
      BY <2>6 DEF Crash
    <3>. QED
      BY <1>0, <3>1, <3>2 DEF EvictionType, Underway, IInv
  <2>. QED
    BY <2>2, <2>3, <2>4, <2>5, <2>6
<1>. QED
  BY <1>0, <1>1, <1>2, <1>3, <1>4, NoteAlone, BoundAlone, Assembled DEF Moves, ghosts

LEMMA CompactStep == ASSUME IInv, Compact PROVE IInv' /\ Moves
<1>0. TypeOK /\ budget \in Budget /\ NoteType /\ NoteInv /\ EvictionType /\ Underway
  BY TypeParts DEF IInv, TypeOK
<1>1. /\ room' = room /\ client' = client /\ ghosts' = ghosts /\ covers' = covers
      /\ acked' = acked /\ budget' = budget
  BY DEF Compact, ghosts
<1>2. RoomType' /\ ClientType' /\ Connected' /\ RoomInv'
  BY <1>0, <1>1, RoomsAlone, ClientsAlone, LosingStep DEF Loses
<1>3. NoteType' /\ NoteInv' /\ Saved' = Saved /\ content' = content
  BY <1>0, CompactNote
<1>4. EvictionType' /\ Underway'
  <2>1. comp' = [comp EXCEPT !.by = Nowhere] /\ (inbox' = inbox
          \/ inbox' = Tell("moved", comp.epoch, Holding(comp.epoch)))
    BY DEF Compact
  <2>2. <<"moved", comp.epoch>> \in {"evict", "moved", "rejected"} \X Epochs
    BY <1>0 DEF EvictionType
  <2>3. inbox' \in [Instances -> SUBSET ({"evict", "moved", "rejected"} \X Epochs)]
    BY <1>0, <2>1, <2>2 DEF EvictionType, Tell
  <2>. QED
    BY <1>0, <2>1, <2>3 DEF EvictionType, Underway
<1>. QED
  BY <1>0, <1>1, <1>2, <1>3, <1>4, BoundAlone, Assembled DEF Moves

LEMMA InitInv == ASSUME Init PROVE IInv
<1>1. /\ Empty \in RoomState /\ ~Empty.loaded /\ Empty.pend = {} /\ ~Empty.storing
      /\ Empty.claimed = {} /\ Empty.gate = "open"
  BY EmptyType DEF Empty
<1>2. 1 \in Epochs
  BY EpochAssumption DEF Epochs
<1>3. /\ Fresh(1) \in ClientState /\ Fresh(1).conn = "off" /\ Fresh(1).pending = {}
  BY <1>2, FreshType DEF Fresh
<1>4. Saved = {}
  BY TextFacts DEF Init, Saved
<1>5. NoteType
  BY <1>2 DEF Init, NoteType
<1>6. RoomType /\ ClientType /\ Connected
  BY <1>1, <1>3 DEF Init, RoomType, ClientType, Connected
<1>7. EvictionType /\ BoundType /\ Underway
  BY <1>2, BudgetAssumption DEF Init, EvictionType, BoundType, Underway
<1>8. TypeOK
  BY <1>5, <1>6, <1>7, TypeParts
<1>9. NoteInv
  BY <1>4 DEF Init, NoteInv, Lineage, Ordered
<1>10. Idle /\ Pending /\ Claimed /\ Shut
  BY <1>1 DEF Init, Idle, Pending, Claimed, Shut
<1>11. InStep /\ Asked
  BY <1>3 DEF Init, InStep, Asked
<1>12. Unasked
  BY <1>1, <1>3 DEF Init, Unasked
<1>13. Covered
  BY DEF Init, Covered
<1>. QED
  BY <1>7, <1>8, <1>9, <1>10, <1>11, <1>12, <1>13 DEF IInv, RoomInv

LEMMA NextInv == ASSUME IInv, [Next]_vars PROVE IInv' /\ Moves
<1>1. CASE UNCHANGED vars
  <2>1. /\ note' = note /\ room' = room /\ eviction' = eviction /\ client' = client
        /\ ghosts' = ghosts /\ budget' = budget
    BY <1>1 DEF vars
  <2>2. covers' = covers /\ acked' = acked
    BY <2>1 DEF ghosts
  <2>3. TypeOK /\ budget \in Budget
    BY DEF IInv, TypeOK
  <2>4. RoomType' /\ ClientType' /\ Connected' /\ RoomInv'
    BY <2>1, <2>2, <2>3, RoomsAlone, ClientsAlone, LosingStep DEF Loses
  <2>. QED
    BY <2>1, <2>2, <2>3, <2>4, NoteAlone, EvictionAlone, BoundAlone, Assembled DEF Moves
<1>2. CASE Next
  BY <1>2, EditorSteps, StoreCommitStep, RetryCommitStep, StoreSteps, PostSteps, EvictionSteps,
     CompactStep DEF Next
<1>. QED
  BY <1>1, <1>2

LEMMA Invariance == Spec => []IInv
<1>1. Init => IInv
  BY InitInv
<1>2. IInv /\ [Next]_vars => IInv'
  BY NextInv
<1>. QED
  BY <1>1, <1>2, PTL DEF Spec

-----------------------------------------------------------------------------
(* The theorems.                                                           *)

(* The variables keep their types, and a connected editor is in a room     *)
(* that is loaded: no eviction, compaction or crash leaves it behind       *)
(* (server.ts:212-245, 371-416).                                           *)
THEOREM TypeCorrect == Spec => []TypeOK
<1>1. IInv => TypeOK
  BY DEF IInv
<1>. QED
  BY <1>1, Invariance, PTL

(* No copy of an older room is merged into a newer document, whatever the  *)
(* instances missed (persistence.ts:234-239).                              *)
THEOREM NeverRepeated == Spec => []NothingTwice
<1>1. IInv => NothingTwice
  <2>. SUFFICES ASSUME IInv, NEW s \in row.state, NEW t \in row.state, s[1] = t[1]
                PROVE  s = t
    BY DEF NothingTwice
  <2>1. s \in Edits \X Epochs /\ t \in Edits \X Epochs
    BY DEF IInv, TypeOK
  <2>2. s[2] = t[2]
    BY DEF IInv, NoteInv, Lineage
  <2>. QED
    BY <2>1, <2>2
<1>. QED
  BY <1>1, Invariance, PTL

(* A step of the service is a step of the abstract note, or leaves it as   *)
(* it is.                                                                  *)
LEMMA NoteStep ==
  ASSUME IInv, Moves PROVE [Note!Next]_(Note!vars)
<1>1. CASE Saved' = Saved /\ acked' = acked /\ content' = content
  BY <1>1 DEF Note!vars
<1>2. CASE /\ Saved \subseteq Saved' /\ acked \subseteq acked' /\ acked' \subseteq Saved'
           /\ Saved' \subseteq Edits /\ content' = content
  <2>1. Saved' = Saved \cup Saved' /\ acked' = acked \cup acked'
    BY <1>2
  <2>2. Note!Store
    BY <1>2, <2>1 DEF Note!Store
  <2>. QED
    BY <2>2 DEF Note!Next
<1>3. CASE /\ Saved' = Saved /\ acked' = acked
           /\ content \subseteq content' /\ content' \subseteq Saved
  <2>1. content' = content \cup content'
    BY <1>3
  <2>2. Note!Show
    BY <1>3, <2>1 DEF Note!Show
  <2>. QED
    BY <2>2 DEF Note!Next
<1>. QED
  BY <1>1, <1>2, <1>3 DEF Moves

(* The service implements DurableNote: what is stored only grows, receipts *)
(* promise only what is stored, and readers move forward through stored    *)
(* states (server.ts:440-502, persistence.ts:217-283, 313-379).            *)
THEOREM ServiceImplementsNote == Spec => ImplementsNote
<1>1. Init => Note!Init
  BY TextFacts DEF Init, Note!Init, Saved
<1>2. IInv /\ [Next]_vars => [Note!Next]_(Note!vars)
  BY NextInv, NoteStep
<1>. QED
  BY <1>1, <1>2, Invariance, PTL DEF Spec, ImplementsNote, Note!Spec

(* What a receipt promised and what readers see is in PostgreSQL, and      *)
(* stays there: no store, compaction, eviction or crash takes an edit back *)
(* that some client was told is saved (persistence.ts:217-283, 313-379).   *)
THEOREM PromisedIsStored ==
  Spec => /\ [](acked \subseteq Saved /\ content \subseteq Saved)
          /\ [][Saved \subseteq Saved' /\ acked \subseteq acked' /\ content \subseteq content']_(Note!vars)
<1> DEFINE Within == acked \subseteq Saved /\ content \subseteq Saved
           Grows == Saved \subseteq Saved' /\ acked \subseteq acked' /\ content \subseteq content'
<1>1. Note!Init => Within
  BY DEF Note!Init
<1>2. ASSUME Within, [Note!Next]_(Note!vars) PROVE Within' /\ [Grows]_(Note!vars)
  <2>1. CASE Note!Store
    BY <1>2, <2>1 DEF Note!Store
  <2>2. CASE Note!Show
    BY <1>2, <2>2 DEF Note!Show
  <2>3. CASE UNCHANGED Note!vars
    BY <1>2, <2>3 DEF Note!vars
  <2>. QED
    BY <1>2, <2>1, <2>2, <2>3 DEF Note!Next
<1>3. Within /\ [Note!Next]_(Note!vars) => Within'
  BY <1>2
<1>4. Within /\ [Note!Next]_(Note!vars) => [Grows]_(Note!vars)
  BY <1>2
<1> HIDE DEF Within, Grows
<1>5. Note!Spec => []Within /\ [][Grows]_(Note!vars)
  BY <1>1, <1>3, <1>4, PTL DEF Note!Spec
<1>6. Spec => []Within /\ [][Grows]_(Note!vars)
  BY <1>5, ServiceImplementsNote DEF ImplementsNote
<1> QED
  BY <1>6 DEF Within, Grows
=============================================================================

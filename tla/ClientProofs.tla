------------------------------ MODULE ClientProofs ------------------------------
(***************************************************************************)
(* Proofs about the web client, part by part: QueryCache for any calls of  *)
(* any hooks, NotificationFeed for any notifications, SourceUpload for any *)
(* files, limits, attempts and faults, QuizAttempt for any questions and   *)
(* texts, ChatStream for any turns, tokens and faults, StudyBlock for any  *)
(* block and any number of edits; and then about the parts side by side.   *)
(***************************************************************************)
EXTENDS MCWeb, FiniteSetTheorems, SequenceTheorems, TLAPS

(***************************************************************************)
(* Hooks.  What the proof needs of what a hook does to a list: a hook that *)
(* patches it refreshes it whenever it settles, one that inserts into it   *)
(* changes it, and one that changes it sees to it, but for the known gaps. *)
(***************************************************************************)
Sound(s) ==
  /\ s.patches => s.settles /\ s.refreshes
  /\ s.inserts => s.changes /\ ~s.replaces
  /\ s.changes => s.refreshes \/ s.replaces \/ s.inserts \/ s.gap

Refreshed(h, k) == \E p \in h.refreshes : Covers(p, k)

Careful(h) ==
  /\ h.patches \subseteq h.refreshes /\ (h.patches # {} => h.settles)
  /\ h.inserts \subseteq h.changes \ h.replaces
  /\ \A k \in h.changes : \/ k \in h.refreshes \cup h.inserts \cup h.replaces
                          \/ Refreshed(h, k) \/ <<h.name, k>> \in KnownGaps

(* A key is a prefix of itself. *)
LEMMA SelfPrefix == \A k \in Keys : Covers(k, k)
<1>1. /\ \A a : Covers(<<a>>, <<a>>)
      /\ \A a, b : Covers(<<a, b>>, <<a, b>>)
      /\ \A a, b, c : Covers(<<a, b, c>>, <<a, b, c>>)
  BY DEF Covers
<1>2. DOMAIN qk = {"chapters", "files", "materials", "members", "collaborators", "conversations", "workspace",
                  "workspaces", "discussions", "quizzes", "quiz", "attempts", "mistakes", "decks", "deck", "cards", "events", "labels",
                  "tasks", "thinking", "tags", "me", "prefs", "status"}
  BY DEF qk
<1>3. \A field \in DOMAIN qk : \/ \E a : qk[field] = <<a>>
                               \/ \E a, b : qk[field] = <<a, b>>
                               \/ \E a, b, c : qk[field] = <<a, b, c>>
  BY <1>2 DEF qk
<1>4. QED
  BY <1>1, <1>3 DEF Keys

LEMMA PrefixFacts ==
  /\ Covers(<<"workspaces">>, qk.workspaces)
  /\ Covers(<<"tags">>, qk.tags)
  /\ Covers(qk.workspace, qk.collaborators)
  /\ Covers(qk.deck, qk.cards)
BY DEF Covers, qk

LEMMA CarefulIsSound ==
  ASSUME NEW h, Careful(h), NEW k \in Keys
  PROVE  Sound(Shape(h, k))
BY SelfPrefix DEF Careful, Sound, Shape, Refreshed

(* The two common kinds of hook. *)
LEMMA HookCareful ==
  ASSUME NEW name, NEW changes, NEW refreshes, changes \subseteq refreshes
  PROVE  Careful(Hook(name, changes, refreshes))
BY DEF Careful, Hook

LEMMA OptimisticCareful ==
  ASSUME NEW name, NEW changes, NEW refreshes, changes \subseteq refreshes,
         NEW patches, patches \subseteq refreshes
  PROVE  Careful(Optimistic(Hook(name, changes, refreshes), patches))
BY DEF Careful, Hook, Optimistic

LEMMA PlainHooks ==
  \A h \in SettingHooks \cup SourceHooks \cup ContentHooks \cup UploadHooks \cup DiscussionHooks
           \cup MaterialHooks \cup ScheduleHooks \cup TaskHooks \cup CanvasHooks : Careful(h)
<1>1. \A h \in SettingHooks : Careful(h)
  <2>1. Careful(Hook("useSetLocale", {qk.me}, {qk.me}))
    BY HookCareful
  <2>2. Careful([Replacing(Hook("useSetNotificationPrefs", {qk.prefs}, {qk.prefs}), {qk.prefs})
                   EXCEPT !.settles = TRUE])
    BY DEF Careful, Hook, Replacing
  <2>3. QED
    BY <2>1, <2>2 DEF SettingHooks
<1>2. \A h \in SourceHooks : Careful(h)
  <2>1. Careful(Optimistic(Hook("useMoveFile", {qk.files, qk.chapters}, {qk.files, qk.chapters}), {qk.files}))
    BY OptimisticCareful
  <2>2. QED
    BY <2>1, HookCareful DEF SourceHooks
<1>3. \A h \in ContentHooks : Careful(h)
  <2>1. Careful(Hook("useDeleteChapter", {qk.chapters, qk.files, qk.materials}, {qk.chapters, qk.files}))
    BY DEF Careful, Hook, KnownGaps
  <2>2. Careful(Optimistic(Hook("useReorderContent", {qk.files, qk.materials, qk.chapters},
                                {qk.files, qk.materials, qk.chapters}), {qk.files, qk.materials}))
    BY OptimisticCareful
  <2>3. QED
    BY <2>1, <2>2 DEF ContentHooks
<1>4. \A h \in UploadHooks : Careful(h)
  BY DEF UploadHooks, Careful, Hook, Inserting
<1>5. \A h \in MaterialHooks \cup TaskHooks : Careful(h)
  BY OptimisticCareful DEF MaterialHooks, TaskHooks
<1>6. \A h \in DiscussionHooks \cup ScheduleHooks \cup CanvasHooks : Careful(h)
  BY HookCareful DEF DiscussionHooks, ScheduleHooks, CanvasHooks
<1>7. QED
  BY <1>1, <1>2, <1>3, <1>4, <1>5, <1>6

LEMMA PrefixHooks ==
  \A h \in AccountHooks \cup ImportHooks \cup WorkspaceHooks \cup StudyHooks \cup MemberHooks
           \cup QuizHooks \cup DeckHooks \cup CloneHooks : Careful(h)
BY PrefixFacts DEF AccountHooks, ImportHooks, WorkspaceHooks, StudyHooks, MemberHooks, QuizHooks,
       DeckHooks, CloneHooks, Careful, Refreshed, KnownGaps, Hook, Replacing

(* Every hook of the client sees to every list it changes, or is a known   *)
(* gap.                                                                    *)
LEMMA HooksSound == \A s \in AllShapes : Sound(s)
BY PlainHooks, PrefixHooks, CarefulIsSound DEF AllShapes, Shapes, Hooks

(***************************************************************************)
(* The invariant.  Rows fit if they show nothing the server lacks, and lack *)
(* only effects of calls and ingests whose end brings a refetch, or is     *)
(* recorded in "missed".  A fetch that was answered fits; and so do the    *)
(* rows of a list that nothing is about to replace.                        *)
(***************************************************************************)
Watched(c) == \/ c \in ingests
              \/ call[c] = "committed" /\ (shape[c].refreshes \/ shape[c].replaces)

Fits(rows) ==
  \A c \in Calls \ missed :
    /\ c \in rows => c \in committed
    /\ c \in committed => c \in rows \/ Watched(c)

Patching == \E c \in Calls : shape[c].patches /\ call[c] \in Started

Lists == [loaded : BOOLEAN, rows : SUBSET Calls, stale : BOOLEAN]

RecordInv ==
  /\ shape \in [Calls -> AllShapes]
  /\ call \in [Calls -> {"idle"} \cup Started \cup Ended]
  /\ committed \subseteq Calls /\ missed \subseteq Calls
  /\ replied \in [Calls -> SUBSET committed]
  /\ snapshot \in [Calls -> SUBSET SUBSET Calls]
  /\ \A c \in Calls : snapshot[c] # {} => shape[c].patches /\ \E rows \in SUBSET Calls : snapshot[c] = {rows}
  /\ list \in Lists

CallInv ==
  /\ ingests \subseteq committed
  /\ \A c \in Calls : call[c] = "committed" /\ shape[c].changes => c \in committed

FetchInv ==
  /\ fetch.state \in {"none", "asked", "read"}
  /\ fetch.state = "read" => Answer(fetch) \subseteq committed /\ Fits(Answer(fetch))

ListInv ==
  \/ fetch.state # "none" \/ Patching
  \/ list.loaded /\ (list.stale \/ Fits(list.rows))

CacheInv == RecordInv /\ CallInv /\ FetchInv /\ ListInv

LEMMA FetchFacts ==
  /\ NoFetch.state = "none" /\ Asked.state = "asked"
  /\ \A S : Got(S).state = "read" /\ Answer(Got(S)) = S
BY DEF NoFetch, Asked, Got, Answer

LEMMA CacheStarts == CacheInit => CacheInv
<1> SUFFICES ASSUME CacheInit PROVE CacheInv
  OBVIOUS
<1>1. PICK k \in Keys : shape \in [Calls -> Shapes(k)]
  BY DEF CacheInit
<1>2. shape \in [Calls -> AllShapes]
  BY <1>1 DEF AllShapes
<1>3. RecordInv
  BY <1>2 DEF CacheInit, RecordInv, Lists
<1>4. CallInv /\ FetchInv /\ ListInv
  BY FetchFacts DEF CacheInit, CallInv, FetchInv, ListInv
<1>5. QED
  BY <1>3, <1>4 DEF CacheInv

(***************************************************************************)
(* Fetches.                                                                *)
(***************************************************************************)
LEMMA FetchSteps ==
  ASSUME CacheInv, Read \/ Land \/ FetchFails \/ Remounted
  PROVE  CacheInv'
<1>1. UNCHANGED <<shape, call, committed, replied, snapshot, ingests, missed>>
  BY DEF Read, Land, FetchFails, Remounted
<1>2. list' \in Lists
  <2>1. list \in Lists /\ committed \subseteq Calls
    BY DEF CacheInv, RecordInv
  <2>2. CASE Read \/ Remounted
    BY <2>1, <2>2 DEF Read, Remounted
  <2>3. CASE Land
    BY <2>1, <2>3 DEF Land, Lists, CacheInv, FetchInv
  <2>4. CASE FetchFails
    BY <2>1, <2>4 DEF FetchFails, Lists
  <2>5. QED
    BY <2>2, <2>3, <2>4
<1>3. RecordInv' /\ CallInv'
  BY <1>1, <1>2 DEF CacheInv, RecordInv, CallInv
<1>4. \A rows : Fits(rows) => Fits(rows)'
  BY <1>1 DEF Fits, Watched
<1>5. FetchInv' /\ ListInv'
  <2>1. CASE Read
    BY <1>1, <2>1, FetchFacts DEF Read, FetchInv, ListInv, Fits
  <2>2. CASE Land
    <3>1. list'.loaded /\ list'.rows = Answer(fetch) /\ fetch'.state = "none"
      BY <2>2, FetchFacts DEF Land
    <3>2. PICK got : got = Answer(fetch) /\ Fits(got)
      BY <2>2 DEF Land, CacheInv, FetchInv
    <3>3. Fits(got)'
      BY <1>4, <3>2
    <3>4. Fits(list.rows)'
      BY <3>1, <3>2, <3>3 DEF Fits
    <3>5. QED
      BY <3>1, <3>4 DEF FetchInv, ListInv
  <2>3. CASE FetchFails
    <3>1. list'.loaded /\ list'.stale /\ fetch'.state = "none"
      BY <2>3, FetchFacts DEF FetchFails, CacheInv, RecordInv, Lists
    <3>2. QED
      BY <3>1 DEF FetchInv, ListInv
  <2>4. CASE Remounted
    BY <2>4, FetchFacts DEF Remounted, FetchInv, ListInv
  <2>5. QED
    BY <2>1, <2>2, <2>3, <2>4
<1>6. QED
  BY <1>3, <1>5 DEF CacheInv

(***************************************************************************)
(* Calls on their way.                                                     *)
(***************************************************************************)
LEMMA MutateStep ==
  ASSUME CacheInv, NEW c \in Calls, Mutate(c)
  PROVE  CacheInv'
<1>1. /\ call[c] = "idle" /\ call' = [call EXCEPT ![c] = "sent"]
      /\ UNCHANGED <<shape, committed, replied, ingests, missed>>
  BY DEF Mutate
<1>2. \A d \in Calls : Watched(d) = Watched(d)'
  BY <1>1 DEF Watched, CacheInv, RecordInv
<1>3. CallInv'
  BY <1>1 DEF CacheInv, RecordInv, CallInv
<1>4. call' \in [Calls -> {"idle"} \cup Started \cup Ended] /\ call'[c] \in Started
  BY <1>1 DEF CacheInv, RecordInv, Started
<1>5. CASE shape[c].patches
  <2>1. /\ fetch' = NoFetch
        /\ snapshot' = [snapshot EXCEPT ![c] = IF list.loaded THEN {list.rows} ELSE {}]
        /\ list' = IF list.loaded THEN [list EXCEPT !.rows = @ \cup {c}, !.stale = FALSE] ELSE list
    BY <1>5 DEF Mutate
  <2>2. list' \in Lists
    BY <2>1 DEF CacheInv, RecordInv, Lists
  <2>3. list.rows \in SUBSET Calls
    BY DEF CacheInv, RecordInv, Lists
  <2>4. snapshot' \in [Calls -> SUBSET SUBSET Calls]
    BY <2>1, <2>3 DEF CacheInv, RecordInv
  <2>5. \A d \in Calls : snapshot'[d] # {} =>
          shape[d].patches /\ \E rows \in SUBSET Calls : snapshot'[d] = {rows}
    BY <1>5, <2>1, <2>3 DEF CacheInv, RecordInv
  <2>6. RecordInv'
    BY <1>1, <1>4, <2>2, <2>4, <2>5 DEF CacheInv, RecordInv
  <2>7. FetchInv' /\ ListInv'
    BY <1>1, <1>4, <1>5, <2>1, FetchFacts DEF FetchInv, ListInv, Patching
  <2>8. QED
    BY <1>3, <2>6, <2>7 DEF CacheInv
<1>6. CASE ~shape[c].patches
  <2>1. UNCHANGED <<fetch, snapshot, list>>
    BY <1>6 DEF Mutate
  <2>2. RecordInv'
    BY <1>1, <1>4, <2>1 DEF CacheInv, RecordInv
  <2>3. FetchInv'
    BY <1>1, <1>2, <2>1 DEF CacheInv, FetchInv, Fits
  <2>4. Patching => Patching'
    BY <1>1 DEF Patching, CacheInv, RecordInv, Started
  <2>5. ListInv'
    BY <1>1, <1>2, <2>1, <2>4 DEF CacheInv, ListInv, Fits
  <2>6. QED
    BY <1>3, <2>2, <2>3, <2>5 DEF CacheInv
<1>7. QED
  BY <1>5, <1>6

(* What a call changes is watched from its commit on, or missed. *)
LEMMA CommitStep ==
  ASSUME CacheInv, NEW c \in Calls, Commit(c)
  PROVE  CacheInv'
<1>1. /\ call[c] = "sent" /\ call' = [call EXCEPT ![c] = "committed"]
      /\ committed' = IF shape[c].changes THEN committed \cup {c} ELSE committed
      /\ replied' = [replied EXCEPT ![c] = committed']
      /\ ingests' = IF shape[c].inserts THEN ingests \cup {c} ELSE ingests
      /\ missed' = IF shape[c].gap THEN missed \cup {c} ELSE missed
      /\ UNCHANGED <<shape, list, fetch, snapshot>>
  BY DEF Commit
<1>2. shape[c] \in AllShapes /\ Sound(shape[c])
  BY HooksSound DEF CacheInv, RecordInv
<1>3. call' \in [Calls -> {"idle"} \cup Started \cup Ended] /\ call'[c] = "committed"
  BY <1>1 DEF CacheInv, RecordInv, Started
<1>4. replied' \in [Calls -> SUBSET committed']
  BY <1>1 DEF CacheInv, RecordInv
<1>5. RecordInv'
  BY <1>1, <1>3, <1>4 DEF CacheInv, RecordInv
<1>6. CallInv'
  BY <1>1, <1>2 DEF CacheInv, RecordInv, CallInv, Sound
<1>7. \A d \in Calls \ {c} : Watched(d) => Watched(d)'
  BY <1>1 DEF Watched, CacheInv, RecordInv
<1>8. shape[c].changes => c \in missed' \/ Watched(c)'
  BY <1>1, <1>2, <1>3 DEF Sound, Watched
<1>9. Watched(c) => Watched(c)'
  BY <1>1 DEF Watched
<1>10. \A rows : Fits(rows) => Fits(rows)'
  <2>1. SUFFICES ASSUME NEW rows, Fits(rows), NEW d \in Calls \ missed'
                 PROVE  /\ d \in rows => d \in committed'
                        /\ d \in committed' => d \in rows \/ Watched(d)'
    BY <1>1 DEF Fits
  <2>2. d \in Calls \ missed
    BY <1>1, <2>1
  <2>3. /\ d \in rows => d \in committed
        /\ d \in committed => d \in rows \/ Watched(d)
    BY <2>1, <2>2 DEF Fits, Watched
  <2>4. CASE d # c
    <3>1. d \in committed' <=> d \in committed
      BY <1>1, <2>4
    <3>2. QED
      BY <1>7, <2>3, <2>4, <3>1
  <2>5. CASE d = c
    <3>1. (d \in committed => d \in committed') /\ (d \in committed' => d \in committed \/ shape[c].changes)
      BY <1>1
    <3>2. QED
      BY <1>8, <1>9, <2>3, <2>5, <3>1
  <2>6. QED
    BY <2>4, <2>5
<1>11. FetchInv'
  <2>1. Answer(fetch)' = Answer(fetch)
    BY <1>1 DEF Answer
  <2>2. fetch.state = "read" => Fits(Answer(fetch))'
    BY <1>1, <1>10 DEF CacheInv, FetchInv, Fits, Watched
  <2>3. QED
    BY <1>1, <2>2 DEF CacheInv, FetchInv, Answer
<1>12. Patching => Patching'
  BY <1>1 DEF Patching, CacheInv, RecordInv, Started
<1>13. ListInv'
  <2>1. Fits(list.rows) => Fits(list.rows)'
    BY <1>1, <1>10 DEF Fits, Watched
  <2>2. QED
    BY <1>1, <1>12, <2>1 DEF CacheInv, ListInv
<1>14. QED
  BY <1>5, <1>6, <1>11, <1>13 DEF CacheInv

LEMMA CacheRefuseStep ==
  ASSUME CacheInv, NEW c \in Calls, Refuse(c)
  PROVE  CacheInv'
<1>1. /\ call[c] = "sent" /\ call' = [call EXCEPT ![c] = "refused"]
      /\ UNCHANGED <<shape, committed, replied, list, fetch, snapshot, ingests, missed>>
  BY DEF Refuse
<1>2. \A d \in Calls : Watched(d) = Watched(d)'
  BY <1>1 DEF Watched, CacheInv, RecordInv
<1>3. Patching => Patching'
  BY <1>1 DEF Patching, CacheInv, RecordInv, Started
<1>4. RecordInv' /\ CallInv'
  BY <1>1 DEF CacheInv, RecordInv, CallInv, Started
<1>5. FetchInv' /\ ListInv'
  BY <1>1, <1>2, <1>3 DEF CacheInv, FetchInv, ListInv, Fits
<1>6. QED
  BY <1>4, <1>5 DEF CacheInv

(***************************************************************************)
(* The ends of calls and ingests.                                          *)
(***************************************************************************)
(* A refetch is asked for: what an answer on its way lacks is missed.      *)
LEMMA RefetchStep ==
  ASSUME CacheInv, NEW shown \in Lists, Settle(shown, TRUE),
         UNCHANGED committed, missed \cup Overlooked \subseteq missed'
  PROVE  FetchInv' /\ ListInv'
<1>1. fetch' = Restart(list.loaded, fetch)
  BY DEF Settle
<1>2. CASE fetch' = Asked
  BY <1>2, FetchFacts DEF FetchInv, ListInv
<1>3. CASE fetch' # Asked
  <2>1. fetch' = fetch /\ fetch.state # "none" /\ Overlooked = Unread
    BY <1>1, <1>3 DEF Restart, Overlooked
  <2>2. fetch.state = "read" => committed \ Answer(fetch) \subseteq missed'
    BY <2>1 DEF Unread
  <2>3. fetch.state = "read" => Answer(fetch) \subseteq committed
    BY DEF CacheInv, FetchInv
  <2>4. fetch.state = "read" => Fits(Answer(fetch))'
    BY <2>1, <2>2, <2>3 DEF Fits, Answer
  <2>5. QED
    BY <2>1, <2>3, <2>4 DEF CacheInv, FetchInv, ListInv, Answer
<1>4. QED
  BY <1>2, <1>3

LEMMA CacheAnsweredStep ==
  ASSUME CacheInv, NEW c \in Calls, Answered(c)
  PROVE  CacheInv'
<1> DEFINE written ==
      IF shape[c].inserts THEN [loaded |-> TRUE, rows |-> list.rows \cup {c}, stale |-> FALSE]
      ELSE IF shape[c].replaces THEN [loaded |-> TRUE, rows |-> replied[c], stale |-> FALSE]
      ELSE list
    added ==
      IF shape[c].refreshes THEN Overlooked
      ELSE IF shape[c].replaces THEN Unread \cup (committed \ replied[c])
      ELSE IF shape[c].inserts /\ list.stale
        THEN (committed \ list.rows) \cup (list.rows \ committed)
      ELSE {}
<1>1. /\ call[c] = "committed" /\ call' = [call EXCEPT ![c] = "answered"]
      /\ Settle(written, shape[c].refreshes)
      /\ missed' = missed \cup added
      /\ UNCHANGED <<shape, committed, replied, snapshot, ingests>>
  BY DEF Answered
<1>2. shape[c] \in AllShapes /\ Sound(shape[c])
  BY HooksSound DEF CacheInv, RecordInv
<1>3. replied[c] \subseteq committed /\ committed \subseteq Calls /\ list \in Lists /\ missed \subseteq Calls
  BY DEF CacheInv, RecordInv
<1>4. written \in Lists
  BY <1>3 DEF Lists
<1>5. added \subseteq Calls
  <2>1. Unread \subseteq Calls /\ Overlooked \subseteq Calls
    BY <1>3 DEF Unread, Overlooked
  <2>2. list.rows \subseteq Calls
    BY <1>3 DEF Lists
  <2>3. QED
    BY <1>3, <2>1, <2>2
<1>6. call' \in [Calls -> {"idle"} \cup Started \cup Ended] /\ call'[c] = "answered"
  BY <1>1 DEF CacheInv, RecordInv, Ended
<1> HIDE DEF written, added
<1>7. list' \in Lists
  <2>1. list' = [written EXCEPT !.stale = shape[c].refreshes \/ written.stale]
    BY <1>1 DEF Settle
  <2>2. (shape[c].refreshes \/ written.stale) \in BOOLEAN
    OBVIOUS
  <2>3. QED
    BY <1>4, <2>1, <2>2 DEF Lists
<1>8. RecordInv' /\ CallInv'
  BY <1>1, <1>3, <1>5, <1>6, <1>7 DEF CacheInv, RecordInv, CallInv
<1>9. \A d \in Calls \ {c} : Watched(d) => Watched(d)'
  BY <1>1 DEF Watched, CacheInv, RecordInv
<1>10. CASE shape[c].refreshes
  <2>1. Settle(written, TRUE) /\ added = Overlooked
    BY <1>1, <1>10 DEF Settle, added
  <2>2. QED
    BY <1>1, <1>4, <1>8, <2>1, RefetchStep DEF CacheInv
<1>11. CASE ~shape[c].refreshes
  <2>1. fetch' = fetch
    BY <1>1, <1>11 DEF Settle
  <2>2. list'.loaded = written.loaded /\ list'.rows = written.rows /\ list'.stale = written.stale
    BY <1>1, <1>4, <1>11 DEF Settle, Lists
  <2>3. ~shape[c].patches /\ (Patching => Patching')
    BY <1>1, <1>2, <1>11 DEF Sound, Patching, CacheInv, RecordInv
  <2>4. ~shape[c].replaces => (Watched(c) => Watched(c)')
    BY <1>1, <1>11 DEF Watched
  <2>5. fetch.state = "read" => Fits(Answer(fetch))'
    <3>1. SUFFICES ASSUME fetch.state = "read", NEW d \in Calls \ missed',
                          d \in committed, d \notin Answer(fetch)
                   PROVE  Watched(d)'
      BY <1>1, <2>1 DEF Fits, Answer, CacheInv, FetchInv
    <3>2. Watched(d)
      BY <1>1, <3>1 DEF CacheInv, FetchInv, Fits
    <3>3. d # c \/ ~shape[c].replaces
      BY <1>1, <1>11, <3>1 DEF added, Unread, CacheInv, FetchInv
    <3>4. QED
      BY <1>9, <2>4, <3>2, <3>3
  <2>6. FetchInv'
    BY <1>1, <2>1, <2>5 DEF CacheInv, FetchInv, Answer
  <2>7. CASE shape[c].inserts
    <3>1. written = [loaded |-> TRUE, rows |-> list.rows \cup {c}, stale |-> FALSE]
      BY <2>7 DEF written
    <3>2. c \in committed
      BY <1>1, <1>2, <2>7 DEF Sound, CacheInv, CallInv
    <3>3. list'.loaded /\ list'.rows = list.rows \cup {c}
      BY <2>2, <3>1
    <3>4. CASE list.stale /\ ~shape[c].replaces
      <4>1. (committed \ list.rows) \cup (list.rows \ committed) \subseteq missed'
        BY <1>1, <1>11, <2>7, <3>4 DEF added
      <4>2. Fits(list.rows)'
        BY <1>1, <3>2, <3>3, <4>1 DEF Fits
      <4>3. QED
        BY <1>8, <2>6, <3>3, <4>2 DEF CacheInv, ListInv
    <3>5. CASE Fits(list.rows)
      <4>1. \A d \in Calls \ missed' :
              /\ d \in list.rows \cup {c} => d \in committed
              /\ d \in committed => d \in list.rows \cup {c} \/ Watched(d)'
        BY <1>1, <1>9, <3>2, <3>5 DEF Fits
      <4>2. Fits(list.rows)'
        BY <1>1, <3>3, <4>1 DEF Fits
      <4>3. QED
        BY <1>8, <2>6, <3>3, <4>2 DEF CacheInv, ListInv
    <3>6. ~shape[c].replaces
      BY <1>2, <2>7 DEF Sound
    <3>7. CASE fetch.state # "none" \/ Patching
      BY <1>8, <2>1, <2>3, <2>6, <3>7 DEF CacheInv, ListInv
    <3>8. QED
      BY <3>4, <3>5, <3>6, <3>7 DEF CacheInv, ListInv
  <2>8. CASE ~shape[c].inserts /\ shape[c].replaces
    <3>1. written = [loaded |-> TRUE, rows |-> replied[c], stale |-> FALSE]
      BY <2>8 DEF written
    <3>2. list'.loaded /\ list'.rows = replied[c]
      BY <2>2, <3>1
    <3>3. committed \ replied[c] \subseteq missed'
      BY <1>1, <1>11, <2>8 DEF added
    <3>4. Fits(list.rows)'
      BY <1>1, <1>3, <3>2, <3>3 DEF Fits
    <3>5. QED
      BY <1>8, <2>6, <3>2, <3>4 DEF CacheInv, ListInv
  <2>9. CASE ~shape[c].inserts /\ ~shape[c].replaces
    <3>1. written = list
      BY <2>9 DEF written
    <3>2. \A d \in Calls : Watched(d) => Watched(d)'
      BY <1>9, <2>4, <2>9
    <3>3. Fits(list.rows) => Fits(list.rows)'
      BY <1>1, <2>2, <3>1, <3>2 DEF Fits
    <3>4. QED
      BY <1>8, <2>1, <2>2, <2>3, <2>6, <3>1, <3>3 DEF CacheInv, ListInv
  <2>10. QED
    BY <2>7, <2>8, <2>9
<1>12. QED
  BY <1>10, <1>11

LEMMA FailedStep ==
  ASSUME CacheInv, NEW c \in Calls, Failed(c)
  PROVE  CacheInv'
<1> DEFINE again == shape[c].settles /\ shape[c].refreshes
           before == [list EXCEPT !.rows = CHOOSE rows \in snapshot[c] : TRUE, !.stale = FALSE]
           shown == IF snapshot[c] = {} THEN list ELSE before
           added == IF again THEN Overlooked ELSE {c} \cap (committed \ ingests)
<1>1. /\ call[c] \in {"refused", "committed"} /\ call' = [call EXCEPT ![c] = "failed"]
      /\ Settle(shown, again)
      /\ missed' = missed \cup added
      /\ UNCHANGED <<shape, committed, replied, snapshot, ingests>>
  BY DEF Failed
<1>2. shape[c] \in AllShapes /\ Sound(shape[c])
  BY HooksSound DEF CacheInv, RecordInv
<1>3. committed \subseteq Calls /\ list \in Lists /\ missed \subseteq Calls
  BY DEF CacheInv, RecordInv
<1>4. shown \in Lists
  <2>1. CASE snapshot[c] = {}
    BY <1>3, <2>1
  <2>2. CASE snapshot[c] # {}
    <3>1. PICK rows \in SUBSET Calls : snapshot[c] = {rows}
      BY <2>2 DEF CacheInv, RecordInv
    <3>2. (CHOOSE x \in snapshot[c] : TRUE) \in SUBSET Calls
      BY <3>1
    <3>3. QED
      BY <1>3, <2>2, <3>2 DEF Lists
  <2>3. QED
    BY <2>1, <2>2
<1>5. added \subseteq Calls
  BY <1>3 DEF Unread, Overlooked
<1>6. call' \in [Calls -> {"idle"} \cup Started \cup Ended] /\ call'[c] = "failed"
  BY <1>1 DEF CacheInv, RecordInv, Ended
<1>7. again \in BOOLEAN
  OBVIOUS
<1>8. ~again => shown = list /\ added = {c} \cap (committed \ ingests) /\ ~shape[c].patches
  BY <1>2 DEF Sound, CacheInv, RecordInv
<1>9. again => added = Overlooked
  OBVIOUS
<1> HIDE DEF shown, added, again
<1>10. list' \in Lists
  BY <1>1, <1>4, <1>7 DEF Settle, Lists
<1>11. RecordInv' /\ CallInv'
  <2>1. RecordInv'
    BY <1>1, <1>3, <1>5, <1>6, <1>10 DEF CacheInv, RecordInv
  <2>2. CallInv'
    BY <1>1, <1>6 DEF CacheInv, RecordInv, CallInv
  <2>3. QED
    BY <2>1, <2>2
<1>12. CASE again
  BY <1>1, <1>4, <1>9, <1>11, <1>12, RefetchStep DEF CacheInv, Settle
<1>13. CASE ~again
  <2>1. fetch' = fetch /\ list' = list
    BY <1>1, <1>3, <1>8, <1>13 DEF Settle, Lists
  <2>2. Patching => Patching'
    BY <1>1, <1>8, <1>13 DEF Patching, CacheInv, RecordInv
  <2>3. \A d \in Calls \ {c} : Watched(d) => Watched(d)'
    BY <1>1 DEF Watched, CacheInv, RecordInv
  <2>4. c \in committed => c \in missed' \/ Watched(c)'
    BY <1>1, <1>8, <1>13 DEF Watched
  <2>5. \A rows : Fits(rows) => Fits(rows)'
    BY <1>1, <2>3, <2>4 DEF Fits
  <2>6. FetchInv'
    <3>1. fetch.state = "read" => Fits(Answer(fetch))'
      BY <1>1, <2>1, <2>3, <2>4 DEF CacheInv, FetchInv, Fits, Answer
    <3>2. QED
      BY <1>1, <2>1, <3>1 DEF CacheInv, FetchInv, Answer
  <2>7. Fits(list.rows) => Fits(list.rows)'
    BY <1>1, <2>1, <2>3, <2>4 DEF Fits
  <2>8. QED
    BY <1>11, <2>1, <2>2, <2>6, <2>7 DEF CacheInv, ListInv
<1>14. QED
  BY <1>12, <1>13

LEMMA IngestStep ==
  ASSUME CacheInv, NEW c \in Calls, IngestEvent(c) \/ IngestEventLost(c)
  PROVE  CacheInv'
<1>1. /\ c \in ingests /\ ingests' = ingests \ {c}
      /\ UNCHANGED <<shape, call, committed, replied, snapshot>>
  BY DEF IngestEvent, IngestEventLost
<1>2. list \in Lists /\ committed \subseteq Calls
  BY DEF CacheInv, RecordInv
<1>3. CASE IngestEvent(c)
  <2>1. Settle(list, TRUE) /\ missed' = missed \cup Overlooked
    BY <1>3 DEF IngestEvent
  <2>2. list' \in Lists
    BY <1>2, <2>1 DEF Settle, Lists
  <2>3. missed' \subseteq Calls
    BY <1>2, <2>1 DEF Overlooked, Unread, CacheInv, RecordInv
  <2>4. RecordInv' /\ CallInv'
    BY <1>1, <2>2, <2>3 DEF CacheInv, RecordInv, CallInv
  <2>5. QED
    BY <1>1, <1>2, <2>1, <2>4, RefetchStep DEF CacheInv
<1>4. CASE IngestEventLost(c)
  <2>1. missed' = missed \cup {c} /\ UNCHANGED <<list, fetch>>
    BY <1>4 DEF IngestEventLost
  <2>2. RecordInv' /\ CallInv'
    BY <1>1, <2>1 DEF CacheInv, RecordInv, CallInv
  <2>3. \A d \in Calls \ {c} : Watched(d) => Watched(d)'
    BY <1>1 DEF Watched
  <2>4. FetchInv'
    BY <1>1, <2>1, <2>3 DEF CacheInv, FetchInv, Fits, Answer
  <2>5. (Fits(list.rows) => Fits(list.rows)') /\ (Patching => Patching')
    BY <1>1, <2>1, <2>3 DEF Fits, Patching
  <2>6. QED
    BY <2>1, <2>2, <2>4, <2>5 DEF CacheInv, ListInv
<1>5. QED
  BY <1>3, <1>4

LEMMA CacheStep == CacheInv /\ [CacheNext]_cacheVars => CacheInv'
<1>1. ASSUME CacheInv, UNCHANGED cacheVars PROVE CacheInv'
  BY <1>1 DEF cacheVars, CacheInv, RecordInv, CallInv, FetchInv, ListInv, Fits, Watched, Patching, Answer
<1>2. ASSUME CacheInv, CacheNext PROVE CacheInv'
  BY <1>2, FetchSteps, MutateStep, CommitStep, CacheRefuseStep, CacheAnsweredStep, FailedStep, IngestStep DEF CacheNext
<1>3. QED
  BY <1>1, <1>2

LEMMA CacheInvSuffices == CacheInv => ListsAgree
<1> SUFFICES ASSUME CacheInv, Quiescent, list.loaded, ~list.stale
             PROVE  list.rows \ missed = committed \ missed
  BY DEF ListsAgree
<1>1. ~Patching /\ fetch.state = "none"
  BY DEF Quiescent, Patching
<1>2. \A c \in Calls : ~Watched(c)
  BY DEF Quiescent, Watched, Started
<1>3. Fits(list.rows)
  BY <1>1 DEF CacheInv, ListInv
<1>4. list.rows \subseteq Calls /\ committed \subseteq Calls
  BY DEF CacheInv, RecordInv, Lists
<1>5. \A c \in Calls \ missed : c \in list.rows <=> c \in committed
  BY <1>2, <1>3 DEF Fits, Watched
<1>6. QED
  BY <1>4, <1>5

(* However many mutations of whatever hooks meet on one list, with their   *)
(* patches, rollbacks, answers that are lost and fetches that are          *)
(* overtaken: when all is over, a list that is not marked stale shows what *)
(* the server has, but for what it is recorded to have missed.             *)
THEOREM ListsAlwaysAgree == CacheSpec => []ListsAgree
<1>1. CacheSpec => []CacheInv
  BY CacheStarts, CacheStep, PTL DEF CacheSpec
<1>2. QED
  BY <1>1, CacheInvSuffices, PTL

(***************************************************************************)
(* Types: with the invariant, only those of the fetch are missing.         *)
(***************************************************************************)
FetchTyped == fetch \in Fetches(SUBSET Calls)

LEMMA FetchTypedStart == CacheInit => FetchTyped
BY DEF CacheInit, FetchTyped, Fetches, Asked

LEMMA FetchTypedStep == CacheInv /\ FetchTyped /\ [CacheNext]_cacheVars => FetchTyped'
<1> SUFFICES ASSUME CacheInv, FetchTyped, [CacheNext]_cacheVars PROVE FetchTyped'
  OBVIOUS
<1>1. committed \in SUBSET Calls
  BY DEF CacheInv, RecordInv
<1>2. \/ fetch' = fetch \/ fetch' = NoFetch \/ fetch' = Asked \/ fetch' = Got(committed)
      \/ fetch' = Restart(list.loaded, fetch)
  <2>1. CASE Read \/ Land \/ FetchFails \/ Remounted
    BY <2>1 DEF Read, Land, FetchFails, Remounted
  <2>2. ASSUME NEW c \in Calls, Mutate(c) \/ Commit(c) \/ Refuse(c) \/ IngestEventLost(c)
        PROVE  fetch' \in {fetch, NoFetch}
    BY <2>2 DEF Mutate, Commit, Refuse, IngestEventLost
  <2>3. ASSUME NEW shown, NEW refreshes, Settle(shown, refreshes)
        PROVE  fetch' = fetch \/ fetch' = Restart(list.loaded, fetch)
    BY <2>3 DEF Settle
  <2>4. ASSUME NEW c \in Calls, Answered(c) \/ Failed(c) \/ IngestEvent(c)
        PROVE  fetch' = fetch \/ fetch' = Restart(list.loaded, fetch)
    BY <2>3, <2>4 DEF Answered, Failed, IngestEvent
  <2>5. CASE UNCHANGED cacheVars
    BY <2>5 DEF cacheVars
  <2>6. QED
    BY <2>1, <2>2, <2>4, <2>5 DEF CacheNext
<1>3. /\ NoFetch \in Fetches(SUBSET Calls) /\ Asked \in Fetches(SUBSET Calls)
      /\ Got(committed) \in Fetches(SUBSET Calls)
  BY <1>1 DEF NoFetch, Asked, Got, Fetches
<1>4. Restart(list.loaded, fetch) \in {fetch, Asked}
  BY DEF Restart
<1>5. QED
  BY <1>2, <1>3, <1>4 DEF FetchTyped

LEMMA CacheTyped == CacheInv /\ FetchTyped => CacheTypeOK
BY DEF CacheInv, RecordInv, CallInv, FetchTyped, CacheTypeOK, Lists

(***************************************************************************)
(* The invariant.  Rows and answers agree file by file; outside a batch    *)
(* nothing is under way; what is listed was not uploaded; limits hold.     *)
(***************************************************************************)
Made(state) == Count(state \in {"created", "done"})

RowsInv == \A f \in Sources : created[f] = unheard[f] + Made(task[f])

BatchInv ==
  /\ submitting => listed = batch /\ \A f \in Sources \ batch : task[f] \in Settled
  /\ ~submitting => \A f \in Sources :
                      /\ task[f] \in Settled
                      /\ f \in listed => task[f] \in {"none", "failed"}
  /\ \A f \in Sources \ picked : task[f] = "none"

FaultsInv == mounted => \A f \in Sources : unheard[f] <= UploadFaults

LimitsInv == Cardinality(Working) <= UploadWorkers /\ Cardinality(listed) <= UploadCap

UploadInv == UploadTypeOK /\ RowsInv /\ BatchInv /\ FaultsInv /\ LimitsInv

(***************************************************************************)
(* Cardinalities.                                                          *)
(***************************************************************************)
LEMMA SmallerSet ==
  ASSUME NEW S, IsFiniteSet(S), NEW T, T \subseteq S, NEW n \in Nat, Cardinality(S) <= n
  PROVE  IsFiniteSet(T) /\ Cardinality(T) <= n
BY FS_Subset, FS_CardinalityType

LEMMA WorkingType ==
  IsFiniteSet(Working) /\ Cardinality(Working) \in Nat
BY UploadAssumption, FS_Subset, FS_CardinalityType DEF Working

(* The files a list takes fit into what the cap leaves: a file is taken if *)
(* few come before it, and different ones have different numbers before.   *)
LEMMA TakenFit ==
  ASSUME NEW existing \in Nat, existing <= UploadCap, NEW incoming \in SUBSET Sources
  PROVE  /\ IsFiniteSet(capSourceUploads(existing, incoming))
         /\ Cardinality(capSourceUploads(existing, incoming)) <= UploadCap - existing
<1> DEFINE Before(f) == {g \in incoming : g < f}
           Taken == capSourceUploads(existing, incoming)
           rank == [f \in Taken |-> Cardinality(Before(f))]
           room == 0..(UploadCap - existing - 1)
<1>1. incoming \subseteq Nat /\ Taken \subseteq incoming
  BY UploadAssumption DEF capSourceUploads
<1>2. \A f \in incoming : IsFiniteSet(Before(f)) /\ Cardinality(Before(f)) \in Nat
  <2>1. IsFiniteSet(incoming)
    BY UploadAssumption, FS_Subset
  <2>2. QED
    BY <2>1, FS_Subset, FS_CardinalityType
<1>3. \A f \in Taken : rank[f] \in room
  <2>1. ASSUME NEW f \in Taken PROVE rank[f] \in room
    <3>1. existing + Cardinality(Before(f)) < UploadCap
      BY DEF capSourceUploads
    <3>2. Cardinality(Before(f)) \in Nat
      BY <1>1, <1>2
    <3>3. rank[f] = Cardinality(Before(f))
      OBVIOUS
    <3> HIDE DEF Before, Taken, rank
    <3>4. QED
      BY <3>1, <3>2, <3>3, UploadAssumption
  <2>2. QED
    BY <2>1
<1>4. \A f, h \in Taken : f < h => rank[f] # rank[h]
  <2>1. SUFFICES ASSUME NEW f \in Taken, NEW h \in Taken, f < h
                 PROVE  rank[f] # rank[h]
    OBVIOUS
  <2>2. f \in incoming /\ h \in incoming /\ incoming \subseteq Nat
    BY <1>1
  <2>3. rank[f] = Cardinality(Before(f)) /\ rank[h] = Cardinality(Before(h))
    OBVIOUS
  <2> HIDE DEF Taken, rank
  <2>4. Before(f) \in SUBSET Before(h)
    <3>1. \A g \in incoming : g < f => g < h
      <4>1. \A x, y, z \in Nat : x < y /\ y < z => x < z
        OBVIOUS
      <4>2. QED
        BY <2>1, <2>2, <4>1
    <3>2. QED
      BY <3>1
  <2>5. f \in Before(h) /\ f \notin Before(f)
    <3>1. f \in Nat /\ h \in Nat
      BY <2>2
    <3>2. f < h /\ ~(f < f)
      BY <2>1, <3>1
    <3>3. QED
      BY <2>2, <3>2
  <2>6. IsFiniteSet(Before(h))
    BY <1>2, <2>2
  <2> HIDE DEF Before
  <2>7. QED
    BY <2>3, <2>4, <2>5, <2>6, FS_Subset
<1>5. rank \in Injection(Taken, room)
  <2>1. \A f, h \in Taken : rank[f] = rank[h] => f = h
    <3>1. \A f, h \in Taken : f \in Nat /\ h \in Nat
      BY <1>1
    <3>2. QED
      BY <1>4, <3>1
  <2> HIDE DEF Taken, room, Before
  <2>2. rank \in [Taken -> room]
    BY <1>3
  <2>3. QED
    BY <2>1, <2>2 DEF Injection, IsInjective
<1>6. IsFiniteSet(room) /\ Cardinality(room) <= UploadCap - existing
  <2>1. UploadCap - existing - 1 \in Int /\ UploadCap - existing >= 0
    BY UploadAssumption
  <2>2. IsFiniteSet(room) /\ Cardinality(room) = IF 0 > UploadCap - existing - 1 THEN 0 ELSE UploadCap - existing - 1 - 0 + 1
    BY <2>1, FS_Interval
  <2>3. QED
    BY <2>1, <2>2, UploadAssumption
<1>7. IsFiniteSet(Taken) /\ Cardinality(Taken) <= Cardinality(room)
  <2> HIDE DEF Taken, room, rank
  <2>1. QED
    BY <1>5, <1>6, FS_Injection
<1>8. Cardinality(Taken) \in Nat /\ Cardinality(room) \in Nat
  BY <1>6, <1>7, FS_CardinalityType
<1>9. QED
  BY <1>6, <1>7, <1>8, UploadAssumption

LEMMA ListedType ==
  ASSUME UploadTypeOK
  PROVE  IsFiniteSet(listed) /\ Cardinality(listed) \in Nat
BY UploadAssumption, FS_Subset, FS_CardinalityType DEF UploadTypeOK

(***************************************************************************)
(* The steps.                                                              *)
(***************************************************************************)
LEMMA UploadStarts == UploadInit => UploadInv
<1> SUFFICES ASSUME UploadInit PROVE UploadInv
  OBVIOUS
<1> USE UploadAssumption DEF UploadInit, Everywhere
<1>1. UploadTypeOK
  <2>1. task \in [Sources -> Active \cup Settled \cup {"queued"}]
    BY DEF Settled
  <2>2. tries \in [Sources -> 0..(UploadAttempts - 1)] /\ unheard \in [Sources -> 0..(UploadFaults + 1)]
    OBVIOUS
  <2>3. created \in [Sources -> Nat]
    OBVIOUS
  <2>4. QED
    BY <2>1, <2>2, <2>3 DEF UploadTypeOK
<1>2. RowsInv /\ BatchInv /\ FaultsInv
  BY DEF RowsInv, BatchInv, FaultsInv, Made, Count, Settled
<1>3. Working = {}
  BY DEF Working, Active
<1>4. LimitsInv
  BY <1>3, FS_EmptySet DEF LimitsInv
<1>5. QED
  BY <1>1, <1>2, <1>4 DEF UploadInv

LEMMA PickStep ==
  ASSUME UploadInv, NEW files \in SUBSET Sources, Pick(files)
  PROVE  UploadInv'
<1> USE DEF UploadInv, Pick, Idle
<1> DEFINE Taken == capSourceUploads(Cardinality(listed), files)
<1>1. Taken \subseteq files
  BY DEF capSourceUploads
<1>2. UploadTypeOK'
  BY <1>1 DEF UploadTypeOK
<1>3. RowsInv' /\ FaultsInv'
  BY DEF RowsInv, FaultsInv
<1>4. BatchInv'
  BY <1>1 DEF BatchInv, UploadTypeOK
<1>5. Cardinality(listed') <= UploadCap
  <2>1. IsFiniteSet(listed) /\ Cardinality(listed) \in Nat /\ Cardinality(listed) <= UploadCap
    BY ListedType DEF LimitsInv
  <2>2. IsFiniteSet(Taken) /\ Cardinality(Taken) <= UploadCap - Cardinality(listed)
    BY <2>1, TakenFit
  <2>3. listed \cap Taken \in SUBSET listed
    OBVIOUS
  <2>4. IsFiniteSet(listed \cap Taken)
    BY <2>1, <2>3, FS_Subset
  <2>5. Cardinality(Taken) \in Nat /\ Cardinality(listed \cap Taken) \in Nat
    BY <2>2, <2>4, FS_CardinalityType
  <2>6. Cardinality(listed') = Cardinality(listed) + Cardinality(Taken) - Cardinality(listed \cap Taken)
    <3> HIDE DEF Taken
    <3>1. listed' = listed \cup Taken
      BY DEF Taken
    <3>2. QED
      BY <2>1, <2>2, <3>1, FS_Union
  <2> HIDE DEF Taken
  <2>7. QED
    BY <2>1, <2>2, <2>5, <2>6, UploadAssumption
<1>6. Working' = Working
  BY DEF Working
<1>7. QED
  BY <1>2, <1>3, <1>4, <1>5, <1>6 DEF LimitsInv

LEMMA UnlistStep ==
  ASSUME UploadInv, NEW f \in Sources, Unlist(f)
  PROVE  UploadInv'
<1> USE DEF UploadInv, Unlist, Idle
<1>1. UploadTypeOK' /\ RowsInv' /\ FaultsInv' /\ BatchInv'
  BY DEF UploadTypeOK, RowsInv, FaultsInv, BatchInv
<1>2. Cardinality(listed') <= UploadCap
  BY ListedType, SmallerSet, UploadAssumption DEF LimitsInv
<1>3. Working' = Working
  BY DEF Working
<1>4. QED
  BY <1>1, <1>2, <1>3 DEF LimitsInv

LEMMA UploadSubmitStep ==
  ASSUME UploadInv, Submit
  PROVE  UploadInv'
<1> USE DEF UploadInv, Submit, Idle
<1>1. UploadTypeOK'
  BY UploadAssumption DEF UploadTypeOK, Everywhere
<1>2. RowsInv' /\ FaultsInv'
  BY DEF RowsInv, FaultsInv, BatchInv, UploadTypeOK, Made, Count, Settled
<1>3. BatchInv'
  BY DEF BatchInv, UploadTypeOK, Settled
<1>4. Working' \subseteq Working
  BY DEF Working, Active, UploadTypeOK
<1>5. Cardinality(Working') <= UploadWorkers
  BY <1>4, WorkingType, SmallerSet, UploadAssumption DEF LimitsInv
<1>6. QED
  BY <1>1, <1>2, <1>3, <1>5 DEF LimitsInv

LEMMA UploadFinishStep ==
  ASSUME UploadInv, Finish
  PROVE  UploadInv'
<1> USE DEF UploadInv, Finish
<1> DEFINE failed == {f \in batch : task[f] = "failed"}
<1>1. listed' = (IF failed = {} THEN {} ELSE listed \ (batch \ failed)) /\ listed' \subseteq listed
  OBVIOUS
<1>2. mounted' \in BOOLEAN /\ (mounted' => mounted)
  BY DEF UploadTypeOK
<1>3. UploadTypeOK'
  BY <1>1, <1>2 DEF UploadTypeOK
<1>4. RowsInv' /\ FaultsInv'
  BY <1>2 DEF RowsInv, FaultsInv
<1>5. BatchInv'
  <2>1. \A f \in Sources : f \in listed' => task[f] = "failed"
    BY <1>1 DEF BatchInv, UploadTypeOK
  <2>2. \A f \in Sources : task[f] \in Settled
    BY DEF BatchInv, UploadTypeOK
  <2>3. QED
    BY <2>1, <2>2 DEF BatchInv
<1>6. Cardinality(listed') <= UploadCap
  BY <1>1, ListedType, SmallerSet, UploadAssumption DEF LimitsInv
<1>7. Working' = Working
  BY DEF Working
<1>8. QED
  BY <1>3, <1>4, <1>5, <1>6, <1>7 DEF LimitsInv

LEMMA LeaveStep ==
  ASSUME UploadInv, Leave
  PROVE  UploadInv'
<1> DEFINE heeding == Uploads("putting") \cup Uploads("posting") \cup IF direct THEN {} ELSE Uploads("created")
<1>1. PICK taken \in SUBSET Uploads("posting") :
        LET lost == taken \cup (heeding \cap Uploads("created"))
        IN  /\ task' = [f \in Sources |-> IF f \in heeding THEN "failed" ELSE task[f]]
            /\ created' = [f \in Sources |-> created[f] + Count(f \in taken)]
            /\ unheard' = [f \in Sources |-> unheard[f] + Count(f \in lost)]
  BY DEF Leave
<1> DEFINE lost == taken \cup (heeding \cap Uploads("created"))
<1>2. task' = [f \in Sources |-> IF f \in heeding THEN "failed" ELSE task[f]]
  BY <1>1
<1>3. created' = [f \in Sources |-> created[f] + Count(f \in taken)]
  BY <1>1
<1>4. unheard' = [f \in Sources |-> unheard[f] + Count(f \in lost)]
  BY <1>1
<1>5. /\ mounted /\ mounted' = FALSE
      /\ aborted' = aborted \cup {f \in Sources : task[f] \in Active}
      /\ UNCHANGED <<direct, picked, listed, batch, submitting, tries>>
  BY DEF Leave
<1>6. \A f \in Sources : /\ f \in heeding => task[f] \in {"putting", "posting", "created"}
                         /\ f \in taken => task[f] = "posting" /\ f \in heeding
                         /\ f \in lost <=> f \in taken \/ (task[f] = "created" /\ f \in heeding)
                         /\ f \in heeding /\ task[f] \notin {"posting", "created"} => f \notin lost
  BY DEF Uploads
<1> HIDE DEF heeding, lost
<1>7. UploadTypeOK'
  <2>1. task' \in [Sources -> Active \cup Settled \cup {"queued"}]
    BY <1>2 DEF UploadInv, UploadTypeOK, Settled
  <2>2. created' \in [Sources -> Nat]
    BY <1>3 DEF UploadInv, UploadTypeOK, Count
  <2>3. unheard' \in [Sources -> 0..(UploadFaults + 1)]
    BY <1>4, <1>5, UploadAssumption DEF UploadInv, UploadTypeOK, FaultsInv, Count
  <2>4. QED
    BY <1>5, <2>1, <2>2, <2>3 DEF UploadInv, UploadTypeOK
<1>8. RowsInv'
  <2>1. SUFFICES ASSUME NEW f \in Sources
                 PROVE  created'[f] = unheard'[f] + Made(task'[f])
    BY DEF RowsInv
  <2>2. created[f] = unheard[f] + Made(task[f]) /\ created[f] \in Nat /\ unheard[f] \in Nat
    BY DEF UploadInv, RowsInv, UploadTypeOK
  <2>3. CASE f \in heeding
    BY <1>2, <1>3, <1>4, <1>6, <2>2, <2>3 DEF Made, Count
  <2>4. CASE f \notin heeding
    BY <1>2, <1>3, <1>4, <1>6, <2>2, <2>4 DEF Made, Count
  <2>5. QED
    BY <2>3, <2>4
<1>9. BatchInv'
  BY <1>2, <1>5, <1>6 DEF UploadInv, UploadTypeOK, BatchInv, Settled
<1>10. FaultsInv'
  BY <1>5 DEF FaultsInv
<1>11. Working' \subseteq Working
  BY <1>2 DEF Working, Active
<1>12. Cardinality(Working') <= UploadWorkers
  BY <1>11, WorkingType, SmallerSet, UploadAssumption DEF UploadInv, LimitsInv
<1>13. QED
  BY <1>5, <1>7, <1>8, <1>9, <1>10, <1>12 DEF UploadInv, LimitsInv

(* A step of one upload that does not start it. *)
LEMMA OneUploadKeeps ==
  ASSUME UploadInv, NEW f \in Sources, NEW to,
         task[f] \in Active, to \in Active \cup {"done", "failed"},
         task' = [task EXCEPT ![f] = to],
         UNCHANGED listVars
  PROVE  /\ BatchInv' /\ LimitsInv'
         /\ task' \in [Sources -> Active \cup Settled \cup {"queued"}]
<1> USE DEF UploadInv, listVars
<1>1. task' \in [Sources -> Active \cup Settled \cup {"queued"}]
  BY DEF UploadTypeOK, Settled
<1>2. f \in batch /\ submitting /\ f \in picked
  <2>1. task[f] \notin Settled /\ task[f] # "none"
    BY DEF Active, Settled
  <2>2. QED
    BY <2>1 DEF BatchInv
<1>3. BatchInv'
  BY <1>2 DEF BatchInv, UploadTypeOK
<1>4. Working' \subseteq Working
  BY DEF Working, UploadTypeOK
<1>5. Cardinality(Working') <= UploadWorkers
  BY <1>4, WorkingType, SmallerSet, UploadAssumption DEF LimitsInv
<1>6. QED
  BY <1>1, <1>3, <1>5 DEF LimitsInv

LEMMA StartStep ==
  ASSUME UploadInv, NEW f \in Sources, Start(f)
  PROVE  UploadInv'
<1> USE DEF UploadInv, Start, Goes, FirstCall, listVars
<1>1. task[f] = "queued" /\ task' = [task EXCEPT ![f] = FirstCall]
  OBVIOUS
<1>2. UploadTypeOK'
  BY DEF UploadTypeOK, Active
<1>3. RowsInv' /\ FaultsInv'
  BY DEF RowsInv, FaultsInv, UploadTypeOK, Made, Count
<1>4. f \in batch /\ submitting /\ f \in picked
  BY <1>1 DEF BatchInv, Settled
<1>5. BatchInv'
  BY <1>4 DEF BatchInv, UploadTypeOK
<1>6. Working' = Working \cup {f} /\ f \notin Working
  BY <1>1 DEF Working, Active, UploadTypeOK
<1>7. Cardinality(Working') = Cardinality(Working) + 1
  BY <1>6, WorkingType, FS_AddElement
<1>8. Cardinality(Working') <= UploadWorkers
  BY <1>7, WorkingType, UploadAssumption
<1>9. QED
  BY <1>2, <1>3, <1>5, <1>8 DEF LimitsInv

(* Calls and answers that make no row. *)
LEMMA CallStep ==
  ASSUME UploadInv, NEW f \in Sources,
         Reserved(f) \/ Put(f) \/ Rejected(f) \/ PutOff(f) \/ CallAgain(f)
  PROVE  UploadInv'
<1>1. PICK to : /\ task[f] \in Active \ {"created"} /\ to \in (Active \ {"created"}) \cup {"failed"}
                /\ task' = [task EXCEPT ![f] = to]
                /\ UNCHANGED <<listVars, aborted, created, unheard>>
                /\ tries' \in [Sources -> 0..(UploadAttempts - 1)]
  <2>1. UNCHANGED tries => tries' \in [Sources -> 0..(UploadAttempts - 1)]
    BY DEF UploadInv, UploadTypeOK
  <2>2. CASE Reserved(f)
    BY <2>1, <2>2 DEF Reserved, Goes, Active
  <2>3. CASE Put(f)
    BY <2>1, <2>3 DEF Put, Goes, Active
  <2>4. CASE Rejected(f)
    BY <2>1, <2>4 DEF Rejected, Goes, Active
  <2>5. CASE CallAgain(f)
    BY <2>1, <2>5 DEF CallAgain, Goes, Active, FirstCall
  <2>6. CASE PutOff(f)
    <3>1. CASE tries[f] + 1 < UploadAttempts
      <4>1. tries' = [tries EXCEPT ![f] = @ + 1]
        BY <2>6, <3>1 DEF PutOff
      <4>2. tries' \in [Sources -> 0..(UploadAttempts - 1)]
        BY <3>1, <4>1, UploadAssumption DEF UploadInv, UploadTypeOK
      <4>3. QED
        BY <2>6, <3>1, <4>2 DEF PutOff, Goes, Active
    <3>2. CASE ~(tries[f] + 1 < UploadAttempts)
      BY <2>1, <2>6, <3>2 DEF PutOff, Goes, Active
    <3>3. QED
      BY <3>1, <3>2
  <2>7. QED
    BY <2>2, <2>3, <2>4, <2>5, <2>6
<1>2. BatchInv' /\ LimitsInv' /\ task' \in [Sources -> Active \cup Settled \cup {"queued"}]
  BY <1>1, OneUploadKeeps
<1>3. UploadTypeOK'
  BY <1>1, <1>2 DEF UploadInv, UploadTypeOK, listVars
<1>4. RowsInv' /\ FaultsInv'
  BY <1>1 DEF UploadInv, RowsInv, FaultsInv, UploadTypeOK, listVars, Made, Count, Active
<1>5. QED
  BY <1>2, <1>3, <1>4 DEF UploadInv

LEMMA CreateStep ==
  ASSUME UploadInv, NEW f \in Sources, Create(f)
  PROVE  UploadInv'
<1> USE DEF Create, Goes
<1>1. BatchInv' /\ LimitsInv' /\ task' \in [Sources -> Active \cup Settled \cup {"queued"}]
  BY OneUploadKeeps DEF Active
<1>2. UploadTypeOK'
  BY <1>1 DEF UploadInv, UploadTypeOK, listVars
<1>3. RowsInv' /\ FaultsInv'
  BY DEF UploadInv, RowsInv, FaultsInv, UploadTypeOK, listVars, Made, Count
<1>4. QED
  BY <1>1, <1>2, <1>3 DEF UploadInv

(* The answer arrives, or is lost. *)
LEMMA AnswerStep ==
  ASSUME UploadInv, NEW f \in Sources, Uploaded(f) \/ Unheard(f)
  PROVE  UploadInv'
<1>1. CASE Uploaded(f)
  <2> USE <1>1 DEF Uploaded, Goes
  <2>0. task[f] \in Active /\ task' = [task EXCEPT ![f] = "done"] /\ UNCHANGED listVars
    BY DEF Active
  <2>1. BatchInv' /\ LimitsInv' /\ task' \in [Sources -> Active \cup Settled \cup {"queued"}]
    BY <2>0, OneUploadKeeps
  <2>2. UploadTypeOK'
    BY <2>1 DEF UploadInv, UploadTypeOK, listVars
  <2>3. RowsInv' /\ FaultsInv'
    BY DEF UploadInv, RowsInv, FaultsInv, UploadTypeOK, listVars, Made, Count
  <2>4. QED
    BY <2>1, <2>2, <2>3 DEF UploadInv
<1>2. CASE Unheard(f)
  <2> USE <1>2 DEF Unheard, Goes
  <2>0. task[f] \in Active /\ task' = [task EXCEPT ![f] = "failed"] /\ UNCHANGED listVars
    BY DEF Active
  <2>1. BatchInv' /\ LimitsInv' /\ task' \in [Sources -> Active \cup Settled \cup {"queued"}]
    BY <2>0, OneUploadKeeps
  <2>2. UploadTypeOK'
    BY <2>1, UploadAssumption DEF UploadInv, UploadTypeOK, listVars
  <2>3. RowsInv' /\ FaultsInv'
    BY UploadAssumption DEF UploadInv, RowsInv, FaultsInv, UploadTypeOK, listVars, Made, Count
  <2>4. QED
    BY <2>1, <2>2, <2>3 DEF UploadInv
<1>3. QED
  BY <1>1, <1>2

LEMMA UploadStep == UploadInv /\ [UploadNext]_uploadVars => UploadInv'
<1>1. ASSUME UploadInv, UNCHANGED uploadVars PROVE UploadInv'
  BY <1>1 DEF uploadVars, UploadInv, UploadTypeOK, RowsInv, BatchInv, FaultsInv, LimitsInv, Working
<1>2. ASSUME UploadInv, UploadNext PROVE UploadInv'
  BY <1>2, PickStep, UploadSubmitStep, UploadFinishStep, LeaveStep, UnlistStep, StartStep, CallStep, CreateStep,
     AnswerStep DEF UploadNext
<1>3. QED
  BY <1>1, <1>2

LEMMA UploadInvSuffices == UploadInv => UploadsOnce
BY DEF UploadInv, UploadTypeOK, RowsInv, BatchInv, LimitsInv, UploadsOnce, Idle, Made, Count

LEMMA UploadInvHolds == UploadSpec => []UploadInv
BY UploadStarts, UploadStep, PTL DEF UploadSpec

(* The variables of an upload dialog have their types, whatever is picked, *)
(* however many workers there are, and however many answers are lost.      *)
THEOREM UploadTypeCorrect == UploadSpec => []UploadTypeOK
<1>1. UploadInv => UploadTypeOK
  BY DEF UploadInv
<1>2. QED
  BY <1>1, UploadInvHolds, PTL

(* No file becomes two rows but for answers that were lost, and no limit   *)
(* is passed, through aborts, retries and repeated batches.                *)
THEOREM UploadedOnce == UploadSpec => []UploadsOnce
BY UploadInvSuffices, UploadInvHolds, PTL

(***************************************************************************)
(* The invariant.  What the judge gave, it gave for the answers of the     *)
(* closure; what is submitted was judged to the end; replies and attempts  *)
(* are counted together; and without faults the mistakes follow the stage. *)
(***************************************************************************)
Submitted == {"adding", "clearing", "recording", "recorded", "done"}
Recorded == {"recorded", "done"}

CountsInv ==
  /\ quizFaults \in Nat /\ lostReplies \in Nat /\ lostReplies <= quizFaults
  /\ Len(attempts) = lostReplies + IF stage \in Recorded THEN 1 ELSE 0

AwardsInv ==
  /\ \A q \in DOMAIN awards : closure[q] \notin Unanswered /\ <<q, closure[q], awards[q]>> \in judged
  /\ stage \in Submitted => ToJudge = {}

AttemptsInv ==
  /\ attempts = [n \in 1..Len(attempts) |-> attempts[n]] /\ Len(attempts) \in Nat
  /\ \A n \in 1..Len(attempts) : PointsFit(attempts[n])

MistakesInv ==
  quizFaults = 0 =>
    /\ stage \in {"answering", "grading", "adding"} => mistakes = IF review THEN Questions ELSE {}
    /\ stage = "clearing" => mistakes = Questions
    /\ stage = "recording" => mistakes = Wrong(Marks(closure, awards))
    /\ stage \in Recorded => mistakes = Wrong(attempts[1].points)

QuizInv == CountsInv /\ AwardsInv /\ AttemptsInv /\ MistakesInv

(***************************************************************************)
(* Marks.                                                                  *)
(***************************************************************************)
(* What is submitted fits what the judge gave. *)
LEMMA SubmissionFits ==
  ASSUME AwardsInv, ToJudge = {}
  PROVE  PointsFit(Submission)
<1>1. Submission.answers = closure /\ Submission.points = Marks(closure, awards)
  BY DEF Submission
<1>2. SUFFICES ASSUME NEW q \in Questions
               PROVE  scoreQuestion(q, closure, awards) \in
                        IF q \in Open
                          THEN IF closure[q] \in Unanswered THEN {0}
                               ELSE {applyOpenAward(q, award) : award \in {j[3] : j \in {i \in judged : i[1] = q /\ i[2] = closure[q]}}}
                          ELSE {IF closure[q] = "right" THEN HalfPoints[q] ELSE 0}
  <2>1. \A q \in Questions : Submission.points[q] = scoreQuestion(q, closure, awards)
    BY <1>1 DEF Marks
  <2>2. QED
    BY <1>1, <2>1 DEF PointsFit
<1>3. CASE q \notin Open
  BY <1>3 DEF scoreQuestion, closedCorrect
<1>4. CASE q \in Open /\ closure[q] \in Unanswered
  BY <1>4 DEF scoreQuestion, AwardsInv
<1>5. CASE q \in Open /\ closure[q] \notin Unanswered
  <2>1. q \in DOMAIN awards
    BY <1>5 DEF ToJudge
  <2>2. <<q, closure[q], awards[q]>> \in {i \in judged : i[1] = q /\ i[2] = closure[q]}
    BY <2>1 DEF AwardsInv
  <2>3. awards[q] \in {j[3] : j \in {i \in judged : i[1] = q /\ i[2] = closure[q]}}
    BY <2>2
  <2>4. scoreQuestion(q, closure, awards) = applyOpenAward(q, awards[q])
    BY <1>5, <2>1 DEF scoreQuestion
  <2>5. QED
    BY <1>5, <2>3, <2>4
<1>6. QED
  BY <1>3, <1>4, <1>5

(* An attempt that fits goes on fitting as more is judged. *)
LEMMA FitsLater ==
  ASSUME NEW attempt, PointsFit(attempt), judged \subseteq judged'
  PROVE  PointsFit(attempt)'
<1>1. SUFFICES ASSUME NEW q \in Questions
               PROVE  attempt.points[q] \in
                        IF q \in Open
                          THEN IF attempt.answers[q] \in Unanswered THEN {0}
                               ELSE {applyOpenAward(q, award) : award \in {j[3] : j \in {i \in judged' : i[1] = q /\ i[2] = attempt.answers[q]}}}
                          ELSE {IF attempt.answers[q] = "right" THEN HalfPoints[q] ELSE 0}
  BY DEF PointsFit, applyOpenAward, Unanswered
<1>2. {i \in judged : i[1] = q /\ i[2] = attempt.answers[q]} \subseteq
      {i \in judged' : i[1] = q /\ i[2] = attempt.answers[q]}
  OBVIOUS
<1>3. {j[3] : j \in {i \in judged : i[1] = q /\ i[2] = attempt.answers[q]}} \subseteq
      {j[3] : j \in {i \in judged' : i[1] = q /\ i[2] = attempt.answers[q]}}
  BY <1>2
<1>4. QED
  BY <1>3 DEF PointsFit

LEMMA AttemptsLater ==
  ASSUME AttemptsInv, UNCHANGED attempts, judged \subseteq judged'
  PROVE  AttemptsInv'
<1>1. \A n \in 1..Len(attempts) : PointsFit(attempts[n])'
  BY FitsLater DEF AttemptsInv
<1>2. QED
  BY <1>1 DEF AttemptsInv, PointsFit, applyOpenAward, Unanswered

(***************************************************************************)
(* The steps.                                                              *)
(***************************************************************************)
LEMMA QuizStarts == QuizInit => QuizInv
<1> SUFFICES ASSUME QuizInit PROVE QuizInv
  OBVIOUS
<1> USE DEF QuizInit
<1>1. CountsInv
  BY DEF CountsInv, Recorded
<1>2. AwardsInv
  BY DEF AwardsInv, Submitted
<1>3. AttemptsInv
  BY DEF AttemptsInv
<1>4. MistakesInv
  BY DEF MistakesInv, Recorded
<1>5. QED
  BY <1>1, <1>2, <1>3, <1>4 DEF QuizInv

(* Answering and turning pages touch nothing the invariant speaks of. *)
LEMMA PageKeeps ==
  ASSUME QuizInv, UNCHANGED <<review, stage, closure, awards, serverSide, judged, quizFaults, lostReplies>>
  PROVE  QuizInv'
<1> USE DEF serverSide
<1>1. CountsInv' /\ AwardsInv'
  BY DEF QuizInv, CountsInv, AwardsInv, ToJudge, Unanswered
<1>2. AttemptsInv'
  BY AttemptsLater DEF QuizInv
<1>3. MistakesInv'
  BY DEF QuizInv, MistakesInv, Wrong, Marks, scoreQuestion, applyOpenAward, closedCorrect
<1>4. QED
  BY <1>1, <1>2, <1>3 DEF QuizInv

LEMMA QuizFinishStep ==
  ASSUME QuizInv, finish
  PROVE  QuizInv'
<1> USE DEF finish, pageVars, serverSide
<1>1. CountsInv'
  BY DEF QuizInv, CountsInv, Recorded
<1>2. AwardsInv'
  BY DEF AwardsInv, Submitted
<1>3. AttemptsInv'
  BY AttemptsLater DEF QuizInv
<1>4. MistakesInv'
  BY DEF QuizInv, MistakesInv, Recorded
<1>5. QED
  BY <1>1, <1>2, <1>3, <1>4 DEF QuizInv

LEMMA JudgeStep ==
  ASSUME QuizInv, NEW award \in 0..2, JudgeAnswers(award)
  PROVE  QuizInv'
<1> USE DEF pageVars, serverSide
<1>1. /\ stage = "grading"
      /\ UNCHANGED <<pageVars, stage, closure, serverSide, quizFaults, lostReplies>>
  BY DEF JudgeAnswers
<1>2. PICK q \in ToJudge :
        /\ awards' = [p \in DOMAIN awards \cup {q} |-> IF p = q THEN award ELSE awards[p]]
        /\ judged' = judged \cup {<<q, closure[q], award>>}
  BY DEF JudgeAnswers
<1>3. CountsInv'
  BY <1>1 DEF QuizInv, CountsInv, Recorded
<1>4. AwardsInv'
  <2>1. ASSUME NEW p \in DOMAIN awards'
        PROVE  closure[p] \notin Unanswered /\ <<p, closure[p], awards'[p]>> \in judged'
    <3>1. CASE p = q
      <4>1. awards'[p] = award
        BY <1>2, <3>1
      <4>2. closure[p] \notin Unanswered
        BY <3>1 DEF ToJudge
      <4>3. QED
        BY <1>2, <3>1, <4>1, <4>2
    <3>2. CASE p # q
      <4>1. p \in DOMAIN awards /\ awards'[p] = awards[p]
        BY <1>2, <2>1, <3>2
      <4>2. QED
        BY <1>2, <4>1 DEF QuizInv, AwardsInv
    <3>3. QED
      BY <3>1, <3>2
  <2>2. QED
    BY <1>1, <2>1 DEF AwardsInv, Submitted, Unanswered
<1>5. AttemptsInv'
  BY <1>1, <1>2, AttemptsLater DEF QuizInv
<1>6. MistakesInv'
  BY <1>1 DEF QuizInv, MistakesInv, Recorded
<1>7. QED
  BY <1>3, <1>4, <1>5, <1>6 DEF QuizInv

LEMMA QuizSubmitStep ==
  ASSUME QuizInv, SubmitAttempt
  PROVE  QuizInv'
<1> USE DEF SubmitAttempt, pageVars, serverSide
<1>1. CountsInv'
  BY DEF QuizInv, CountsInv, Recorded
<1>2. AwardsInv'
  BY DEF QuizInv, AwardsInv, ToJudge, Unanswered
<1>3. AttemptsInv'
  BY AttemptsLater DEF QuizInv
<1>4. MistakesInv'
  BY DEF QuizInv, MistakesInv, Recorded
<1>5. QED
  BY <1>1, <1>2, <1>3, <1>4 DEF QuizInv

(* After a fault nothing is claimed of the mistakes. *)
LEMMA FaultStep ==
  ASSUME QuizInv, AttemptFails \/ AttemptUnheard \/ MistakesNotUpdated
  PROVE  QuizInv'
<1> USE DEF AttemptFails, AttemptUnheard, MistakesNotUpdated, Fault, pageVars, serverSide
<1>1. quizFaults' = quizFaults + 1 /\ UNCHANGED <<closure, awards, attempts, mistakes, judged>>
  OBVIOUS
<1>2. CountsInv'
  <2>1. CASE AttemptFails
    BY <2>1 DEF QuizInv, CountsInv, Recorded
  <2>2. CASE AttemptUnheard
    BY <2>2 DEF QuizInv, CountsInv, Recorded
  <2>3. CASE MistakesNotUpdated
    BY <2>3 DEF QuizInv, CountsInv, Recorded
  <2>4. QED
    BY <2>1, <2>2, <2>3
<1>3. AwardsInv'
  BY DEF QuizInv, AwardsInv, Submitted, ToJudge, Unanswered
<1>4. AttemptsInv'
  BY <1>1, AttemptsLater DEF QuizInv
<1>5. MistakesInv'
  BY <1>1 DEF QuizInv, CountsInv, MistakesInv
<1>6. QED
  BY <1>2, <1>3, <1>4, <1>5 DEF QuizInv

(* The two changes of the mistakes. *)
LEMMA MistakesStep ==
  ASSUME QuizInv, AddMistakes \/ ClearMistakesExcept
  PROVE  QuizInv'
<1> USE DEF pageVars, serverSide
<1> DEFINE points == Marks(closure, awards)
<1>1. Submission.wrong = Wrong(points) /\ Wrong(points) \subseteq Questions
  BY DEF Submission, Wrong
<1>2. UNCHANGED <<review, closure, awards, attempts, judged, quizFaults, lostReplies>>
  BY DEF AddMistakes, ClearMistakesExcept
<1>3. stage \in {"adding", "clearing"} /\ stage' \in {"clearing", "recording"}
  BY DEF AddMistakes, ClearMistakesExcept
<1>4. CountsInv'
  BY <1>2, <1>3 DEF QuizInv, CountsInv, Recorded
<1>5. AwardsInv'
  BY <1>2, <1>3 DEF QuizInv, AwardsInv, Submitted, ToJudge, Unanswered
<1>6. AttemptsInv'
  BY <1>2, AttemptsLater DEF QuizInv
<1>7. MistakesInv'
  <2>1. Wrong(points)' = Wrong(points)
    BY <1>2 DEF Wrong, Marks, scoreQuestion, applyOpenAward, closedCorrect
  <2> HIDE DEF points
  <2>2. CASE AddMistakes /\ review
    BY <1>1, <1>2, <2>2 DEF AddMistakes, QuizInv, MistakesInv, Recorded
  <2>3. CASE AddMistakes /\ ~review
    <3>1. stage = "adding" /\ stage' = "recording" /\ mistakes' = mistakes \cup Wrong(points)
      BY <1>1, <2>3 DEF AddMistakes
    <3>2. quizFaults = 0 => mistakes = {}
      BY <2>3, <3>1 DEF QuizInv, MistakesInv
    <3>3. QED
      BY <1>2, <2>1, <3>1, <3>2 DEF MistakesInv, Recorded, points
  <2>4. CASE ClearMistakesExcept
    <3>1. stage = "clearing" /\ stage' = "recording" /\ mistakes' = mistakes \cap Wrong(points)
      BY <1>1, <2>4 DEF ClearMistakesExcept
    <3>2. quizFaults = 0 => mistakes = Questions
      BY <3>1 DEF QuizInv, MistakesInv
    <3>3. QED
      BY <1>1, <1>2, <2>1, <3>1, <3>2 DEF MistakesInv, Recorded, points
  <2>5. QED
    BY <2>2, <2>3, <2>4
<1>8. QED
  BY <1>4, <1>5, <1>6, <1>7 DEF QuizInv

LEMMA QuizRecordStep ==
  ASSUME QuizInv, CreateAttempt
  PROVE  QuizInv'
<1> USE DEF pageVars
<1>1. /\ stage = "recording" /\ stage' = "recorded"
      /\ attempts' = Append(attempts, Submission)
      /\ UNCHANGED <<review, closure, awards, mistakes, judged, quizFaults, lostReplies>>
  BY DEF CreateAttempt
<1>2. PICK n \in Nat : n = Len(attempts) /\ attempts = [i \in 1..n |-> attempts[i]]
  BY DEF QuizInv, AttemptsInv
<1>3. /\ Len(attempts') = n + 1
      /\ attempts' = [i \in 1..(n + 1) |-> attempts'[i]]
      /\ \A i \in 1..n : attempts'[i] = attempts[i]
      /\ attempts'[n + 1] = Submission
  <2> DEFINE S == {attempts[i] : i \in 1..n} \cup {Submission}
  <2>1. attempts \in Seq(S)
    BY <1>2
  <2>2. Submission \in S
    OBVIOUS
  <2> HIDE DEF S
  <2>3. QED
    BY <1>1, <1>2, <2>1, <2>2, AppendProperties
<1>4. CountsInv'
  BY <1>1, <1>2, <1>3 DEF QuizInv, CountsInv, Recorded
<1>5. AwardsInv'
  BY <1>1 DEF QuizInv, AwardsInv, Submitted, ToJudge, Unanswered
<1>6. AttemptsInv'
  <2>1. PointsFit(Submission)
    BY <1>1, SubmissionFits DEF QuizInv, AwardsInv, Submitted
  <2>2. ASSUME NEW i \in 1..(n + 1) PROVE PointsFit(attempts[i])'
    <3>1. PICK attempt : attempt = attempts'[i]
      OBVIOUS
    <3>2. i \in 1..n \/ i = n + 1
      BY <1>2
    <3>3. PointsFit(attempt)
      BY <1>2, <1>3, <2>1, <3>1, <3>2 DEF QuizInv, AttemptsInv
    <3>4. PointsFit(attempt)'
      BY <1>1, <3>3, FitsLater
    <3>5. QED
      BY <3>1, <3>4 DEF PointsFit
  <2>3. QED
    BY <1>3, <2>2 DEF AttemptsInv
<1>7. MistakesInv'
  <2>1. quizFaults = 0 => n = 0
    BY <1>1, <1>2 DEF QuizInv, CountsInv, Recorded
  <2>2. quizFaults = 0 => attempts'[1].points = Marks(closure, awards)
    BY <1>3, <2>1 DEF Submission
  <2>3. \A points : Wrong(points)' = Wrong(points)
    BY DEF Wrong
  <2>4. QED
    BY <1>1, <2>2 DEF QuizInv, MistakesInv, Recorded, Wrong
<1>8. QED
  BY <1>4, <1>5, <1>6, <1>7 DEF QuizInv

LEMMA QuizAnsweredStep ==
  ASSUME QuizInv, AttemptAnswered
  PROVE  QuizInv'
<1> USE DEF AttemptAnswered, pageVars, serverSide
<1>1. CountsInv'
  BY DEF QuizInv, CountsInv, Recorded
<1>2. AwardsInv'
  BY DEF QuizInv, AwardsInv, Submitted, ToJudge, Unanswered
<1>3. AttemptsInv'
  BY AttemptsLater DEF QuizInv
<1>4. MistakesInv'
  BY DEF QuizInv, MistakesInv, Recorded, Wrong
<1>5. QED
  BY <1>1, <1>2, <1>3, <1>4 DEF QuizInv

LEMMA QuizStep == QuizInv /\ [QuizNext]_quizVars => QuizInv'
<1> SUFFICES ASSUME QuizInv, [QuizNext]_quizVars PROVE QuizInv'
  OBVIOUS
<1>1. CASE \E answer \in AnswersTo(idx) : AnswerQuestion(answer)
  BY <1>1, PageKeeps DEF AnswerQuestion
<1>2. CASE \E q \in Questions : ShowQuestion(q)
  BY <1>2, PageKeeps DEF ShowQuestion
<1>3. CASE LeaveQuiz
  BY <1>3, PageKeeps DEF LeaveQuiz
<1>4. CASE finish
  BY <1>4, QuizFinishStep
<1>5. CASE \E award \in 0..2 : JudgeAnswers(award)
  BY <1>5, JudgeStep
<1>6. CASE SubmitAttempt
  BY <1>6, QuizSubmitStep
<1>7. CASE AttemptFails \/ AttemptUnheard \/ MistakesNotUpdated
  BY <1>7, FaultStep
<1>8. CASE AttemptAnswered
  BY <1>8, QuizAnsweredStep
<1>9. CASE AddMistakes \/ ClearMistakesExcept
  BY <1>9, MistakesStep
<1>10. CASE CreateAttempt
  BY <1>10, QuizRecordStep
<1>11. CASE UNCHANGED quizVars
  BY <1>11, PageKeeps DEF quizVars, serverSide
<1>12. QED
  BY <1>1, <1>2, <1>3, <1>4, <1>5, <1>6, <1>7, <1>8, <1>9, <1>10, <1>11 DEF QuizNext

LEMMA QuizInvSuffices == QuizInv => AttemptsAsMarked
<1> SUFFICES ASSUME QuizInv PROVE AttemptsAsMarked
  OBVIOUS
<1>1. \A n \in DOMAIN attempts : PointsFit(attempts[n])
  BY DEF QuizInv, AttemptsInv
<1>2. QED
  BY <1>1 DEF QuizInv, CountsInv, MistakesInv, Recorded, AttemptsAsMarked

(* A recorded attempt has the points of the very answers it holds, no      *)
(* visit records two but for lost replies, and without faults the mistakes *)
(* end as those of the attempt: for every quiz, judge and order of steps.  *)
THEOREM MarkedAsAnswered == QuizSpec => []AttemptsAsMarked
<1>1. QuizSpec => []QuizInv
  BY QuizStarts, QuizStep, PTL DEF QuizSpec
<1>2. QED
  BY <1>1, QuizInvSuffices, PTL

(***************************************************************************)
(* Types: what is answered to a question is an answer to that question.    *)
(***************************************************************************)
Fitting == {given \in Given : \A q \in Questions : given[q] \in AnswersTo(q) \cup {"none"}}

QuizTypesInv == QuizTypeOK /\ answers \in Fitting /\ closure \in Fitting

LEMMA QuizTypesStart == QuizInit => QuizTypesInv
<1> SUFFICES ASSUME QuizInit PROVE QuizTypesInv
  OBVIOUS
<1>1. answers \in Fitting /\ closure \in Fitting
  <2>1. answers = [q \in Questions |-> "none"] /\ closure = answers
    BY DEF QuizInit
  <2>2. answers \in Given /\ \A q \in Questions : answers[q] = "none"
    BY <2>1 DEF Given
  <2>3. QED
    BY <2>1, <2>2 DEF Fitting
<1>2. /\ answers \in Given /\ closure \in Given /\ stage \in Stages
      /\ DOMAIN awards \subseteq Open /\ \A q \in DOMAIN awards : awards[q] \in 0..2
  BY <1>1 DEF QuizInit, Fitting, Stages
<1>3. mistakes \subseteq Questions /\ \A n \in DOMAIN attempts : attempts[n].answers \in Given
  BY DEF QuizInit
<1>4. /\ review \in BOOLEAN /\ left \in BOOLEAN /\ idx \in Questions
      /\ judged \subseteq Open \X Texts \X (0..2)
      /\ quizFaults \in 0..QuizFaults /\ lostReplies \in 0..quizFaults
  <2>1. review \in BOOLEAN /\ left = FALSE /\ idx \in Questions /\ judged = {}
    BY DEF QuizInit
  <2>2. quizFaults = 0 /\ lostReplies = 0 /\ QuizFaults \in Nat
    BY QuizAssumption DEF QuizInit
  <2>3. quizFaults \in 0..QuizFaults /\ lostReplies \in 0..quizFaults
    BY <2>2
  <2>4. judged \subseteq Open \X Texts \X (0..2)
    BY <2>1
  <2>5. QED
    BY <2>1, <2>3, <2>4
<1>5. QED
  BY <1>1, <1>2, <1>3, <1>4 DEF QuizTypesInv, QuizTypeOK

LEMMA JudgeTypes ==
  ASSUME QuizTypesInv, NEW award \in 0..2, JudgeAnswers(award)
  PROVE  QuizTypesInv'
<1> USE DEF pageVars, serverSide
<1>1. UNCHANGED <<review, left, idx, answers, stage, closure, attempts, mistakes, quizFaults, lostReplies>>
  BY DEF JudgeAnswers
<1>2. PICK q \in ToJudge :
        /\ awards' = [p \in DOMAIN awards \cup {q} |-> IF p = q THEN award ELSE awards[p]]
        /\ judged' = judged \cup {<<q, closure[q], award>>}
  BY DEF JudgeAnswers
<1>3. q \in Open /\ q \in Questions /\ closure[q] \notin Unanswered
  BY QuizAssumption DEF ToJudge
<1>4. closure[q] \in Texts
  BY <1>3 DEF QuizTypesInv, Fitting, AnswersTo, Unanswered
<1>5. judged' \subseteq Open \X Texts \X (0..2)
  BY <1>2, <1>3, <1>4 DEF QuizTypesInv, QuizTypeOK
<1>6. DOMAIN awards' \subseteq Open /\ \A p \in DOMAIN awards' : awards'[p] \in 0..2
  BY <1>2, <1>3 DEF QuizTypesInv, QuizTypeOK
<1>7. QED
  BY <1>1, <1>5, <1>6 DEF QuizTypesInv, QuizTypeOK, Fitting

LEMMA RecordTypes ==
  ASSUME QuizInv, QuizTypesInv, CreateAttempt
  PROVE  QuizTypesInv'
<1> USE DEF pageVars
<1>1. /\ stage' = "recorded" /\ attempts' = Append(attempts, Submission)
      /\ UNCHANGED <<review, left, idx, answers, closure, awards, mistakes, judged, quizFaults, lostReplies>>
  BY DEF CreateAttempt
<1>2. PICK n \in Nat : n = Len(attempts) /\ attempts = [i \in 1..n |-> attempts[i]]
  BY DEF QuizInv, AttemptsInv
<1>3. /\ DOMAIN attempts' = 1..(n + 1)
      /\ \A i \in 1..n : attempts'[i] = attempts[i]
      /\ attempts'[n + 1] = Submission
  <2> DEFINE S == {attempts[i] : i \in 1..n} \cup {Submission}
  <2>1. attempts \in Seq(S)
    BY <1>2
  <2>2. Submission \in S
    OBVIOUS
  <2> HIDE DEF S
  <2>3. QED
    BY <1>1, <1>2, <2>1, <2>2, AppendProperties, LenProperties
<1>4. Submission.answers \in Given
  BY DEF Submission, QuizTypesInv, QuizTypeOK
<1>5. \A i \in DOMAIN attempts' : attempts'[i].answers \in Given
  <2>1. \A i \in 1..n : attempts[i].answers \in Given
    BY <1>2 DEF QuizTypesInv, QuizTypeOK
  <2>2. \A i \in DOMAIN attempts' : i \in 1..n \/ i = n + 1
    BY <1>2, <1>3
  <2>3. QED
    BY <1>3, <1>4, <2>1, <2>2
<1>6. QED
  BY <1>1, <1>5 DEF QuizTypesInv, QuizTypeOK, Stages, Fitting

LEMMA QuizTypesStep == QuizInv /\ QuizTypesInv /\ [QuizNext]_quizVars => QuizTypesInv'
<1> SUFFICES ASSUME QuizInv, QuizTypesInv, [QuizNext]_quizVars PROVE QuizTypesInv'
  OBVIOUS
<1> USE DEF pageVars, serverSide
<1>1. CASE \E answer \in AnswersTo(idx) : AnswerQuestion(answer)
  <2>1. PICK answer \in AnswersTo(idx) : AnswerQuestion(answer)
    BY <1>1
  <2>2. idx \in Questions /\ answers \in Fitting
    BY DEF QuizTypesInv, QuizTypeOK
  <2>3. answers' = [answers EXCEPT ![idx] = answer]
    BY <2>1 DEF AnswerQuestion
  <2>4. answers' \in Given
    BY <2>2, <2>3 DEF Fitting, Given
  <2>5. \A q \in Questions : answers'[q] \in AnswersTo(q) \cup {"none"}
    BY <2>2, <2>3 DEF Fitting, Given
  <2>6. QED
    BY <2>1, <2>4, <2>5 DEF AnswerQuestion, QuizTypesInv, QuizTypeOK, Fitting
<1>2. CASE \E q \in Questions : ShowQuestion(q)
  BY <1>2 DEF ShowQuestion, QuizTypesInv, QuizTypeOK, Fitting
<1>3. CASE LeaveQuiz
  BY <1>3 DEF LeaveQuiz, QuizTypesInv, QuizTypeOK, Fitting
<1>4. CASE finish
  BY <1>4 DEF finish, QuizTypesInv, QuizTypeOK, Fitting, Stages
<1>5. CASE \E award \in 0..2 : JudgeAnswers(award)
  BY <1>5, JudgeTypes
<1>6. CASE SubmitAttempt \/ AttemptAnswered
  BY <1>6 DEF SubmitAttempt, AttemptAnswered, QuizTypesInv, QuizTypeOK, Fitting, Stages
<1>7. CASE AttemptFails \/ AttemptUnheard \/ MistakesNotUpdated
  <2>1. /\ quizFaults < QuizFaults /\ quizFaults' = quizFaults + 1 /\ stage' \in Stages
        /\ lostReplies' \in {lostReplies, lostReplies + 1}
        /\ UNCHANGED <<pageVars, closure, awards, attempts, mistakes, judged>>
    BY <1>7 DEF AttemptFails, AttemptUnheard, MistakesNotUpdated, Fault, Stages
  <2>2. quizFaults \in 0..QuizFaults /\ lostReplies \in 0..quizFaults
    BY DEF QuizTypesInv, QuizTypeOK
  <2>3. quizFaults' \in 0..QuizFaults /\ lostReplies' \in 0..quizFaults'
    BY <2>1, <2>2, QuizAssumption
  <2>4. QED
    BY <2>1, <2>3 DEF QuizTypesInv, QuizTypeOK, Fitting
<1>8. CASE AddMistakes \/ ClearMistakesExcept
  <2>1. Submission.wrong \subseteq Questions
    BY DEF Submission, Wrong
  <2>2. /\ stage' \in Stages
        /\ mistakes' = mistakes \cup Submission.wrong \/ mistakes' = mistakes \cap Submission.wrong
        /\ UNCHANGED <<pageVars, closure, awards, attempts, judged, quizFaults, lostReplies>>
    BY <1>8 DEF AddMistakes, ClearMistakesExcept, Stages
  <2>3. mistakes' \subseteq Questions
    BY <2>1, <2>2 DEF QuizTypesInv, QuizTypeOK
  <2>4. QED
    BY <2>2, <2>3 DEF QuizTypesInv, QuizTypeOK, Fitting
<1>9. CASE CreateAttempt
  BY <1>9, RecordTypes
<1>10. CASE UNCHANGED quizVars
  BY <1>10 DEF quizVars, QuizTypesInv, QuizTypeOK, Fitting
<1>11. QED
  BY <1>1, <1>2, <1>3, <1>4, <1>5, <1>6, <1>7, <1>8, <1>9, <1>10 DEF QuizNext

(***************************************************************************)
(* The bell: its types.  A fetch that was answered has an answer.          *)
(***************************************************************************)
FeedTypesInv ==
  /\ FeedTypeOK
  /\ feedFetch.state = "read" => feedFetch.got # {}
  /\ badgeFetch.state = "read" => badgeFetch.got # {}

(* Fetches of a query with values in D. *)
LEMMA FetchesAre ==
  ASSUME NEW D
  PROVE  /\ NoFetch \in Fetches(D) /\ NoFetch.state = "none"
         /\ Asked \in Fetches(D) /\ Asked.state = "asked"
         /\ \A d \in D : Got(d) \in Fetches(D) /\ Got(d).got # {}
         /\ \A f \in Fetches(D) : f.got # {} => Answer(f) \in D
         /\ \A f \in Fetches(D), loaded \in BOOLEAN : Restart(loaded, f) \in {f, Asked}
BY DEF NoFetch, Asked, Got, Fetches, Answer, Restart

LEMMA UnreadCounted ==
  ASSUME NEW S \in SUBSET Notices
  PROVE  Cardinality(S) \in Nat
BY FeedAssumption, FS_Subset, FS_CardinalityType

(* What is patched into the rows and the count. *)
LEMMA RefetchTypes ==
  ASSUME FeedTypesInv
  PROVE  /\ RefetchFeed => /\ feedFetch' \in Fetches(Shown)
                           /\ feedFetch'.state = "read" => feedFetch'.got # {}
         /\ RefetchBadge => /\ badgeFetch' \in Fetches(Nat)
                            /\ badgeFetch'.state = "read" => badgeFetch'.got # {}
<1>1. feed.loaded \in BOOLEAN /\ feedFetch \in Fetches(Shown) /\ badge.loaded \in BOOLEAN /\ badgeFetch \in Fetches(Nat)
  BY DEF FeedTypesInv, FeedTypeOK
<1>2. Restart(feed.loaded, feedFetch) \in {feedFetch, Asked} /\ Restart(badge.loaded, badgeFetch) \in {badgeFetch, Asked}
  BY <1>1, FetchesAre
<1>3. Asked \in Fetches(Shown) /\ Asked \in Fetches(Nat) /\ Asked.state # "read"
  BY FetchesAre
<1>4. QED
  BY <1>1, <1>2, <1>3 DEF RefetchFeed, RefetchBadge, FeedTypesInv

CachedTypes ==
  /\ feed \in [loaded : BOOLEAN, rows : Shown] /\ feedFetch \in Fetches(Shown)
  /\ badge \in [loaded : BOOLEAN, count : Nat] /\ badgeFetch \in Fetches(Nat)
  /\ feedFetch.state = "read" => feedFetch.got # {}
  /\ badgeFetch.state = "read" => badgeFetch.got # {}

LEMMA RewriteTypes ==
  ASSUME FeedTypesInv, NEW rows \in Shown, Rewrite(rows)
  PROVE  /\ feed' \in [loaded : BOOLEAN, rows : Shown] /\ feedFetch' \in Fetches(Shown)
         /\ feedFetch'.state = "read" => feedFetch'.got # {}
<1>1. feed \in [loaded : BOOLEAN, rows : Shown]
  BY DEF FeedTypesInv, FeedTypeOK
<1>2. CASE feed.loaded
  <2>1. feed' = [feed EXCEPT !.rows = rows] /\ UNCHANGED feedFetch
    BY <1>2 DEF Rewrite
  <2>2. QED
    BY <1>1, <2>1 DEF FeedTypesInv, FeedTypeOK
<1>3. CASE ~feed.loaded
  <2>1. RefetchFeed /\ UNCHANGED feed
    BY <1>3 DEF Rewrite
  <2>2. QED
    BY <1>1, <2>1, RefetchTypes
<1>4. QED
  BY <1>2, <1>3

LEMMA RecountTypes ==
  ASSUME FeedTypesInv, Recount
  PROVE  /\ badge' \in [loaded : BOOLEAN, count : Nat] /\ badgeFetch' \in Fetches(Nat)
         /\ badgeFetch'.state = "read" => badgeFetch'.got # {}
BY RefetchTypes DEF Recount, FeedTypesInv, FeedTypeOK

LEMMA PatchTypes ==
  ASSUME FeedTypesInv, NEW ids \in SUBSET Notices, Created(ids) \/ Removed(ids) \/ MarkedRead(ids)
  PROVE  CachedTypes'
<1>1. feed.rows.unread \in SUBSET Notices /\ feed.rows.read \in SUBSET Notices
  BY DEF FeedTypesInv, FeedTypeOK, Shown
<1>2. CASE Created(ids)
  <2> DEFINE rows == [unread |-> feed.rows.unread \cup ids, read |-> feed.rows.read \ ids]
  <2>1. rows \in Shown
    BY <1>1 DEF Shown
  <2>2. Rewrite(rows)
    BY <1>2 DEF Created
  <2>3. \/ UNCHANGED <<badge, badgeFetch>>
        \/ badge' = [badge EXCEPT !.count = @ + 1] /\ UNCHANGED badgeFetch
        \/ Recount
    BY <1>2 DEF Created
  <2> HIDE DEF rows
  <2>4. /\ badge' \in [loaded : BOOLEAN, count : Nat] /\ badgeFetch' \in Fetches(Nat)
        /\ badgeFetch'.state = "read" => badgeFetch'.got # {}
    BY <2>3, RecountTypes DEF FeedTypesInv, FeedTypeOK
  <2>5. QED
    BY <2>1, <2>2, <2>4, RewriteTypes DEF CachedTypes
<1>3. CASE Removed(ids) \/ MarkedRead(ids)
  <2>1. PICK rows \in Shown : Rewrite(rows) /\ Recount
    <3>1. CASE Removed(ids)
      <4>1. [unread |-> feed.rows.unread \ ids, read |-> feed.rows.read \ ids] \in Shown
        BY <1>1 DEF Shown
      <4>2. QED
        BY <3>1, <4>1 DEF Removed
    <3>2. CASE MarkedRead(ids)
      <4>1. [unread |-> feed.rows.unread \ ids,
             read |-> feed.rows.read \cup (feed.rows.unread \cap ids)] \in Shown
        BY <1>1 DEF Shown
      <4>2. QED
        BY <3>2, <4>1 DEF MarkedRead
    <3>3. QED
      BY <1>3, <3>1, <3>2
  <2>2. QED
    BY <2>1, RewriteTypes, RecountTypes DEF CachedTypes
<1>4. QED
  BY <1>2, <1>3

LEMMA FeedTypesStart == FeedInit => FeedTypesInv
<1> SUFFICES ASSUME FeedInit PROVE FeedTypesInv
  OBVIOUS
<1>1. /\ outbox = {} /\ pipe = {} /\ acts = 0 /\ faults = 0
      /\ stream = [state |-> "connecting", polls |-> FALSE]
      /\ feed = [loaded |-> FALSE, rows |-> [unread |-> {}, read |-> {}]] /\ feedFetch = Asked
      /\ badge = [loaded |-> FALSE, count |-> 0] /\ badgeFetch = Asked
      /\ mark = [state |-> "idle", ids |-> {}, all |-> FALSE]
  BY DEF FeedInit
<1>2. box \in [Notices -> {"none", "unread", "read", "gone"}]
  BY DEF FeedInit
<1>3. feed \in [loaded : BOOLEAN, rows : Shown] /\ badge \in [loaded : BOOLEAN, count : Nat]
  BY <1>1 DEF Shown
<1>4. /\ stream \in [state : {"connecting", "subscribed", "connected", "disconnected"}, polls : BOOLEAN]
      /\ mark \in [state : {"idle", "sent", "committed", "over"}, ids : SUBSET Notices, all : BOOLEAN]
  BY <1>1
<1>5. acts \in 0..FeedActs /\ faults \in 0..FeedFaults
  BY <1>1, FeedAssumption
<1>6. QED
  BY <1>1, <1>2, <1>3, <1>4, <1>5, FetchesAre DEF FeedTypesInv, FeedTypeOK

ServerTypes ==
  /\ box \in [Notices -> {"none", "unread", "read", "gone"}]
  /\ outbox \subseteq Events /\ pipe \subseteq Events
  /\ stream \in [state : {"connecting", "subscribed", "connected", "disconnected"}, polls : BOOLEAN]
  /\ mark \in [state : {"idle", "sent", "committed", "over"}, ids : SUBSET Notices, all : BOOLEAN]
  /\ acts \in 0..FeedActs /\ faults \in 0..FeedFaults

LEMMA TwoHalves == FeedTypesInv <=> CachedTypes /\ ServerTypes
BY DEF FeedTypesInv, FeedTypeOK, CachedTypes, ServerTypes

LEMMA FeedTypesStep == FeedTypesInv /\ [FeedNext]_feedVars => FeedTypesInv'
<1> SUFFICES ASSUME FeedTypesInv, [FeedNext]_feedVars PROVE (CachedTypes /\ ServerTypes)'
  BY DEF FeedTypesInv, FeedTypeOK, CachedTypes, ServerTypes
<1> USE DEF serverVars, cachedVars
<1>1. CachedTypes /\ ServerTypes
  BY TwoHalves
<1>2. UNCHANGED cachedVars => CachedTypes'
  BY <1>1 DEF CachedTypes
<1>3. acts < FeedActs /\ acts' = acts + 1 => acts' \in 0..FeedActs
  BY <1>1, FeedAssumption DEF ServerTypes
<1>4. faults < FeedFaults /\ faults' = faults + 1 => faults' \in 0..FeedFaults
  BY <1>1, FeedAssumption DEF ServerTypes
<1>5. ASSUME NEW n \in Notices, Notify(n) \/ ReadElsewhere(n) \/ Withdraw(n) PROVE (CachedTypes /\ ServerTypes)'
  <2>1. PICK from \in SUBSET {"none", "unread", "read"}, to \in {"unread", "read", "gone"},
             type \in {"created", "removed", "read"} : Change(n, from, to, type)
    BY <1>5 DEF Notify, ReadElsewhere, Withdraw
  <2>2. Event(type, {n}) \in Events
    BY DEF Event, Events
  <2>3. /\ acts < FeedActs /\ acts' = acts + 1 /\ box' = [box EXCEPT ![n] = to]
        /\ outbox' = outbox \cup {Event(type, {n})} /\ UNCHANGED <<pipe, stream, cachedVars, mark, faults>>
    BY <2>1 DEF Change
  <2>4. QED
    BY <1>1, <1>2, <1>3, <2>2, <2>3 DEF ServerTypes
<1>6. ASSUME NEW e \in outbox, Publish(e) \/ Unpublished(e) PROVE (CachedTypes /\ ServerTypes)'
  <2>1. /\ outbox' \subseteq outbox /\ pipe' \subseteq pipe \cup outbox
        /\ UNCHANGED <<box, stream, cachedVars, mark, acts, faults>>
    BY <1>6 DEF Publish, Unpublished
  <2>2. QED
    BY <1>1, <1>2, <2>1 DEF ServerTypes
<1>7. ASSUME NEW e \in pipe, Hear(e) PROVE (CachedTypes /\ ServerTypes)'
  <2>1. pipe' = pipe \ {e} /\ applyNotificationEvent(e) /\ UNCHANGED <<serverVars, stream, mark, acts, faults>>
    BY <1>7 DEF Hear
  <2>2. e.ids \in SUBSET Notices
    BY <1>1 DEF ServerTypes, Events
  <2>3. CachedTypes'
    BY <2>1, <2>2, PatchTypes DEF applyNotificationEvent
  <2>4. QED
    BY <1>1, <2>1, <2>3 DEF ServerTypes
<1>8. CASE FeedRead
  <2>1. feedFetch' = Got(Rows) /\ UNCHANGED <<serverVars, pipe, stream, feed, badge, badgeFetch, mark, acts, faults>>
    BY <1>8 DEF FeedRead
  <2>2. Rows \in Shown
    BY DEF Rows, Shown, Notified
  <2>3. QED
    BY <1>1, <2>1, <2>2, FetchesAre DEF CachedTypes, ServerTypes
<1>9. CASE FeedLand
  <2>1. /\ feedFetch.state = "read" /\ feedFetch' = NoFetch /\ feed' = [loaded |-> TRUE, rows |-> Answer(feedFetch)]
        /\ UNCHANGED <<serverVars, pipe, stream, badge, badgeFetch, mark, acts, faults>>
    BY <1>9 DEF FeedLand
  <2>2. Answer(feedFetch) \in Shown
    BY <1>1, <2>1, FetchesAre DEF CachedTypes
  <2>3. feed' \in [loaded : BOOLEAN, rows : Shown]
    BY <2>1, <2>2
  <2>4. QED
    BY <1>1, <2>1, <2>3, FetchesAre DEF CachedTypes, ServerTypes
<1>10. CASE BadgeRead
  <2>1. /\ badgeFetch' = Got(Cardinality(Notified("unread")))
        /\ UNCHANGED <<serverVars, pipe, stream, feed, feedFetch, badge, mark, acts, faults>>
    BY <1>10 DEF BadgeRead
  <2>2. Cardinality(Notified("unread")) \in Nat
    BY UnreadCounted DEF Notified
  <2>3. QED
    BY <1>1, <2>1, <2>2, FetchesAre DEF CachedTypes, ServerTypes
<1>11. CASE BadgeLand
  <2>1. /\ badgeFetch.state = "read" /\ badgeFetch' = NoFetch
        /\ badge' = [loaded |-> TRUE, count |-> Answer(badgeFetch)]
        /\ UNCHANGED <<serverVars, pipe, stream, feed, feedFetch, mark, acts, faults>>
    BY <1>11 DEF BadgeLand
  <2>2. Answer(badgeFetch) \in Nat
    BY <1>1, <2>1, FetchesAre DEF CachedTypes
  <2>3. badge' \in [loaded : BOOLEAN, count : Nat]
    BY <2>1, <2>2
  <2>4. QED
    BY <1>1, <2>1, <2>3, FetchesAre DEF CachedTypes, ServerTypes
<1>12. CASE FetchesFail
  <2>1. /\ faults < FeedFaults /\ faults' = faults + 1 /\ feedFetch' = NoFetch /\ badgeFetch' = NoFetch
        /\ UNCHANGED <<serverVars, pipe, stream, feed, badge, mark, acts>>
    BY <1>12 DEF FetchesFail
  <2>2. QED
    BY <1>1, <1>4, <2>1, FetchesAre DEF CachedTypes, ServerTypes
<1>13. CASE Subscribe \/ StreamEnds \/ ConnectFails \/ Reconnect
  <2>1. PICK state \in {"connecting", "subscribed", "disconnected"}, polls \in BOOLEAN :
          stream' = [state |-> state, polls |-> polls]
    <3>1. CASE Subscribe \/ Reconnect
      <4>1. PICK state \in {"connecting", "subscribed"} : stream' = [stream EXCEPT !.state = state]
        BY <3>1 DEF Subscribe, Reconnect
      <4>2. stream' = [state |-> state, polls |-> stream.polls] /\ stream.polls \in BOOLEAN
        BY <1>1, <4>1 DEF ServerTypes
      <4>3. QED
        BY <4>2
    <3>2. CASE StreamEnds \/ ConnectFails
      BY <3>2 DEF StreamEnds, ConnectFails, Down
    <3>3. QED
      BY <1>13, <3>1, <3>2
  <2>2. stream' \in [state : {"connecting", "subscribed", "connected", "disconnected"}, polls : BOOLEAN]
    BY <2>1
  <2>3. pipe' = pipe \/ pipe' = {}
    BY <1>13 DEF Subscribe, StreamEnds, ConnectFails, Reconnect
  <2>4. /\ UNCHANGED <<serverVars, cachedVars, mark, acts>>
        /\ UNCHANGED faults \/ (faults < FeedFaults /\ faults' = faults + 1)
    BY <1>13 DEF Subscribe, StreamEnds, ConnectFails, Reconnect
  <2>5. QED
    BY <1>1, <1>2, <1>4, <2>2, <2>3, <2>4 DEF ServerTypes
<1>14. CASE markConnected \/ Poll
  <2>1. /\ RefetchFeed /\ RefetchBadge /\ UNCHANGED <<feed, badge>>
        /\ stream' \in {stream, [state |-> "connected", polls |-> FALSE]}
        /\ UNCHANGED <<serverVars, pipe, mark, acts, faults>>
    BY <1>14 DEF markConnected, Poll, reconcile
  <2>2. CachedTypes'
    BY <1>1, <2>1, RefetchTypes DEF CachedTypes
  <2>3. stream' \in [state : {"connecting", "subscribed", "connected", "disconnected"}, polls : BOOLEAN]
    <3>1. stream \in [state : {"connecting", "subscribed", "connected", "disconnected"}, polls : BOOLEAN]
      BY <1>1 DEF ServerTypes
    <3>2. CASE stream' = stream
      BY <3>1, <3>2
    <3>3. CASE stream' = [state |-> "connected", polls |-> FALSE]
      BY <3>3
    <3>4. QED
      BY <2>1, <3>2, <3>3
  <2>4. ServerTypes'
    BY <1>1, <2>1, <2>3 DEF ServerTypes
  <2>5. QED
    BY <2>2, <2>4
<1>15. CASE MarkAll \/ MarkFails \/ \E n \in Notices : MarkOne(n)
  <2> DEFINE Requests == [state : {"idle", "sent", "committed", "over"}, ids : SUBSET Notices, all : BOOLEAN]
  <2>1. mark' \in Requests
    <3>1. CASE MarkAll
      BY <3>1 DEF MarkAll
    <3>2. CASE MarkFails
      <4>1. mark' = [mark EXCEPT !.state = "over"] /\ mark \in Requests
        BY <1>1, <3>2 DEF MarkFails, ServerTypes
      <4>2. QED
        BY <4>1
    <3>3. CASE \E n \in Notices : MarkOne(n)
      BY <3>3 DEF MarkOne
    <3>4. QED
      BY <1>15, <3>1, <3>2, <3>3
  <2>2. /\ UNCHANGED <<serverVars, pipe, stream, cachedVars, faults>>
        /\ UNCHANGED acts \/ (acts < FeedActs /\ acts' = acts + 1)
    BY <1>15 DEF MarkAll, MarkFails, MarkOne
  <2>3. acts' \in 0..FeedActs
    BY <1>1, <1>3, <2>2 DEF ServerTypes
  <2>4. CachedTypes'
    BY <1>2, <2>2
  <2>5. QED
    BY <1>1, <2>1, <2>2, <2>3, <2>4 DEF ServerTypes
<1>16. CASE MarkCommit
  <2> DEFINE changed == mark.ids \cap Notified("unread")
  <2>1. /\ box' = [n \in Notices |-> IF n \in changed THEN "read" ELSE box[n]]
        /\ outbox' = outbox \cup IF changed = {} THEN {} ELSE {Event("read", changed)}
        /\ mark' = [mark EXCEPT !.state = "committed"]
        /\ UNCHANGED <<pipe, stream, cachedVars, acts, faults>>
    BY <1>16 DEF MarkCommit
  <2>2. Event("read", changed) \in Events
    BY DEF Event, Events, Notified
  <2> HIDE DEF changed
  <2>3. box' \in [Notices -> {"none", "unread", "read", "gone"}]
    BY <1>1, <2>1 DEF ServerTypes
  <2>4. outbox' \subseteq Events
    BY <1>1, <2>1, <2>2 DEF ServerTypes
  <2>5. QED
    BY <1>1, <1>2, <2>1, <2>3, <2>4 DEF ServerTypes
<1>17. CASE MarkAnswered
  <2> DEFINE ids == IF mark.all THEN feed.rows.unread \cup feed.rows.read ELSE mark.ids
  <2>1. mark' = [mark EXCEPT !.state = "over"] /\ MarkedRead(ids) /\ UNCHANGED <<serverVars, pipe, stream, acts, faults>>
    BY <1>17 DEF MarkAnswered
  <2>2. ids \in SUBSET Notices
    BY <1>1 DEF CachedTypes, ServerTypes, Shown
  <2> HIDE DEF ids
  <2>3. CachedTypes'
    BY <2>1, <2>2, PatchTypes
  <2>4. QED
    BY <1>1, <2>1, <2>3 DEF ServerTypes
<1>18. CASE UNCHANGED feedVars
  BY <1>1, <1>2, <1>18 DEF feedVars, ServerTypes
<1>19. QED
  BY <1>5, <1>6, <1>7, <1>8, <1>9, <1>10, <1>11, <1>12, <1>13, <1>14, <1>15, <1>16, <1>17, <1>18 DEF FeedNext

(* What is on the wire: a start, tokens, and what ended the answer.        *)
WireHas(s, k, e) ==
  /\ s \in 0..1 /\ k \in Nat /\ e \in 0..2
  /\ Len(wire) = s + k + e
  /\ \A i \in 1..Len(wire) :
       wire[i] = IF i <= s THEN "start" ELSE IF i <= s + k THEN "token" ELSE served[turns]

(* What b shows and what is under way to it is what was relayed; a fetched *)
(* bubble may get all of it again.                                         *)
Awaited(b, k) ==
  /\ ~b.fetched /\ link # "broken" => b.content + k = said[turns]
  /\ b.fetched => b.content + k <= Tokens + said[turns]

(* How far the gateway, the wire and the panel are with the answer.        *)
Progress(s, k, e) ==
  /\ k <= said[turns]
  /\ s = 1 => ~current
  /\ link # "closed" => e = 0 /\ ~terminal
  /\ link = "open" => /\ served[turns] \in {"asked", "streaming"}
                      /\ served[turns] = "streaming" => current \/ s = 1
  /\ served[turns] = "asked" => s = 0 /\ k = 0 /\ said[turns] = 0 /\ ~current
  /\ link = "closed" =>
       /\ served[turns] \in {"refused", "complete", "error"}
       /\ served[turns] = "refused" => s = 0 /\ k = 0 /\ e = 0 /\ ~terminal
       /\ served[turns] # "refused" => (current \/ s = 1) /\ (terminal \/ e > 0)
       /\ terminal => s = 0 /\ k = 0

Streams(s, k, e) ==
  /\ WireHas(s, k, e) /\ Progress(s, k, e)
  /\ \A b \in bubbles : b.turn = turns => Awaited(b, k)

LinkInv ==
  /\ ~streaming => link = "closed" /\ ~halted /\ ~terminal /\ ~current
  /\ ~streaming \/ halted \/ link = "broken" => wire = <<>>
  /\ streaming => turns >= 1
  /\ streaming /\ ~halted => \E s, k, e : Streams(s, k, e)

BubbleFits(b) ==
  /\ b.turn <= turns /\ (b.fetched => b.row)
  /\ ~b.fetched =>
       /\ b.content <= said[b.turn]
       /\ b.turn = turns /\ streaming =>
            b.row = current /\ (b.status = "streaming" <=> ~terminal)
       /\ b.status = "streaming" => b.turn = turns /\ streaming
       /\ b.status = "complete" => served[b.turn] = "complete" /\ b.content = said[b.turn]

BubblesInv == \A b \in bubbles : BubbleFits(b)

HistoryInv ==
  \A c \in Turn : \A b \in history[c].rows :
    b.fetched /\ b.row /\ b.turn <= turns /\ b.content <= said[b.turn]

ServedInv ==
  \A t \in Turn : /\ t > turns => served[t] = "none"
                  /\ served[t] \in {"none", "asked"} => said[t] = 0

ChatInv == ChatTypeOK /\ LinkInv /\ BubblesInv /\ HistoryInv /\ ServedInv

(* The types, one by one, as numbers. *)
LEMMA ChatTypes ==
  ASSUME ChatTypeOK
  PROVE  /\ turns \in Nat /\ Turns \in Nat /\ Tokens \in Nat /\ turns <= Turns
         /\ \A t \in Turn : /\ t \in Nat /\ t >= 1 /\ t <= Turns
                            /\ served[t] \in Status \cup {"none", "asked", "refused"}
                            /\ conv[t] \in 0..Turns
                            /\ said[t] \in Nat /\ said[t] <= Tokens
         /\ \A b \in bubbles : /\ b \in Bubble /\ b.turn \in Turn /\ b.turn \in Nat
                               /\ b.content \in Nat /\ b.content <= 2 * Tokens
                               /\ b.row \in BOOLEAN /\ b.fetched \in BOOLEAN
         /\ turns >= 1 => turns \in Turn
         /\ wire \in Seq({"start", "token"} \cup Ends) /\ Len(wire) \in Nat
<1>1. /\ turns \in Nat /\ Turns \in Nat /\ Tokens \in Nat /\ turns <= Turns
      /\ wire \in Seq({"start", "token"} \cup Ends) /\ Len(wire) \in Nat
  BY ChatAssumption DEF ChatTypeOK
<1>2. \A t \in Turn : /\ t \in Nat /\ t >= 1 /\ t <= Turns
                      /\ served[t] \in Status \cup {"none", "asked", "refused"}
                      /\ conv[t] \in 0..Turns
                      /\ said[t] \in Nat /\ said[t] <= Tokens
  BY <1>1 DEF ChatTypeOK, Turn
<1>3. ASSUME NEW b \in bubbles
      PROVE  /\ b \in Bubble /\ b.turn \in Turn /\ b.turn \in Nat
             /\ b.content \in Nat /\ b.content <= 2 * Tokens
             /\ b.row \in BOOLEAN /\ b.fetched \in BOOLEAN
  <2>1. b \in Bubble
    BY DEF ChatTypeOK
  <2>2. b.turn \in Turn /\ b.content \in 0..(2 * Tokens) /\ b.row \in BOOLEAN /\ b.fetched \in BOOLEAN
    BY <2>1 DEF Bubble
  <2>3. QED
    BY <1>1, <1>2, <2>1, <2>2
<1>4. turns >= 1 => turns \in Turn
  BY <1>1 DEF Turn
<1>5. QED
  BY <1>1, <1>2, <1>3, <1>4

LEMMA ChatStarts == ChatInit => ChatInv
<1> SUFFICES ASSUME ChatInit PROVE ChatInv
  OBVIOUS
<1>1. ChatTypeOK
  <2>1. 0 \in 0..Turns /\ 0 \in 0..ChatFaults /\ 0 \in 0..Tokens /\ 0 <= Tokens + 3
    BY ChatAssumption
  <2>2. history \in [Turn -> [of : 0..Turns, rows : SUBSET Bubble]]
    BY <2>1 DEF ChatInit, NoHistory, None
  <2>3. wire = <<>> /\ wire \in Seq({"start", "token"} \cup Ends) /\ Len(wire) = 0
    BY DEF ChatInit
  <2>4. QED
    BY <2>1, <2>2, <2>3 DEF ChatInit, ChatTypeOK, NoHistory, None, Status
<1>2. LinkInv /\ BubblesInv /\ HistoryInv /\ ServedInv
  BY DEF ChatInit, LinkInv, BubblesInv, HistoryInv, ServedInv, NoHistory
<1>3. QED
  BY <1>1, <1>2 DEF ChatInv

(* A new message, whose answer is asked for and nowhere yet. *)
LEMMA SendMessageStep == ASSUME ChatInv, sendMessage PROVE ChatInv'
<1> DEFINE b0 == [turn |-> turns', row |-> FALSE, fetched |-> FALSE,
                  status |-> "streaming", content |-> 0]
<1>1. ChatTypeOK
  BY DEF ChatInv
<1>2. /\ ~streaming /\ turns < Turns /\ turns' = turns + 1
      /\ served' = [served EXCEPT ![turns'] = "asked"]
      /\ conv' = [conv EXCEPT ![turns'] = conversation]
      /\ bubbles' = bubbles \cup {b0}
      /\ link' = "open" /\ wire' = <<>>
      /\ streaming' = TRUE /\ halted' = FALSE /\ terminal' = FALSE /\ current' = FALSE
      /\ UNCHANGED <<said, conversation, chosen, hydrated, history, chatFaults>>
  BY DEF sendMessage
<1>3. turns' \in Turn /\ turns' \in 0..Turns /\ turns' > turns
  BY <1>1, <1>2, ChatTypes DEF Turn
<1>4. b0 \in Bubble
  BY <1>3, ChatAssumption DEF Bubble, Status
<1>5. /\ served'[turns'] = "asked" /\ \A t \in Turn : t # turns' => served'[t] = served[t]
      /\ served' \in [Turn -> Status \cup {"none", "asked", "refused"}]
      /\ conv' \in [Turn -> 0..Turns]
  BY <1>1, <1>2, <1>3 DEF ChatTypeOK
<1>6. wire' \in Seq({"start", "token"} \cup Ends) /\ Len(wire') = 0
  BY <1>2
<1>7. ChatTypeOK'
  <2>1. bubbles' \subseteq Bubble
    BY <1>1, <1>2, <1>4 DEF ChatTypeOK
  <2>2. Len(wire') <= Tokens + 3
    BY <1>6, ChatAssumption
  <2>3. QED
    BY <1>1, <1>2, <1>3, <1>5, <1>6, <2>1, <2>2 DEF ChatTypeOK
<1>8. served[turns'] = "none" /\ said[turns'] = 0
  BY <1>3 DEF ChatInv, ServedInv
<1>9. ServedInv'
  BY <1>1, <1>2, <1>3, <1>5, <1>8, ChatTypes DEF ChatInv, ServedInv
<1>10. HistoryInv'
  <2>1. ASSUME NEW c \in Turn, NEW b \in history[c].rows
        PROVE  b.turn <= turns'
    <3>1. b.turn \in Nat
      BY <1>1, ChatAssumption DEF ChatTypeOK, Bubble, Turn
    <3>2. QED
      BY <1>1, <1>2, <3>1, ChatTypes DEF ChatInv, HistoryInv
  <2>2. QED
    BY <1>2, <2>1 DEF ChatInv, HistoryInv
<1>11. ASSUME NEW b \in bubbles' PROVE BubbleFits(b)'
  <2>1. CASE b = b0
    <3>1. /\ b.turn = turns' /\ b.row = FALSE /\ b.fetched = FALSE
          /\ b.status = "streaming" /\ b.content = 0
      BY <2>1
    <3>2. said'[turns'] = 0 /\ turns' \in Int /\ streaming' = TRUE /\ current' = FALSE
          /\ terminal' = FALSE
      BY <1>2, <1>3, <1>8
    <3>3. QED
      <4>1. b.turn <= turns' /\ b.content <= said'[b.turn]
        BY <3>1, <3>2
      <4>2. b.row = current' /\ (b.status = "streaming" <=> ~terminal')
        BY <3>1, <3>2
      <4>3. b.status # "complete" /\ b.turn = turns' /\ streaming' /\ (b.fetched => b.row)
        BY <3>1, <3>2
      <4>4. QED
        BY <4>1, <4>2, <4>3 DEF BubbleFits
  <2>2. CASE b \in bubbles
    <3>1. BubbleFits(b) /\ b.turn \in Nat /\ b.turn \in Turn
      BY <1>1, <2>2, ChatTypes DEF ChatInv, BubblesInv
    <3>2. b.turn < turns'
      BY <1>1, <1>2, <3>1, ChatTypes DEF BubbleFits
    <3>3. served'[b.turn] = served[b.turn]
      BY <1>3, <1>5, <3>1, <3>2
    <3>4. QED
      BY <1>2, <3>1, <3>2, <3>3 DEF BubbleFits
  <2>3. QED
    BY <1>2, <2>1, <2>2
<1>12. Streams(0, 0, 0)'
  <2>1. WireHas(0, 0, 0)'
    BY <1>2, <1>6 DEF WireHas
  <2>2. Progress(0, 0, 0)'
    BY <1>2, <1>5, <1>8 DEF Progress
  <2>3. ASSUME NEW b \in bubbles', b.turn = turns' PROVE Awaited(b, 0)'
    <3>1. b = b0
      <4>1. ASSUME b \in bubbles PROVE FALSE
        <5>1. b.turn <= turns /\ b.turn \in Nat
          BY <1>1, <4>1, ChatTypes DEF ChatInv, BubblesInv, BubbleFits
        <5>2. QED
          BY <1>1, <1>2, <2>3, <5>1, ChatTypes
      <4>2. QED
        BY <1>2, <4>1
    <3>2. QED
      BY <1>2, <1>8, <3>1 DEF Awaited
  <2>4. QED
    BY <2>1, <2>2, <2>3 DEF Streams
<1>13. LinkInv'
  BY <1>1, <1>2, <1>3, <1>12, ChatTypes DEF LinkInv
<1>14. QED
  BY <1>7, <1>9, <1>10, <1>11, <1>13 DEF ChatInv, BubblesInv

(* The panel stops listening, and may empty itself. *)
LEMMA HaltStep == ASSUME ChatInv, stop \/ openNew PROVE ChatInv'
<1>1. ChatTypeOK
  BY DEF ChatInv
<1>2. /\ halted' = (halted \/ streaming) /\ wire' = <<>>
      /\ UNCHANGED <<turns, served, conv, said, link, streaming, terminal, current, history, chatFaults>>
      /\ bubbles' \subseteq bubbles
      /\ conversation' \in {conversation, None} /\ chosen' \in {chosen, None}
      /\ hydrated' \in {hydrated, None}
  BY <1>1 DEF stop, openNew, serverAnswers, panelVars, ChatTypeOK
<1>3. ChatTypeOK'
  <2>1. halted' \in BOOLEAN /\ None \in 0..Turns
    BY <1>2, ChatAssumption DEF None
  <2>2. wire' \in Seq({"start", "token"} \cup Ends) /\ Len(wire') = 0
    BY <1>2
  <2>3. Len(wire') <= Tokens + 3
    BY <2>2, ChatAssumption
  <2>4. QED
    BY <1>1, <1>2, <2>1, <2>2, <2>3 DEF ChatTypeOK
<1>4. LinkInv'
  BY <1>1, <1>2 DEF ChatInv, LinkInv, ChatTypeOK
<1>5. BubblesInv' /\ HistoryInv' /\ ServedInv'
  BY <1>2 DEF ChatInv, BubblesInv, BubbleFits, HistoryInv, ServedInv
<1>6. QED
  BY <1>3, <1>4, <1>5 DEF ChatInv

(* Whatever replaces the bubbles with fetched ones is no stream's concern. *)
LEMMA Fetched ==
  ASSUME ChatInv, UNCHANGED <<turns, served, said, link, wire, streaming, halted, terminal, current>>,
         \A b \in bubbles' :
           \/ b \in bubbles
           \/ b \in Bubble /\ b.fetched /\ b.row /\ b.turn <= turns /\ b.content <= said[b.turn]
  PROVE  LinkInv' /\ BubblesInv' /\ ServedInv' /\ bubbles' \subseteq Bubble
<1>1. ChatTypeOK
  BY DEF ChatInv
<1>2. ASSUME NEW b \in bubbles' PROVE BubbleFits(b)'
  BY <1>2 DEF ChatInv, BubblesInv, BubbleFits
<1>3. ServedInv'
  BY DEF ChatInv, ServedInv
<1>4. bubbles' \subseteq Bubble
  BY <1>1 DEF ChatTypeOK
<1>5. ASSUME streaming, ~halted PROVE \E s, k, e : Streams(s, k, e)'
  <2>1. PICK s, k, e : Streams(s, k, e)
    BY <1>5 DEF ChatInv, LinkInv
  <2>2. WireHas(s, k, e)' /\ Progress(s, k, e)'
    BY <2>1 DEF Streams, WireHas, Progress
  <2>3. k \in Nat /\ k <= said[turns] /\ turns \in Turn
    BY <1>1, <1>5, <2>1, ChatTypes DEF Streams, WireHas, Progress, ChatInv, LinkInv
  <2>4. said[turns] \in Nat /\ said[turns] <= Tokens /\ Tokens \in Nat
    BY <1>1, <2>3, ChatTypes
  <2>5. ASSUME NEW b \in bubbles', b.turn = turns PROVE Awaited(b, k)'
    <3>1. CASE b \in bubbles
      BY <2>1, <2>5, <3>1 DEF Streams, Awaited
    <3>2. CASE b \in Bubble /\ b.fetched /\ b.row /\ b.turn <= turns /\ b.content <= said[b.turn]
      <4>1. b.content \in Nat
        BY <3>2, ChatAssumption DEF Bubble
      <4>2. b.content + k <= Tokens + said[turns]
        BY <2>3, <2>4, <2>5, <3>2, <4>1
      <4>3. QED
        BY <3>2, <4>2 DEF Awaited
    <3>3. QED
      BY <3>1, <3>2
  <2>6. Streams(s, k, e)'
    BY <2>2, <2>5 DEF Streams
  <2>7. QED
    BY <2>6
<1>6. LinkInv'
  BY <1>5 DEF ChatInv, LinkInv
<1>7. QED
  BY <1>2, <1>3, <1>4, <1>6 DEF BubblesInv

LEMMA MessageRowsFit ==
  ASSUME ChatInv, NEW c, NEW b \in MessageRows(c)
  PROVE  b \in Bubble /\ b.fetched /\ b.row /\ b.turn <= turns /\ b.content <= said[b.turn]
<1>1. ChatTypeOK
  BY DEF ChatInv
<1>2. PICK t \in Turn : /\ conv[t] = c /\ served[t] \in Status
         /\ b = [turn |-> t, row |-> TRUE, fetched |-> TRUE, status |-> served[t],
                 content |-> IF served[t] = "streaming" THEN 0 ELSE said[t]]
  BY DEF MessageRows
<1>3. t <= turns
  <2>1. t > turns => served[t] = "none"
    BY DEF ChatInv, ServedInv
  <2>2. QED
    BY <1>1, <1>2, <2>1, ChatTypes DEF Status, Ends
<1>4. /\ b.turn = t /\ b.row = TRUE /\ b.fetched = TRUE /\ b.content \in {0, said[t]}
      /\ said[t] \in Nat /\ said[t] <= Tokens /\ Tokens \in Nat
  BY <1>1, <1>2, ChatTypes
<1>5. b.content \in 0..(2 * Tokens)
  BY <1>4
<1>6. b \in Bubble
  BY <1>2, <1>4, <1>5 DEF Bubble
<1>7. QED
  BY <1>3, <1>4, <1>6

LEMMA ChatOpenStep ==
  ASSUME ChatInv, NEW c \in Turn, openConversation(c)
  PROVE  ChatInv'
<1>1. ChatTypeOK
  BY DEF ChatInv
<1>2. /\ UNCHANGED <<turns, served, conv, said, link, wire, streaming, halted, terminal,
                     current, history, chatFaults>>
      /\ chosen' = c /\ c \in 0..Turns /\ None \in 0..Turns
      /\ \/ hydrated' = c /\ conversation' = c /\ bubbles' = history[c].rows
         \/ hydrated' = None /\ UNCHANGED <<conversation, bubbles>>
  BY ChatAssumption DEF openConversation, hydrate, serverAnswers, streamVars, Turn, None
<1>3. ASSUME NEW b \in history[c].rows
      PROVE  b \in Bubble /\ b.fetched /\ b.row /\ b.turn <= turns /\ b.content <= said[b.turn]
  BY <1>1 DEF ChatInv, ChatTypeOK, HistoryInv
<1>4. LinkInv' /\ BubblesInv' /\ ServedInv' /\ bubbles' \subseteq Bubble
  BY <1>2, <1>3, Fetched
<1>5. HistoryInv'
  BY <1>2 DEF ChatInv, HistoryInv
<1>6. ChatTypeOK'
  BY <1>1, <1>2, <1>4 DEF ChatTypeOK
<1>7. QED
  BY <1>4, <1>5, <1>6 DEF ChatInv

LEMMA FetchMessagesStep == ASSUME ChatInv, FetchMessages PROVE ChatInv'
<1> DEFINE rows == MessageRows(chosen)
<1>1. ChatTypeOK
  BY DEF ChatInv
<1>2. /\ chosen # None
      /\ history' = [history EXCEPT ![chosen] = [of |-> chosen, rows |-> rows]]
      /\ \/ UNCHANGED <<hydrated, conversation, bubbles>>
         \/ hydrated' = chosen /\ conversation' = chosen /\ bubbles' = rows
      /\ UNCHANGED <<turns, served, conv, said, link, wire, streaming, halted, terminal,
                     current, chosen, chatFaults>>
  BY DEF FetchMessages, hydrate, serverAnswers, streamVars
<1>3. chosen \in Turn /\ chosen \in 0..Turns
  BY <1>1, <1>2, ChatAssumption DEF ChatTypeOK, Turn, None
<1>4. \A b \in rows :
        b \in Bubble /\ b.fetched /\ b.row /\ b.turn <= turns /\ b.content <= said[b.turn]
  BY MessageRowsFit
<1> HIDE DEF rows
<1>5. LinkInv' /\ BubblesInv' /\ ServedInv' /\ bubbles' \subseteq Bubble
  BY <1>2, <1>4, Fetched
<1>6. history' \in [Turn -> [of : 0..Turns, rows : SUBSET Bubble]]
  BY <1>1, <1>2, <1>3, <1>4 DEF ChatTypeOK
<1>7. ASSUME NEW c \in Turn
      PROVE  history'[c] = IF c = chosen THEN [of |-> chosen, rows |-> rows] ELSE history[c]
  BY <1>1, <1>2, <1>3 DEF ChatTypeOK
<1>8. HistoryInv'
  BY <1>2, <1>4, <1>7 DEF ChatInv, HistoryInv
<1>9. ASSUME NEW c \in Turn PROVE history'[c].of \in {None, c}
  <2>1. CASE c = chosen
    BY <1>7, <2>1
  <2>2. CASE c # chosen
    BY <1>1, <1>7, <2>2 DEF ChatTypeOK
  <2>3. QED
    BY <2>1, <2>2
<1>10. ChatTypeOK'
  BY <1>1, <1>2, <1>3, <1>5, <1>6, <1>9 DEF ChatTypeOK
<1>11. QED
  BY <1>5, <1>8, <1>10 DEF ChatInv

(* The facts of a stream that is listened to, with the numbers typed. *)
LEMMA StreamFacts ==
  ASSUME ChatInv, streaming, ~halted
  PROVE  \E s, k, e :
           /\ Streams(s, k, e) /\ s \in 0..1 /\ k \in Nat /\ e \in 0..2
           /\ turns \in Turn /\ k <= said[turns] /\ said[turns] \in Nat
           /\ said[turns] <= Tokens /\ Tokens \in Nat
<1>1. ChatTypeOK /\ turns >= 1
  BY DEF ChatInv, LinkInv
<1>2. PICK s, k, e : Streams(s, k, e)
  BY DEF ChatInv, LinkInv
<1>3. s \in 0..1 /\ k \in Nat /\ e \in 0..2 /\ k <= said[turns]
  BY <1>2 DEF Streams, WireHas, Progress
<1>4. turns \in Turn /\ said[turns] \in Nat /\ said[turns] <= Tokens /\ Tokens \in Nat
  BY <1>1, ChatTypes
<1>5. QED
  BY <1>2, <1>3, <1>4

(* The rest of the wire, whatever its first event was. *)
LEMMA WireTail ==
  ASSUME ChatTypeOK, NEW s, NEW k, NEW e, WireHas(s, k, e), wire # <<>>,
         wire' = Tail(wire), UNCHANGED <<turns, served>>
  PROVE  /\ wire' \in Seq({"start", "token"} \cup Ends) /\ Len(wire') <= Tokens + 3
         /\ s = 1 => Head(wire) = "start" /\ WireHas(0, k, e)'
         /\ s = 0 /\ k > 0 => Head(wire) = "token" /\ WireHas(0, k - 1, e)'
         /\ s = 0 /\ k = 0 => Head(wire) = served[turns] /\ e > 0 /\ WireHas(0, 0, e - 1)'
<1>1. /\ wire \in Seq({"start", "token"} \cup Ends) /\ Len(wire) <= Tokens + 3
      /\ s \in 0..1 /\ k \in Nat /\ e \in 0..2 /\ Len(wire) = s + k + e
      /\ Tokens \in Nat
  BY ChatAssumption DEF ChatTypeOK, WireHas
<1>2. /\ wire' \in Seq({"start", "token"} \cup Ends) /\ Len(wire') = Len(wire) - 1
      /\ Len(wire) \in Nat /\ Len(wire) >= 1
      /\ Head(wire) = wire[1]
      /\ \A i \in 1..Len(wire') : wire'[i] = wire[i + 1]
  BY <1>1
<1>3. \A i \in 1..Len(wire) :
        wire[i] = IF i <= s THEN "start" ELSE IF i <= s + k THEN "token" ELSE served[turns]
  BY DEF WireHas
<1>4. 1 \in 1..Len(wire)
  BY <1>2
<1>5. CASE s = 1
  <2>1. Head(wire) = "start" /\ Len(wire') = k + e
    BY <1>1, <1>2, <1>3, <1>4, <1>5
  <2>2. ASSUME NEW i \in 1..Len(wire')
        PROVE  wire'[i] = IF i <= 0 THEN "start" ELSE IF i <= 0 + k THEN "token" ELSE served'[turns']
    <3>1. i + 1 \in 1..Len(wire) /\ wire'[i] = wire[i + 1] /\ i \in Nat /\ i >= 1
      BY <1>2
    <3>2. QED
      BY <1>1, <1>3, <1>5, <3>1
  <2>3. QED
    BY <1>1, <1>2, <1>5, <2>1, <2>2 DEF WireHas
<1>6. CASE s = 0 /\ k > 0
  <2>1. Head(wire) = "token" /\ Len(wire') = (k - 1) + e /\ k - 1 \in Nat
    BY <1>1, <1>2, <1>3, <1>4, <1>6
  <2>2. ASSUME NEW i \in 1..Len(wire')
        PROVE  wire'[i] = IF i <= 0 THEN "start" ELSE IF i <= 0 + (k - 1) THEN "token" ELSE served'[turns']
    <3>1. i + 1 \in 1..Len(wire) /\ wire'[i] = wire[i + 1] /\ i \in Nat /\ i >= 1
      BY <1>2
    <3>2. QED
      BY <1>1, <1>3, <1>6, <3>1
  <2>3. QED
    BY <1>1, <1>2, <1>6, <2>1, <2>2 DEF WireHas
<1>7. CASE s = 0 /\ k = 0
  <2>1. Head(wire) = served[turns] /\ e > 0 /\ Len(wire') = e - 1 /\ e - 1 \in 0..2
    BY <1>1, <1>2, <1>3, <1>4, <1>7
  <2>2. ASSUME NEW i \in 1..Len(wire')
        PROVE  wire'[i] = IF i <= 0 THEN "start" ELSE IF i <= 0 + 0 THEN "token" ELSE served'[turns']
    <3>1. i + 1 \in 1..Len(wire) /\ wire'[i] = wire[i + 1] /\ i \in Nat /\ i >= 1
      BY <1>2
    <3>2. QED
      BY <1>1, <1>3, <1>7, <3>1
  <2>3. QED
    BY <1>1, <1>2, <1>7, <2>1, <2>2 DEF WireHas
<1>8. QED
  BY <1>1, <1>2, <1>5, <1>6, <1>7

(* A bubble changed in place: the one it was, with other fields. *)
LEMMA Changed ==
  ASSUME NEW b \in Bubble, NEW c
  PROVE  /\ \A x \in Status : c = [b EXCEPT !.status = x] =>
              /\ c \in Bubble /\ c.turn = b.turn /\ c.row = b.row /\ c.fetched = b.fetched
              /\ c.status = x /\ c.content = b.content
         /\ \A x \in BOOLEAN : c = [b EXCEPT !.row = x] =>
              /\ c \in Bubble /\ c.turn = b.turn /\ c.row = x /\ c.fetched = b.fetched
              /\ c.status = b.status /\ c.content = b.content
         /\ c = [b EXCEPT !.content = @ + 1] =>
              /\ b.content + 1 <= 2 * Tokens => c \in Bubble
              /\ c.turn = b.turn /\ c.row = b.row /\ c.fetched = b.fetched
              /\ c.status = b.status /\ c.content = b.content + 1
<1>1. ASSUME NEW x \in Status, c = [b EXCEPT !.status = x]
      PROVE  /\ c \in Bubble /\ c.turn = b.turn /\ c.row = b.row /\ c.fetched = b.fetched
             /\ c.status = x /\ c.content = b.content
  BY <1>1 DEF Bubble
<1>2. ASSUME NEW x \in BOOLEAN, c = [b EXCEPT !.row = x]
      PROVE  /\ c \in Bubble /\ c.turn = b.turn /\ c.row = x /\ c.fetched = b.fetched
             /\ c.status = b.status /\ c.content = b.content
  BY <1>2 DEF Bubble
<1>3. ASSUME c = [b EXCEPT !.content = @ + 1]
      PROVE  /\ b.content + 1 <= 2 * Tokens => c \in Bubble
             /\ c.turn = b.turn /\ c.row = b.row /\ c.fetched = b.fetched
             /\ c.status = b.status /\ c.content = b.content + 1
  BY <1>3, ChatAssumption DEF Bubble
<1>4. QED
  BY <1>1, <1>2, <1>3

(* The first event: the message gets its row, and the panel its            *)
(* conversation.                                                           *)
LEMMA StartHeard ==
  ASSUME ChatInv, HearAnswer, Head(wire) = "start"
  PROVE  ChatInv'
<1>1. ChatTypeOK
  BY DEF ChatInv
<1>2. /\ streaming /\ ~halted /\ wire # <<>> /\ wire' = Tail(wire)
      /\ current' = TRUE /\ conversation' = conv[turns]
      /\ bubbles' = {[b EXCEPT !.row = @ \/ Current(b)] : b \in bubbles}
      /\ UNCHANGED <<turns, served, conv, said, link, streaming, halted, terminal, chosen,
                     hydrated, history, chatFaults>>
  BY DEF HearAnswer, onStart, serverAnswers
<1>3. PICK s, k, e :
        /\ Streams(s, k, e) /\ s \in 0..1 /\ k \in Nat /\ e \in 0..2
        /\ turns \in Turn /\ k <= said[turns] /\ said[turns] \in Nat
        /\ said[turns] <= Tokens /\ Tokens \in Nat
  BY <1>2, StreamFacts
<1>4. served[turns] \in Status \cup {"none", "asked", "refused"} /\ conv[turns] \in 0..Turns
  BY <1>1, <1>3, ChatTypes
<1>5. /\ wire' \in Seq({"start", "token"} \cup Ends) /\ Len(wire') <= Tokens + 3
      /\ s = 1 /\ WireHas(0, k, e)'
  BY <1>1, <1>2, <1>3, <1>4, WireTail DEF Streams, Status, Ends
<1>6. ~current /\ terminal = FALSE /\ Progress(0, k, e)'
  BY <1>1, <1>2, <1>3, <1>5 DEF Streams, Progress, ChatTypeOK
<1>7. ASSUME NEW c \in bubbles'
      PROVE  c \in Bubble /\ BubbleFits(c)' /\ (c.turn = turns => Awaited(c, k)')
  <2>1. PICK b \in bubbles : c = [b EXCEPT !.row = @ \/ Current(b)]
    BY <1>2
  <2>2. b \in Bubble /\ b.row \in BOOLEAN /\ BubbleFits(b)
        /\ (b.turn = turns => Awaited(b, k))
    BY <1>1, <1>3, ChatTypes DEF Streams, ChatInv, BubblesInv
  <2>3. PICK x \in BOOLEAN : x = (b.row \/ Current(b))
    BY <2>2
  <2>4. c = [b EXCEPT !.row = x]
    BY <2>1, <2>3
  <2>5. /\ c \in Bubble /\ c.turn = b.turn /\ c.row = x
        /\ c.fetched = b.fetched /\ c.status = b.status /\ c.content = b.content
    BY <2>2, <2>4, Changed
  <2>6. c.turn = turns => Awaited(c, k)'
    BY <1>2, <2>2, <2>5 DEF Awaited
  <2>7. c.fetched => x
    BY <2>2, <2>3, <2>5 DEF BubbleFits
  <2>8. c.turn = turns /\ ~c.fetched => x
    BY <1>1, <1>2, <1>6, <2>2, <2>3, <2>5 DEF BubbleFits, Current, ChatTypeOK
  <2>9. BubbleFits(c)'
    BY <1>2, <2>2, <2>5, <2>7, <2>8 DEF BubbleFits
  <2>10. QED
    BY <2>5, <2>6, <2>9
<1>8. Streams(0, k, e)'
  BY <1>2, <1>5, <1>6, <1>7 DEF Streams
<1>9. LinkInv'
  BY <1>2, <1>6, <1>8 DEF ChatInv, LinkInv, Streams, Progress
<1>10. ChatTypeOK'
  BY <1>1, <1>2, <1>4, <1>5, <1>7 DEF ChatTypeOK
<1>11. HistoryInv' /\ ServedInv'
  BY <1>2 DEF ChatInv, HistoryInv, ServedInv
<1>12. QED
  BY <1>7, <1>9, <1>10, <1>11 DEF ChatInv, BubblesInv

LEMMA TokenHeard ==
  ASSUME ChatInv, HearAnswer, Head(wire) = "token"
  PROVE  ChatInv'
<1>1. ChatTypeOK
  BY DEF ChatInv
<1>2. /\ streaming /\ ~halted /\ wire # <<>> /\ wire' = Tail(wire)
      /\ bubbles' = {IF Current(b) THEN [b EXCEPT !.content = @ + 1] ELSE b : b \in bubbles}
      /\ UNCHANGED <<turns, served, conv, said, link, streaming, halted, terminal, current,
                     conversation, chosen, hydrated, history, chatFaults>>
  BY DEF HearAnswer, onToken, serverAnswers
<1>3. PICK s, k, e :
        /\ Streams(s, k, e) /\ s \in 0..1 /\ k \in Nat /\ e \in 0..2
        /\ turns \in Turn /\ k <= said[turns] /\ said[turns] \in Nat
        /\ said[turns] <= Tokens /\ Tokens \in Nat
  BY <1>2, StreamFacts
<1>4. served[turns] \in Status \cup {"none", "asked", "refused"}
  BY <1>1, <1>3, ChatTypes
<1>5. /\ wire' \in Seq({"start", "token"} \cup Ends) /\ Len(wire') <= Tokens + 3
      /\ s = 0 /\ k > 0 /\ WireHas(0, k - 1, e)'
  BY <1>1, <1>2, <1>3, <1>4, WireTail DEF Streams, Status, Ends
<1>6. Progress(0, k - 1, e)' /\ ~terminal
  BY <1>2, <1>3, <1>5 DEF Streams, Progress
<1>7. ASSUME NEW c \in bubbles'
      PROVE  c \in Bubble /\ BubbleFits(c)' /\ (c.turn = turns => Awaited(c, k - 1)')
  <2>1. PICK b \in bubbles : c = IF Current(b) THEN [b EXCEPT !.content = @ + 1] ELSE b
    BY <1>2
  <2>2. b \in Bubble /\ b.content \in Nat /\ BubbleFits(b)
        /\ (b.turn = turns => Awaited(b, k))
    BY <1>1, <1>3, ChatTypes DEF Streams, ChatInv, BubblesInv
  <2>3. CASE Current(b)
    <3>1. b.turn = turns /\ c = [b EXCEPT !.content = @ + 1] /\ Awaited(b, k)
      BY <2>1, <2>2, <2>3 DEF Current
    <3>2. /\ c.turn = b.turn /\ c.row = b.row /\ c.fetched = b.fetched
          /\ c.status = b.status /\ c.content = b.content + 1
          /\ b.content + 1 <= 2 * Tokens => c \in Bubble
      BY <2>2, <3>1, Changed
    <3>3. link # "broken"
      BY <1>2 DEF ChatInv, LinkInv
    <3>4. CASE b.fetched
      <4>1. b.content + k <= Tokens + said[turns]
        BY <3>1, <3>4 DEF Awaited
      <4>2. b.content + 1 <= 2 * Tokens /\ c.content + (k - 1) <= Tokens + said[turns]
        <5>1. /\ b.content \in Nat /\ k \in Nat /\ k > 0 /\ c.content = b.content + 1
              /\ said[turns] \in Nat /\ Tokens \in Nat /\ said[turns] <= Tokens
          BY <1>3, <1>5, <2>2, <3>2
        <5>2. QED
          BY <4>1, <5>1
      <4>3. Awaited(c, k - 1)'
        BY <1>2, <3>2, <3>4, <4>2 DEF Awaited
      <4>4. BubbleFits(c)'
        BY <1>2, <2>2, <3>2, <3>4 DEF BubbleFits
      <4>5. QED
        BY <3>2, <4>2, <4>3, <4>4
    <3>5. CASE ~b.fetched
      <4>1. b.content + k = said[turns]
        BY <3>1, <3>3, <3>5 DEF Awaited
      <4>2. /\ b.content + 1 <= 2 * Tokens /\ c.content + (k - 1) = said[turns]
            /\ c.content <= said[turns]
        BY <1>3, <1>5, <2>2, <3>2, <4>1
      <4>3. Awaited(c, k - 1)'
        BY <1>2, <3>2, <3>5, <4>2 DEF Awaited
      <4>4. b.status = "streaming"
        BY <1>2, <1>6, <2>2, <3>1, <3>5 DEF BubbleFits
      <4>5. BubbleFits(c)'
        BY <1>2, <2>2, <3>1, <3>2, <3>5, <4>2, <4>4 DEF BubbleFits
      <4>6. QED
        BY <3>2, <4>2, <4>3, <4>5
    <3>6. QED
      BY <3>4, <3>5
  <2>4. CASE ~Current(b)
    <3>1. c = b
      BY <2>1, <2>4
    <3>2. BubbleFits(c)'
      BY <1>2, <2>2, <3>1 DEF BubbleFits
    <3>3. ASSUME b.turn = turns PROVE b.fetched
      BY <1>2, <2>2, <2>4, <3>3 DEF BubbleFits, Current
    <3>4. ASSUME b.turn = turns PROVE Awaited(b, k - 1)'
      <4>1. b.fetched /\ b.content + k <= Tokens + said[turns]
        BY <2>2, <3>3, <3>4 DEF Awaited
      <4>2. b.content + (k - 1) <= Tokens + said[turns]
        BY <1>3, <2>2, <4>1
      <4>3. QED
        BY <1>2, <4>1, <4>2 DEF Awaited
    <3>5. QED
      BY <2>2, <3>1, <3>2, <3>4
  <2>5. QED
    BY <2>3, <2>4
<1>8. Streams(0, k - 1, e)'
  BY <1>2, <1>5, <1>6, <1>7 DEF Streams
<1>9. LinkInv'
  BY <1>2, <1>8 DEF ChatInv, LinkInv
<1>10. ChatTypeOK'
  BY <1>1, <1>2, <1>5, <1>7 DEF ChatTypeOK
<1>11. HistoryInv' /\ ServedInv'
  BY <1>2 DEF ChatInv, HistoryInv, ServedInv
<1>12. QED
  BY <1>7, <1>9, <1>10, <1>11 DEF ChatInv, BubblesInv

(* A change of status of the bubbles of the stream. *)
LEMMA Patched ==
  ASSUME ChatInv, NEW x \in Status, NEW c \in patch(x)
  PROVE  \E b \in bubbles :
           /\ c \in Bubble /\ c.turn = b.turn /\ c.row = b.row /\ c.fetched = b.fetched
           /\ c.content = b.content
           /\ c.status = IF Current(b) THEN x ELSE b.status
<1>1. PICK b \in bubbles : c = IF Current(b) THEN [b EXCEPT !.status = x] ELSE b
  BY DEF patch
<1>2. b \in Bubble
  BY DEF ChatInv, ChatTypeOK
<1>3. CASE Current(b)
  <2>1. c = [b EXCEPT !.status = x]
    BY <1>1, <1>3
  <2>2. QED
    BY <1>2, <1>3, <2>1, Changed
<1>4. CASE ~Current(b)
  BY <1>1, <1>2, <1>4
<1>5. QED
  BY <1>3, <1>4

LEMMA EndHeard ==
  ASSUME ChatInv, HearAnswer, Head(wire) \notin {"start", "token"}
  PROVE  ChatInv'
<1>1. ChatTypeOK
  BY DEF ChatInv
<1>2. /\ streaming /\ ~halted /\ wire # <<>> /\ wire' = Tail(wire)
      /\ ends(Head(wire))
      /\ UNCHANGED <<turns, served, conv, said, link, streaming, halted,
                     chosen, hydrated, history, chatFaults>>
  BY DEF HearAnswer, serverAnswers
<1>3. /\ bubbles' = IF terminal THEN bubbles ELSE patch(Head(wire))
      /\ terminal' = TRUE /\ UNCHANGED <<current, conversation>>
  BY <1>2 DEF ends
<1>4. PICK s, k, e :
        /\ Streams(s, k, e) /\ s \in 0..1 /\ k \in Nat /\ e \in 0..2
        /\ turns \in Turn /\ k <= said[turns] /\ said[turns] \in Nat
        /\ said[turns] <= Tokens /\ Tokens \in Nat
  BY <1>2, StreamFacts
<1>5. /\ wire' \in Seq({"start", "token"} \cup Ends) /\ Len(wire') <= Tokens + 3
      /\ s = 0 /\ k = 0 /\ e > 0 /\ Head(wire) = served[turns] /\ WireHas(0, 0, e - 1)'
  BY <1>1, <1>2, <1>4, WireTail DEF Streams
<1>6. link = "closed" /\ served[turns] \in {"complete", "error"}
  BY <1>1, <1>2, <1>4, <1>5 DEF Streams, Progress, ChatTypeOK
<1>7. Progress(0, 0, e - 1)'
  BY <1>2, <1>3, <1>4, <1>5, <1>6 DEF Streams, Progress
<1>8. ASSUME NEW c \in bubbles'
      PROVE  c \in Bubble /\ BubbleFits(c)' /\ (c.turn = turns => Awaited(c, 0)')
  <2>1. CASE terminal
    <3>1. c \in bubbles /\ c \in Bubble /\ BubbleFits(c) /\ (c.turn = turns => Awaited(c, 0))
      BY <1>1, <1>3, <1>4, <1>5, <2>1 DEF Streams, ChatInv, BubblesInv, ChatTypeOK
    <3>2. BubbleFits(c)' /\ (c.turn = turns => Awaited(c, 0)')
      BY <1>2, <1>3, <2>1, <3>1 DEF BubbleFits, Awaited
    <3>3. QED
      BY <3>1, <3>2
  <2>2. CASE ~terminal
    <3>1. PICK b \in bubbles :
            /\ c \in Bubble /\ c.turn = b.turn /\ c.row = b.row /\ c.fetched = b.fetched
            /\ c.content = b.content
            /\ c.status = IF Current(b) THEN served[turns] ELSE b.status
      BY <1>3, <1>5, <1>6, <2>2, Patched DEF Status, Ends
    <3>2. b.content \in Nat /\ BubbleFits(b) /\ (b.turn = turns => Awaited(b, 0))
      BY <1>1, <1>4, <1>5, ChatTypes DEF Streams, ChatInv, BubblesInv
    <3>3. c.turn = turns => Awaited(c, 0)'
      BY <1>2, <3>1, <3>2 DEF Awaited
    <3>4. c.turn = turns /\ ~c.fetched => c.status = served[turns] /\ c.content = said[turns]
      BY <1>2, <1>6, <3>1, <3>2 DEF BubbleFits, Current, Awaited
    <3>5. c.turn # turns => c.status = b.status
      BY <3>1 DEF Current
    <3>6. served[turns] # "streaming"
      BY <1>6
    <3>7. BubbleFits(c)'
      BY <1>2, <1>3, <3>1, <3>2, <3>4, <3>5, <3>6 DEF BubbleFits
    <3>8. QED
      BY <3>1, <3>3, <3>7
  <2>3. QED
    BY <2>1, <2>2
<1>9. Streams(0, 0, e - 1)'
  BY <1>2, <1>5, <1>7, <1>8 DEF Streams
<1>10. LinkInv'
  BY <1>2, <1>6, <1>9 DEF ChatInv, LinkInv
<1>11. ChatTypeOK'
  BY <1>1, <1>2, <1>3, <1>5, <1>8 DEF ChatTypeOK
<1>12. HistoryInv' /\ ServedInv'
  BY <1>2 DEF ChatInv, HistoryInv, ServedInv
<1>13. QED
  BY <1>8, <1>10, <1>11, <1>12 DEF ChatInv, BubblesInv

LEMMA StreamOverStep == ASSUME ChatInv, StreamOver PROVE ChatInv'
<1>1. ChatTypeOK
  BY DEF ChatInv
<1>2. /\ streaming /\ (halted \/ link = "broken" \/ (link = "closed" /\ wire = <<>>))
      /\ bubbles' = CASE halted -> patch("aborted")
                      [] ~halted /\ ~terminal -> patch("error")
                      [] OTHER -> bubbles
      /\ streaming' = FALSE /\ link' = "closed" /\ wire' = <<>>
      /\ halted' = FALSE /\ terminal' = FALSE /\ current' = FALSE
      /\ UNCHANGED <<turns, served, conv, said, conversation, chosen, hydrated, history, chatFaults>>
  BY DEF StreamOver, NoStream, serverAnswers
<1>3. turns \in Turn
  BY <1>1, <1>2, ChatTypes DEF ChatInv, LinkInv
<1>4. ASSUME NEW c \in bubbles' PROVE c \in Bubble /\ BubbleFits(c)'
  <2>1. CASE ~halted /\ terminal
    <3>1. c \in bubbles
      BY <1>2, <2>1
    <3>2. c \in Bubble /\ BubbleFits(c)
      BY <1>1, <3>1 DEF ChatInv, BubblesInv, ChatTypeOK
    <3>3. c.status # "streaming" \/ c.fetched
      BY <1>2, <2>1, <3>2 DEF BubbleFits
    <3>4. QED
      BY <1>2, <3>2, <3>3 DEF BubbleFits
  <2>2. CASE halted \/ ~terminal
    <3>1. PICK x \in {"aborted", "error"} : bubbles' = patch(x)
      BY <1>2, <2>2
    <3>2. PICK b \in bubbles :
            /\ c \in Bubble /\ c.turn = b.turn /\ c.row = b.row /\ c.fetched = b.fetched
            /\ c.content = b.content /\ c.status = IF Current(b) THEN x ELSE b.status
      BY <3>1, Patched DEF Status, Ends
    <3>3. BubbleFits(b)
      BY DEF ChatInv, BubblesInv
    <3>4. ~c.fetched => c.status # "streaming"
      BY <1>2, <3>2, <3>3 DEF BubbleFits, Current
    <3>5. c.status = "complete" => b.status = "complete"
      BY <3>2
    <3>6. QED
      BY <1>2, <3>2, <3>3, <3>4, <3>5 DEF BubbleFits
  <2>3. QED
    BY <2>1, <2>2
<1>5. wire' \in Seq({"start", "token"} \cup Ends) /\ Len(wire') = 0 /\ 0 <= Tokens + 3
  BY <1>2, ChatAssumption
<1>6. ChatTypeOK'
  BY <1>1, <1>2, <1>4, <1>5 DEF ChatTypeOK
<1>7. LinkInv' /\ HistoryInv' /\ ServedInv'
  BY <1>2 DEF ChatInv, LinkInv, HistoryInv, ServedInv
<1>8. QED
  BY <1>4, <1>6, <1>7 DEF ChatInv, BubblesInv

LEMMA LinkBreaksStep == ASSUME ChatInv, LinkBreaks PROVE ChatInv'
<1>1. ChatTypeOK
  BY DEF ChatInv
<1>2. /\ streaming /\ link = "open" /\ chatFaults < ChatFaults
      /\ link' = "broken" /\ wire' = <<>> /\ chatFaults' = chatFaults + 1
      /\ UNCHANGED <<turns, served, conv, said, streaming, halted, terminal, current, bubbles,
                     conversation, chosen, hydrated, history>>
  BY DEF LinkBreaks, serverAnswers, panelVars
<1>3. wire' \in Seq({"start", "token"} \cup Ends) /\ Len(wire') = 0 /\ 0 <= Tokens + 3
      /\ chatFaults' \in 0..ChatFaults
  BY <1>1, <1>2, ChatAssumption DEF ChatTypeOK
<1>4. ChatTypeOK'
  BY <1>1, <1>2, <1>3 DEF ChatTypeOK
<1>5. ASSUME ~halted PROVE Streams(0, 0, 0)'
  <2>1. PICK s, k, e :
          /\ Streams(s, k, e) /\ s \in 0..1 /\ k \in Nat /\ e \in 0..2
          /\ turns \in Turn /\ k <= said[turns] /\ said[turns] \in Nat
          /\ said[turns] <= Tokens /\ Tokens \in Nat
    BY <1>2, <1>5, StreamFacts
  <2>2. WireHas(0, 0, 0)'
    BY <1>2, <1>3 DEF WireHas
  <2>3. Progress(0, 0, 0)'
    BY <1>2, <2>1 DEF Streams, Progress
  <2>4. ASSUME NEW b \in bubbles, b.turn = turns PROVE Awaited(b, 0)'
    <3>1. b.content \in Nat /\ Awaited(b, k)
      BY <1>1, <2>1, <2>4, ChatTypes DEF Streams
    <3>2. b.fetched => b.content + 0 <= Tokens + said[turns]
      BY <2>1, <3>1 DEF Awaited
    <3>3. QED
      BY <1>2, <3>2 DEF Awaited
  <2>5. QED
    BY <1>2, <2>2, <2>3, <2>4 DEF Streams
<1>6. LinkInv'
  BY <1>2, <1>5 DEF ChatInv, LinkInv
<1>7. BubblesInv' /\ HistoryInv' /\ ServedInv'
  BY <1>2 DEF ChatInv, BubblesInv, BubbleFits, HistoryInv, ServedInv
<1>8. QED
  BY <1>4, <1>6, <1>7 DEF ChatInv

(* The gateway gets on with the answer to t: its row becomes x, with y of  *)
(* its tokens relayed.                                                     *)
Serves(t, x, y) ==
  /\ served[t] \in {"asked", "streaming"} /\ x \in Status \cup {"refused"}
  /\ served' = [served EXCEPT ![t] = x]
  /\ y \in 0..Tokens /\ y >= said[t] /\ said' = [said EXCEPT ![t] = y]
  /\ conv' \in [Turn -> 0..Turns]
  /\ UNCHANGED <<turns, streaming, halted, terminal, current, bubbles, conversation, chosen,
                 hydrated, history, chatFaults>>

(* A step that relays no token. *)
LEMMA ServesSame ==
  ASSUME ChatTypeOK, NEW t \in Turn, NEW x \in Status \cup {"refused"},
         served[t] \in {"asked", "streaming"}, served' = [served EXCEPT ![t] = x],
         UNCHANGED said,
         conv' \in {conv, [conv EXCEPT ![t] = IF @ = None THEN t ELSE @]},
         UNCHANGED <<turns, streaming, halted, terminal, current, bubbles, conversation, chosen,
                     hydrated, history, chatFaults>>
  PROVE  Serves(t, x, said[t])
<1>1. said[t] \in 0..Tokens /\ said' = [said EXCEPT ![t] = said[t]]
  BY DEF ChatTypeOK
<1>2. said[t] >= said[t]
  BY ChatTypes
<1>3. conv' \in [Turn -> 0..Turns]
  <2>1. t \in 0..Turns /\ conv \in [Turn -> 0..Turns]
    BY ChatAssumption DEF ChatTypeOK, Turn
  <2>2. CASE conv' = conv
    BY <2>1, <2>2
  <2>3. CASE conv' = [conv EXCEPT ![t] = IF @ = None THEN t ELSE @]
    BY <2>1, <2>3
  <2>4. QED
    BY <2>2, <2>3
<1>4. QED
  BY <1>1, <1>2, <1>3 DEF Serves

LEMMA ServesKeeps ==
  ASSUME ChatInv, NEW t \in Turn, NEW x, NEW y, Serves(t, x, y)
  PROVE  /\ BubblesInv' /\ HistoryInv' /\ ServedInv'
         /\ served'[t] = x /\ said'[t] = y
         /\ \A u \in Turn : u # t => served'[u] = served[u] /\ said'[u] = said[u]
         /\ UNCHANGED <<link, wire>> => ChatTypeOK'
         /\ wire' \in Seq({"start", "token"} \cup Ends) /\ Len(wire') <= Tokens + 3
              /\ link' \in {"open", "closed"} => ChatTypeOK'
<1>1. ChatTypeOK
  BY DEF ChatInv
<1>2. /\ served'[t] = x /\ said'[t] = y /\ y \in Nat /\ said[t] \in Nat
      /\ served' \in [Turn -> Status \cup {"none", "asked", "refused"}]
      /\ said' \in [Turn -> 0..Tokens]
      /\ \A u \in Turn : u # t => served'[u] = served[u] /\ said'[u] = said[u]
  BY <1>1, ChatAssumption DEF Serves, ChatTypeOK
<1>3. \A u \in Turn : said[u] \in Nat /\ said'[u] \in Nat /\ said[u] <= said'[u]
  BY <1>1, <1>2, ChatTypes DEF Serves
<1>4. ASSUME NEW b \in bubbles PROVE BubbleFits(b)'
  <2>1. b.turn \in Turn /\ b.content \in Nat /\ BubbleFits(b)
    BY <1>1, ChatTypes DEF ChatInv, BubblesInv
  <2>2. b.content <= said[b.turn] => b.content <= said'[b.turn]
    BY <1>3, <2>1
  <2>3. served[b.turn] = "complete" => b.turn # t
    BY DEF Serves
  <2>4. QED
    BY <1>2, <2>1, <2>2, <2>3 DEF BubbleFits, Serves
<1>5. BubblesInv'
  BY <1>4 DEF BubblesInv, Serves
<1>6. HistoryInv'
  <2>1. ASSUME NEW c \in Turn, NEW b \in history[c].rows
        PROVE  b.fetched /\ b.row /\ b.turn <= turns /\ b.content <= said'[b.turn]
    <3>1. b.turn \in Turn /\ b.content \in Nat
      <4>1. b \in Bubble
        BY <1>1 DEF ChatTypeOK
      <4>2. QED
        BY <4>1, ChatAssumption DEF Bubble
    <3>2. b.content <= said[b.turn] /\ b.fetched /\ b.row /\ b.turn <= turns
      BY DEF ChatInv, HistoryInv
    <3>3. QED
      BY <1>3, <3>1, <3>2
  <2>2. QED
    BY <2>1 DEF HistoryInv, Serves
<1>7. ServedInv'
  <2>1. ASSUME NEW u \in Turn
        PROVE  /\ u > turns => served'[u] = "none"
               /\ served'[u] \in {"none", "asked"} => said'[u] = 0
    <3>1. CASE u = t
      <4>1. x \notin {"none", "asked"} /\ served[t] # "none"
        BY DEF Serves, Status, Ends
      <4>2. QED
        BY <1>2, <3>1, <4>1 DEF ChatInv, ServedInv
    <3>2. CASE u # t
      BY <1>2, <3>2 DEF ChatInv, ServedInv
    <3>3. QED
      BY <3>1, <3>2
  <2>2. QED
    BY <2>1 DEF ServedInv, Serves
<1>8. UNCHANGED <<link, wire>> => ChatTypeOK'
  BY <1>1, <1>2 DEF Serves, ChatTypeOK
<1>9. wire' \in Seq({"start", "token"} \cup Ends) /\ Len(wire') <= Tokens + 3
        /\ link' \in {"open", "closed"} => ChatTypeOK'
  BY <1>1, <1>2 DEF Serves, ChatTypeOK
<1>10. QED
  BY <1>2, <1>5, <1>6, <1>7, <1>8, <1>9

(* Nobody listens to the answer any more, or it is an earlier one. *)
LEMMA WireUnheard ==
  ASSUME ChatInv, NEW t \in Turn, NEW x, NEW y, Serves(t, x, y), ~Listening(t),
         UNCHANGED <<link, wire>>
  PROVE  ChatInv'
<1>1. ChatTypeOK
  BY DEF ChatInv
<1>2. /\ BubblesInv' /\ HistoryInv' /\ ServedInv' /\ ChatTypeOK'
      /\ served'[t] = x /\ said'[t] = y
      /\ \A u \in Turn : u # t => served'[u] = served[u] /\ said'[u] = said[u]
  BY ServesKeeps
<1>3. UNCHANGED <<turns, streaming, halted, terminal, current, bubbles>>
  BY DEF Serves
<1>4. ASSUME streaming, ~halted PROVE \E s, k, e : Streams(s, k, e)'
  <2>1. PICK s, k, e :
          /\ Streams(s, k, e) /\ s \in 0..1 /\ k \in Nat /\ e \in 0..2
          /\ turns \in Turn /\ k <= said[turns] /\ said[turns] \in Nat
          /\ said[turns] <= Tokens /\ Tokens \in Nat
    BY <1>4, StreamFacts
  <2>2. CASE t # turns
    <3>1. served'[turns] = served[turns] /\ said'[turns] = said[turns]
      BY <1>2, <2>1, <2>2
    <3>2. Streams(s, k, e)'
      BY <1>3, <2>1, <3>1 DEF Streams, WireHas, Progress, Awaited
    <3>3. QED
      BY <3>2
  <2>3. CASE t = turns
    <3>1. link = "broken" /\ wire = <<>>
      BY <1>1, <1>4, <2>1, <2>3
      DEF Listening, Streams, Progress, Serves, ChatTypeOK, ChatInv, LinkInv
    <3>2. Len(wire') = 0
      BY <3>1
    <3>3. WireHas(0, 0, 0)'
      BY <3>2 DEF WireHas
    <3>4. x # "asked" /\ y \in Nat /\ said[turns] <= y
      BY <2>3 DEF Serves, Status, Ends
    <3>5. Progress(0, 0, 0)'
      BY <1>2, <1>3, <2>1, <2>3, <3>1, <3>4 DEF Streams, Progress
    <3>6. ASSUME NEW b \in bubbles, b.turn = turns PROVE Awaited(b, 0)'
      <4>1. b.content \in Nat /\ Awaited(b, k)
        BY <1>1, <2>1, <3>6, ChatTypes DEF Streams
      <4>2. b.fetched => b.content + 0 <= Tokens + y
        BY <2>1, <3>4, <4>1 DEF Awaited
      <4>3. QED
        BY <1>2, <1>3, <2>3, <3>1, <4>2 DEF Awaited
    <3>7. Streams(0, 0, 0)'
      BY <1>3, <3>3, <3>5, <3>6 DEF Streams
    <3>8. QED
      BY <3>7
  <2>4. QED
    BY <2>2, <2>3
<1>5. LinkInv'
  BY <1>3, <1>4 DEF ChatInv, LinkInv
<1>6. QED
  BY <1>2, <1>5 DEF ChatInv

(* The panel listens: what is sent comes behind what is on the wire. *)
LEMMA Relayed ==
  ASSUME ChatInv, NEW t \in Turn, NEW x, NEW y, Serves(t, x, y), Listening(t),
         NEW s, NEW k, NEW e, Streams(s, k, e),
         NEW s1 \in 0..1, NEW k1 \in Nat, NEW e1 \in 0..2, k1 <= y,
         WireHas(s1, k1, e1)', wire' \in Seq({"start", "token"} \cup Ends),
         link' \in {"open", "closed"}, Progress(s1, k1, e1)',
         k1 - k = y - said[t]
  PROVE  ChatInv'
<1>1. ChatTypeOK
  BY DEF ChatInv
<1>2. /\ t = turns /\ streaming /\ ~halted /\ link = "open"
      /\ UNCHANGED <<turns, streaming, halted, terminal, current, bubbles>>
  BY DEF Listening, Serves
<1>3. y \in Nat /\ y <= Tokens /\ Tokens \in Nat /\ k \in Nat /\ said[t] \in Nat
  BY <1>1, ChatAssumption, ChatTypes DEF Serves, Streams, WireHas
<1>4. Len(wire') <= Tokens + 3
  BY <1>3 DEF WireHas
<1>5. /\ BubblesInv' /\ HistoryInv' /\ ServedInv' /\ ChatTypeOK' /\ said'[t] = y
  BY <1>4, ServesKeeps
<1>6. ASSUME NEW b \in bubbles, b.turn = turns PROVE Awaited(b, k1)'
  <2>1. b.content \in Nat /\ Awaited(b, k)
    BY <1>1, <1>6, ChatTypes DEF Streams
  <2>2. /\ ~b.fetched => b.content + k = said[t]
        /\ b.fetched => b.content + k <= Tokens + said[t]
    BY <1>2, <2>1 DEF Awaited
  <2>3. /\ ~b.fetched => b.content + k1 = y
        /\ b.fetched => b.content + k1 <= Tokens + y
    <3>1. ASSUME NEW c \in Nat, NEW heard \in Nat
          PROVE  /\ c + k = heard /\ k1 - k = y - heard => c + k1 = y
                 /\ c + k <= Tokens + heard /\ k1 - k = y - heard => c + k1 <= Tokens + y
      BY <1>3
    <3>2. /\ b.content + k = said[t] => b.content + k1 = y
          /\ b.content + k <= Tokens + said[t] => b.content + k1 <= Tokens + y
      BY <1>3, <2>1, <3>1
    <3>3. QED
      BY <2>2, <3>2
  <2>4. QED
    BY <1>2, <1>5, <2>3 DEF Awaited
<1>7. Streams(s1, k1, e1)'
  BY <1>2, <1>6 DEF Streams
<1>8. LinkInv'
  BY <1>2, <1>7, <1>1, ChatTypes DEF ChatInv, LinkInv
<1>9. QED
  BY <1>5, <1>8 DEF ChatInv

LEMMA StartMessageStep ==
  ASSUME ChatInv, NEW t \in Turn, StartAssistantMessage(t)
  PROVE  ChatInv'
<1>1. ChatTypeOK
  BY DEF ChatInv
<1>2. /\ served[t] = "asked" /\ Relay(t, <<"start">>, FALSE)
      /\ served' = [served EXCEPT ![t] = "streaming"] /\ said' = said
      /\ conv' = [conv EXCEPT ![t] = IF @ = None THEN t ELSE @]
      /\ UNCHANGED <<turns, streaming, halted, terminal, current, bubbles, conversation, chosen,
                     hydrated, history, chatFaults>>
  BY DEF StartAssistantMessage, UNCHANGED_BY_GATEWAY, panelVars
<1>3. Serves(t, "streaming", said[t])
  BY <1>1, <1>2, ServesSame DEF Status, Ends
<1>4. CASE ~Listening(t)
  BY <1>2, <1>3, <1>4, WireUnheard DEF Relay
<1>5. CASE Listening(t)
  <2>1. t = turns /\ streaming /\ ~halted /\ link = "open"
    BY <1>5 DEF Listening
  <2>2. PICK s, k, e :
          /\ Streams(s, k, e) /\ s \in 0..1 /\ k \in Nat /\ e \in 0..2
          /\ turns \in Turn /\ k <= said[turns] /\ said[turns] \in Nat
          /\ said[turns] <= Tokens /\ Tokens \in Nat
    BY <2>1, StreamFacts
  <2>3. s = 0 /\ k = 0 /\ e = 0 /\ said[t] = 0 /\ ~current /\ ~terminal
    BY <1>2, <2>1, <2>2 DEF Streams, Progress
  <2>4. wire = <<>>
    BY <1>1, <2>2, <2>3 DEF Streams, WireHas, ChatTypeOK
  <2>5. wire' = <<"start">> /\ link' = "open"
    BY <1>2, <1>5, <2>1, <2>4 DEF Relay
  <2>6. WireHas(1, 0, 0)' /\ wire' \in Seq({"start", "token"} \cup Ends)
    BY <2>5 DEF WireHas
  <2>7. served'[t] = "streaming" /\ said'[t] = said[t]
    BY <1>3, ServesKeeps
  <2>8. Progress(1, 0, 0)'
    BY <1>2, <2>1, <2>3, <2>5, <2>7 DEF Progress
  <2>9. QED
    BY <1>3, <1>5, <2>2, <2>3, <2>5, <2>6, <2>8, Relayed
<1>6. QED
  BY <1>4, <1>5

LEMMA ChatRefuseStep ==
  ASSUME ChatInv, NEW t \in Turn, RefuseMessage(t)
  PROVE  ChatInv'
<1>1. ChatTypeOK
  BY DEF ChatInv
<1>2. /\ served[t] = "asked" /\ Relay(t, <<>>, TRUE)
      /\ served' = [served EXCEPT ![t] = "refused"] /\ said' = said
      /\ conv' \in {conv, [conv EXCEPT ![t] = IF @ = None THEN t ELSE @]}
      /\ UNCHANGED <<turns, streaming, halted, terminal, current, bubbles, conversation, chosen,
                     hydrated, history, chatFaults>>
  BY DEF RefuseMessage, UNCHANGED_BY_GATEWAY, panelVars
<1>3. Serves(t, "refused", said[t])
  BY <1>1, <1>2, ServesSame DEF Status, Ends
<1>4. CASE ~Listening(t)
  BY <1>2, <1>3, <1>4, WireUnheard DEF Relay
<1>5. CASE Listening(t)
  <2>1. t = turns /\ streaming /\ ~halted /\ link = "open"
    BY <1>5 DEF Listening
  <2>2. PICK s, k, e :
          /\ Streams(s, k, e) /\ s \in 0..1 /\ k \in Nat /\ e \in 0..2
          /\ turns \in Turn /\ k <= said[turns] /\ said[turns] \in Nat
          /\ said[turns] <= Tokens /\ Tokens \in Nat
    BY <2>1, StreamFacts
  <2>3. s = 0 /\ k = 0 /\ e = 0 /\ said[t] = 0 /\ ~terminal
    BY <1>2, <2>1, <2>2 DEF Streams, Progress
  <2>4. wire = <<>>
    BY <1>1, <2>2, <2>3 DEF Streams, WireHas, ChatTypeOK
  <2>5. wire' = <<>> /\ link' = "closed"
    BY <1>2, <1>5, <2>1, <2>4 DEF Relay
  <2>6. WireHas(0, 0, 0)' /\ wire' \in Seq({"start", "token"} \cup Ends)
    BY <2>5 DEF WireHas
  <2>7. served'[t] = "refused" /\ said'[t] = said[t]
    BY <1>3, ServesKeeps
  <2>8. Progress(0, 0, 0)'
    BY <1>2, <2>1, <2>3, <2>5, <2>7 DEF Progress
  <2>9. QED
    BY <1>3, <1>5, <2>2, <2>3, <2>5, <2>6, <2>8, Relayed
<1>6. QED
  BY <1>4, <1>5

LEMMA TokenStep ==
  ASSUME ChatInv, NEW t \in Turn, relayToken(t)
  PROVE  ChatInv'
<1>1. ChatTypeOK
  BY DEF ChatInv
<1>2. /\ served[t] = "streaming" /\ said[t] < Tokens /\ Relay(t, <<"token">>, FALSE)
      /\ served' = served /\ said' = [said EXCEPT ![t] = @ + 1] /\ conv' = conv
      /\ UNCHANGED <<turns, streaming, halted, terminal, current, bubbles, conversation, chosen,
                     hydrated, history, chatFaults>>
  BY DEF relayToken, UNCHANGED_BY_GATEWAY, panelVars
<1>3. Serves(t, "streaming", said[t] + 1)
  <2>1. said[t] + 1 \in 0..Tokens /\ said[t] + 1 >= said[t]
    BY <1>1, <1>2, ChatAssumption, ChatTypes
  <2>2. said' = [said EXCEPT ![t] = said[t] + 1] /\ served' = [served EXCEPT ![t] = "streaming"]
    BY <1>1, <1>2 DEF ChatTypeOK
  <2>3. QED
    BY <1>1, <1>2, <2>1, <2>2 DEF Serves, Status, ChatTypeOK
<1>4. CASE ~Listening(t)
  BY <1>2, <1>3, <1>4, WireUnheard DEF Relay
<1>5. CASE Listening(t)
  <2>1. t = turns /\ streaming /\ ~halted /\ link = "open"
    BY <1>5 DEF Listening
  <2>2. PICK s, k, e :
          /\ Streams(s, k, e) /\ s \in 0..1 /\ k \in Nat /\ e \in 0..2
          /\ turns \in Turn /\ k <= said[turns] /\ said[turns] \in Nat
          /\ said[turns] <= Tokens /\ Tokens \in Nat
    BY <2>1, StreamFacts
  <2>3. e = 0 /\ ~terminal /\ (current \/ s = 1) /\ (s = 1 => ~current)
    BY <1>2, <2>1, <2>2 DEF Streams, Progress
  <2>4. wire' = wire \o <<"token">> /\ link' = "open"
    BY <1>2, <1>5, <2>1 DEF Relay
  <2>5. /\ wire \in Seq({"start", "token"} \cup Ends) /\ Len(wire) = s + k /\ Len(wire) \in Nat
        /\ \A i \in 1..Len(wire) : wire[i] = IF i <= s THEN "start" ELSE "token"
    BY <1>1, <2>2, <2>3 DEF Streams, WireHas, ChatTypeOK
  <2>6. /\ wire' \in Seq({"start", "token"} \cup Ends) /\ Len(wire') = Len(wire) + 1
        /\ \A i \in 1..Len(wire) : wire'[i] = wire[i]
        /\ wire'[Len(wire) + 1] = "token"
    BY <2>4, <2>5
  <2>7. WireHas(s, k + 1, 0)'
    BY <2>2, <2>5, <2>6 DEF WireHas
  <2>8. served'[t] = "streaming" /\ said'[t] = said[t] + 1
    BY <1>3, ServesKeeps
  <2>9. Progress(s, k + 1, 0)'
    BY <1>2, <2>1, <2>2, <2>3, <2>4, <2>8 DEF Progress
  <2>10. k + 1 \in Nat /\ k + 1 <= said[t] + 1 /\ (k + 1) - k = (said[t] + 1) - said[t]
    BY <2>1, <2>2
  <2>11. QED
    BY <1>3, <1>5, <2>2, <2>4, <2>6, <2>7, <2>9, <2>10, Relayed
<1>6. QED
  BY <1>4, <1>5

LEMMA FinalizeStep ==
  ASSUME ChatInv, NEW t \in Turn, NEW x \in Ends, FinalizeAssistantMessage(t, x)
  PROVE  ChatInv'
<1>1. ChatTypeOK
  BY DEF ChatInv
<1>2. /\ served[t] = "streaming" /\ (x = "aborted" => ~Listening(t))
      /\ Relay(t, IF x = "error" THEN <<"error", "error">> ELSE <<x>>, TRUE)
      /\ served' = [served EXCEPT ![t] = x] /\ said' = said /\ conv' = conv
      /\ UNCHANGED <<turns, streaming, halted, terminal, current, bubbles, conversation, chosen,
                     hydrated, history, chatFaults>>
  BY DEF FinalizeAssistantMessage, UNCHANGED_BY_GATEWAY, panelVars
<1>3. Serves(t, x, said[t])
  BY <1>1, <1>2, ServesSame DEF Status, Ends
<1>4. CASE ~Listening(t)
  BY <1>2, <1>3, <1>4, WireUnheard DEF Relay
<1>5. CASE Listening(t)
  <2>1. t = turns /\ streaming /\ ~halted /\ link = "open" /\ x \in {"complete", "error"}
    BY <1>2, <1>5 DEF Listening, Ends
  <2>2. PICK s, k, e :
          /\ Streams(s, k, e) /\ s \in 0..1 /\ k \in Nat /\ e \in 0..2
          /\ turns \in Turn /\ k <= said[turns] /\ said[turns] \in Nat
          /\ said[turns] <= Tokens /\ Tokens \in Nat
    BY <2>1, StreamFacts
  <2>3. e = 0 /\ ~terminal /\ (current \/ s = 1) /\ (s = 1 => ~current)
    BY <1>2, <2>1, <2>2 DEF Streams, Progress
  <2>4. PICK n \in {1, 2} : /\ wire' = wire \o [i \in 1..n |-> x] /\ link' = "closed"
    <3>1. <<"error", "error">> = [i \in 1..2 |-> "error"] /\ <<x>> = [i \in 1..1 |-> x]
      OBVIOUS
    <3>2. QED
      BY <1>2, <1>5, <2>1, <3>1 DEF Relay
  <2>5. /\ wire \in Seq({"start", "token"} \cup Ends) /\ Len(wire) = s + k /\ Len(wire) \in Nat
        /\ \A i \in 1..Len(wire) : wire[i] = IF i <= s THEN "start" ELSE "token"
    BY <1>1, <2>2, <2>3 DEF Streams, WireHas, ChatTypeOK
  <2>6. /\ [i \in 1..n |-> x] \in Seq({"start", "token"} \cup Ends)
        /\ Len([i \in 1..n |-> x]) = n
    BY <2>1, <2>4 DEF Ends
  <2>7. /\ wire' \in Seq({"start", "token"} \cup Ends) /\ Len(wire') = Len(wire) + n
        /\ \A i \in 1..Len(wire') :
             wire'[i] = IF i <= Len(wire) THEN wire[i] ELSE x
    BY <2>4, <2>5, <2>6
  <2>8. served'[t] = x /\ said'[t] = said[t]
    BY <1>3, ServesKeeps
  <2>9. WireHas(s, k, n)'
    BY <1>2, <2>1, <2>2, <2>5, <2>7, <2>8 DEF WireHas
  <2>10. Progress(s, k, n)'
    BY <1>2, <2>1, <2>2, <2>3, <2>4, <2>8 DEF Progress
  <2>11. n \in 0..2 /\ k - k = said[t] - said[t] /\ k <= said[t]
    BY <2>1, <2>2
  <2>12. QED
    BY <1>3, <1>5, <2>2, <2>4, <2>7, <2>9, <2>10, <2>11, Relayed
<1>6. QED
  BY <1>4, <1>5

LEMMA ChatSteps == ChatInv /\ [ChatNext]_chatVars => ChatInv'
<1> SUFFICES ASSUME ChatInv, [ChatNext]_chatVars PROVE ChatInv'
  OBVIOUS
<1>1. CASE UNCHANGED chatVars
  <2>1. UNCHANGED <<turns, served, conv, said, link, wire, streaming, halted, terminal, current,
                    bubbles, conversation, chosen, hydrated, history, chatFaults>>
    BY <1>1 DEF chatVars, serverAnswers, streamVars, panelVars
  <2>2. ChatTypeOK'
    BY <2>1 DEF ChatInv, ChatTypeOK
  <2>3. LinkInv' /\ BubblesInv' /\ ServedInv' /\ bubbles' \subseteq Bubble
    BY <2>1, Fetched
  <2>4. HistoryInv'
    BY <2>1 DEF ChatInv, HistoryInv
  <2>5. QED
    BY <2>2, <2>3, <2>4 DEF ChatInv
<1>2. CASE HearAnswer
  BY <1>2, StartHeard, TokenHeard, EndHeard
<1>3. CASE ChatNext
  BY <1>2, <1>3, SendMessageStep, HaltStep, FetchMessagesStep, ChatOpenStep, StreamOverStep,
     LinkBreaksStep, StartMessageStep, ChatRefuseStep, TokenStep, FinalizeStep DEF ChatNext
<1>4. QED
  BY <1>1, <1>3

LEMMA ChatInvSuffices == ChatInv => AnswersSettle
<1> SUFFICES ASSUME ChatInv, NEW b \in bubbles, ~b.fetched
             PROVE  /\ b.status = "streaming" => streaming /\ b.turn = turns
                    /\ b.status = "complete" => served[b.turn] = "complete" /\ b.content = said[b.turn]
                    /\ b.content <= said[b.turn]
  BY DEF AnswersSettle
<1>1. BubbleFits(b)
  BY DEF ChatInv, BubblesInv
<1>2. QED
  BY <1>1 DEF BubbleFits

LEMMA SubSeqIs ==
  ASSUME NEW S, NEW s \in Seq(S), NEW m \in 1..(Len(s) + 1), NEW n \in (m-1)..Len(s)
  PROVE  /\ SubSeq(s, m, n) \in Seq(S) /\ Len(SubSeq(s, m, n)) = n - m + 1
         /\ \A k \in 1..(n - m + 1) : SubSeq(s, m, n)[k] = s[m + k - 1]
  BY SubSeqProperties
LEMMA RemoveAtIs ==
  ASSUME NEW S, NEW s \in Seq(S), NEW i \in 1..Len(s)
  PROVE  /\ RemoveAt(s, i) \in Seq(S) /\ Len(RemoveAt(s, i)) = Len(s) - 1
         /\ \A k \in 1..(Len(s) - 1) : RemoveAt(s, i)[k] = s[IF k < i THEN k ELSE k + 1]
<1> DEFINE a == SubSeq(s, 1, i - 1)
           b == SubSeq(s, i + 1, Len(s))
<1>1. Len(s) \in Nat /\ i \in Nat /\ 1 <= i /\ i <= Len(s)
  OBVIOUS
<1>2. /\ a \in Seq(S) /\ Len(a) = i - 1 /\ \A k \in 1..(i - 1) : a[k] = s[k]
  <2>1. 1 \in 1..(Len(s) + 1) /\ i - 1 \in (1 - 1)..Len(s)
    BY <1>1
  <2>2. QED
    BY <1>1, <2>1, SubSeqIs
<1>3. /\ b \in Seq(S) /\ Len(b) = Len(s) - i
      /\ \A k \in 1..(Len(s) - i) : b[k] = s[i + k]
  <2>1. i + 1 \in 1..(Len(s) + 1) /\ Len(s) \in ((i + 1) - 1)..Len(s)
    BY <1>1
  <2>2. /\ b \in Seq(S) /\ Len(b) = Len(s) - (i + 1) + 1
        /\ \A k \in 1..(Len(s) - (i + 1) + 1) : b[k] = s[(i + 1) + k - 1]
    BY <2>1, SubSeqIs
  <2>3. QED
    BY <1>1, <2>2
<1> HIDE DEF a, b
<1>4. /\ a \o b \in Seq(S) /\ Len(a \o b) = Len(s) - 1
      /\ \A k \in 1..(Len(s) - 1) :
           (a \o b)[k] = IF k <= i - 1 THEN a[k] ELSE b[k - (i - 1)]
  <2>1. /\ a \o b \in Seq(S) /\ Len(a \o b) = Len(a) + Len(b)
        /\ \A k \in 1..(Len(a) + Len(b)) :
             (a \o b)[k] = IF k <= Len(a) THEN a[k] ELSE b[k - Len(a)]
    BY <1>2, <1>3, ConcatProperties
  <2>2. Len(a) + Len(b) = Len(s) - 1
    BY <1>1, <1>2, <1>3
  <2>3. QED
    BY <1>2, <2>1, <2>2
<1>5. ASSUME NEW k \in 1..(Len(s) - 1)
      PROVE  (a \o b)[k] = s[IF k < i THEN k ELSE k + 1]
  <2>1. CASE k <= i - 1
    BY <1>1, <1>2, <1>4, <2>1
  <2>2. CASE ~(k <= i - 1)
    <3>1. k - (i - 1) \in 1..(Len(s) - i) /\ i + (k - (i - 1)) = k + 1
      BY <1>1, <2>2
    <3>2. QED
      BY <1>1, <1>3, <1>4, <2>2, <3>1
  <2>3. QED
    BY <2>1, <2>2
<1>6. RemoveAt(s, i) = a \o b
  BY DEF RemoveAt, a, b
<1>7. QED
  BY <1>4, <1>5, <1>6
LEMMA InsertAtIs ==
  ASSUME NEW S, NEW s \in Seq(S), NEW i \in 1..(Len(s) + 1), NEW e \in S
  PROVE  /\ InsertAt(s, i, e) \in Seq(S) /\ Len(InsertAt(s, i, e)) = Len(s) + 1
         /\ \A k \in 1..(Len(s) + 1) :
              InsertAt(s, i, e)[k] = IF k < i THEN s[k] ELSE IF k = i THEN e ELSE s[k - 1]
<1> DEFINE a == SubSeq(s, 1, i - 1)
           b == SubSeq(s, i, Len(s))
           c == a \o <<e>>
<1>1. Len(s) \in Nat /\ i \in Nat /\ 1 <= i /\ i <= Len(s) + 1
  OBVIOUS
<1>2. /\ a \in Seq(S) /\ Len(a) = i - 1 /\ \A k \in 1..(i - 1) : a[k] = s[k]
  <2>1. 1 \in 1..(Len(s) + 1) /\ i - 1 \in (1 - 1)..Len(s)
    BY <1>1
  <2>2. QED
    BY <1>1, <2>1, SubSeqIs
<1>3. /\ b \in Seq(S) /\ Len(b) = Len(s) - i + 1
      /\ \A k \in 1..(Len(s) - i + 1) : b[k] = s[i + k - 1]
  <2>1. Len(s) \in (i - 1)..Len(s)
    BY <1>1
  <2>2. QED
    BY <2>1, SubSeqIs
<1>4. <<e>> \in Seq(S) /\ Len(<<e>>) = 1 /\ <<e>>[1] = e
  OBVIOUS
<1> HIDE DEF a, b
<1>5. /\ c \in Seq(S) /\ Len(c) = i
      /\ \A k \in 1..i : c[k] = IF k <= i - 1 THEN a[k] ELSE <<e>>[k - (i - 1)]
  <2>1. /\ c \in Seq(S) /\ Len(c) = Len(a) + Len(<<e>>)
        /\ \A k \in 1..(Len(a) + Len(<<e>>)) : c[k] = IF k <= Len(a) THEN a[k] ELSE <<e>>[k - Len(a)]
    BY <1>2, <1>4, ConcatProperties
  <2>2. Len(a) + Len(<<e>>) = i
    BY <1>1, <1>2, <1>4
  <2>3. QED
    BY <1>2, <2>1, <2>2
<1> HIDE DEF c
<1>6. /\ c \o b \in Seq(S) /\ Len(c \o b) = Len(s) + 1
      /\ \A k \in 1..(Len(s) + 1) : (c \o b)[k] = IF k <= i THEN c[k] ELSE b[k - i]
  <2>1. /\ c \o b \in Seq(S) /\ Len(c \o b) = Len(c) + Len(b)
        /\ \A k \in 1..(Len(c) + Len(b)) : (c \o b)[k] = IF k <= Len(c) THEN c[k] ELSE b[k - Len(c)]
    BY <1>3, <1>5, ConcatProperties
  <2>2. Len(c) + Len(b) = Len(s) + 1
    BY <1>1, <1>3, <1>5
  <2>3. QED
    BY <1>5, <2>1, <2>2
<1>7. ASSUME NEW k \in 1..(Len(s) + 1)
      PROVE  (c \o b)[k] = IF k < i THEN s[k] ELSE IF k = i THEN e ELSE s[k - 1]
  <2>1. CASE k < i
    BY <1>1, <1>2, <1>5, <1>6, <2>1
  <2>2. CASE k = i
    <3>1. k - (i - 1) = 1 /\ ~(k <= i - 1)
      BY <1>1, <2>2
    <3>2. c[k] = e
      BY <1>1, <1>4, <1>5, <2>2, <3>1
    <3>3. QED
      BY <1>1, <1>6, <2>2, <3>2
  <2>3. CASE k > i
    <3>1. k - i \in 1..(Len(s) - i + 1) /\ i + (k - i) - 1 = k - 1
      BY <1>1, <2>3
    <3>2. b[k - i] = s[k - 1]
      BY <1>3, <3>1
    <3>3. (c \o b)[k] = b[k - i]
      BY <1>1, <1>6, <2>3
    <3>4. QED
      BY <1>1, <2>3, <3>2, <3>3
  <2>4. k < i \/ k = i \/ k > i
    BY <1>1
  <2>5. QED
    BY <2>1, <2>2, <2>3, <2>4
<1>8. InsertAt(s, i, e) = c \o b
  BY DEF InsertAt, a, b, c
<1>9. QED
  BY <1>6, <1>7, <1>8

(***************************************************************************)
(* Questions and elements of good standing, with ids up to n.              *)
(***************************************************************************)
Right(s) == {j \in DOMAIN s : s[j].right}
Keyed == Choice \cup {"boolean"}
Tags == {"option", "block"}

OptionSet(n) == [id : Tags \X (1..n) \X (1..MaxItems), value : Values \cup {"True", "False"}, right : BOOLEAN]
ElementSet(n) ==
  [id : 1..n, type : Types, truth : BOOLEAN, kept : Seq(ItemSet),
   correctOptionIds : SUBSET (Tags \X (1..n) \X (1..MaxItems)), options : Seq(OptionSet(n))]
QuestionSet(n) ==
  [id : 1..n, type : Types, truth : BOOLEAN, items : Seq(ItemSet), correct : SUBSET (1..MaxItems)]

Named(e) == \E tag \in Tags : \A j \in DOMAIN e.options : e.options[j].id = <<tag, e.id, j>>
KeyFits(e) ==
  e.type \in Keyed =>
    /\ e.correctOptionIds = {e.options[j].id : j \in Right(e.options)}
    /\ e.correctOptionIds # {}
    /\ e.type = "mcq" => \A a, b \in e.correctOptionIds : a = b

GoodElements(n) ==
  {e \in ElementSet(n) : Len(e.options) <= MaxItems /\ Len(e.kept) <= MaxItems /\ Named(e) /\ KeyFits(e)}
GoodQuestions(n) ==
  {q \in QuestionSet(n) : /\ Len(q.items) <= MaxItems
                          /\ q.type \in Choice => q.correct = Right(q.items)
                          /\ q.type = "mcq" => \A i, j \in q.correct : i = j}

StudyInv ==
  /\ minted \in Nat /\ edits \in 0..StudyEdits
  /\ dialog \in {"closed", "open", "stale"} /\ (dialog = "closed" => form = <<>>)
  /\ block \in Seq(GoodElements(minted)) /\ Distinct(block)
  /\ form \in Seq(GoodQuestions(minted)) /\ Distinct(form)

(* What is good with some ids is good with more of them. *)
LEMMA GoodMore ==
  ASSUME NEW n \in Nat, NEW m \in Nat, n <= m
  PROVE  GoodElements(n) \subseteq GoodElements(m) /\ GoodQuestions(n) \subseteq GoodQuestions(m)
<1>1. 1..n \subseteq 1..m
  OBVIOUS
<1>2. Tags \X (1..n) \X (1..MaxItems) \subseteq Tags \X (1..m) \X (1..MaxItems)
  BY <1>1
<1>3. OptionSet(n) \subseteq OptionSet(m)
  BY <1>2 DEF OptionSet
<1>4. \A s \in Seq(OptionSet(n)) : s \in Seq(OptionSet(m))
  BY <1>3, SeqMonotonic
<1>5. ElementSet(n) \subseteq ElementSet(m)
  BY <1>1, <1>2, <1>4 DEF ElementSet
<1>6. QuestionSet(n) \subseteq QuestionSet(m)
  BY <1>1 DEF QuestionSet
<1>7. QED
  BY <1>5, <1>6 DEF GoodElements, GoodQuestions

(* The element of some items, whatever tag its options' ids bear. *)
ElementFor(id, tag, type, truth, shown, right, kept) ==
  [id |-> id, type |-> type, truth |-> truth,
   options |-> [i \in DOMAIN shown |-> [id |-> <<tag, id, i>>, value |-> shown[i].value,
                                        right |-> shown[i].right]],
   correctOptionIds |-> {<<tag, id, i>> : i \in right}, kept |-> kept]

LEMMA ElementIsGood ==
  ASSUME NEW n \in Nat, NEW id \in 1..n, NEW tag \in Tags, NEW type \in Types, NEW truth \in BOOLEAN,
         NEW shown \in Seq(ItemSet), Len(shown) <= MaxItems,
         NEW kept \in Seq(ItemSet), Len(kept) <= MaxItems,
         NEW right \in SUBSET (1..MaxItems),
         type \in Keyed => right = Right(shown) /\ right # {},
         type = "mcq" => \A i, j \in right : i = j
  PROVE  /\ ElementFor(id, tag, type, truth, shown, right, kept) \in GoodElements(n)
         /\ ElementFor(id, tag, type, truth, shown, right, kept).id = id
<1> DEFINE e == ElementFor(id, tag, type, truth, shown, right, kept)
           options == [i \in DOMAIN shown |-> [id |-> <<tag, id, i>>, value |-> shown[i].value,
                                               right |-> shown[i].right]]
<1>1. Len(shown) \in Nat /\ DOMAIN shown = 1..Len(shown) /\ MaxItems \in Nat
  BY StudyAssumption
<1>2. \A i \in 1..Len(shown) : shown[i] \in ItemSet /\ i \in 1..MaxItems
  BY <1>1, ElementOfSeq
<1>3. \A i \in 1..Len(shown) : options[i] \in OptionSet(n)
  BY <1>1, <1>2 DEF OptionSet, ItemSet
<1>4. options \in [1..Len(shown) -> OptionSet(n)]
  BY <1>1, <1>3
<1>5. options \in Seq(OptionSet(n)) /\ Len(options) = Len(shown) /\ DOMAIN options = 1..Len(shown)
  BY <1>1, <1>4, SeqDef
<1>6. \A i \in 1..Len(shown) : options[i].id = <<tag, id, i>> /\ options[i].right = shown[i].right
  BY <1>1
<1> HIDE DEF options
<1>7. /\ e.id = id /\ e.type = type /\ e.truth = truth /\ e.options = options /\ e.kept = kept
      /\ e.correctOptionIds = {<<tag, id, i>> : i \in right}
  BY DEF options, ElementFor
<1>8. {<<tag, id, i>> : i \in right} \in SUBSET (Tags \X (1..n) \X (1..MaxItems))
  OBVIOUS
<1>9. e \in ElementSet(n)
  BY <1>5, <1>8 DEF ElementSet, options, ElementFor
<1> HIDE DEF e
<1>10. Named(e)
  BY <1>5, <1>6, <1>7 DEF Named
<1>11. KeyFits(e)
  <2>1. SUFFICES ASSUME type \in Keyed
                 PROVE  /\ {<<tag, id, i>> : i \in right} = {options[j].id : j \in Right(options)}
                        /\ {<<tag, id, i>> : i \in right} # {}
                        /\ type = "mcq" => \A a, b \in {<<tag, id, i>> : i \in right} : a = b
    BY <1>7 DEF KeyFits
  <2>2. Right(options) = right /\ right # {}
    BY <1>1, <1>5, <1>6, <2>1 DEF Right
  <2>3. \A j \in right : options[j].id = <<tag, id, j>>
    BY <1>1, <1>6, <2>1 DEF Right
  <2>4. {<<tag, id, i>> : i \in right} = {options[j].id : j \in right}
    BY <2>3
  <2>5. {<<tag, id, i>> : i \in right} # {}
    <3>1. PICK i \in right : TRUE
      BY <2>2
    <3>2. <<tag, id, i>> \in {<<tag, id, j>> : j \in right}
      OBVIOUS
    <3>3. QED
      BY <3>2
  <2>6. type = "mcq" => \A a, b \in {<<tag, id, i>> : i \in right} : a = b
    OBVIOUS
  <2>7. QED
    BY <2>2, <2>4, <2>5, <2>6
<1>12. QED
  BY <1>1, <1>5, <1>7, <1>9, <1>10, <1>11 DEF GoodElements, e

(* What is known of a good element. *)
LEMMA GoodElementIs ==
  ASSUME NEW n \in Nat, NEW e \in GoodElements(n)
  PROVE  /\ e = [id |-> e.id, type |-> e.type, truth |-> e.truth, options |-> e.options,
                 correctOptionIds |-> e.correctOptionIds, kept |-> e.kept]
         /\ e.id \in 1..n /\ e.type \in Types /\ e.truth \in BOOLEAN
         /\ e.kept \in Seq(ItemSet) /\ Len(e.kept) <= MaxItems
         /\ Len(e.options) \in Nat /\ Len(e.options) <= MaxItems /\ DOMAIN e.options = 1..Len(e.options)
         /\ \A j \in 1..Len(e.options) : /\ e.options[j].value \in Values \cup {"True", "False"}
                                         /\ e.options[j].right \in BOOLEAN
         /\ e.correctOptionIds \in SUBSET (Tags \X (1..n) \X (1..MaxItems))
         /\ Named(e) /\ KeyFits(e)
<1>1. e \in ElementSet(n)
  BY DEF GoodElements
<1>2. e.options \in Seq(OptionSet(n))
  BY <1>1 DEF ElementSet
<1>3. Len(e.options) \in Nat /\ DOMAIN e.options = 1..Len(e.options)
  BY <1>2
<1>4. \A j \in 1..Len(e.options) : e.options[j] \in OptionSet(n)
  BY <1>2, ElementOfSeq
<1>5. QED
  BY <1>1, <1>3, <1>4 DEF GoodElements, ElementSet, OptionSet

(* The key's ids name the options marked right. *)
LEMMA KeyIs ==
  ASSUME NEW n \in Nat, NEW e \in GoodElements(n), e.type \in Keyed
  PROVE  /\ {j \in DOMAIN e.options : e.options[j].id \in e.correctOptionIds} = Right(e.options)
         /\ Right(e.options) # {}
         /\ e.type = "mcq" => \A i, j \in Right(e.options) : i = j
<1>1. PICK tag \in Tags : \A j \in DOMAIN e.options : e.options[j].id = <<tag, e.id, j>>
  BY GoodElementIs DEF Named
<1>2. \A i, j \in DOMAIN e.options : e.options[i].id = e.options[j].id => i = j
  BY <1>1
<1>3. /\ e.correctOptionIds = {e.options[j].id : j \in Right(e.options)}
      /\ e.correctOptionIds # {}
      /\ e.type = "mcq" => \A a, b \in e.correctOptionIds : a = b
  BY GoodElementIs DEF KeyFits
<1>4. QED
  BY <1>2, <1>3 DEF Right

(* A question's items and those of the element's options. *)
LEMMA ItemsOf ==
  ASSUME NEW n \in Nat, NEW e \in GoodElements(n), NEW items,
         items = [i \in DOMAIN e.options |-> Item(e.options[i].value, e.options[i].right)]
  PROVE  /\ items \in Seq(ItemSet) /\ Len(items) = Len(e.options) /\ DOMAIN items = DOMAIN e.options
         /\ \A i \in DOMAIN items : items[i].value = e.options[i].value /\ items[i].right = e.options[i].right
         /\ Right(items) = Right(e.options)
<1>1. /\ Len(e.options) \in Nat /\ DOMAIN e.options = 1..Len(e.options)
      /\ \A j \in 1..Len(e.options) : /\ e.options[j].value \in Values \cup {"True", "False"}
                                      /\ e.options[j].right \in BOOLEAN
  BY GoodElementIs
<1>2. items \in [1..Len(e.options) -> ItemSet]
  BY <1>1 DEF Item, ItemSet
<1>3. items \in Seq(ItemSet) /\ Len(items) = Len(e.options) /\ DOMAIN items = DOMAIN e.options
  BY <1>1, <1>2, SeqDef
<1>4. \A i \in DOMAIN items : items[i].value = e.options[i].value /\ items[i].right = e.options[i].right
  BY <1>3 DEF Item
<1>5. QED
  BY <1>3, <1>4 DEF Right

(***************************************************************************)
(* The conversions.                                                        *)
(***************************************************************************)
(* What is known of a good question. *)
LEMMA GoodQuestionIs ==
  ASSUME NEW n \in Nat, NEW q \in GoodQuestions(n)
  PROVE  /\ q = [id |-> q.id, type |-> q.type, truth |-> q.truth, items |-> q.items, correct |-> q.correct]
         /\ q.id \in 1..n /\ q.type \in Types /\ q.truth \in BOOLEAN
         /\ q.items \in Seq(ItemSet) /\ Len(q.items) <= MaxItems
         /\ q.correct \in SUBSET (1..MaxItems)
         /\ q.type \in Choice => q.correct = Right(q.items)
         /\ q.type = "mcq" => \A i, j \in q.correct : i = j
BY DEF GoodQuestions, QuestionSet

(* A question whose key is what is marked right is good. *)
QuestionFor(id, type, truth, items, correct) ==
  [id |-> id, type |-> type, truth |-> truth, items |-> items, correct |-> correct]

LEMMA QuestionIsGood ==
  ASSUME NEW n \in Nat, NEW id \in 1..n, NEW type \in Types, NEW truth \in BOOLEAN,
         NEW items \in Seq(ItemSet), Len(items) <= MaxItems, NEW correct \in SUBSET (1..MaxItems),
         type \in Choice => correct = Right(items),
         type = "mcq" => \A i, j \in correct : i = j
  PROVE  /\ QuestionFor(id, type, truth, items, correct) \in GoodQuestions(n)
         /\ QuestionFor(id, type, truth, items, correct).id = id
BY DEF GoodQuestions, QuestionSet, QuestionFor

(* The options marked right are among the first MaxItems. *)
LEMMA RightIn ==
  ASSUME NEW items \in Seq(ItemSet), Len(items) <= MaxItems
  PROVE  Right(items) \in SUBSET (1..MaxItems)
<1>1. DOMAIN items = 1..Len(items) /\ Len(items) \in Nat /\ MaxItems \in Nat
  BY StudyAssumption
<1>2. QED
  BY <1>1 DEF Right

(* A question becomes the same question's element. *)
LEMMA NodeIsGood ==
  ASSUME NEW n \in Nat, NEW q \in GoodQuestions(n), q.type \in Choice => q.correct # {}
  PROVE  quizQuestionNode(q) \in GoodElements(n) /\ quizQuestionNode(q).id = q.id
<1> DEFINE kept == IF q.type = "short" THEN q.items ELSE <<>>
<1>1. /\ q.id \in 1..n /\ q.type \in Types /\ q.truth \in BOOLEAN
      /\ q.items \in Seq(ItemSet) /\ Len(q.items) <= MaxItems
      /\ q.correct \in SUBSET (1..MaxItems)
      /\ q.type \in Choice => q.correct = Right(q.items)
  BY GoodQuestionIs
<1>2. kept \in Seq(ItemSet) /\ Len(kept) <= MaxItems
  <2>1. <<>> \in Seq(ItemSet) /\ Len(<<>>) <= MaxItems
    BY EmptySeq, StudyAssumption
  <2>2. QED
    BY <1>1, <2>1
<1>3. "option" \in Tags
  BY DEF Tags
<1>4. CASE q.type = "boolean"
  <2> DEFINE shown == <<Item("True", q.truth), Item("False", ~q.truth)>>
             right == {IF q.truth THEN 1 ELSE 2}
  <2>1. (~q.truth) \in BOOLEAN
    BY <1>1
  <2>2. Item("True", q.truth) \in ItemSet /\ Item("False", ~q.truth) \in ItemSet
    BY <1>1, <2>1 DEF Item, ItemSet
  <2>3. /\ shown \in Seq(ItemSet) /\ Len(shown) = 2 /\ DOMAIN shown = {1, 2}
    BY <2>2
  <2>4. right = Right(shown)
    <3>1. CASE q.truth = TRUE
      <4>1. shown[1].right = TRUE /\ shown[2].right = FALSE /\ right = {1}
        BY <3>1 DEF Item
      <4> HIDE DEF shown, right
      <4>2. QED
        BY <2>3, <4>1 DEF Right
    <3>2. CASE q.truth = FALSE
      <4>1. shown[1].right = FALSE /\ shown[2].right = TRUE /\ right = {2}
        BY <3>2 DEF Item
      <4> HIDE DEF shown, right
      <4>2. QED
        BY <2>3, <4>1 DEF Right
    <3>3. QED
      BY <1>1, <3>1, <3>2
  <2>5. right \in SUBSET (1..MaxItems) /\ right # {} /\ Len(shown) <= MaxItems
    BY <2>3, StudyAssumption
  <2>6. quizQuestionNode(q) = ElementFor(q.id, "option", q.type, q.truth, shown, right, kept)
    BY <1>4 DEF quizQuestionNode, optionId, ElementFor
  <2>7. q.type # "mcq"
    BY <1>4
  <2> DEFINE type == q.type
             truth == q.truth
             id == q.id
  <2> HIDE DEF shown, right, kept
  <2>8. /\ id \in 1..n /\ type \in Types /\ truth \in BOOLEAN
        /\ shown \in Seq(ItemSet) /\ Len(shown) <= MaxItems /\ right \in SUBSET (1..MaxItems)
        /\ right = Right(shown) /\ right # {} /\ type # "mcq"
        /\ quizQuestionNode(q) = ElementFor(id, "option", type, truth, shown, right, kept)
    BY <1>1, <2>3, <2>4, <2>5, <2>6, <2>7
  <2> HIDE DEF id, type, truth
  <2>9. quizQuestionNode(q) \in GoodElements(n) /\ quizQuestionNode(q).id = id
    BY <1>2, <1>3, <2>8, ElementIsGood
  <2>10. QED
    BY <2>9 DEF id
<1>5. CASE q.type # "boolean"
  <2>1. quizQuestionNode(q) = ElementFor(q.id, "option", q.type, q.truth, q.items, q.correct, kept)
    BY <1>5 DEF quizQuestionNode, optionId, ElementFor
  <2>2. q.type \in Keyed => q.correct = Right(q.items) /\ q.correct # {}
    BY <1>1, <1>5 DEF Keyed
  <2>3. q.type = "mcq" => \A i, j \in q.correct : i = j
    BY GoodQuestionIs
  <2> DEFINE shown == q.items
             right == q.correct
             type == q.type
             truth == q.truth
             id == q.id
  <2> HIDE DEF kept
  <2>4. /\ id \in 1..n /\ type \in Types /\ truth \in BOOLEAN
        /\ shown \in Seq(ItemSet) /\ Len(shown) <= MaxItems /\ right \in SUBSET (1..MaxItems)
        /\ type \in Keyed => right = Right(shown) /\ right # {}
        /\ type = "mcq" => \A i, j \in right : i = j
        /\ quizQuestionNode(q) = ElementFor(id, "option", type, truth, shown, right, kept)
    BY <1>1, <2>1, <2>2, <2>3
  <2> HIDE DEF id, type, truth, shown, right
  <2>5. quizQuestionNode(q) \in GoodElements(n) /\ quizQuestionNode(q).id = id
    BY <1>2, <1>3, <2>4, ElementIsGood
  <2>6. QED
    BY <2>5 DEF id
<1>6. QED
  BY <1>4, <1>5

(* An element becomes the same element's question. *)
LEMMA FormQuestionIsGood ==
  ASSUME NEW n \in Nat, NEW e \in GoodElements(n)
  PROVE  /\ quizQuestionElementToQuestion(e) \in GoodQuestions(n)
         /\ quizQuestionElementToQuestion(e).id = e.id
<1> DEFINE shown == [i \in DOMAIN e.options |-> Item(e.options[i].value, e.options[i].right)]
           items == CASE e.type = "boolean" -> <<>>
                      [] e.type = "short"   -> e.kept
                      [] OTHER -> shown
           correct == IF e.type \in Choice
                        THEN {i \in DOMAIN e.options : e.options[i].id \in e.correctOptionIds} ELSE {}
<1>1. /\ e.id \in 1..n /\ e.type \in Types /\ e.truth \in BOOLEAN
      /\ e.kept \in Seq(ItemSet) /\ Len(e.kept) <= MaxItems /\ Len(e.options) <= MaxItems
  BY GoodElementIs
<1>2. shown \in Seq(ItemSet) /\ Len(shown) = Len(e.options) /\ Right(shown) = Right(e.options)
  BY ItemsOf
<1>3. items \in Seq(ItemSet) /\ Len(items) <= MaxItems
  <2>1. <<>> \in Seq(ItemSet) /\ Len(<<>>) <= MaxItems
    BY EmptySeq, StudyAssumption
  <2> HIDE DEF shown
  <2>2. CASE e.type = "boolean"
    BY <2>1, <2>2
  <2>3. CASE e.type = "short"
    BY <1>1, <2>3
  <2>4. CASE e.type \notin {"boolean", "short"}
    BY <1>1, <1>2, <2>4
  <2>5. QED
    BY <2>2, <2>3, <2>4
<1>4. e.type \in Choice => correct = Right(items)
  <2>1. ASSUME e.type \in Choice PROVE items = shown /\ correct = Right(e.options)
    BY <2>1, KeyIs DEF Choice, Keyed
  <2>2. QED
    BY <1>2, <2>1
<1>5. correct \in SUBSET (1..MaxItems)
  <2>1. CASE e.type \in Choice
    BY <1>3, <1>4, <2>1, RightIn
  <2>2. CASE e.type \notin Choice
    BY <2>2
  <2>3. QED
    BY <2>1, <2>2
<1>6. quizQuestionElementToQuestion(e) =
        QuestionFor(e.id, e.type, e.truth, items, correct)
  BY DEF quizQuestionElementToQuestion, QuestionFor
<1>7. e.type = "mcq" => \A i, j \in correct : i = j
  BY KeyIs DEF Keyed, Choice
<1> HIDE DEF items, correct
<1>8. QED
  BY <1>1, <1>3, <1>4, <1>5, <1>6, <1>7, QuestionIsGood

(* A copy is good with the next id, and its key names its own options. *)
LEMMA CloneIsGood ==
  ASSUME NEW n \in Nat, NEW e \in GoodElements(n)
  PROVE  cloneStudyItem(e, n + 1) \in GoodElements(n + 1) /\ cloneStudyItem(e, n + 1).id = n + 1
<1> DEFINE shown == [i \in DOMAIN e.options |-> Item(e.options[i].value, e.options[i].right)]
           right == {j \in DOMAIN e.options : e.options[j].id \in e.correctOptionIds}
           fresh(i) == <<"block", n + 1, i>>
           options == [i \in DOMAIN e.options |-> [e.options[i] EXCEPT !.id = fresh(i)]]
<1>1. /\ e = [id |-> e.id, type |-> e.type, truth |-> e.truth, options |-> e.options,
              correctOptionIds |-> e.correctOptionIds, kept |-> e.kept]
      /\ e.type \in Types /\ e.truth \in BOOLEAN
      /\ e.kept \in Seq(ItemSet) /\ Len(e.kept) <= MaxItems
      /\ Len(e.options) \in Nat /\ Len(e.options) <= MaxItems /\ DOMAIN e.options = 1..Len(e.options)
  BY GoodElementIs
<1>2. /\ shown \in Seq(ItemSet) /\ Len(shown) = Len(e.options) /\ DOMAIN shown = DOMAIN e.options
      /\ \A i \in DOMAIN shown : shown[i].value = e.options[i].value /\ shown[i].right = e.options[i].right
      /\ Right(shown) = Right(e.options)
  BY ItemsOf
<1>3. e.type \in Keyed => right = Right(shown) /\ right # {}
  BY <1>2, KeyIs
<1>4. e.type = "mcq" => \A i, j \in right : i = j
  BY KeyIs DEF Keyed, Choice
<1>5. right \in SUBSET (1..MaxItems)
  BY <1>1, StudyAssumption
<1> HIDE DEF shown, right
<1>6. options = [i \in DOMAIN shown |-> [id |-> <<"block", n + 1, i>>, value |-> shown[i].value,
                                         right |-> shown[i].right]]
  <2>1. ASSUME NEW i \in DOMAIN e.options
        PROVE  [e.options[i] EXCEPT !.id = fresh(i)] =
               [id |-> <<"block", n + 1, i>>, value |-> shown[i].value, right |-> shown[i].right]
    <3>1. e.options[i] \in OptionSet(n)
      BY <1>1, ElementOfSeq DEF GoodElements, ElementSet
    <3>2. /\ shown[i].value = e.options[i].value
          /\ shown[i].right = e.options[i].right
      BY <1>2
    <3>3. e.options[i] = [id |-> e.options[i].id, value |-> e.options[i].value,
                          right |-> e.options[i].right]
      BY <3>1 DEF OptionSet
    <3>4. QED
      BY <3>2, <3>3
  <2>2. QED
    BY <1>2, <2>1
<1> HIDE DEF options
<1>7. cloneStudyItem(e, n + 1) =
        ElementFor(n + 1, "block", e.type, e.truth, shown, right, e.kept)
  <2>1. cloneStudyItem(e, n + 1) =
          [e EXCEPT !.id = n + 1, !.options = options,
                    !.correctOptionIds = {<<"block", n + 1, i>> : i \in right}]
    BY DEF cloneStudyItem, options, right
  <2> DEFINE ids == {<<"block", n + 1, i>> : i \in right}
  <2>2. [e EXCEPT !.id = n + 1, !.options = options, !.correctOptionIds = ids] =
          [id |-> n + 1, type |-> e.type, truth |-> e.truth, options |-> options,
           correctOptionIds |-> ids, kept |-> e.kept]
    <3> DEFINE e1 == [e EXCEPT !.id = n + 1]
               e2 == [e1 EXCEPT !.options = options]
    <3>1. e1 = [id |-> n + 1, type |-> e.type, truth |-> e.truth, options |-> e.options,
                correctOptionIds |-> e.correctOptionIds, kept |-> e.kept]
      BY <1>1
    <3> HIDE DEF ids, e1
    <3>2. e2 = [id |-> n + 1, type |-> e.type, truth |-> e.truth, options |-> options,
                correctOptionIds |-> e.correctOptionIds, kept |-> e.kept]
      BY <3>1
    <3> HIDE DEF e2
    <3>3. [e2 EXCEPT !.correctOptionIds = ids] =
            [id |-> n + 1, type |-> e.type, truth |-> e.truth, options |-> options,
             correctOptionIds |-> ids, kept |-> e.kept]
      BY <3>2
    <3>4. QED
      BY <3>3 DEF e1, e2
  <2>3. QED
    BY <1>6, <2>1, <2>2 DEF ElementFor
<1>8. "block" \in Tags /\ n + 1 \in Nat /\ n + 1 \in 1..(n + 1)
  BY DEF Tags
<1>9. cloneStudyItem(e, n + 1) \in GoodElements(n + 1)
  <2>1. Len(shown) <= MaxItems
    BY <1>1, <1>2
  <2>2. QED
    BY <1>1, <1>2, <1>3, <1>4, <1>5, <1>6, <1>7, <1>8, <2>1, ElementIsGood
<1>10. QED
  BY <1>7, <1>9 DEF ElementFor

(* Typing into an option touches neither its id nor whether it is right. *)
LEMMA TypedIsGood ==
  ASSUME NEW n \in Nat, NEW e \in GoodElements(n), NEW j \in DOMAIN e.options, NEW v \in Values
  PROVE  /\ [e EXCEPT !.options[j].value = v] \in GoodElements(n)
         /\ [e EXCEPT !.options[j].value = v].id = e.id
<1> DEFINE options == [e.options EXCEPT ![j].value = v]
           f == [e EXCEPT !.options = options]
<1>1. e \in ElementSet(n) /\ Len(e.options) <= MaxItems /\ Len(e.kept) <= MaxItems /\ Named(e) /\ KeyFits(e)
  BY DEF GoodElements
<1>2. e.options \in Seq(OptionSet(n)) /\ DOMAIN e.options = 1..Len(e.options) /\ Len(e.options) \in Nat
  BY <1>1 DEF ElementSet
<1>3. e.options[j] \in OptionSet(n)
  BY <1>2, ElementOfSeq
<1>4. [e.options[j] EXCEPT !.value = v] \in OptionSet(n)
  BY <1>3 DEF OptionSet
<1>5. options \in Seq(OptionSet(n)) /\ Len(options) = Len(e.options) /\ DOMAIN options = DOMAIN e.options
  BY <1>2, <1>4
<1>6. \A i \in DOMAIN e.options : options[i].id = e.options[i].id /\ options[i].right = e.options[i].right
  BY <1>2, <1>3 DEF OptionSet
<1> HIDE DEF options
<1>7. /\ f \in ElementSet(n) /\ f.options = options /\ f.id = e.id /\ f.type = e.type
      /\ f.correctOptionIds = e.correctOptionIds /\ f.kept = e.kept
  BY <1>1, <1>5 DEF ElementSet
<1> HIDE DEF f
<1>8. Named(f)
  BY <1>1, <1>5, <1>6, <1>7 DEF Named
<1>9. Right(f.options) = Right(e.options)
  BY <1>5, <1>6, <1>7 DEF Right
<1>10. {f.options[i].id : i \in Right(f.options)} = {e.options[i].id : i \in Right(e.options)}
  BY <1>5, <1>6, <1>7, <1>9 DEF Right
<1>11. KeyFits(f)
  BY <1>1, <1>7, <1>10 DEF KeyFits
<1>12. f \in GoodElements(n)
  BY <1>1, <1>5, <1>7, <1>8, <1>11 DEF GoodElements
<1>13. QED
  BY <1>7, <1>12 DEF f, options

(***************************************************************************)
(* The edits of a question in the form.                                    *)
(***************************************************************************)
(* What is known of items. *)
LEMMA ItemsAre ==
  ASSUME NEW items \in Seq(ItemSet)
  PROVE  /\ Len(items) \in Nat /\ DOMAIN items = 1..Len(items)
         /\ items \in [1..Len(items) -> ItemSet]
         /\ \A k \in 1..Len(items) : items[k] \in ItemSet
         /\ Right(items) \subseteq 1..Len(items)
BY ElementOfSeq, LenProperties DEF Right

LEMMA MadeItems ==
  ASSUME NEW len \in Nat, NEW items \in [1..len -> ItemSet]
  PROVE  items \in Seq(ItemSet) /\ Len(items) = len /\ DOMAIN items = 1..len
BY SeqDef

(* The two ways in which an edit replaces both.                            *)
ItemsFirst(q, items, correct) == [q EXCEPT !.items = items, !.correct = correct]
KeyFirst(q, items, correct) == [q EXCEPT !.correct = correct, !.items = items]

(* Other items with a key that fits them keep a question good. *)
LEMMA EditedIsGood ==
  ASSUME NEW n \in Nat, NEW q \in GoodQuestions(n),
         NEW items \in Seq(ItemSet), Len(items) <= MaxItems, NEW correct \in SUBSET (1..MaxItems),
         q.type \in Choice => correct = Right(items),
         q.type = "mcq" => \A i, j \in correct : i = j
  PROVE  /\ ItemsFirst(q, items, correct) \in GoodQuestions(n)
         /\ ItemsFirst(q, items, correct).id = q.id
         /\ KeyFirst(q, items, correct) \in GoodQuestions(n)
         /\ KeyFirst(q, items, correct).id = q.id
<1> DEFINE a == [q EXCEPT !.items = items]
           b == [q EXCEPT !.correct = correct]
<1>1. q = [id |-> q.id, type |-> q.type, truth |-> q.truth, items |-> q.items, correct |-> q.correct]
  BY GoodQuestionIs
<1>2. a = [id |-> q.id, type |-> q.type, truth |-> q.truth, items |-> items, correct |-> q.correct]
  BY <1>1
<1>3. b = [id |-> q.id, type |-> q.type, truth |-> q.truth, items |-> q.items, correct |-> correct]
  BY <1>1
<1> HIDE DEF a, b
<1>4. [a EXCEPT !.correct = correct] = QuestionFor(q.id, q.type, q.truth, items, correct)
  BY <1>2 DEF QuestionFor
<1>5. [b EXCEPT !.items = items] = QuestionFor(q.id, q.type, q.truth, items, correct)
  BY <1>3 DEF QuestionFor
<1>6. /\ QuestionFor(q.id, q.type, q.truth, items, correct) \in GoodQuestions(n)
      /\ QuestionFor(q.id, q.type, q.truth, items, correct).id = q.id
  <2>1. q.id \in 1..n /\ q.type \in Types /\ q.truth \in BOOLEAN
    BY GoodQuestionIs
  <2>2. QED
    BY <2>1, QuestionIsGood
<1>7. QED
  BY <1>4, <1>5, <1>6 DEF a, b, ItemsFirst, KeyFirst

(* Checking an option. *)
Marked(q, j, only) ==
  [q EXCEPT !.correct = IF only THEN {j} ELSE @ \cup {j},
            !.items = [k \in DOMAIN @ |-> IF k = j \/ only THEN [@[k] EXCEPT !.right = k = j] ELSE @[k]]]

LEMMA MarkedIsGood ==
  ASSUME NEW n \in Nat, NEW q \in GoodQuestions(n), q.type \in Choice, NEW j \in DOMAIN q.items,
         NEW only \in BOOLEAN, q.type = "mcq" => only
  PROVE  Marked(q, j, only) \in GoodQuestions(n) /\ Marked(q, j, only).id = q.id
<1> DEFINE items == [k \in DOMAIN q.items |->
                       IF k = j \/ only THEN [q.items[k] EXCEPT !.right = k = j] ELSE q.items[k]]
           correct == IF only THEN {j} ELSE q.correct \cup {j}
<1>1. q.items \in Seq(ItemSet) /\ Len(q.items) <= MaxItems /\ q.correct = Right(q.items)
  BY GoodQuestionIs
<1>2. /\ Len(q.items) \in Nat /\ DOMAIN q.items = 1..Len(q.items)
      /\ \A k \in 1..Len(q.items) : q.items[k] \in ItemSet
      /\ Right(q.items) \subseteq 1..Len(q.items)
  BY <1>1, ItemsAre
<1>3. \A k \in 1..Len(q.items) :
        /\ [q.items[k] EXCEPT !.right = k = j] \in ItemSet
        /\ [q.items[k] EXCEPT !.right = k = j].right = (k = j)
  BY <1>2 DEF ItemSet
<1>4. items \in [1..Len(q.items) -> ItemSet]
  BY <1>2, <1>3
<1>5. items \in Seq(ItemSet) /\ Len(items) = Len(q.items) /\ DOMAIN items = 1..Len(q.items)
  BY <1>2, <1>4, MadeItems
<1>6. \A k \in 1..Len(q.items) : items[k].right <=> (k = j \/ (~only /\ q.items[k].right))
  BY <1>2, <1>3
<1> HIDE DEF items
<1>7. correct = Right(items)
  <2>1. j \in 1..Len(q.items)
    BY <1>2
  <2>2. CASE only
    BY <1>5, <1>6, <2>1, <2>2 DEF Right
  <2>3. CASE ~only
    BY <1>1, <1>2, <1>5, <1>6, <2>1, <2>3 DEF Right
  <2>4. QED
    BY <2>2, <2>3
<1>8. correct \in SUBSET (1..MaxItems)
  BY <1>1, <1>5, <1>7, RightIn
<1>9. q.type = "mcq" => \A k, l \in correct : k = l
  OBVIOUS
<1> HIDE DEF correct
<1>10. KeyFirst(q, items, correct) \in GoodQuestions(n) /\ KeyFirst(q, items, correct).id = q.id
  BY <1>1, <1>5, <1>7, <1>8, <1>9, EditedIsGood
<1>11. QED
  BY <1>10 DEF KeyFirst, correct, items, Marked

(* Unchecking an option. *)
LEMMA UnmarkedIsGood ==
  ASSUME NEW n \in Nat, NEW q \in GoodQuestions(n), q.type \in Choice, NEW j \in q.correct
  PROVE  LET unmarked == [q EXCEPT !.correct = IF q.type = "mcq" THEN {} ELSE @ \ {j},
                                   !.items = [@ EXCEPT ![j].right = FALSE]]
         IN  unmarked \in GoodQuestions(n) /\ unmarked.id = q.id
<1> DEFINE items == [q.items EXCEPT ![j].right = FALSE]
           correct == IF q.type = "mcq" THEN {} ELSE q.correct \ {j}
<1>1. q.items \in Seq(ItemSet) /\ Len(q.items) <= MaxItems /\ q.correct = Right(q.items)
  BY GoodQuestionIs
<1>2. /\ Len(q.items) \in Nat /\ DOMAIN q.items = 1..Len(q.items)
      /\ q.items \in [1..Len(q.items) -> ItemSet]
      /\ \A k \in 1..Len(q.items) : q.items[k] \in ItemSet
      /\ Right(q.items) \subseteq 1..Len(q.items)
  BY <1>1, ItemsAre
<1>3. j \in 1..Len(q.items)
  BY <1>1, <1>2
<1>4. [q.items[j] EXCEPT !.right = FALSE] \in ItemSet /\ [q.items[j] EXCEPT !.right = FALSE].right = FALSE
  BY <1>2, <1>3 DEF ItemSet
<1>5. items \in [1..Len(q.items) -> ItemSet]
  BY <1>2, <1>4
<1>6. items \in Seq(ItemSet) /\ Len(items) = Len(q.items) /\ DOMAIN items = 1..Len(q.items)
  BY <1>2, <1>5, MadeItems
<1>7. \A k \in 1..Len(q.items) : items[k].right <=> (k # j /\ q.items[k].right)
  BY <1>2, <1>3, <1>4
<1> HIDE DEF items
<1>8. correct = Right(items)
  <2>1. Right(items) = q.correct \ {j}
    BY <1>1, <1>2, <1>6, <1>7 DEF Right
  <2>2. q.type = "mcq" => q.correct \ {j} = {}
    BY GoodQuestionIs
  <2>3. QED
    BY <2>1, <2>2
<1>9. correct \in SUBSET (1..MaxItems)
  BY <1>1, <1>6, <1>8, RightIn
<1>10. q.type = "mcq" => \A k, l \in correct : k = l
  OBVIOUS
<1> HIDE DEF correct
<1>11. KeyFirst(q, items, correct) \in GoodQuestions(n) /\ KeyFirst(q, items, correct).id = q.id
  BY <1>1, <1>6, <1>8, <1>9, <1>10, EditedIsGood
<1>12. QED
  BY <1>11 DEF KeyFirst, correct, items

(* Other items that are marked right alike. *)
LEMMA RetypedIsGood ==
  ASSUME NEW n \in Nat, NEW q \in GoodQuestions(n),
         NEW items \in Seq(ItemSet), Len(items) <= MaxItems, q.type \in Choice => Right(items) = Right(q.items)
  PROVE  /\ [q EXCEPT !.items = items] \in GoodQuestions(n)
         /\ [q EXCEPT !.items = items].id = q.id
<1>1. /\ q = [id |-> q.id, type |-> q.type, truth |-> q.truth, items |-> q.items, correct |-> q.correct]
      /\ q.id \in 1..n /\ q.type \in Types /\ q.truth \in BOOLEAN
      /\ q.correct \in SUBSET (1..MaxItems)
      /\ q.type \in Choice => q.correct = Right(q.items)
      /\ q.type = "mcq" => \A i, j \in q.correct : i = j
  BY GoodQuestionIs
<1>2. [q EXCEPT !.items = items] = QuestionFor(q.id, q.type, q.truth, items, q.correct)
  BY <1>1 DEF QuestionFor
<1>3. QED
  BY <1>1, <1>2, QuestionIsGood

(* Typing into an option of the form. *)
LEMMA ItemSetIsGood ==
  ASSUME NEW n \in Nat, NEW q \in GoodQuestions(n), NEW j \in DOMAIN q.items, NEW v \in Values
  PROVE  [q EXCEPT !.items[j].value = v] \in GoodQuestions(n) /\ [q EXCEPT !.items[j].value = v].id = q.id
<1> DEFINE items == [q.items EXCEPT ![j].value = v]
<1>1. q.items \in Seq(ItemSet) /\ Len(q.items) <= MaxItems
  BY GoodQuestionIs
<1>2. /\ Len(q.items) \in Nat /\ DOMAIN q.items = 1..Len(q.items)
      /\ q.items \in [1..Len(q.items) -> ItemSet]
      /\ \A k \in 1..Len(q.items) : q.items[k] \in ItemSet
  BY <1>1, ItemsAre
<1>3. /\ [q.items[j] EXCEPT !.value = v] \in ItemSet
      /\ [q.items[j] EXCEPT !.value = v].right = q.items[j].right
  BY <1>2 DEF ItemSet
<1>4. items \in [1..Len(q.items) -> ItemSet]
  BY <1>2, <1>3
<1>5. items \in Seq(ItemSet) /\ Len(items) = Len(q.items) /\ DOMAIN items = 1..Len(q.items)
  BY <1>2, <1>4, MadeItems
<1>6. \A k \in 1..Len(q.items) : items[k].right = q.items[k].right
  BY <1>2, <1>3
<1> HIDE DEF items
<1>7. Right(items) = Right(q.items)
  BY <1>2, <1>5, <1>6 DEF Right
<1>8. [q EXCEPT !.items = items] \in GoodQuestions(n) /\ [q EXCEPT !.items = items].id = q.id
  BY <1>1, <1>5, <1>7, RetypedIsGood
<1>9. QED
  BY <1>8 DEF items

LEMMA BlankItem == Item(Blank, FALSE) \in ItemSet /\ Item(Blank, FALSE).right = FALSE
BY DEF Item, ItemSet, Values

(* One more option, not marked right. *)
LEMMA AddedIsGood ==
  ASSUME NEW n \in Nat, NEW q \in GoodQuestions(n), Len(q.items) < MaxItems
  PROVE  /\ [q EXCEPT !.items = Append(@, Item(Blank, FALSE))] \in GoodQuestions(n)
         /\ [q EXCEPT !.items = Append(@, Item(Blank, FALSE))].id = q.id
<1> DEFINE items == Append(q.items, Item(Blank, FALSE))
<1>1. q.items \in Seq(ItemSet)
  BY GoodQuestionIs
<1>2. /\ Len(q.items) \in Nat /\ DOMAIN q.items = 1..Len(q.items) /\ MaxItems \in Nat
  BY <1>1, ItemsAre, StudyAssumption
<1>3. /\ items \in Seq(ItemSet) /\ Len(items) = Len(q.items) + 1
      /\ \A k \in 1..Len(q.items) : items[k] = q.items[k]
      /\ items[Len(q.items) + 1] = Item(Blank, FALSE)
  <2> DEFINE s == q.items
             item == Item(Blank, FALSE)
  <2>1. s \in Seq(ItemSet) /\ item \in ItemSet
    BY <1>1, BlankItem
  <2> HIDE DEF s, item
  <2>2. /\ Append(s, item) \in Seq(ItemSet) /\ Len(Append(s, item)) = Len(s) + 1
        /\ \A k \in 1..Len(s) : Append(s, item)[k] = s[k]
        /\ Append(s, item)[Len(s) + 1] = item
    BY <2>1, AppendProperties
  <2>3. QED
    BY <2>2 DEF s, item
<1> HIDE DEF items
<1>4. DOMAIN items = 1..(Len(q.items) + 1)
  BY <1>3, ItemsAre
<1>5. \A k \in 1..(Len(q.items) + 1) : items[k].right <=> (k \in 1..Len(q.items) /\ q.items[k].right)
  <2>1. SUFFICES ASSUME NEW k \in 1..(Len(q.items) + 1)
                 PROVE  items[k].right <=> (k \in 1..Len(q.items) /\ q.items[k].right)
    OBVIOUS
  <2>2. CASE k \in 1..Len(q.items)
    BY <1>3, <2>2
  <2>3. CASE k = Len(q.items) + 1
    BY <1>2, <1>3, <2>3, BlankItem
  <2>4. QED
    BY <1>2, <2>2, <2>3
<1>6. Right(items) = Right(q.items)
  BY <1>2, <1>4, <1>5 DEF Right
<1>7. [q EXCEPT !.items = items] \in GoodQuestions(n) /\ [q EXCEPT !.items = items].id = q.id
  BY <1>2, <1>3, <1>6, RetypedIsGood
<1>8. QED
  BY <1>7 DEF items

(* The key follows the options behind the removed one. *)
LEMMA RemovedIsGood ==
  ASSUME NEW n \in Nat, NEW q \in GoodQuestions(n), NEW j \in DOMAIN q.items
  PROVE  removeOption(q, j) \in GoodQuestions(n) /\ removeOption(q, j).id = q.id
<1> DEFINE items == RemoveAt(q.items, j)
           up(k) == IF k > j THEN k - 1 ELSE k
           correct == {up(k) : k \in q.correct \ {j}}
<1>1. /\ q.items \in Seq(ItemSet) /\ Len(q.items) <= MaxItems /\ q.correct \in SUBSET (1..MaxItems)
      /\ q.type \in Choice => q.correct = Right(q.items)
      /\ q.type = "mcq" => \A k, l \in q.correct : k = l
  BY GoodQuestionIs
<1>2. /\ Len(q.items) \in Nat /\ DOMAIN q.items = 1..Len(q.items) /\ MaxItems \in Nat
      /\ Right(q.items) \subseteq 1..Len(q.items)
  BY <1>1, ItemsAre, StudyAssumption
<1>3. /\ items \in Seq(ItemSet) /\ Len(items) = Len(q.items) - 1
      /\ \A k \in 1..(Len(q.items) - 1) : items[k] = q.items[IF k < j THEN k ELSE k + 1]
  <2> DEFINE s == q.items
  <2>1. s \in Seq(ItemSet) /\ j \in 1..Len(s)
    BY <1>1, <1>2
  <2> HIDE DEF s
  <2>2. /\ RemoveAt(s, j) \in Seq(ItemSet) /\ Len(RemoveAt(s, j)) = Len(s) - 1
        /\ \A k \in 1..(Len(s) - 1) : RemoveAt(s, j)[k] = s[IF k < j THEN k ELSE k + 1]
    BY <2>1, RemoveAtIs
  <2>3. QED
    BY <2>2 DEF s
<1>4. DOMAIN items = 1..(Len(q.items) - 1)
  BY <1>3, ItemsAre
<1> HIDE DEF items
<1>5. Len(items) <= MaxItems
  BY <1>1, <1>2, <1>3
<1>6. correct \in SUBSET (1..MaxItems)
  <2>1. ASSUME NEW k \in q.correct \ {j} PROVE up(k) \in 1..MaxItems
    BY <1>1, <1>2
  <2>2. QED
    BY <2>1
<1>7. Right(items) = {up(k) : k \in Right(q.items) \ {j}}
  <2>1. ASSUME NEW k \in Right(q.items) \ {j} PROVE up(k) \in Right(items)
    <3>1. k \in 1..Len(q.items) /\ k # j /\ q.items[k].right /\ j \in 1..Len(q.items)
      BY <1>2 DEF Right
    <3>2. up(k) \in 1..(Len(q.items) - 1) /\ k = IF up(k) < j THEN up(k) ELSE up(k) + 1
      BY <1>2, <3>1
    <3> HIDE DEF up
    <3>3. items[up(k)] = q.items[k]
      BY <1>3, <3>2
    <3>4. QED
      BY <1>4, <3>1, <3>2, <3>3 DEF Right
  <2>2. ASSUME NEW k \in Right(items) PROVE \E l \in Right(q.items) \ {j} : k = up(l)
    <3>1. k \in 1..(Len(q.items) - 1) /\ items[k].right
      BY <1>4 DEF Right
    <3>2. CASE k < j
      <4>1. k \in Right(q.items) \ {j}
        BY <1>2, <1>3, <3>1, <3>2 DEF Right
      <4>2. k = up(k)
        BY <1>2, <3>1, <3>2
      <4>3. QED
        BY <4>1, <4>2
    <3>3. CASE ~(k < j)
      <4>1. k + 1 \in Right(q.items) \ {j}
        BY <1>2, <1>3, <3>1, <3>3 DEF Right
      <4>2. k = up(k + 1)
        BY <1>2, <3>1, <3>3
      <4>3. QED
        BY <4>1, <4>2
    <3>4. QED
      BY <3>2, <3>3
  <2> HIDE DEF up
  <2>3. QED
    BY <2>1, <2>2
<1>8. q.type \in Choice => correct = Right(items)
  BY <1>1, <1>7
<1>9. q.type = "mcq" => \A k, l \in correct : k = l
  BY <1>1
<1>10. removeOption(q, j) = ItemsFirst(q, items, correct)
  BY DEF removeOption, ItemsFirst, items
<1> HIDE DEF correct
<1>11. QED
  BY <1>3, <1>5, <1>6, <1>8, <1>9, <1>10, EditedIsGood

(* Accepted answers typed anew, the truth of a statement, another type. *)
LEMMA AcceptedItems ==
  ASSUME NEW m \in 1..2, NEW accepted \in [1..m -> Values]
  PROVE  LET items == [k \in DOMAIN accepted |-> Item(accepted[k], FALSE)]
         IN  items \in Seq(ItemSet) /\ Len(items) <= MaxItems
<1> DEFINE items == [k \in DOMAIN accepted |-> Item(accepted[k], FALSE)]
<1>1. items \in [1..m -> ItemSet]
  BY DEF Item, ItemSet
<1> HIDE DEF items
<1>2. m \in Nat
  OBVIOUS
<1>3. items \in Seq(ItemSet) /\ Len(items) = m
  BY <1>1, <1>2, MadeItems
<1>4. items \in Seq(ItemSet) /\ Len(items) <= MaxItems
  BY <1>3, StudyAssumption
<1>5. QED
  BY <1>4 DEF items

LEMMA TruthIsGood ==
  ASSUME NEW n \in Nat, NEW q \in GoodQuestions(n), NEW b \in BOOLEAN
  PROVE  [q EXCEPT !.truth = b] \in GoodQuestions(n) /\ [q EXCEPT !.truth = b].id = q.id
<1>1. /\ q = [id |-> q.id, type |-> q.type, truth |-> q.truth, items |-> q.items, correct |-> q.correct]
      /\ q.id \in 1..n /\ q.type \in Types
      /\ q.items \in Seq(ItemSet) /\ Len(q.items) <= MaxItems
      /\ q.correct \in SUBSET (1..MaxItems)
      /\ q.type \in Choice => q.correct = Right(q.items)
      /\ q.type = "mcq" => \A i, j \in q.correct : i = j
  BY GoodQuestionIs
<1>2. [q EXCEPT !.truth = b] = QuestionFor(q.id, q.type, b, q.items, q.correct)
  BY <1>1 DEF QuestionFor
<1>3. QED
  BY <1>1, <1>2, QuestionIsGood

LEMMA BlankIsGood ==
  ASSUME NEW n \in Nat, NEW id \in 1..n, NEW type \in Types
  PROVE  createBlankQuestion(id, type) \in GoodQuestions(n) /\ createBlankQuestion(id, type).id = id
<1> DEFINE items == CASE type = "boolean" -> <<>>
                      [] type = "short"   -> <<Item(Blank, FALSE)>>
                      [] OTHER            -> BlankItems
<1>1. \E m \in {0, 1, 2} : items \in [1..m -> ItemSet] /\ \A k \in 1..m : items[k].right = FALSE
  <2>1. CASE type = "boolean"
    <3>1. items = <<>>
      BY <2>1
    <3> HIDE DEF items
    <3>2. items \in [1..0 -> ItemSet] /\ \A k \in 1..0 : items[k].right = FALSE
      BY <3>1
    <3>3. QED
      BY <3>2
  <2>2. CASE type = "short"
    <3>1. items = <<Item(Blank, FALSE)>>
      BY <2>2
    <3> DEFINE item == Item(Blank, FALSE)
    <3>2. items = <<item>>
      BY <3>1
    <3>3. item \in ItemSet /\ item.right = FALSE
      BY BlankItem
    <3> HIDE DEF items, item
    <3>4. items \in [1..1 -> ItemSet] /\ \A k \in 1..1 : items[k] = item
      BY <3>2, <3>3
    <3>5. QED
      BY <3>3, <3>4
  <2>3. CASE type \notin {"boolean", "short"}
    <3>1. items = <<Item(Blank, FALSE), Item(Blank, FALSE)>>
      BY <2>3 DEF BlankItems
    <3> DEFINE item == Item(Blank, FALSE)
    <3>2. items = <<item, item>>
      BY <3>1
    <3>3. item \in ItemSet /\ item.right = FALSE
      BY BlankItem
    <3> HIDE DEF items, item
    <3>4. items \in [1..2 -> ItemSet] /\ \A k \in 1..2 : items[k] = item
      BY <3>2, <3>3
    <3>5. QED
      BY <3>3, <3>4
  <2>4. QED
    BY <2>1, <2>2, <2>3
<1>2. createBlankQuestion(id, type) = QuestionFor(id, type, TRUE, items, {})
  BY DEF createBlankQuestion, QuestionFor
<1> HIDE DEF items
<1>3. PICK m \in {0, 1, 2} : items \in [1..m -> ItemSet] /\ \A k \in 1..m : items[k].right = FALSE
  BY <1>1
<1>4. items \in Seq(ItemSet) /\ Len(items) = m /\ DOMAIN items = 1..m
  BY <1>3, MadeItems
<1>5. Right(items) = {} /\ Len(items) <= MaxItems
  BY <1>3, <1>4, StudyAssumption DEF Right
<1> DEFINE correct == {}
           truth == TRUE
<1>6. /\ correct \in SUBSET (1..MaxItems) /\ truth \in BOOLEAN
      /\ correct = Right(items) /\ \A i, j \in correct : i = j
      /\ createBlankQuestion(id, type) = QuestionFor(id, type, truth, items, correct)
  BY <1>2, <1>5
<1> HIDE DEF correct, truth
<1>7. QED
  BY <1>4, <1>5, <1>6, QuestionIsGood

(***************************************************************************)
(* Lists with distinct ids.                                                *)
(***************************************************************************)
LEMMA PutKeeps ==
  ASSUME NEW S, NEW s \in Seq(S), Distinct(s), NEW i \in DOMAIN s, NEW e \in S, e.id = s[i].id
  PROVE  [s EXCEPT ![i] = e] \in Seq(S) /\ Distinct([s EXCEPT ![i] = e])
<1> DEFINE t == [s EXCEPT ![i] = e]
<1>1. t \in Seq(S) /\ DOMAIN t = DOMAIN s
  OBVIOUS
<1>2. \A k \in DOMAIN s : t[k].id = s[k].id
  OBVIOUS
<1> HIDE DEF t
<1>3. Distinct(t)
  BY <1>1, <1>2 DEF Distinct
<1>4. QED
  BY <1>1, <1>3 DEF t

LEMMA MapKeeps ==
  ASSUME NEW S, NEW s \in Seq(S), Distinct(s), NEW T, NEW t, t = [i \in DOMAIN s |-> t[i]],
         \A i \in DOMAIN s : t[i] \in T /\ t[i].id = s[i].id
  PROVE  t \in Seq(T) /\ Distinct(t)
<1>1. DOMAIN s = 1..Len(s) /\ Len(s) \in Nat /\ DOMAIN t = DOMAIN s
  OBVIOUS
<1>2. t \in [1..Len(s) -> T]
  BY <1>1
<1>3. t \in Seq(T)
  BY <1>1, <1>2, SeqDef
<1>4. QED
  BY <1>1, <1>3 DEF Distinct

LEMMA RemoveKeeps ==
  ASSUME NEW S, NEW s \in Seq(S), Distinct(s), NEW i \in DOMAIN s
  PROVE  RemoveAt(s, i) \in Seq(S) /\ Distinct(RemoveAt(s, i))
<1> DEFINE t == RemoveAt(s, i)
<1>1. Len(s) \in Nat /\ DOMAIN s = 1..Len(s) /\ i \in 1..Len(s)
  OBVIOUS
<1>2. /\ t \in Seq(S) /\ Len(t) = Len(s) - 1
      /\ \A k \in 1..(Len(s) - 1) : t[k] = s[IF k < i THEN k ELSE k + 1]
  BY <1>1, RemoveAtIs
<1> HIDE DEF t
<1>3. DOMAIN t = 1..(Len(s) - 1)
  BY <1>2, LenProperties
<1>4. ASSUME NEW j \in DOMAIN t, NEW k \in DOMAIN t, t[j].id = t[k].id PROVE j = k
  <2> DEFINE at(l) == IF l < i THEN l ELSE l + 1
  <2>1. at(j) \in 1..Len(s) /\ at(k) \in 1..Len(s) /\ (at(j) = at(k) => j = k)
    BY <1>1, <1>3, <1>4
  <2>2. s[at(j)].id = s[at(k)].id
    BY <1>2, <1>3, <1>4
  <2> HIDE DEF at
  <2>3. QED
    BY <1>1, <2>1, <2>2 DEF Distinct
<1>5. QED
  BY <1>2, <1>4 DEF t, Distinct

LEMMA InsertKeeps ==
  ASSUME NEW S, NEW s \in Seq(S), Distinct(s), NEW i \in 1..(Len(s) + 1), NEW e \in S,
         \A k \in DOMAIN s : s[k].id # e.id
  PROVE  InsertAt(s, i, e) \in Seq(S) /\ Distinct(InsertAt(s, i, e))
<1> DEFINE t == InsertAt(s, i, e)
<1>1. Len(s) \in Nat /\ DOMAIN s = 1..Len(s)
  OBVIOUS
<1>2. /\ t \in Seq(S) /\ Len(t) = Len(s) + 1
      /\ \A k \in 1..(Len(s) + 1) : t[k] = IF k < i THEN s[k] ELSE IF k = i THEN e ELSE s[k - 1]
  BY InsertAtIs
<1> HIDE DEF t
<1>3. DOMAIN t = 1..(Len(s) + 1)
  BY <1>2, LenProperties
<1>4. \A k \in DOMAIN t : k # i =>
        LET l == IF k < i THEN k ELSE k - 1 IN l \in DOMAIN s /\ t[k] = s[l]
  BY <1>1, <1>2, <1>3
<1>5. t[i] = e
  BY <1>1, <1>2
<1>6. ASSUME NEW j \in DOMAIN t, NEW k \in DOMAIN t, t[j].id = t[k].id PROVE j = k
  <2> DEFINE at(l) == IF l < i THEN l ELSE l - 1
  <2>1. \A l \in DOMAIN t : l # i => at(l) \in DOMAIN s /\ t[l] = s[at(l)]
    BY <1>4
  <2>2. j # i /\ k # i => (at(j) = at(k) => j = k)
    BY <1>1, <1>3
  <2> HIDE DEF at
  <2>3. CASE j # i /\ k # i
    BY <1>6, <2>1, <2>2, <2>3 DEF Distinct
  <2>4. CASE j = i \/ k = i
    BY <1>5, <1>6, <2>1, <2>4
  <2>5. QED
    BY <2>3, <2>4
<1>7. QED
  BY <1>2, <1>6 DEF t, Distinct

LEMMA AppendKeeps ==
  ASSUME NEW S, NEW s \in Seq(S), Distinct(s), NEW e \in S, \A k \in DOMAIN s : s[k].id # e.id
  PROVE  Append(s, e) \in Seq(S) /\ Distinct(Append(s, e))
<1> DEFINE t == Append(s, e)
<1>1. Len(s) \in Nat /\ DOMAIN s = 1..Len(s)
  OBVIOUS
<1>2. /\ t \in Seq(S) /\ Len(t) = Len(s) + 1 /\ \A k \in 1..Len(s) : t[k] = s[k]
      /\ t[Len(s) + 1] = e
  BY AppendProperties
<1> HIDE DEF t
<1>3. DOMAIN t = 1..(Len(s) + 1)
  BY <1>2, LenProperties
<1>4. ASSUME NEW j \in DOMAIN t, NEW k \in DOMAIN t, t[j].id = t[k].id PROVE j = k
  <2>1. \A l \in DOMAIN t : l \in DOMAIN s \/ l = Len(s) + 1
    BY <1>1, <1>3
  <2>2. CASE j \in DOMAIN s /\ k \in DOMAIN s
    BY <1>1, <1>2, <1>4, <2>2 DEF Distinct
  <2>3. CASE j \notin DOMAIN s \/ k \notin DOMAIN s
    BY <1>1, <1>2, <1>4, <2>1, <2>3
  <2>4. QED
    BY <2>2, <2>3
<1>5. QED
  BY <1>2, <1>4 DEF t, Distinct

(***************************************************************************)
(* The steps.                                                              *)
(***************************************************************************)
LEMMA StudyStarts == StudyInit => StudyInv
<1> SUFFICES ASSUME StudyInit PROVE StudyInv
  OBVIOUS
<1> DEFINE text == CHOOSE t \in StudyTexts : TRUE
           items == [i \in 1..2 |-> Item(text, i = 2)]
           id == 1
           type == "mcq"
           truth == TRUE
           correct == {2}
           q == QuestionFor(id, type, truth, items, correct)
<1>1. block = <<quizQuestionNode(q)>> /\ form = <<>> /\ dialog = "closed" /\ minted = 1 /\ edits = 0
  BY DEF StudyInit, QuestionFor
<1>2. text \in StudyTexts
  BY StudyAssumption
<1> HIDE DEF text
<1>3. items \in [1..2 -> ItemSet] /\ ~items[1].right /\ items[2].right
  <2>1. ASSUME NEW i \in 1..2
        PROVE  Item(text, i = 2) \in ItemSet /\ (Item(text, i = 2).right <=> i = 2)
    BY <1>2 DEF Item, ItemSet, Values
  <2>2. items[1].right <=> 1 = 2
    BY <2>1
  <2>3. items[2].right <=> 2 = 2
    BY <2>1
  <2>4. items \in [1..2 -> ItemSet]
    BY <2>1
  <2>5. QED
    BY <2>2, <2>3, <2>4
<1> HIDE DEF items
<1>4. items \in Seq(ItemSet) /\ Len(items) = 2 /\ DOMAIN items = 1..2
  BY <1>3, MadeItems
<1>5. Right(items) = {2} /\ Len(items) <= MaxItems /\ {2} \in SUBSET (1..MaxItems)
  BY <1>3, <1>4, StudyAssumption DEF Right
<1>6. id \in 1..1 /\ type \in Types /\ type \in Choice /\ truth \in BOOLEAN /\ correct # {}
  BY DEF Types, Choice
<1>7. correct = Right(items) /\ correct \in SUBSET (1..MaxItems) /\ \A i, j \in correct : i = j
  BY <1>5
<1>8. q.type = type /\ q.correct = correct
  BY DEF QuestionFor
<1> HIDE DEF id, type, truth, correct
<1>9. q \in GoodQuestions(1)
  BY <1>4, <1>5, <1>6, <1>7, QuestionIsGood
<1>10. quizQuestionNode(q) \in GoodElements(1)
  BY <1>6, <1>8, <1>9, NodeIsGood
<1> HIDE DEF q
<1>11. block \in Seq(GoodElements(1)) /\ Distinct(block)
  BY <1>1, <1>10 DEF Distinct
<1>12. form \in Seq(GoodQuestions(1)) /\ Distinct(form)
  BY <1>1 DEF Distinct
<1>13. QED
  BY <1>1, <1>11, <1>12, StudyAssumption DEF StudyInv

(* The bound on the steps, and the dialog after a step in the note. *)
LEMMA Edited ==
  ASSUME StudyInv, Edit
  PROVE  edits' \in 0..StudyEdits
BY StudyAssumption DEF StudyInv, Edit

LEMMA OutdatedFits ==
  ASSUME StudyInv, dialog' = Outdated, UNCHANGED form
  PROVE  dialog' \in {"closed", "open", "stale"} /\ (dialog' = "closed" => form' = <<>>)
BY DEF StudyInv, Outdated

LEMMA TypeOptionStep ==
  ASSUME StudyInv, NEW i \in DOMAIN block, NEW j \in 1..MaxItems, NEW v \in Values, TypeOption(i, j, v)
  PROVE  StudyInv'
<1> DEFINE e == [block[i] EXCEPT !.options[j].value = v]
<1>1. /\ Edit /\ j \in DOMAIN block[i].options
      /\ dialog' = Outdated /\ UNCHANGED <<form, minted>>
  BY DEF TypeOption
<1>2. block' = [block EXCEPT ![i] = e]
  BY DEF TypeOption
<1>3. /\ minted \in Nat /\ block \in Seq(GoodElements(minted)) /\ Distinct(block)
      /\ form \in Seq(GoodQuestions(minted)) /\ Distinct(form)
  BY DEF StudyInv
<1>4. block[i] \in GoodElements(minted)
  BY <1>3, ElementOfSeq
<1>5. e \in GoodElements(minted) /\ e.id = block[i].id
  BY <1>1, <1>3, <1>4, TypedIsGood
<1> HIDE DEF e
<1>6. block' \in Seq(GoodElements(minted)) /\ Distinct(block')
  BY <1>2, <1>3, <1>5, PutKeeps
<1>7. QED
  BY <1>1, <1>3, <1>6, Edited, OutdatedFits DEF StudyInv, Distinct

(* Ids are handed out once: a new one is no element's and no question's. *)
LEMMA NewId ==
  ASSUME StudyInv
  PROVE  /\ minted + 1 \in Nat
         /\ block \in Seq(GoodElements(minted + 1)) /\ form \in Seq(GoodQuestions(minted + 1))
         /\ \A k \in DOMAIN block : block[k].id # minted + 1
         /\ \A k \in DOMAIN form : form[k].id # minted + 1
<1>1. minted \in Nat /\ block \in Seq(GoodElements(minted)) /\ form \in Seq(GoodQuestions(minted))
  BY DEF StudyInv
<1>2. minted + 1 \in Nat /\ minted <= minted + 1
  BY <1>1
<1>3. GoodElements(minted) \subseteq GoodElements(minted + 1) /\ GoodQuestions(minted) \subseteq GoodQuestions(minted + 1)
  BY <1>1, <1>2, GoodMore
<1>4. \A k \in DOMAIN block : block[k].id \in 1..minted
  <2>1. \A k \in DOMAIN block : block[k] \in GoodElements(minted)
    BY <1>1, ElementOfSeq
  <2>2. QED
    BY <1>1, <2>1, GoodElementIs
<1>5. \A k \in DOMAIN form : form[k].id \in 1..minted
  <2>1. \A k \in DOMAIN form : form[k] \in GoodQuestions(minted)
    BY <1>1, ElementOfSeq
  <2>2. QED
    BY <1>1, <2>1, GoodQuestionIs
<1>6. block \in Seq(GoodElements(minted + 1)) /\ form \in Seq(GoodQuestions(minted + 1))
  BY <1>1, <1>3, SeqMonotonic
<1>7. QED
  BY <1>1, <1>2, <1>4, <1>5, <1>6

LEMMA DuplicateStep ==
  ASSUME StudyInv, NEW i \in DOMAIN block, Duplicate(i)
  PROVE  StudyInv'
<1> DEFINE copy == cloneStudyItem(block[i], minted + 1)
<1>1. Edit /\ minted' = minted + 1 /\ dialog' = Outdated /\ UNCHANGED form
  BY DEF Duplicate
<1>2. block' = InsertAt(block, i + 1, copy)
  BY <1>1 DEF Duplicate
<1>3. minted \in Nat /\ block \in Seq(GoodElements(minted)) /\ Distinct(block) /\ Distinct(form)
  BY DEF StudyInv
<1>4. block[i] \in GoodElements(minted)
  BY <1>3, ElementOfSeq
<1>5. copy \in GoodElements(minted + 1) /\ copy.id = minted + 1
  BY <1>3, <1>4, CloneIsGood
<1> HIDE DEF copy
<1>6. i + 1 \in 1..(Len(block) + 1)
  BY <1>3
<1>7. block' \in Seq(GoodElements(minted + 1)) /\ Distinct(block')
  <2>1. \A k \in DOMAIN block : block[k].id # copy.id
    BY <1>5, NewId
  <2>2. QED
    BY <1>2, <1>3, <1>5, <1>6, <2>1, NewId, InsertKeeps
<1>8. QED
  BY <1>1, <1>3, <1>7, Edited, OutdatedFits, NewId DEF StudyInv, Distinct

LEMMA DeleteStep ==
  ASSUME StudyInv, NEW i \in DOMAIN block, Delete(i)
  PROVE  StudyInv'
<1>1. Edit /\ block' = RemoveAt(block, i) /\ dialog' = Outdated /\ UNCHANGED <<form, minted>>
  BY DEF Delete
<1>2. /\ minted \in Nat /\ block \in Seq(GoodElements(minted)) /\ Distinct(block)
      /\ form \in Seq(GoodQuestions(minted)) /\ Distinct(form)
  BY DEF StudyInv
<1>3. block' \in Seq(GoodElements(minted)) /\ Distinct(block')
  BY <1>1, <1>2, RemoveKeeps
<1>4. QED
  BY <1>1, <1>2, <1>3, Edited, OutdatedFits DEF StudyInv, Distinct

LEMMA StudyOpenStep ==
  ASSUME StudyInv, openQuiz
  PROVE  StudyInv'
<1>1. /\ Edit /\ dialog' = "open" /\ UNCHANGED <<block, minted>>
      /\ form' = [i \in DOMAIN block |-> quizQuestionElementToQuestion(block[i])]
  BY DEF openQuiz
<1>2. minted \in Nat /\ block \in Seq(GoodElements(minted)) /\ Distinct(block)
  BY DEF StudyInv
<1>3. \A i \in DOMAIN block : form'[i] \in GoodQuestions(minted) /\ form'[i].id = block[i].id
  <2>1. \A i \in DOMAIN block : block[i] \in GoodElements(minted)
    BY <1>2, ElementOfSeq
  <2>2. QED
    BY <1>1, <1>2, <2>1, FormQuestionIsGood
<1>4. form' = [i \in DOMAIN block |-> form'[i]]
  BY <1>1
<1>5. form' \in Seq(GoodQuestions(minted)) /\ Distinct(form')
  BY <1>2, <1>3, <1>4, MapKeeps
<1>6. QED
  BY <1>1, <1>2, <1>5, Edited DEF StudyInv, Distinct

LEMMA CloseStep ==
  ASSUME StudyInv, Cancel \/ Save
  PROVE  StudyInv'
<1>1. Close
  BY DEF Cancel, Save
<1>2. dialog' = "closed" /\ form' = <<>> /\ UNCHANGED <<minted, edits>>
  BY <1>1 DEF Close
<1>3. /\ minted \in Nat /\ block \in Seq(GoodElements(minted)) /\ Distinct(block)
      /\ form \in Seq(GoodQuestions(minted)) /\ Distinct(form)
  BY DEF StudyInv
<1>4. form' \in Seq(GoodQuestions(minted')) /\ Distinct(form')
  BY <1>2 DEF Distinct
<1>5. CASE UNCHANGED block
  BY <1>2, <1>3, <1>4, <1>5 DEF StudyInv, Distinct
<1>6. CASE ~UNCHANGED block
  <2>1. /\ \A i \in DOMAIN form : isCompleteQuestion(form[i])
        /\ block' = [i \in DOMAIN form |-> quizQuestionNode(form[i])]
    BY <1>6 DEF Cancel, Save
  <2>2. \A i \in DOMAIN form : form[i] \in GoodQuestions(minted)
    BY <1>3, ElementOfSeq
  <2>3. \A i \in DOMAIN form : form[i].type \in Choice => form[i].correct # {}
    BY <2>1 DEF isCompleteQuestion
  <2>4. \A i \in DOMAIN form : block'[i] \in GoodElements(minted) /\ block'[i].id = form[i].id
    BY <1>3, <2>1, <2>2, <2>3, NodeIsGood
  <2>5. block' = [i \in DOMAIN form |-> block'[i]]
    BY <2>1
  <2>6. block' \in Seq(GoodElements(minted)) /\ Distinct(block')
    BY <1>3, <2>4, <2>5, MapKeeps
  <2>7. QED
    BY <1>2, <1>3, <1>4, <2>6 DEF StudyInv, Distinct
<1>7. QED
  BY <1>5, <1>6

(* An edit that puts a good question in its old place. *)
LEMMA UpdateStep ==
  ASSUME StudyInv, FormEdit, NEW i \in DOMAIN form, NEW q \in GoodQuestions(minted), q.id = form[i].id,
         update(i, q)
  PROVE  StudyInv'
<1>1. Edit /\ dialog # "closed" /\ UNCHANGED <<block, dialog, minted>> /\ form' = [form EXCEPT ![i] = q]
  BY DEF FormEdit, update
<1>2. /\ minted \in Nat /\ block \in Seq(GoodElements(minted)) /\ Distinct(block)
      /\ form \in Seq(GoodQuestions(minted)) /\ Distinct(form)
      /\ dialog \in {"closed", "open", "stale"}
  BY DEF StudyInv
<1>3. form' \in Seq(GoodQuestions(minted)) /\ Distinct(form')
  BY <1>1, <1>2, PutKeeps
<1>4. QED
  BY <1>1, <1>2, <1>3, Edited DEF StudyInv, Distinct

LEMMA QuestionOfForm ==
  ASSUME StudyInv, NEW i \in DOMAIN form
  PROVE  minted \in Nat /\ form[i] \in GoodQuestions(minted)
BY ElementOfSeq DEF StudyInv

LEMMA MarkStep ==
  ASSUME StudyInv, NEW i \in DOMAIN form, NEW j \in 1..MaxItems, Mark(i, j)
  PROVE  StudyInv'
<1> DEFINE only == form[i].type = "mcq"
           q == Marked(form[i], j, only)
<1>1. FormEdit /\ form[i].type \in Choice /\ j \in DOMAIN form[i].items /\ update(i, q)
  BY DEF Mark, Marked
<1>2. only \in BOOLEAN /\ (form[i].type = "mcq" => only)
  OBVIOUS
<1> HIDE DEF only
<1>3. q \in GoodQuestions(minted) /\ q.id = form[i].id
  BY <1>1, <1>2, QuestionOfForm, MarkedIsGood
<1> HIDE DEF q
<1>4. QED
  BY <1>1, <1>3, UpdateStep

LEMMA UnmarkStep ==
  ASSUME StudyInv, NEW i \in DOMAIN form, NEW j \in 1..MaxItems, Unmark(i, j)
  PROVE  StudyInv'
<1> DEFINE q == [form[i] EXCEPT !.correct = IF form[i].type = "mcq" THEN {} ELSE @ \ {j},
                                !.items = [@ EXCEPT ![j].right = FALSE]]
<1>1. FormEdit /\ form[i].type \in Choice /\ j \in form[i].correct /\ update(i, q)
  BY DEF Unmark
<1>2. q \in GoodQuestions(minted) /\ q.id = form[i].id
  BY <1>1, QuestionOfForm, UnmarkedIsGood
<1> HIDE DEF q
<1>3. QED
  BY <1>1, <1>2, UpdateStep

LEMMA ItemSteps ==
  ASSUME StudyInv, NEW i \in DOMAIN form, NEW j \in 1..MaxItems, NEW v \in Values,
         SetItem(i, j, v) \/ AddItem(i) \/ RemoveItem(i, j)
  PROVE  StudyInv'
<1>1. minted \in Nat /\ form[i] \in GoodQuestions(minted)
  BY QuestionOfForm
<1>2. CASE SetItem(i, j, v)
  <2> DEFINE q == [form[i] EXCEPT !.items[j].value = v]
  <2>1. FormEdit /\ j \in DOMAIN form[i].items /\ update(i, q)
    BY <1>2 DEF SetItem
  <2>2. q \in GoodQuestions(minted) /\ q.id = form[i].id
    BY <1>1, <2>1, ItemSetIsGood
  <2> HIDE DEF q
  <2>3. QED
    BY <2>1, <2>2, UpdateStep
<1>3. CASE AddItem(i)
  <2> DEFINE q == [form[i] EXCEPT !.items = Append(@, Item(Blank, FALSE))]
  <2>1. FormEdit /\ Len(form[i].items) < MaxItems /\ update(i, q)
    BY <1>3 DEF AddItem
  <2>2. q \in GoodQuestions(minted) /\ q.id = form[i].id
    BY <1>1, <2>1, AddedIsGood
  <2> HIDE DEF q
  <2>3. QED
    BY <2>1, <2>2, UpdateStep
<1>4. CASE RemoveItem(i, j)
  <2> DEFINE q == removeOption(form[i], j)
  <2>1. FormEdit /\ j \in DOMAIN form[i].items /\ update(i, q)
    BY <1>4 DEF RemoveItem
  <2>2. q \in GoodQuestions(minted) /\ q.id = form[i].id
    BY <1>1, <2>1, RemovedIsGood
  <2> HIDE DEF q
  <2>3. QED
    BY <2>1, <2>2, UpdateStep
<1>5. QED
  BY <1>2, <1>3, <1>4

LEMMA AcceptedStep ==
  ASSUME StudyInv, NEW i \in DOMAIN form, NEW m \in 1..2, NEW accepted \in [1..m -> Values],
         SetAccepted(i, accepted)
  PROVE  StudyInv'
<1> DEFINE items == [k \in DOMAIN accepted |-> Item(accepted[k], FALSE)]
           q == [form[i] EXCEPT !.items = items]
<1>1. FormEdit /\ form[i].type = "short" /\ update(i, q)
  BY DEF SetAccepted
<1>2. items \in Seq(ItemSet) /\ Len(items) <= MaxItems
  BY AcceptedItems
<1> HIDE DEF items
<1>3. minted \in Nat /\ form[i] \in GoodQuestions(minted) /\ form[i].type \notin Choice
  BY <1>1, QuestionOfForm DEF Choice
<1>4. q \in GoodQuestions(minted) /\ q.id = form[i].id
  BY <1>2, <1>3, RetypedIsGood
<1> HIDE DEF q
<1>5. QED
  BY <1>1, <1>4, UpdateStep

LEMMA TruthStep ==
  ASSUME StudyInv, NEW i \in DOMAIN form, NEW b \in BOOLEAN, SetTruth(i, b)
  PROVE  StudyInv'
<1> DEFINE q == [form[i] EXCEPT !.truth = b]
<1>1. FormEdit /\ update(i, q)
  BY DEF SetTruth
<1>2. q \in GoodQuestions(minted) /\ q.id = form[i].id
  BY QuestionOfForm, TruthIsGood
<1> HIDE DEF q
<1>3. QED
  BY <1>1, <1>2, UpdateStep

LEMMA ChangeTypeStep ==
  ASSUME StudyInv, NEW i \in DOMAIN form, NEW type \in Types, changeType(i, type)
  PROVE  StudyInv'
<1> DEFINE q == createBlankQuestion(form[i].id, type)
<1>1. FormEdit /\ update(i, q)
  BY DEF changeType
<1>2. form[i].id \in 1..minted
  BY QuestionOfForm, GoodQuestionIs
<1>3. q \in GoodQuestions(minted) /\ q.id = form[i].id
  BY <1>2, QuestionOfForm, BlankIsGood
<1> HIDE DEF q
<1>4. QED
  BY <1>1, <1>3, UpdateStep

LEMMA AddQuestionStep ==
  ASSUME StudyInv, addQuestion
  PROVE  StudyInv'
<1> DEFINE type == "mcq"
           q == createBlankQuestion(minted + 1, type)
<1>1. Edit /\ dialog # "closed" /\ UNCHANGED <<block, dialog>> /\ minted' = minted + 1
  BY DEF addQuestion, FormEdit
<1>2. form' = Append(form, q)
  BY <1>1 DEF addQuestion
<1>3. minted \in Nat /\ Distinct(block) /\ Distinct(form) /\ dialog \in {"closed", "open", "stale"}
  BY DEF StudyInv
<1>4. minted + 1 \in Nat /\ minted + 1 \in 1..(minted + 1) /\ type \in Types
  BY <1>3 DEF Types, Choice
<1>5. q \in GoodQuestions(minted + 1) /\ q.id = minted + 1
  BY <1>4, BlankIsGood
<1> HIDE DEF q
<1>6. form' \in Seq(GoodQuestions(minted + 1)) /\ Distinct(form')
  <2>1. \A k \in DOMAIN form : form[k].id # q.id
    BY <1>5, NewId
  <2>2. QED
    BY <1>2, <1>3, <1>5, <2>1, NewId, AppendKeeps
<1>7. QED
  BY <1>1, <1>3, <1>6, Edited, NewId DEF StudyInv, Distinct

LEMMA RemoveQuestionStep ==
  ASSUME StudyInv, NEW i \in DOMAIN form, removeQuestion(i)
  PROVE  StudyInv'
<1>1. Edit /\ dialog # "closed" /\ UNCHANGED <<block, dialog, minted>> /\ form' = RemoveAt(form, i)
  BY DEF removeQuestion, FormEdit
<1>2. /\ minted \in Nat /\ block \in Seq(GoodElements(minted)) /\ Distinct(block)
      /\ form \in Seq(GoodQuestions(minted)) /\ Distinct(form)
      /\ dialog \in {"closed", "open", "stale"}
  BY DEF StudyInv
<1>3. form' \in Seq(GoodQuestions(minted)) /\ Distinct(form')
  BY <1>1, <1>2, RemoveKeeps
<1>4. QED
  BY <1>1, <1>2, <1>3, Edited DEF StudyInv, Distinct

LEMMA StudySteps == StudyInv /\ [StudyNext]_studyVars => StudyInv'
<1>1. ASSUME StudyInv, UNCHANGED studyVars PROVE StudyInv'
  BY <1>1 DEF studyVars, StudyInv, Distinct
<1>2. ASSUME StudyInv, StudyNext PROVE StudyInv'
  <2>1. CASE \E i \in DOMAIN block :
               \/ \E j \in 1..MaxItems, v \in Values : TypeOption(i, j, v)
               \/ Duplicate(i) \/ Delete(i)
    BY <1>2, <2>1, TypeOptionStep, DuplicateStep, DeleteStep
  <2>2. CASE openQuiz \/ Cancel \/ Save \/ addQuestion
    BY <1>2, <2>2, StudyOpenStep, CloseStep, AddQuestionStep
  <2>3. ASSUME NEW i \in DOMAIN form,
               \/ \E j \in 1..MaxItems : Mark(i, j) \/ Unmark(i, j) \/ RemoveItem(i, j)
               \/ \E j \in 1..MaxItems, v \in Values : SetItem(i, j, v)
               \/ AddItem(i)
        PROVE  StudyInv'
    <3>1. 1 \in 1..MaxItems /\ Blank \in Values
      BY StudyAssumption DEF Values
    <3>2. QED
      BY <1>2, <2>3, <3>1, MarkStep, UnmarkStep, ItemSteps
  <2>4. ASSUME NEW i \in DOMAIN form,
               \/ \E n \in 1..2 : \E accepted \in [1..n -> Values] : SetAccepted(i, accepted)
               \/ \E b \in BOOLEAN : SetTruth(i, b)
               \/ \E type \in Types : changeType(i, type)
               \/ removeQuestion(i)
        PROVE  StudyInv'
    BY <1>2, <2>4, AcceptedStep, TruthStep, ChangeTypeStep, RemoveQuestionStep
  <2>5. QED
    BY <1>2, <2>1, <2>2, <2>3, <2>4 DEF StudyNext
<1>3. QED
  BY <1>1, <1>2

(***************************************************************************)
(* What the invariant says.                                                *)
(***************************************************************************)
LEMMA StudyInvTypes == StudyInv => StudyTypeOK
<1> SUFFICES ASSUME StudyInv PROVE StudyTypeOK
  OBVIOUS
<1>1. GoodElements(minted) \subseteq Element
  BY DEF GoodElements, ElementSet, OptionSet, Element, OptionIds, Ids, Tags
<1>2. GoodQuestions(minted) \subseteq Question
  BY DEF GoodQuestions, QuestionSet, Question, Ids
<1>3. block \in Seq(Element) /\ form \in Seq(Question)
  BY <1>1, <1>2, SeqMonotonic DEF StudyInv
<1>4. QED
  BY <1>3 DEF StudyInv, StudyTypeOK

LEMMA StudyInvSuffices == StudyInv => KeyKept
<1> SUFFICES ASSUME StudyInv PROVE KeyKept
  OBVIOUS
<1>1. /\ minted \in Nat /\ block \in Seq(GoodElements(minted)) /\ Distinct(block)
      /\ form \in Seq(GoodQuestions(minted)) /\ Distinct(form)
  BY DEF StudyInv
<1>2. \A i \in DOMAIN block : block[i] \in GoodElements(minted)
  BY <1>1, ElementOfSeq
<1>3. \A i \in DOMAIN block : Named(block[i]) /\ KeyFits(block[i])
  BY <1>1, <1>2, GoodElementIs
<1>4. DistinctOptions
  <2>1. SUFFICES ASSUME NEW i \in DOMAIN block, NEW k \in DOMAIN block,
                        NEW j \in DOMAIN block[i].options, NEW l \in DOMAIN block[k].options,
                        block[i].options[j].id = block[k].options[l].id
                 PROVE  i = k /\ j = l
    BY DEF DistinctOptions
  <2>2. PICK a \in Tags : block[i].options[j].id = <<a, block[i].id, j>>
    BY <1>3 DEF Named
  <2>3. PICK b \in Tags : block[k].options[l].id = <<b, block[k].id, l>>
    BY <1>3 DEF Named
  <2>4. block[i].id = block[k].id /\ j = l
    <3> DEFINE x == block[i].id
               y == block[k].id
    <3>1. <<a, x, j>> = <<b, y, l>>
      BY <2>1, <2>2, <2>3
    <3> HIDE DEF x, y
    <3>2. x = y /\ j = l
      BY <3>1
    <3>3. QED
      BY <3>2 DEF x, y
  <2>5. QED
    BY <1>1, <2>4 DEF Distinct
<1>5. ASSUME NEW i \in DOMAIN block, block[i].type \in Choice \cup {"boolean"}
      PROVE  /\ block[i].correctOptionIds =
                  {block[i].options[j].id : j \in {k \in DOMAIN block[i].options : block[i].options[k].right}}
             /\ block[i].correctOptionIds # {}
             /\ block[i].type = "mcq" => \A a, b \in block[i].correctOptionIds : a = b
  BY <1>3, <1>5 DEF KeyFits, Keyed, Right
<1>6. ASSUME NEW i \in DOMAIN form, form[i].type \in Choice
      PROVE  form[i].correct = {j \in DOMAIN form[i].items : form[i].items[j].right}
  <2>1. form[i] \in GoodQuestions(minted)
    BY <1>1, ElementOfSeq
  <2>2. QED
    BY <1>1, <1>6, <2>1, GoodQuestionIs DEF Right
<1>7. QED
  BY <1>1, <1>4, <1>5, <1>6 DEF KeyKept

(***************************************************************************)
(* The client: every part keeps to its own invariant, and none moves the   *)
(* state of another.                                                       *)
(***************************************************************************)
ClientInv ==
  /\ CacheInv /\ FetchTyped
  /\ FeedTypesInv
  /\ UploadInv
  /\ QuizInv /\ QuizTypesInv
  /\ ChatInv
  /\ StudyInv

LEMMA ClientStarts == WebInit => ClientInv
BY CacheStarts, FetchTypedStart, FeedTypesStart, UploadStarts, QuizStarts, QuizTypesStart, ChatStarts, StudyStarts
   DEF WebInit, ClientInv

LEMMA ClientSteps == ClientInv /\ [WebNext]_webVars => ClientInv'
<1> SUFFICES ASSUME ClientInv, [WebNext]_webVars PROVE ClientInv'
  OBVIOUS
<1>1. /\ [CacheNext]_cacheVars /\ [FeedNext]_feedVars /\ [UploadNext]_uploadVars
      /\ [QuizNext]_quizVars /\ [ChatNext]_chatVars /\ [StudyNext]_studyVars
  BY DEF WebNext, webVars
<1>2. CacheInv' /\ FetchTyped'
  BY <1>1, CacheStep, FetchTypedStep DEF ClientInv
<1>3. FeedTypesInv'
  BY <1>1, FeedTypesStep DEF ClientInv
<1>4. UploadInv'
  BY <1>1, UploadStep DEF ClientInv
<1>5. QuizInv' /\ QuizTypesInv'
  BY <1>1, QuizStep, QuizTypesStep DEF ClientInv
<1>6. ChatInv'
  BY <1>1, ChatSteps DEF ClientInv
<1>7. StudyInv'
  BY <1>1, StudySteps DEF ClientInv
<1>8. QED
  BY <1>2, <1>3, <1>4, <1>5, <1>6, <1>7 DEF ClientInv

LEMMA ClientInvHolds == WebSpec => []ClientInv
BY ClientStarts, ClientSteps, PTL DEF WebSpec

(***************************************************************************)
(* The state of every part of the client keeps to its type, whatever is    *)
(* clicked, fetched, streamed or lost.                                     *)
(***************************************************************************)
THEOREM ClientTypes == WebSpec => []WebTypeOK
<1>1. ClientInv => WebTypeOK
  BY CacheTyped, StudyInvTypes DEF ClientInv, WebTypeOK, FeedTypesInv, UploadInv, QuizTypesInv, ChatInv
<1>2. QED
  BY <1>1, ClientInvHolds, PTL

(***************************************************************************)
(* An answer that was watched from its start ends as its stream did: none  *)
(* is left spinning, one shown as complete is on the server, and whole,    *)
(* and no bubble shows more than its own answer has (AnswersSettle), for   *)
(* any number of turns, tokens and faults.                                 *)
(***************************************************************************)
THEOREM AnswersAlwaysSettle == WebSpec => []AnswersSettle
<1>1. ClientInv => AnswersSettle
  BY ChatInvSuffices DEF ClientInv
<1>2. QED
  BY <1>1, ClientInvHolds, PTL

(***************************************************************************)
(* The key of each question is what its author last marked, and never      *)
(* empty, whatever was duplicated, typed, removed, reopened and saved      *)
(* since, and no two questions or options share an id (KeyKept), for any   *)
(* number of questions, options and edits.                                 *)
(***************************************************************************)
THEOREM KeysAlwaysKept == WebSpec => []KeyKept
<1>1. ClientInv => KeyKept
  BY StudyInvSuffices DEF ClientInv
<1>2. QED
  BY <1>1, ClientInvHolds, PTL

(***************************************************************************)
(* The parts side by side keep to what each of them keeps to alone.        *)
(***************************************************************************)
THEOREM ClientKeeps == WebSpec => [](ListsAgree /\ UploadsOnce /\ AttemptsAsMarked)
<1>1. ClientInv => ListsAgree /\ UploadsOnce /\ AttemptsAsMarked
  BY CacheInvSuffices, UploadInvSuffices, QuizInvSuffices DEF ClientInv
<1>2. QED
  BY <1>1, ClientInvHolds, PTL
===============================================================================

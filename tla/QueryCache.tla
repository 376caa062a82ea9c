----------------------------- MODULE QueryCache -----------------------------
(***************************************************************************)
(* The client's lists of server rows: what every mutation hook of          *)
(* src/src/api/hooks.ts changes, patches ahead of the answer and           *)
(* invalidates, over the query cache of TanStack Query.                    *)
(*                                                                         *)
(* The caches of distinct keys do not affect each other, so a behaviour    *)
(* watches one key, for a list that is on screen throughout, and two calls *)
(* of any two hooks; the initial states range over all of them.  A row set *)
(* is the set of calls whose effect it shows.                              *)
(*                                                                         *)
(* Grain.  What a list shows is its rows with their names and places:      *)
(* counters, sizes and revisions are left out.  A hook is called with the  *)
(* identifiers of the list that is watched.  cancelQueries and the patch   *)
(* that follows it are one step, and so are the callbacks of an answer.    *)
(* The retries of one fetch are one fetch that takes longer.               *)
(***************************************************************************)
EXTENDS Naturals, FiniteSets, Sequences, CachedQuery

CONSTANT Calls  \* the calls of mutation hooks in a behaviour

(***************************************************************************)
(* Keys.  Invalidating a prefix of a key invalidates the key.              *)
(***************************************************************************)
qk == [chapters |-> <<"workspace", "w", "chapters">>, files |-> <<"workspace", "w", "files">>,
       materials |-> <<"workspace", "w", "materials">>, members |-> <<"workspace", "w", "members">>,
       collaborators |-> <<"workspace", "w", "collaborators">>,
       conversations |-> <<"workspace", "w", "conversations">>,
       workspace |-> <<"workspace", "w">>, workspaces |-> <<"workspaces", "params">>,
       discussions |-> <<"material", "m", "discussions">>, quizzes |-> <<"quizzes">>,
       quiz |-> <<"quiz", "q">>, attempts |-> <<"attempts">>, mistakes |-> <<"mistakes">>,
       decks |-> <<"decks">>, deck |-> <<"deck", "d">>, cards |-> <<"deck", "d", "cards">>,
       events |-> <<"events">>, labels |-> <<"labels">>, tasks |-> <<"tasks">>,
       thinking |-> <<"thinking">>, tags |-> <<"tags", "workspace">>, me |-> <<"me">>,
       prefs |-> <<"notification-prefs">>, status |-> <<"account", "status">>]

Keys == {qk[k] : k \in DOMAIN qk}

Covers(prefix, key) == Len(prefix) <= Len(key) /\ \A i \in 1..Len(prefix) : prefix[i] = key[i]

(***************************************************************************)
(* Hooks.  changes: the lists whose rows differ on the server once the     *)
(* call committed.  patches: the lists changed ahead of the answer, and    *)
(* put back to the snapshot when it is an error.  inserts: the lists the   *)
(* row answered is added to.  replaces: the lists the answer becomes.      *)
(* refreshes: the prefixes invalidated, when the call succeeds, or         *)
(* whenever it settles.                                                    *)
(***************************************************************************)
Hook(name, changes, refreshes) ==
  [name |-> name, changes |-> changes, refreshes |-> refreshes,
   patches |-> {}, inserts |-> {}, replaces |-> {}, settles |-> FALSE]

Inserting(hook, inserts) == [hook EXCEPT !.inserts = inserts]
Replacing(hook, replaces) == [hook EXCEPT !.replaces = replaces]
Optimistic(hook, patches) == [hook EXCEPT !.patches = patches, !.settles = TRUE]

AccountHooks ==
  {Replacing(Hook("useRequestAccountDeletion", {qk.status, qk.me}, {qk.me}), {qk.status}),
   Replacing(Hook("useTransferWorkspace", {qk.workspace, qk.workspaces, qk.members},
                  {qk.members, <<"workspaces", "null">>, qk.status}), {qk.workspace})}

SettingHooks ==
  {[Replacing(Hook("useSetNotificationPrefs", {qk.prefs}, {qk.prefs}), {qk.prefs})
      EXCEPT !.settles = TRUE],
   Hook("useSetLocale", {qk.me}, {qk.me})}

ImportHooks == {Hook("useImportSources", {qk.files, qk.chapters}, {qk.files})}

WorkspaceHooks ==
  {Hook("useCreateWorkspace", {qk.workspaces, qk.tags}, {<<"workspaces">>, <<"tags">>}),
   Hook("useUpdateWorkspace", {qk.workspaces, qk.workspace, qk.tags},
        {<<"workspaces">>, qk.workspace, <<"tags">>}),
   Hook("useUpdateWorkspaceSharing", {qk.workspaces, qk.workspace},
        {<<"workspaces">>, qk.workspace}),
   Hook("useDeleteWorkspace", {qk.workspaces, qk.quizzes, qk.decks}, {<<"workspaces">>})}

SourceHooks ==
  {Hook("useUpdateFile", {qk.files, qk.chapters}, {qk.files, qk.chapters}),
   Optimistic(Hook("useMoveFile", {qk.files, qk.chapters}, {qk.files, qk.chapters}), {qk.files}),
   Hook("useDeleteFile", {qk.files, qk.chapters}, {qk.files, qk.chapters}),
   Hook("useAddChapter", {qk.chapters}, {qk.chapters}),
   Hook("useUpdateChapter", {qk.chapters}, {qk.chapters}),
   Hook("useReorderChapters", {qk.chapters}, {qk.chapters})}

ContentHooks ==
  {Optimistic(Hook("useReorderContent", {qk.files, qk.materials, qk.chapters},
                   {qk.files, qk.materials, qk.chapters}), {qk.files, qk.materials}),
   Hook("useDeleteChapter", {qk.chapters, qk.files, qk.materials}, {qk.chapters, qk.files})}

UploadHooks ==
  {Inserting(Hook("useUploadSource", {qk.files, qk.chapters}, {qk.chapters}), {qk.files})}

StudyHooks ==
  {Hook("useDeleteConversation", {qk.conversations}, {qk.conversations}),
   Hook("useGenerate", {qk.materials, qk.quizzes, qk.decks}, {qk.quizzes, qk.decks, qk.materials}),
   Hook("useDeleteMaterial", {qk.materials, qk.quizzes, qk.decks, qk.attempts},
        {qk.materials, qk.quizzes, qk.decks}),
   Hook("useCreateNote", {qk.materials}, {qk.materials}),
   Hook("useUpdateMaterial", {qk.materials, qk.quizzes, qk.decks}, {qk.materials})}

MemberHooks ==
  {Hook("useAcceptWorkspaceInvite", {qk.workspaces, qk.workspace, qk.members, qk.collaborators},
        {<<"workspaces">>, qk.workspace, qk.members}),
   Hook("useUpdateWorkspaceMember", {qk.members}, {qk.members}),
   Hook("useRemoveWorkspaceMember", {qk.members, qk.collaborators},
        {qk.members, qk.collaborators})}

DiscussionHooks ==
  {Hook(name, {qk.discussions}, {qk.discussions}) :
     name \in {"useCreateMaterialDiscussion", "useCreateMaterialComment",
               "useResolveMaterialDiscussion", "useUpdateMaterialComment",
               "useDeleteMaterialComment", "useDeleteMaterialDiscussion"}}

MaterialHooks ==
  {Optimistic(Hook("useMoveMaterial", {qk.materials}, {qk.materials}), {qk.materials})}

QuizHooks ==
  {Hook("useCreateQuiz", {qk.quizzes, qk.materials}, {qk.quizzes, qk.materials}),
   Hook("useUpdateQuiz", {qk.quizzes, qk.quiz, qk.materials},
        {qk.quizzes, qk.quiz, qk.materials}),
   Hook("useDeleteQuiz", {qk.quizzes, qk.materials, qk.attempts}, {qk.quizzes, qk.materials}),
   Hook("useSubmitAttempt", {qk.attempts, qk.mistakes}, {qk.attempts, qk.mistakes})}

DeckHooks ==
  {Hook("useCreateDeck", {qk.decks, qk.materials}, {qk.decks, qk.materials}),
   Hook("useCreateCard", {qk.cards, qk.deck, qk.decks}, {qk.cards, qk.deck, qk.decks}),
   Hook("useDeleteCard", {qk.cards, qk.deck, qk.decks}, {qk.cards, qk.deck, qk.decks}),
   Hook("useUpdateCard", {qk.cards, qk.deck, qk.decks}, {qk.cards, qk.deck, qk.decks}),
   Hook("useReviewCard", {qk.cards, qk.deck, qk.decks}, {qk.deck, qk.decks})}

ScheduleHooks ==
  {Hook("useUpdateLabel", {qk.labels}, {qk.labels}),
   Hook("useDeleteLabel", {qk.labels, qk.events}, {qk.labels, qk.events}),
   Hook("useCreateEvent", {qk.events}, {qk.events}),
   Hook("useUpdateEvent", {qk.events}, {qk.events})}

(* Seeded flaw: a task is refetched only when the call succeeded.          *)
BadTaskHooks ==
  {[Optimistic(Hook(name, {qk.tasks}, {qk.tasks}), {qk.tasks}) EXCEPT !.settles = FALSE] :
     name \in {"useToggleTask", "useUpdateTask", "useDeleteTask"}}
TaskHooks ==
  {Optimistic(Hook(name, {qk.tasks}, {qk.tasks}), {qk.tasks}) :
     name \in {"useToggleTask", "useUpdateTask", "useDeleteTask"}}

CanvasHooks ==
  {Hook(name, {qk.thinking}, {qk.thinking}) : name \in {"useCreateCanvas", "useSaveCanvas"}}

CloneHooks ==
  {Hook("useCloneWorkspace", {qk.workspaces, qk.quizzes, qk.decks},
        {<<"workspaces">>, qk.quizzes, qk.decks}),
   Hook("useCloneQuiz", {qk.quizzes}, {qk.quizzes, qk.materials}),
   Hook("useCloneDeck", {qk.decks}, {qk.decks, qk.materials}),
   Hook("useUpdateDeck", {qk.decks, qk.deck, qk.materials}, {qk.decks, qk.deck, qk.materials})}

Hooks ==
  AccountHooks \cup SettingHooks \cup ImportHooks \cup WorkspaceHooks \cup SourceHooks
  \cup ContentHooks \cup UploadHooks \cup StudyHooks \cup MemberHooks \cup DiscussionHooks
  \cup MaterialHooks \cup QuizHooks \cup DeckHooks \cup ScheduleHooks \cup TaskHooks
  \cup CanvasHooks \cup CloneHooks

(* The lists that a hook changes and no callback of it refreshes.          *)
KnownGaps ==
  {<<"useTransferWorkspace", qk.workspaces>>, <<"useImportSources", qk.chapters>>,
   <<"useDeleteWorkspace", qk.quizzes>>, <<"useDeleteWorkspace", qk.decks>>,
   <<"useDeleteChapter", qk.materials>>, <<"useDeleteMaterial", qk.attempts>>,
   <<"useUpdateMaterial", qk.quizzes>>, <<"useUpdateMaterial", qk.decks>>,
   <<"useDeleteQuiz", qk.attempts>>}

(* What a hook does to one list.                                           *)
Shape(h, k) ==
  [changes |-> k \in h.changes, patches |-> k \in h.patches, inserts |-> k \in h.inserts,
   replaces |-> k \in h.replaces, refreshes |-> \E p \in h.refreshes : Covers(p, k),
   settles |-> h.settles, gap |-> <<h.name, k>> \in KnownGaps]

Shapes(k) == {Shape(h, k) : h \in Hooks}
AllShapes == UNION {Shapes(k) : k \in Keys}

Started == {"sent", "committed", "refused"}
Ended == {"answered", "failed"}

VARIABLES
  shape,      \* what each call does to the list watched
  call,       \* where each call is
  committed,  \* the calls whose effect the server has
  replied,    \* what the server had when it answered a call
  list,       \* the cached list: whether there is one, its rows, its mark
  fetch,      \* the fetch under way and what the server gave it
  snapshot,   \* the rows each call keeps for its rollback, if any
  ingests,    \* the uploads whose last ingest event is to come
  missed      \* the effects that the list may lack, or show too long, for a known reason

cacheVars == <<shape, call, committed, replied, list, fetch, snapshot, ingests, missed>>

CacheTypeOK ==
  /\ shape \in [Calls -> AllShapes]
  /\ call \in [Calls -> {"idle"} \cup Started \cup Ended]
  /\ committed \subseteq Calls /\ ingests \subseteq committed /\ missed \subseteq Calls
  /\ replied \in [Calls -> SUBSET Calls]
  /\ list \in [loaded : BOOLEAN, rows : SUBSET Calls, stale : BOOLEAN]
  /\ fetch \in Fetches(SUBSET Calls)
  /\ snapshot \in [Calls -> SUBSET SUBSET Calls]

CacheInit ==
  /\ \E k \in Keys : shape \in [Calls -> Shapes(k)]
  /\ call = [c \in Calls |-> "idle"]
  /\ committed = {} /\ ingests = {} /\ missed = {}
  /\ replied = [c \in Calls |-> {}]
  /\ list = [loaded |-> FALSE, rows |-> {}, stale |-> FALSE]
  /\ fetch = Asked
  /\ snapshot = [c \in Calls |-> {}]

(***************************************************************************)
(* The query cache.  Invalidating a list on screen marks it and fetches it *)
(* anew, in place of a fetch under way; but the first fetch of a list is   *)
(* never restarted, and what it already read it will show.                 *)
(***************************************************************************)
Unread == IF fetch.state = "read" THEN committed \ Answer(fetch) ELSE {}
Overlooked == IF Restart(list.loaded, fetch) = fetch THEN Unread ELSE {}

(* The list that rows are, and its refetch if the call asks for one.       *)
Settle(shown, refreshes) ==
  /\ list' = [shown EXCEPT !.stale = refreshes \/ @]
  /\ fetch' = IF refreshes THEN Restart(list.loaded, fetch) ELSE fetch

Read ==
  /\ fetch.state = "asked"
  /\ fetch' = Got(committed)
  /\ UNCHANGED <<shape, call, committed, replied, list, snapshot, ingests, missed>>

Land ==
  /\ fetch.state = "read"
  /\ list' = [loaded |-> TRUE, rows |-> Answer(fetch), stale |-> FALSE]
  /\ fetch' = NoFetch
  /\ UNCHANGED <<shape, call, committed, replied, snapshot, ingests, missed>>

(* All retries failed: the list is kept, and marked.  (A first fetch that  *)
(* fails puts an error in place of the page, and is left out.)             *)
FetchFails ==
  /\ list.loaded /\ fetch.state # "none"
  /\ list' = [list EXCEPT !.stale = TRUE]
  /\ fetch' = NoFetch
  /\ UNCHANGED <<shape, call, committed, replied, snapshot, ingests, missed>>

(* Another part of the page mounts after the stale time, or the network    *)
(* comes back.                                                             *)
Remounted ==
  /\ fetch.state = "none"
  /\ fetch' = Asked
  /\ UNCHANGED <<shape, call, committed, replied, list, snapshot, ingests, missed>>

(***************************************************************************)
(* The calls.                                                              *)
(***************************************************************************)
(* onMutate: the fetch under way is cancelled, the rows are kept, and the  *)
(* change is shown.                                                        *)
Mutate(c) ==
  /\ call[c] = "idle"
  /\ call' = [call EXCEPT ![c] = "sent"]
  /\ IF shape[c].patches
       THEN /\ fetch' = NoFetch
            /\ snapshot' = [snapshot EXCEPT ![c] = IF list.loaded THEN {list.rows} ELSE {}]
            /\ list' = IF list.loaded THEN [list EXCEPT !.rows = @ \cup {c}, !.stale = FALSE]
                       ELSE list
       ELSE UNCHANGED <<fetch, snapshot, list>>
  /\ UNCHANGED <<shape, committed, replied, ingests, missed>>

Commit(c) ==
  /\ call[c] = "sent"
  /\ call' = [call EXCEPT ![c] = "committed"]
  /\ committed' = IF shape[c].changes THEN committed \cup {c} ELSE committed
  /\ replied' = [replied EXCEPT ![c] = committed']
  /\ ingests' = IF shape[c].inserts THEN ingests \cup {c} ELSE ingests
  /\ missed' = IF shape[c].gap THEN missed \cup {c} ELSE missed
  /\ UNCHANGED <<shape, list, fetch, snapshot>>

Refuse(c) ==
  /\ call[c] = "sent"
  /\ call' = [call EXCEPT ![c] = "refused"]
  /\ UNCHANGED <<shape, committed, replied, list, fetch, snapshot, ingests, missed>>

(* onSuccess and onSettled.  An answer that becomes the list neither       *)
(* cancels a fetch that read before it nor knows of later calls, and a row *)
(* added to a list takes away the mark of a refetch that failed.           *)
Answered(c) ==
  /\ call[c] = "committed"
  /\ call' = [call EXCEPT ![c] = "answered"]
  /\ LET written == IF shape[c].inserts THEN [loaded |-> TRUE, rows |-> list.rows \cup {c}, stale |-> FALSE]
                    ELSE IF shape[c].replaces THEN [loaded |-> TRUE, rows |-> replied[c], stale |-> FALSE]
                    ELSE list
     IN  /\ Settle(written, shape[c].refreshes)
         /\ missed' = missed \cup IF shape[c].refreshes THEN Overlooked
                                  ELSE IF shape[c].replaces THEN Unread \cup (committed \ replied[c])
                                  ELSE IF shape[c].inserts /\ list.stale
                                    THEN (committed \ list.rows) \cup (list.rows \ committed)
                                  ELSE {}
  /\ UNCHANGED <<shape, committed, replied, snapshot, ingests>>

(* onError and onSettled: refused, or its answer was lost.                 *)
Failed(c) ==
  /\ call[c] \in {"refused", "committed"}
  /\ call' = [call EXCEPT ![c] = "failed"]
  /\ LET again == shape[c].settles /\ shape[c].refreshes
         before == [list EXCEPT !.rows = CHOOSE rows \in snapshot[c] : TRUE, !.stale = FALSE]
     IN  /\ Settle(IF snapshot[c] = {} THEN list ELSE before, again)
         /\ missed' = missed \cup IF again THEN Overlooked ELSE
                        {c} \cap (committed \ ingests)
  /\ UNCHANGED <<shape, committed, replied, snapshot, ingests>>

(***************************************************************************)
(* The ingest of an uploaded source ends.  Its event goes over a stream    *)
(* that keeps nothing for a client that is not connected.                  *)
(***************************************************************************)
IngestEvent(c) ==
  /\ c \in ingests
  /\ ingests' = ingests \ {c}
  /\ Settle(list, TRUE)
  /\ missed' = missed \cup Overlooked
  /\ UNCHANGED <<shape, call, committed, replied, snapshot>>

IngestEventLost(c) ==
  /\ c \in ingests
  /\ ingests' = ingests \ {c} /\ missed' = missed \cup {c}
  /\ UNCHANGED <<shape, call, committed, replied, list, fetch, snapshot>>

CacheNext ==
  \/ Read \/ Land \/ FetchFails \/ Remounted
  \/ \E c \in Calls : \/ Mutate(c) \/ Commit(c) \/ Refuse(c) \/ Answered(c) \/ Failed(c)
                      \/ IngestEvent(c) \/ IngestEventLost(c)

CacheSpec == CacheInit /\ [][CacheNext]_cacheVars

(***************************************************************************)
(* Whatever the order of patches, answers, rollbacks, refetches and        *)
(* events: once nothing is under way, a list on screen that is not marked  *)
(* stale shows exactly what the server has, but for the effects it may     *)
(* have missed for one of the reasons above.                               *)
(***************************************************************************)
Quiescent ==
  /\ \A c \in Calls : call[c] \notin Started
  /\ fetch.state = "none" /\ ingests = {}

ListsAgree ==
  Quiescent /\ list.loaded /\ ~list.stale => list.rows \ missed = committed \ missed
=============================================================================

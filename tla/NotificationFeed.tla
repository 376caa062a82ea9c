-------------------------- MODULE NotificationFeed --------------------------
(***************************************************************************)
(* The notifications of one user and the bell of one of its tabs: the list *)
(* and the unread count are fetched apart, patched by the events of a      *)
(* stream that keeps nothing for a client that is not connected, and       *)
(* fetched again whenever the stream opens or, while it is down, every     *)
(* half minute.                                                            *)
(*                                                                         *)
(* Grain.  The list is one page.  A handler commits in one step and        *)
(* publishes, or dies before it does, in another.  The requests of the bell*)
(* are retried inside one fetch.                                           *)
(***************************************************************************)
EXTENDS Naturals, FiniteSets, CachedQuery

CONSTANTS
  Notices,    \* notifications, each for the one user
  FeedActs,   \* bound on what the server and the user do to notifications
  FeedFaults  \* bound on the connections refused and the fetches that fail

ASSUME FeedAssumption == IsFiniteSet(Notices) /\ FeedActs \in Nat /\ FeedFaults \in Nat

Events == [type : {"created", "removed", "read"}, ids : SUBSET Notices]
Event(type, ids) == [type |-> type, ids |-> ids]

VARIABLES
  box,        \* the notifications table
  outbox,     \* events whose commit is done and whose publication is not
  pipe,       \* events on the stream to this client
  stream,     \* the stream, and whether the poll timer runs
  feed,       \* the cached list: unread and read notifications
  feedFetch,
  badge,      \* the cached unread count
  badgeFetch,
  mark,       \* the user's one request to mark notifications as read
  acts,       \* acts so far
  faults      \* faults so far

feedVars == <<box, outbox, pipe, stream, feed, feedFetch, badge, badgeFetch, mark, acts, faults>>
serverVars == <<box, outbox>>
cachedVars == <<feed, feedFetch, badge, badgeFetch>>

Shown == [unread : SUBSET Notices, read : SUBSET Notices]

FeedTypeOK ==
  /\ box \in [Notices -> {"none", "unread", "read", "gone"}]
  /\ outbox \subseteq Events /\ pipe \subseteq Events
  /\ stream \in [state : {"connecting", "subscribed", "connected", "disconnected"}, polls : BOOLEAN]
  /\ feed \in [loaded : BOOLEAN, rows : Shown] /\ feedFetch \in Fetches(Shown)
  /\ badge \in [loaded : BOOLEAN, count : Nat] /\ badgeFetch \in Fetches(Nat)
  /\ mark \in [state : {"idle", "sent", "committed", "over"}, ids : SUBSET Notices, all : BOOLEAN]
  /\ acts \in 0..FeedActs /\ faults \in 0..FeedFaults

Notified(state) == {n \in Notices : box[n] = state}
Rows == [unread |-> Notified("unread"), read |-> Notified("read")]

FeedInit ==
  /\ box \in [Notices -> {"none", "unread"}]
  /\ outbox = {} /\ pipe = {} /\ acts = 0 /\ faults = 0
  /\ stream = [state |-> "connecting", polls |-> FALSE]
  /\ feed = [loaded |-> FALSE, rows |-> [unread |-> {}, read |-> {}]] /\ feedFetch = Asked
  /\ badge = [loaded |-> FALSE, count |-> 0] /\ badgeFetch = Asked
  /\ mark = [state |-> "idle", ids |-> {}, all |-> FALSE]

(***************************************************************************)
(* The server.                                                             *)
(***************************************************************************)
Change(n, from, to, type) ==
  /\ acts < FeedActs /\ acts' = acts + 1
  /\ box[n] \in from
  /\ box' = [box EXCEPT ![n] = to]
  /\ outbox' = outbox \cup {Event(type, {n})}
  /\ UNCHANGED <<pipe, stream, cachedVars, mark, faults>>

Notify(n) == Change(n, {"none"}, "unread", "created")
ReadElsewhere(n) == Change(n, {"unread"}, "read", "read")
Withdraw(n) == Change(n, {"unread", "read"}, "gone", "removed")

Publish(e) ==
  /\ e \in outbox
  /\ outbox' = outbox \ {e}
  /\ pipe' = IF stream.state \in {"subscribed", "connected"} THEN pipe \cup {e} ELSE pipe
  /\ UNCHANGED <<box, stream, cachedVars, mark, acts, faults>>

Unpublished(e) ==
  /\ e \in outbox
  /\ outbox' = outbox \ {e}
  /\ UNCHANGED <<box, pipe, stream, cachedVars, mark, acts, faults>>

(***************************************************************************)
(* The cache.                                                              *)
(***************************************************************************)
RefetchFeed == feedFetch' = Restart(feed.loaded, feedFetch)
RefetchBadge == badgeFetch' = Restart(badge.loaded, badgeFetch)

Recount == RefetchBadge /\ UNCHANGED badge

(* The rows become those given, or are fetched when there are none yet.    *)
Rewrite(rows) ==
  IF feed.loaded THEN feed' = [feed EXCEPT !.rows = rows] /\ UNCHANGED feedFetch
                 ELSE RefetchFeed /\ UNCHANGED feed

Created(ids) ==
  /\ Rewrite([unread |-> feed.rows.unread \cup ids, read |-> feed.rows.read \ ids])
  /\ IF feed.loaded /\ ids \subseteq feed.rows.unread THEN UNCHANGED <<badge, badgeFetch>>
     ELSE IF feed.loaded /\ badge.loaded
       THEN badge' = [badge EXCEPT !.count = @ + 1] /\ UNCHANGED badgeFetch
       ELSE Recount

Removed(ids) ==
  /\ Rewrite([unread |-> feed.rows.unread \ ids, read |-> feed.rows.read \ ids])
  /\ Recount

MarkedRead(ids) ==
  /\ Rewrite([unread |-> feed.rows.unread \ ids,
              read |-> feed.rows.read \cup (feed.rows.unread \cap ids)])
  /\ Recount

applyNotificationEvent(e) ==
  \/ e.type = "created" /\ Created(e.ids)
  \/ e.type = "removed" /\ Removed(e.ids)
  \/ e.type = "read" /\ MarkedRead(e.ids)

Hear(e) ==
  /\ stream.state = "connected" /\ e \in pipe
  /\ pipe' = pipe \ {e}
  /\ applyNotificationEvent(e)
  /\ UNCHANGED <<serverVars, stream, mark, acts, faults>>

FeedRead ==
  /\ feedFetch.state = "asked" /\ feedFetch' = Got(Rows)
  /\ UNCHANGED <<serverVars, pipe, stream, feed, badge, badgeFetch, mark, acts, faults>>

FeedLand ==
  /\ feedFetch.state = "read" /\ feedFetch' = NoFetch
  /\ feed' = [loaded |-> TRUE, rows |-> Answer(feedFetch)]
  /\ UNCHANGED <<serverVars, pipe, stream, badge, badgeFetch, mark, acts, faults>>

BadgeRead ==
  /\ badgeFetch.state = "asked" /\ badgeFetch' = Got(Cardinality(Notified("unread")))
  /\ UNCHANGED <<serverVars, pipe, stream, feed, feedFetch, badge, mark, acts, faults>>

BadgeLand ==
  /\ badgeFetch.state = "read" /\ badgeFetch' = NoFetch
  /\ badge' = [loaded |-> TRUE, count |-> Answer(badgeFetch)]
  /\ UNCHANGED <<serverVars, pipe, stream, feed, feedFetch, mark, acts, faults>>

FetchesFail ==
  /\ faults < FeedFaults /\ faults' = faults + 1
  /\ feedFetch # NoFetch \/ badgeFetch # NoFetch
  /\ feedFetch' = NoFetch /\ badgeFetch' = NoFetch
  /\ UNCHANGED <<serverVars, pipe, stream, feed, badge, mark, acts>>

(***************************************************************************)
(* The stream.                                                             *)
(***************************************************************************)
reconcile == RefetchFeed /\ RefetchBadge /\ UNCHANGED <<feed, badge>>

(* The server subscribes before it answers.                                *)
Subscribe ==
  /\ stream.state = "connecting"
  /\ stream' = [stream EXCEPT !.state = "subscribed"]
  /\ UNCHANGED <<serverVars, pipe, cachedVars, mark, acts, faults>>

(* Seeded flaw: only a stream that was down before fetches anew.           *)
BadmarkConnected ==
  /\ stream.state = "subscribed"
  /\ stream' = [state |-> "connected", polls |-> FALSE]
  /\ UNCHANGED cachedVars
  /\ UNCHANGED <<serverVars, pipe, mark, acts, faults>>

markConnected ==
  /\ stream.state = "subscribed"
  /\ stream' = [state |-> "connected", polls |-> FALSE]
  /\ reconcile
  /\ UNCHANGED <<serverVars, pipe, mark, acts, faults>>

Down == [state |-> "disconnected", polls |-> TRUE]

(* The bounded lifetime of a stream, or a cut: what is on it is lost.      *)
StreamEnds ==
  /\ stream.state \in {"subscribed", "connected"}
  /\ stream' = Down /\ pipe' = {}
  /\ UNCHANGED <<serverVars, cachedVars, mark, acts, faults>>

ConnectFails ==
  /\ faults < FeedFaults /\ faults' = faults + 1
  /\ stream.state = "connecting" /\ stream' = Down
  /\ UNCHANGED <<serverVars, pipe, cachedVars, mark, acts>>

Reconnect ==
  /\ stream.state = "disconnected"
  /\ stream' = [stream EXCEPT !.state = "connecting"]
  /\ UNCHANGED <<serverVars, pipe, cachedVars, mark, acts, faults>>

Poll ==
  /\ stream.polls
  /\ reconcile
  /\ UNCHANGED <<serverVars, pipe, stream, mark, acts, faults>>

(***************************************************************************)
(* The bell.                                                               *)
(***************************************************************************)
MarkOne(n) ==
  /\ acts < FeedActs /\ acts' = acts + 1
  /\ mark.state = "idle" /\ n \in feed.rows.unread
  /\ mark' = [state |-> "sent", ids |-> {n}, all |-> FALSE]
  /\ UNCHANGED <<serverVars, pipe, stream, cachedVars, faults>>

(* Until the count is fetched, the unread rows are counted.                *)
UnreadCount == IF badge.loaded THEN badge.count ELSE Cardinality(feed.rows.unread)

MarkAll ==
  /\ acts < FeedActs /\ acts' = acts + 1
  /\ mark.state = "idle" /\ UnreadCount > 0
  /\ mark' = [state |-> "sent", ids |-> Notices, all |-> TRUE]
  /\ UNCHANGED <<serverVars, pipe, stream, cachedVars, faults>>

MarkCommit ==
  /\ mark.state = "sent"
  /\ LET changed == mark.ids \cap Notified("unread")
     IN  /\ box' = [n \in Notices |-> IF n \in changed THEN "read" ELSE box[n]]
         /\ outbox' = outbox \cup IF changed = {} THEN {} ELSE {Event("read", changed)}
  /\ mark' = [mark EXCEPT !.state = "committed"]
  /\ UNCHANGED <<pipe, stream, cachedVars, acts, faults>>

(* All the rows that the list has by now are marked.                       *)
MarkAnswered ==
  /\ mark.state = "committed"
  /\ mark' = [mark EXCEPT !.state = "over"]
  /\ MarkedRead(IF mark.all THEN feed.rows.unread \cup feed.rows.read ELSE mark.ids)
  /\ UNCHANGED <<serverVars, pipe, stream, acts, faults>>

MarkFails ==
  /\ mark.state \in {"sent", "committed"}
  /\ mark' = [mark EXCEPT !.state = "over"]
  /\ UNCHANGED <<serverVars, pipe, stream, cachedVars, acts, faults>>

FeedNext ==
  \/ \E n \in Notices : Notify(n) \/ ReadElsewhere(n) \/ Withdraw(n) \/ MarkOne(n)
  \/ \E e \in outbox : Publish(e) \/ Unpublished(e)
  \/ \E e \in pipe : Hear(e)
  \/ FeedRead \/ FeedLand \/ BadgeRead \/ BadgeLand \/ FetchesFail
  \/ Subscribe \/ markConnected \/ StreamEnds \/ ConnectFails \/ Reconnect \/ Poll
  \/ MarkAll \/ MarkCommit \/ MarkAnswered \/ MarkFails

(***************************************************************************)
(* Fairness: the stream ends, as the server bounds its life, and its timer *)
(* connects it again, with success in the end; handlers and requests come  *)
(* to an end, and fetches do so however often they are replaced, as the    *)
(* timers that replace them run for longer than a request.                 *)
(***************************************************************************)
FeedFairness ==
  /\ WF_feedVars(Reconnect) /\ WF_feedVars(Subscribe) /\ SF_feedVars(markConnected)
  /\ WF_feedVars(stream.state = "connected" /\ StreamEnds)
  /\ WF_feedVars(\E e \in outbox : Publish(e))
  /\ WF_feedVars(MarkCommit) /\ WF_feedVars(MarkAnswered)
  /\ SF_feedVars(FeedRead) /\ SF_feedVars(FeedLand)
  /\ SF_feedVars(BadgeRead) /\ SF_feedVars(BadgeLand)

(***************************************************************************)
(* Whatever is lost on the stream, overwritten by a fetch that read too    *)
(* early, or counted twice: in the end the bell shows the notifications    *)
(* the server has, and the number of them that is unread.                  *)
(***************************************************************************)
FeedAgrees ==
  feed.loaded /\ feed.rows = Rows /\ badge.loaded /\ badge.count = Cardinality(Notified("unread"))

FeedSettles == <>[]FeedAgrees
=============================================================================

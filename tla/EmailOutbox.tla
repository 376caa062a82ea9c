---------------------------- MODULE EmailOutbox ----------------------------
(***************************************************************************)
(* Product mail: the outbox table of internal/store/email_outbox.go, the   *)
(* domain transactions that enqueue and withdraw mails, and the dispatcher *)
(* that cmd/api/email.go runs in every instance of the API.                *)
(*                                                                         *)
(* One user and one workspace.  A mail is the number of its row, in order  *)
(* of created_at; the open invitation and the membership are stamped with  *)
(* the mail that tells of them (token_hash, updated_at), so the validity   *)
(* queries of emailClaimActive compare numbers.                            *)
(*                                                                         *)
(* Grain.  A database transaction is one action, except the send guard,    *)
(* whose transaction keeps the row locked over the call of the provider:   *)
(* it spans Begin, Call and Mark, and may be lost with its connection in   *)
(* between.  A statement that would wait for the row is not enabled.       *)
(***************************************************************************)
EXTENDS Integers, FiniteSets, FiniteSetsExt

CONSTANTS
  Dispatchers,   \* instances of the API
  MaxMails,      \* bound: rows ever inserted
  MaxAttempts,   \* maxEmailAttempts
  BatchSize,     \* the limit ClaimEmails is called with
  MailFaults,    \* bound: crashes, shutdowns and lost connections
  Stalls         \* bound: leases that lapse under a dispatcher at work

ASSUME MailAssumption ==
  /\ MaxMails \in Nat /\ MailFaults \in Nat /\ Stalls \in Nat
  /\ MaxAttempts \in Nat \ {0} /\ BatchSize \in Nat \ {0}
  /\ "none" \notin Dispatchers /\ IsFiniteSet(Dispatchers)

Mails == 1..MaxMails

VARIABLES
  exists,    \* the workspace has not been deleted
  invited,   \* the open invitation's mail; 0 with no open invitation
  standing,  \* the membership's latest mail; 0 when it has none, -1 when not a member
  rows,      \* rows inserted so far
  kind,      \* email_outbox.template
  status,    \* email_outbox.status, and the rows that are not there
  attempts,  \* email_outbox.attempts
  waiting,   \* pending mails with next_attempt_at in the future
  lease,     \* who the lease_token was given to
  lapsed,    \* mails whose lease_expires_at has passed
  lock,      \* whose session holds the dispatchers' advisory lock
  at,        \* where each dispatcher is
  batch,     \* the claims it has still to deal with, oldest first
  held,      \* whether the transaction of its guard lives
  outcome,   \* what it heard from the provider
  mailFaults, stalls,
  \* History that only properties read:
  accepted,  \* requests the provider accepted that a row tells of, or a living guard can
  calls,     \* requests made, but for those a shutdown took back from attempts
  overtaken  \* mails outdated between the check and the call of a send of theirs

domain == <<exists, invited, standing>>
outbox == <<rows, kind, status, attempts, waiting, lease, lapsed>>
dispatch == <<lock, at, batch, held, outcome>>
provider == <<accepted, calls>>
mailBounds == <<mailFaults, stalls>>
mailVars == <<domain, outbox, dispatch, provider, mailBounds, overtaken>>

Kinds == {"invite", "role", "removed", "notice"}
MailStatuses == {"none", "pending", "sending", "sent", "failed", "deleted"}
Places == {"wait", "lead", "claim", "next", "cancel", "send", "mark"}

MailTypeOK ==
  /\ exists \in BOOLEAN /\ invited \in 0..MaxMails /\ standing \in -1..MaxMails /\ rows \in 0..MaxMails
  /\ kind \in [Mails -> Kinds] /\ status \in [Mails -> MailStatuses]
  /\ attempts \in [Mails -> 0..MaxAttempts]
  /\ waiting \subseteq Mails /\ lapsed \subseteq Mails
  /\ lease \in [Mails -> Dispatchers \cup {"none"}]
  /\ lock \in Dispatchers \cup {"none"}
  /\ at \in [Dispatchers -> Places] /\ batch \in [Dispatchers -> SUBSET Mails]
  /\ \A d \in Dispatchers :
       (batch[d] = {}) <=> (at[d] \in {"wait", "lead", "claim"})
  /\ held \in [Dispatchers -> BOOLEAN]
  /\ outcome \in [Dispatchers -> {"none", "ok", "failed"}]
  /\ mailFaults \in 0..MailFaults /\ stalls \in 0..Stalls
  /\ accepted \in [Mails -> Nat] /\ calls \in [Mails -> Nat]
  /\ overtaken \subseteq Mails

MailInit ==
  /\ exists = TRUE /\ invited = 0 /\ standing \in {-1, 0} /\ rows = 0
  /\ kind = [m \in Mails |-> "notice"] /\ status = [m \in Mails |-> "none"]
  /\ attempts = [m \in Mails |-> 0]
  /\ waiting = {} /\ lapsed = {}
  /\ lease = [m \in Mails |-> "none"] /\ lock = "none"
  /\ at = [d \in Dispatchers |-> "wait"] /\ batch = [d \in Dispatchers |-> {}]
  /\ held = [d \in Dispatchers |-> FALSE] /\ outcome = [d \in Dispatchers |-> "none"]
  /\ mailFaults = 0 /\ stalls = 0
  /\ accepted = [m \in Mails |-> 0] /\ calls = [m \in Mails |-> 0]
  /\ overtaken = {}

-----------------------------------------------------------------------------
(* The domain transactions *)

(* What emailClaimActive asks of the domain, beside the claim.             *)
Valid(m) ==
  /\ kind[m] = "invite" => invited = m
  /\ kind[m] = "role" => standing = m
  /\ kind[m] = "removed" => standing = -1

(* The mail a dispatcher is at: they are claimed and sent by created_at. *)
First(d) == Min(batch[d])

(* A dispatcher has the row of m locked for a send. *)
Guarded(m) == \E d \in Dispatchers : held[d] /\ First(d) = m

(* Some dispatcher is past its check of m. *)
InSend(m) == \E d \in Dispatchers : at[d] = "send" /\ First(d) = m

KeepOvertaken == overtaken' = {m \in overtaken : InSend(m)'}

(* Definitions named Bad... are faulty variants that the model never uses. *)

(* One transaction: the domain's rows, the mails of kinds K withdrawn if   *)
(* pending, and a mail of kind k unless the user turned its category off   *)
(* (k = "none").  It may outdate a mail that is being sent.                 *)
Transact(K, k, i, s) ==
  LET new == IF k = "none" THEN {} ELSE {rows + 1}
      gone == {m \in Mails : kind[m] \in K /\ status[m] = "pending"}
  IN
  /\ invited' = i /\ standing' = s
  /\ new \subseteq Mails
  /\ rows' = rows + Cardinality(new)
  /\ kind' = [m \in Mails |-> IF m \in new THEN k ELSE kind[m]]
  /\ status' = [m \in Mails |->
       IF m \in new THEN "pending" ELSE IF m \in gone THEN "deleted" ELSE status[m]]
  /\ waiting' = waiting \ gone
  /\ overtaken' = overtaken \cup {m \in Mails : InSend(m) /\ Valid(m) /\ ~Valid(m)'}
  /\ UNCHANGED <<attempts, lease, lapsed, dispatch, provider, mailBounds>>

Membership == {"role", "removed"}

(* EnqueueEmailTx, with a category the user has on (k) or off. *)
Told(k) == {k, "none"}
Stamp(k) == IF k = "none" THEN 0 ELSE rows + 1

(* A transaction about a workspace that stays. *)
Change(K, k, i, s) == exists /\ Transact(K, k, i, s) /\ UNCHANGED exists

(* An invitation, of somebody who is no member; a second one replaces the  *)
(* token of the first.  The user has left mails of invitations on.         *)
CreateWorkspaceInvite ==
  /\ standing = -1
  /\ Change({"invite"}, "invite", rows + 1, standing)

ExpireWorkspaceInvites == invited # 0 /\ Change({"invite"}, "none", 0, standing)

AcceptWorkspaceInvite ==
  invited # 0 /\ Change(Membership \cup {"invite"}, "none", 0, 0)

SetWorkspaceMemberRole ==
  /\ standing # -1
  /\ \E k \in Told("role") : Change(Membership, k, invited, Stamp(k))

RemoveWorkspaceMember ==
  /\ standing # -1
  /\ \E k \in Told("removed") : Change(Membership, k, invited, -1)

DeleteWorkspace ==
  /\ exists /\ exists' = FALSE
  /\ Transact(Membership \cup {"invite"}, "none", 0, -1)

(* A mail about the account, a plan or a model: it stays true. *)
NotifyTx == Transact({}, "notice", invited, standing) /\ UNCHANGED exists

(* The purge of the user's account, which leaves invitations to and        *)
(* memberships of the workspaces of others.                                *)
PurgeUser == Transact(Kinds, "none", invited, standing) /\ UNCHANGED exists

-----------------------------------------------------------------------------
(* The dispatchers *)

Place(d, p) == at' = [at EXCEPT ![d] = p]

(* The claims from the second on, or the next batch. *)
BadAdvance(d) ==
  /\ batch' = [batch EXCEPT ![d] = @ \ {First(d)}]
  /\ Place(d, IF Cardinality(batch[d]) <= 2 THEN "lead" ELSE "next")
  /\ held' = [held EXCEPT ![d] = FALSE]
  /\ outcome' = [outcome EXCEPT ![d] = "none"]

Advance(d) ==
  /\ batch' = [batch EXCEPT ![d] = @ \ {First(d)}]
  /\ Place(d, IF batch[d] = {First(d)} THEN "lead" ELSE "next")
  /\ held' = [held EXCEPT ![d] = FALSE]
  /\ outcome' = [outcome EXCEPT ![d] = "none"]

TryAcquireEmailDispatcherLock(d) ==
  /\ at[d] = "wait" /\ lock = "none"
  /\ lock' = d /\ Place(d, "lead")
  /\ UNCHANGED <<domain, outbox, batch, held, outcome, provider, mailBounds, overtaken>>

(* lock.Alive, asked once per batch: a leader whose session is gone steps  *)
(* down only then.                                                         *)
Alive(d) ==
  /\ at[d] = "lead"
  /\ Place(d, IF lock = d THEN "claim" ELSE "wait")
  /\ UNCHANGED <<domain, outbox, lock, batch, held, outcome, provider, mailBounds, overtaken>>

Exhausted(m) == attempts[m] >= MaxAttempts

(* ClaimEmails: fail the rows out of attempts, requeue those whose lease   *)
(* has lapsed, claim the oldest that are due.  The second update waits for *)
(* a row that a guard has locked.                                          *)
Stale == {m \in Mails : status[m] = "sending" /\ m \in lapsed}

BadClaimable ==
  {m \in Mails : /\ status[m] = "pending" \/ m \in Stale
                 /\ attempts[m] + 1 < MaxAttempts /\ m \notin waiting}

Claimable ==
  {m \in Mails : (status[m] = "pending" \/ m \in Stale) /\ ~Exhausted(m) /\ m \notin waiting}

Oldest(S) == {m \in S : Cardinality({n \in S : n < m}) < BatchSize}

ClaimEmails(d) ==
  LET mine == Oldest(Claimable)
      out == {m \in Mails : (status[m] = "pending" \/ m \in Stale) /\ Exhausted(m)}
  IN
  /\ at[d] = "claim"
  /\ \A m \in Stale : ~Guarded(m)
  /\ status' = [m \in Mails |-> IF m \in out THEN "failed"
                                ELSE IF m \in mine THEN "sending"
                                ELSE IF m \in Stale THEN "pending" ELSE status[m]]
  /\ attempts' = [m \in Mails |-> attempts[m] + IF m \in mine THEN 1 ELSE 0]
  /\ lease' = [m \in Mails |-> IF m \in mine THEN d
                               ELSE IF m \in out \cup Stale THEN "none" ELSE lease[m]]
  /\ lapsed' = lapsed \ Stale
  /\ batch' = [batch EXCEPT ![d] = mine]
  /\ Place(d, IF mine = {} THEN "lead" ELSE "next")
  /\ UNCHANGED <<domain, rows, kind, waiting, lock, held, outcome, provider, mailBounds, overtaken>>

(* The claim is still d's: WHERE status='sending' AND lease_token=$2.      *)
BadMine(d, m) == status[m] = "sending"
Mine(d, m) == status[m] = "sending" /\ lease[m] = d

(* BeginEmailSend: lock the row, check the claim, its lease and the domain. *)
BadBeginEmailSend(d) ==
  LET m == First(d) IN
  /\ at[d] = "next"
  /\ IF Mine(d, m) /\ m \notin lapsed
     THEN Place(d, "send") /\ held' = [held EXCEPT ![d] = TRUE]
     ELSE Place(d, "cancel") /\ UNCHANGED held
  /\ UNCHANGED <<domain, outbox, lock, batch, outcome, provider, mailBounds, overtaken>>

BeginEmailSend(d) ==
  LET m == First(d) IN
  /\ at[d] = "next"
  /\ IF Mine(d, m) /\ m \notin lapsed /\ Valid(m)
     THEN Place(d, "send") /\ held' = [held EXCEPT ![d] = TRUE]
     ELSE Place(d, "cancel") /\ UNCHANGED held
  /\ UNCHANGED <<domain, outbox, lock, batch, outcome, provider, mailBounds, overtaken>>

(* What a row becomes when its claim ends. *)
Becomes(m, s) ==
  /\ status' = [status EXCEPT ![m] = s]
  /\ lease' = [lease EXCEPT ![m] = "none"]
  /\ lapsed' = lapsed \ {m}

(* A statement of its own, after the guard's transaction is rolled back.   *)
CancelEmailClaim(d) ==
  LET m == First(d) IN
  /\ at[d] = "cancel"
  /\ IF Mine(d, m) THEN Becomes(m, "failed") ELSE UNCHANGED <<status, lease, lapsed>>
  /\ Advance(d)
  /\ UNCHANGED <<domain, rows, kind, attempts, waiting, lock, provider, mailBounds, overtaken>>

(* The provider accepts, or refuses (as a template does that cannot be     *)
(* rendered), or accepts and is not heard within the 20 s of the call.     *)
Send(d) ==
  LET m == First(d) IN
  /\ at[d] = "send" /\ Place(d, "mark")
  /\ calls' = [calls EXCEPT ![m] = @ + 1]
  /\ \/ /\ outcome' = [outcome EXCEPT ![d] = "ok"]
        /\ accepted' = IF held[d] THEN [accepted EXCEPT ![m] = @ + 1] ELSE accepted
     \/ outcome' = [outcome EXCEPT ![d] = "failed"] /\ UNCHANGED accepted
  /\ UNCHANGED <<domain, outbox, lock, batch, held, mailBounds>>
  /\ KeepOvertaken

(* Without d's guard no row will tell of what the provider told d. *)
Untold(d) ==
  accepted' = IF held[d] /\ outcome[d] = "ok" THEN [accepted EXCEPT ![First(d)] = @ - 1]
              ELSE accepted

(* guard.MarkSent; with the transaction gone, the row stays claimed.       *)
MarkSent(d) ==
  LET m == First(d) IN
  /\ at[d] = "mark" /\ outcome[d] = "ok"
  /\ \/ held[d] /\ Becomes(m, "sent")
     \/ ~held[d] /\ UNCHANGED <<status, lease, lapsed>>
  /\ Advance(d)
  /\ UNCHANGED <<domain, rows, kind, attempts, waiting, lock, provider, mailBounds, overtaken>>

(* guard.MarkFailed, with emailFailureValues. *)
MarkFailed(d) ==
  LET m == First(d) IN
  /\ at[d] = "mark" /\ outcome[d] = "failed"
  /\ \/ /\ held[d]
        /\ Becomes(m, IF Exhausted(m) THEN "failed" ELSE "pending")
        /\ waiting' = IF Exhausted(m) THEN waiting ELSE waiting \cup {m}
     \/ ~held[d] /\ UNCHANGED <<status, lease, lapsed, waiting>>
  /\ Advance(d)
  /\ UNCHANGED <<domain, rows, kind, attempts, lock, provider, mailBounds, overtaken>>

-----------------------------------------------------------------------------
(* Time and faults *)

(* The backoff of a mail ends. *)
Due(m) ==
  /\ m \in waiting /\ waiting' = waiting \ {m}
  /\ UNCHANGED <<domain, rows, kind, status, attempts, lease, lapsed, dispatch, provider,
                 mailBounds, overtaken>>

AtWork(m) == \E d \in Dispatchers : lease[m] = d /\ m \in batch[d]

LeaseEnds(m) ==
  /\ status[m] = "sending" /\ m \notin lapsed
  /\ lapsed' = lapsed \cup {m}
  /\ UNCHANGED <<domain, rows, kind, status, attempts, waiting, lease, dispatch, provider,
                 mailFaults, overtaken>>

(* Two minutes pass for a claim nobody works on any more. *)
Lapse(m) == ~AtWork(m) /\ LeaseEnds(m) /\ UNCHANGED stalls

(* Or under a dispatcher that a pause or a slow database held up. *)
Stall(m) == AtWork(m) /\ stalls < Stalls /\ LeaseEnds(m) /\ stalls' = stalls + 1

Fault == mailFaults < MailFaults /\ mailFaults' = mailFaults + 1

(* The session of the advisory lock breaks; its holder does not notice.    *)
LoseLock ==
  /\ Fault /\ lock # "none" /\ lock' = "none"
  /\ UNCHANGED <<domain, outbox, at, batch, held, outcome, provider, stalls, overtaken>>

(* The connection of a guard breaks: the row is free, the claim stands.    *)
LoseGuard(d) ==
  /\ Fault /\ held[d] /\ held' = [held EXCEPT ![d] = FALSE]
  /\ Untold(d)
  /\ UNCHANGED <<domain, outbox, lock, at, batch, outcome, calls, stalls, overtaken>>

(* BeginEmailSend fails: the mail is left claimed. *)
BeginFails(d) ==
  /\ Fault /\ at[d] = "next"
  /\ Advance(d)
  /\ UNCHANGED <<domain, outbox, lock, provider, stalls, overtaken>>

(* The instance ends and starts over: its transaction and its lock go.     *)
Ends(d) ==
  /\ Fault /\ at[d] # "wait"
  /\ Place(d, "wait")
  /\ lock' = IF lock = d THEN "none" ELSE lock
  /\ batch' = [batch EXCEPT ![d] = {}]
  /\ held' = [held EXCEPT ![d] = FALSE]
  /\ outcome' = [outcome EXCEPT ![d] = "none"]
  /\ Untold(d)
  /\ KeepOvertaken
  /\ UNCHANGED <<domain, stalls>>

Crash(d) == Ends(d) /\ UNCHANGED <<outbox, calls>>

(* A shutdown cancels the context of the guard, of a call under way and of *)
(* what would mark it; ReleaseEmailClaims then gives back every claim of   *)
(* the batch that is still d's, with its attempt.                          *)
Shutdown(d) ==
  LET back == {m \in batch[d] : Mine(d, m)} IN
  /\ Ends(d)
  /\ status' = [m \in Mails |-> IF m \in back THEN "pending" ELSE status[m]]
  /\ attempts' = [m \in Mails |-> IF m \in back /\ attempts[m] > 0
                                  THEN attempts[m] - 1 ELSE attempts[m]]
  /\ lease' = [m \in Mails |-> IF m \in back THEN "none" ELSE lease[m]]
  /\ lapsed' = lapsed \ back
  /\ calls' = [m \in Mails |-> calls[m] -
       IF m \in back /\ at[d] = "mark" /\ m = First(d) THEN 1 ELSE 0]
  /\ UNCHANGED <<rows, kind, waiting>>

-----------------------------------------------------------------------------
DomainNext ==
  \/ CreateWorkspaceInvite \/ ExpireWorkspaceInvites \/ AcceptWorkspaceInvite
  \/ SetWorkspaceMemberRole \/ RemoveWorkspaceMember
  \/ NotifyTx \/ DeleteWorkspace \/ PurgeUser

DispatcherNext(d) ==
  \/ TryAcquireEmailDispatcherLock(d) \/ Alive(d) \/ ClaimEmails(d)
  \/ BeginEmailSend(d) \/ CancelEmailClaim(d) \/ Send(d) \/ MarkSent(d) \/ MarkFailed(d)

FaultNext ==
  \/ LoseLock
  \/ \E d \in Dispatchers : LoseGuard(d) \/ BeginFails(d) \/ Crash(d) \/ Shutdown(d)
  \/ \E m \in Mails : Stall(m)

MailNext ==
  \/ DomainNext
  \/ \E d \in Dispatchers : DispatcherNext(d)
  \/ \E m \in Mails : Due(m) \/ Lapse(m)
  \/ FaultNext

(* Time passes, and dispatchers are loops that only a wait for a row holds *)
(* up.  Nothing makes anybody invite, and nothing has to fail.             *)
MailFairness ==
  /\ \A d \in Dispatchers : WF_mailVars(DispatcherNext(d))
  /\ \A m \in Mails : WF_mailVars(Due(m)) /\ WF_mailVars(Lapse(m))

MailSpec == MailInit /\ [][MailNext]_mailVars /\ MailFairness

-----------------------------------------------------------------------------
(* Properties *)

(* However dispatchers overlap, the provider accepts a mail once more only *)
(* after an acceptance that no row tells of: its answer, or the guard that *)
(* would have recorded it, was lost.  And it is called no more often than  *)
(* maxEmailAttempts, but for calls a shutdown gave back.                   *)
SentOnce ==
  \A m \in Mails :
    /\ accepted[m] <= 1
    /\ status[m] = "sent" => accepted[m] = 1
    /\ calls[m] <= MaxAttempts

(* A mail whose invitation, role or removal no longer stands is not handed *)
(* to the provider, however often it was claimed and put back meanwhile:   *)
(* only one outdated during its very send goes out (collaboration.go).     *)
NeverOutdated ==
  [][\A m \in Mails : calls'[m] > calls[m] => Valid(m) \/ m \in overtaken]_mailVars

(* Every mail comes to an end, over crashes, shutdowns, lost locks and     *)
(* lapsed leases: sent, failed or withdrawn.                               *)
MailsSettle ==
  \A m \in Mails : status[m] = "pending" ~> status[m] \in {"sent", "failed", "deleted"}

(* What the comments on ClaimEmails and SetWorkspaceMemberRole say: a      *)
(* claim is failed when it is out of attempts or its event no longer holds *)
(* (or was overtaken by one of its kind).                                  *)
NoMailDropped ==
  [][\A m \in Mails :
       status[m] = "sending" /\ status'[m] = "failed" /\ ~Exhausted(m) =>
         ~Valid(m) \/ \E n \in Mails : n > m /\ n <= rows /\ kind[n] = kind[m]]_mailVars
=============================================================================

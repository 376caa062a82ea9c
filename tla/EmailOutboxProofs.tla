------------------------ MODULE EmailOutboxProofs ------------------------
(***************************************************************************)
(* Proofs about EmailOutbox for any number of dispatchers, mails, attempts *)
(* and faults.                                                             *)
(***************************************************************************)
EXTENDS EmailOutbox, SumTheorems

Working == {"next", "cancel", "send", "mark"}

(* A mail a dispatcher is at exists: numbers have a least one. *)
LEMMA FirstFacts ==
  ASSUME MailTypeOK, NEW d \in Dispatchers
  PROVE  /\ at[d] \in Working => First(d) \in batch[d]
         /\ at[d] \in Working => First(d) \in Mails
         /\ batch[d] \subseteq Mails
<1>1. batch[d] \subseteq Mails
  BY DEF MailTypeOK
<1>2. ASSUME at[d] \in Working PROVE First(d) \in batch[d]
  <2>1. batch[d] # {}
    BY <1>2 DEF MailTypeOK, Working
  <2>2. batch[d] \in SUBSET Nat
    BY <1>1, MailAssumption DEF Mails
  <2>3. \E m \in batch[d] : \A n \in batch[d] : m <= n
    BY <2>1, <2>2, LeastNatural
  <2>4. QED
    BY <2>3 DEF First, Min
<1>3. QED
  BY <1>1, <1>2

LEMMA FirstSame ==
  ASSUME NEW d, batch'[d] = batch[d]
  PROVE  First(d)' = First(d)
  BY DEF First

-----------------------------------------------------------------------------
(* Type correctness *)
LEMMA MailInitType == MailInit => MailTypeOK
  BY MailAssumption
  DEF MailInit, MailTypeOK, Kinds, MailStatuses, Places, Mails

(* What a transaction of the domain may be given. *)
LEMMA TransactType ==
  ASSUME MailTypeOK, NEW K, NEW k \in Kinds \cup {"none"}, NEW i, NEW s,
         Transact(K, k, i, s),
         i \in 0..MaxMails \/ (i = rows + 1 /\ k # "none"),
         s \in -1..MaxMails \/ (s = rows + 1 /\ k # "none"),
         exists' \in BOOLEAN
  PROVE  MailTypeOK'
<1> DEFINE new == IF k = "none" THEN {} ELSE {rows + 1}
<1>1. rows \in Nat /\ rows <= MaxMails /\ MaxMails \in Nat
  BY MailAssumption DEF MailTypeOK
<1>2. new \subseteq Mails /\ rows' = rows + Cardinality(new)
  BY DEF Transact
<1>3. CASE k = "none"
  <2>1. rows' = rows
    BY <1>1, <1>2, <1>3, FS_EmptySet
  <2>2. invited' \in 0..MaxMails /\ standing' \in -1..MaxMails
    BY <1>3 DEF Transact
  <2>3. status' \in [Mails -> MailStatuses] /\ kind' \in [Mails -> Kinds]
    BY <1>3 DEF Transact, MailTypeOK, MailStatuses
  <2>4. waiting' \subseteq Mails /\ overtaken' \subseteq Mails
    BY DEF Transact, MailTypeOK
  <2>5. QED
    BY <2>1, <2>2, <2>3, <2>4 DEF Transact, MailTypeOK, dispatch, provider, mailBounds
<1>4. CASE k # "none"
  <2>1. rows' = rows + 1 /\ rows + 1 \in Mails
    BY <1>1, <1>2, <1>4, FS_Singleton
  <2>2. invited' \in 0..MaxMails /\ standing' \in -1..MaxMails /\ rows' \in 0..MaxMails
    BY <1>1, <2>1 DEF Transact, Mails
  <2>3. status' \in [Mails -> MailStatuses] /\ kind' \in [Mails -> Kinds]
    BY <1>4 DEF Transact, MailTypeOK, MailStatuses
  <2>4. waiting' \subseteq Mails /\ overtaken' \subseteq Mails
    BY DEF Transact, MailTypeOK
  <2>5. QED
    BY <2>2, <2>3, <2>4 DEF Transact, MailTypeOK, dispatch, provider, mailBounds
<1>5. QED
  BY <1>3, <1>4

(* Every domain action is a transaction, of a known kind of mail. *)
Happens(K, k, i, s) ==
  /\ Transact(K, k, i, s) /\ exists' \in BOOLEAN
  /\ k \in Kinds \cup {"none"}
  /\ i \in 0..MaxMails \/ (i = rows + 1 /\ k # "none")
  /\ s \in -1..MaxMails \/ (s = rows + 1 /\ k # "none")

LEMMA DomainIsTransact ==
  ASSUME MailTypeOK, DomainNext
  PROVE  \E K, k, i, s : Happens(K, k, i, s)
<1>1. /\ invited \in 0..MaxMails /\ standing \in -1..MaxMails /\ exists \in BOOLEAN
      /\ 0 \in 0..MaxMails /\ 0 \in -1..MaxMails /\ -1 \in -1..MaxMails
      /\ {"invite", "role", "removed", "notice", "none"} \subseteq Kinds \cup {"none"}
  BY MailAssumption DEF MailTypeOK, Kinds
<1>2. ASSUME CreateWorkspaceInvite PROVE Happens({"invite"}, "invite", rows + 1, standing)
  BY <1>1, <1>2 DEF CreateWorkspaceInvite, Change, Happens
<1>3. ASSUME ExpireWorkspaceInvites PROVE Happens({"invite"}, "none", 0, standing)
  BY <1>1, <1>3 DEF ExpireWorkspaceInvites, Change, Happens
<1>4. ASSUME AcceptWorkspaceInvite PROVE Happens(Membership \cup {"invite"}, "none", 0, 0)
  BY <1>1, <1>4 DEF AcceptWorkspaceInvite, Change, Happens
<1>5. ASSUME SetWorkspaceMemberRole
      PROVE  \E k \in Told("role") : Happens(Membership, k, invited, Stamp(k))
  BY <1>1, <1>5 DEF SetWorkspaceMemberRole, Change, Told, Stamp, Happens
<1>6. ASSUME RemoveWorkspaceMember
      PROVE  \E k \in Told("removed") : Happens(Membership, k, invited, -1)
  BY <1>1, <1>6 DEF RemoveWorkspaceMember, Change, Told, Happens
<1>7. ASSUME DeleteWorkspace PROVE Happens(Membership \cup {"invite"}, "none", 0, -1)
  BY <1>1, <1>7 DEF DeleteWorkspace, Happens
<1>8. ASSUME NotifyTx PROVE Happens({}, "notice", invited, standing)
  BY <1>1, <1>8 DEF NotifyTx, Happens
<1>9. ASSUME PurgeUser PROVE Happens(Kinds, "none", invited, standing)
  BY <1>1, <1>9 DEF PurgeUser, Happens
<1>10. QED
  BY <1>2, <1>3, <1>4, <1>5, <1>6, <1>7, <1>8, <1>9 DEF DomainNext

-----------------------------------------------------------------------------
(* The inductive invariant *)

(* Rows not inserted yet. *)
RowsInv == \A m \in Mails : m > rows => status[m] = "none"

(* A living guard has its mail's row locked under d's own claim; a call    *)
(* that was made is counted; an answer is only had after the call.         *)
HeldInv(d) == held[d] => at[d] \in {"send", "mark"} /\ Mine(d, First(d))
CalledInv(d) == at[d] = "mark" /\ Mine(d, First(d)) => calls[First(d)] >= 1
HeardInv(d) == outcome[d] # "none" <=> at[d] = "mark"
GuardInv == \A d \in Dispatchers : HeldInv(d) /\ CalledInv(d) /\ HeardInv(d)

(* d knows of an acceptance of m that it can still record. *)
Hears(d, m) == held[d] /\ outcome[d] = "ok" /\ First(d) = m

AcceptedInv(m) ==
  /\ status[m] = "sent" => accepted[m] = 1
  /\ status[m] # "sent" =>
       accepted[m] = IF \E d \in Dispatchers : Hears(d, m) THEN 1 ELSE 0

(* d may yet call the provider for m, on an attempt that is counted.       *)
Awaits(d, m) ==
  \/ m \in batch[d] /\ Mine(d, m) /\ ~(at[d] = "mark" /\ First(d) = m)
  \/ at[d] = "send" /\ First(d) = m
Awaiting(m) == {d \in Dispatchers : Awaits(d, m)}
CallsInv(m) == calls[m] + Cardinality(Awaiting(m)) <= attempts[m]

(* Past the check, a mail is valid or was overtaken. *)
CheckedInv == \A m \in Mails : InSend(m) => Valid(m) \/ m \in overtaken

MailInv ==
  /\ MailTypeOK /\ RowsInv /\ GuardInv /\ CheckedInv
  /\ \A m \in Mails : AcceptedInv(m) /\ CallsInv(m)

-----------------------------------------------------------------------------
(* What a step leaves alone of the claims and guards of a dispatcher that  *)
(* does not take it.                                                       *)
Still(e) ==
  /\ at'[e] = at[e] /\ batch'[e] = batch[e] /\ held'[e] = held[e]
  /\ outcome'[e] = outcome[e] /\ First(e)' = First(e)
  /\ \A m \in Mails : Mine(e, m)' => Mine(e, m)
  /\ held[e] => Mine(e, First(e))'
  /\ at[e] = "mark" /\ Mine(e, First(e))' => calls'[First(e)] >= calls[First(e)]

(* The claim a living guard holds is nobody else's. *)
LEMMA GuardAlone ==
  ASSUME MailInv, NEW d \in Dispatchers, NEW m, Mine(d, m),
         NEW e \in Dispatchers, e # d
  PROVE  ~(held[e] /\ First(e) = m)
  BY DEF MailInv, GuardInv, HeldInv, Mine

LEMMA BecomesStill ==
  ASSUME MailInv, NEW d \in Dispatchers, NEW m \in Mails, Mine(d, m), NEW s, s # "sending",
         Becomes(m, s), NEW e \in Dispatchers, e # d, NEW x \in Mails
  PROVE  /\ Mine(e, x)' <=> Mine(e, x)
         /\ Mine(d, x)' => Mine(d, x) /\ x # m
         /\ x # m => status'[x] = status[x]
         /\ status'[m] = s
  BY DEF MailInv, MailTypeOK, Becomes, Mine

(* d goes on to its next mail. *)
LEMMA AdvanceFacts ==
  ASSUME MailTypeOK, NEW d \in Dispatchers, at[d] \in Working, Advance(d)
  PROVE  /\ at' \in [Dispatchers -> Places] /\ batch' \in [Dispatchers -> SUBSET Mails]
         /\ held' \in [Dispatchers -> BOOLEAN]
         /\ outcome' \in [Dispatchers -> {"none", "ok", "failed"}]
         /\ \A e \in Dispatchers : (batch'[e] = {}) <=> (at'[e] \in {"wait", "lead", "claim"})
         /\ ~held'[d] /\ at'[d] \in {"lead", "next"} /\ outcome'[d] = "none"
         /\ batch'[d] = batch[d] \ {First(d)}
         /\ \A e \in Dispatchers : e # d =>
              /\ at'[e] = at[e] /\ batch'[e] = batch[e] /\ held'[e] = held[e]
              /\ outcome'[e] = outcome[e] /\ First(e)' = First(e)
<1>1. /\ batch' = [batch EXCEPT ![d] = @ \ {First(d)}]
      /\ at' = [at EXCEPT ![d] = IF batch[d] = {First(d)} THEN "lead" ELSE "next"]
      /\ held' = [held EXCEPT ![d] = FALSE] /\ outcome' = [outcome EXCEPT ![d] = "none"]
  BY DEF Advance, Place
<1>2. First(d) \in batch[d]
  BY FirstFacts
<1>3. /\ at' \in [Dispatchers -> Places] /\ batch' \in [Dispatchers -> SUBSET Mails]
      /\ held' \in [Dispatchers -> BOOLEAN]
      /\ outcome' \in [Dispatchers -> {"none", "ok", "failed"}]
  BY <1>1 DEF MailTypeOK, Places
<1>4. /\ ~held'[d] /\ outcome'[d] = "none" /\ batch'[d] = batch[d] \ {First(d)}
      /\ at'[d] = IF batch[d] = {First(d)} THEN "lead" ELSE "next"
  BY <1>1 DEF MailTypeOK
<1>5. ASSUME NEW e \in Dispatchers, e # d
      PROVE  /\ at'[e] = at[e] /\ batch'[e] = batch[e] /\ held'[e] = held[e]
             /\ outcome'[e] = outcome[e] /\ First(e)' = First(e)
  <2>1. /\ at'[e] = at[e] /\ batch'[e] = batch[e] /\ held'[e] = held[e]
        /\ outcome'[e] = outcome[e]
    BY <1>1, <1>5 DEF MailTypeOK
  <2>2. QED
    BY <2>1, FirstSame
<1>6. (batch'[d] = {}) <=> (at'[d] \in {"wait", "lead", "claim"})
  BY <1>2, <1>4
<1>7. \A e \in Dispatchers : (batch'[e] = {}) <=> (at'[e] \in {"wait", "lead", "claim"})
  BY <1>5, <1>6 DEF MailTypeOK
<1>8. at'[d] \in {"lead", "next"}
  BY <1>4
<1>9. QED
  BY <1>3, <1>4, <1>5, <1>7, <1>8

(* The domain leaves every claimed and every sent mail alone. *)
LEMMA TransactKeeps ==
  ASSUME MailInv, NEW K, NEW k, NEW i, NEW s, Happens(K, k, i, s)
  PROVE  /\ UNCHANGED <<attempts, lease, lapsed, dispatch, provider>>
         /\ \A m \in Mails :
              /\ status[m] \in {"sending", "sent"} => status'[m] = status[m]
              /\ status'[m] \in {"sending", "sent"} => status'[m] = status[m]
         /\ \A m \in Mails : m > rows' => status'[m] = "none"
<1>1. MailTypeOK /\ RowsInv /\ MaxMails \in Nat
  BY MailAssumption DEF MailInv
<1> DEFINE new == IF k = "none" THEN {} ELSE {rows + 1}
<1>2. /\ UNCHANGED <<attempts, lease, lapsed, dispatch, provider>>
      /\ rows' = rows + Cardinality(new)
      /\ status' = [m \in Mails |-> IF m \in new THEN "pending"
           ELSE IF m \in {x \in Mails : kind[x] \in K /\ status[x] = "pending"} THEN "deleted"
           ELSE status[m]]
  BY DEF Happens, Transact
<1>3. rows \in Int /\ \A m \in Mails : m \in Int
  BY <1>1 DEF MailTypeOK, Mails
<1>4. \A m \in new : status[m] = "none" \/ m \notin Mails
  BY <1>1, <1>3 DEF RowsInv
<1>5. \A m \in Mails :
        /\ status[m] \in {"sending", "sent"} => status'[m] = status[m]
        /\ status'[m] \in {"sending", "sent"} => status'[m] = status[m]
  BY <1>2, <1>4
<1>6. ASSUME NEW m \in Mails, m > rows' PROVE status'[m] = "none"
  <2>1. (rows' = rows /\ new = {}) \/ (rows' = rows + 1 /\ new = {rows + 1})
    <3>1. CASE k = "none"
      <4>1. new = {} /\ rows' = rows + 0
        BY <1>2, <3>1, FS_EmptySet
      <4>2. QED
        BY <1>3, <4>1
    <3>2. CASE k # "none"
      BY <1>2, <3>2, FS_Singleton
    <3>3. QED
      BY <3>1, <3>2
  <2>2. m \notin new /\ m > rows
    BY <1>3, <1>6, <2>1
  <2>3. QED
    BY <1>1, <1>2, <2>2 DEF RowsInv
<1>7. QED
  BY <1>2, <1>5, <1>6

LEMMA StillKeeps ==
  ASSUME MailInv, NEW e \in Dispatchers, Still(e), MailTypeOK'
  PROVE  /\ HeldInv(e)' /\ CalledInv(e)' /\ HeardInv(e)'
         /\ \A m \in Mails : Hears(e, m)' <=> Hears(e, m)
         /\ \A m \in Mails : Awaits(e, m)' => Awaits(e, m)
<1>1. HeldInv(e) /\ CalledInv(e) /\ HeardInv(e) /\ MailTypeOK
  BY DEF MailInv, GuardInv
<1>2. HeldInv(e)' /\ HeardInv(e)'
  BY <1>1 DEF Still, HeldInv, HeardInv
<1>3. ASSUME at'[e] = "mark", Mine(e, First(e))' PROVE calls'[First(e)'] >= 1
  <2>1. at[e] = "mark" /\ First(e)' = First(e)
    BY <1>3 DEF Still
  <2>2. First(e) \in Mails
    BY <1>1, <2>1, FirstFacts DEF Working
  <2>3. Mine(e, First(e))
    BY <1>3, <2>1, <2>2 DEF Still, Mine
  <2>4. calls'[First(e)] >= calls[First(e)] /\ calls[First(e)] >= 1
    BY <1>1, <1>3, <2>1, <2>3 DEF Still, CalledInv
  <2>5. calls'[First(e)] \in Int /\ calls[First(e)] \in Int
    BY <1>1, <2>2 DEF MailTypeOK
  <2>6. QED
    BY <2>1, <2>4, <2>5
<1>4. ASSUME NEW m \in Mails
      PROVE  (Hears(e, m)' <=> Hears(e, m)) /\ (Awaits(e, m)' => Awaits(e, m))
  BY DEF Still, Hears, Awaits
<1>5. QED
  BY <1>2, <1>3, <1>4 DEF CalledInv

(* Taking one element aside, a set with fewer others is not larger. *)
LEMMA AsideOne ==
  ASSUME NEW A, IsFiniteSet(A), NEW B, NEW d, \A e \in B : e # d => e \in A
  PROVE  /\ Cardinality(A) \in Nat /\ Cardinality(B) \in Nat
         /\ Cardinality(B) + (IF d \in A THEN 1 ELSE 0)
              <= Cardinality(A) + (IF d \in B THEN 1 ELSE 0)
<1> DEFINE A1 == A \ {d}
           B1 == B \ {d}
<1>1. B1 \subseteq A1
  OBVIOUS
<1>2. IsFiniteSet(A1)
  BY FS_RemoveElement
<1>3. IsFiniteSet(B1) /\ Cardinality(B1) <= Cardinality(A1)
  BY <1>1, <1>2, FS_Subset
<1>4. Cardinality(A) = Cardinality(A1) + (IF d \in A THEN 1 ELSE 0)
      /\ Cardinality(A) \in Nat /\ Cardinality(A1) \in Nat
  BY <1>2, FS_RemoveElement, FS_CardinalityType
<1>5. IsFiniteSet(B) /\ Cardinality(B1) \in Nat
  <2>1. CASE d \in B
    <3>1. B = B1 \cup {d}
      BY <2>1
    <3>2. QED
      BY <1>3, <3>1, FS_AddElement, FS_CardinalityType
  <2>2. CASE d \notin B
    <3>1. B = B1
      BY <2>2
    <3>2. QED
      BY <1>3, <3>1, FS_CardinalityType
  <2>3. QED
    BY <2>1, <2>2
<1>6. Cardinality(B) = Cardinality(B1) + (IF d \in B THEN 1 ELSE 0) /\ Cardinality(B) \in Nat
  <2>1. Cardinality(B) \in Nat
    BY <1>5, FS_CardinalityType
  <2>2. Cardinality(B1) = IF d \in B THEN Cardinality(B) - 1 ELSE Cardinality(B)
    BY <1>5, FS_RemoveElement
  <2>3. QED
    BY <2>1, <2>2
<1> HIDE DEF A1, B1
<1>7. QED
  BY <1>3, <1>4, <1>5, <1>6

(* What d's step adds to the calls and to the calls to come, it adds to    *)
(* the attempts.                                                           *)
Counts(d, m) ==
  calls'[m] + (IF Awaits(d, m)' THEN 1 ELSE 0) + attempts[m]
    <= calls[m] + (IF Awaits(d, m) THEN 1 ELSE 0) + attempts'[m]

LEMMA CallsStep ==
  ASSUME MailInv, MailTypeOK', NEW d \in Dispatchers, NEW m \in Mails, Counts(d, m),
         \A e \in Dispatchers : e # d => (Awaits(e, m)' => Awaits(e, m))
  PROVE  CallsInv(m)'
<1>1. /\ calls[m] \in Int /\ calls'[m] \in Int
      /\ attempts[m] \in Int /\ attempts'[m] \in Int
  BY MailAssumption DEF MailInv, MailTypeOK
<1>2. IsFiniteSet(Awaiting(m))
  BY MailAssumption, FS_Subset DEF Awaiting
<1>3. \A e \in Awaiting(m)' : e # d => e \in Awaiting(m)
  BY DEF Awaiting
<1>4. (d \in Awaiting(m) <=> Awaits(d, m)) /\ (d \in Awaiting(m)' <=> Awaits(d, m)')
  BY DEF Awaiting
<1>5. /\ Cardinality(Awaiting(m)) \in Nat /\ Cardinality(Awaiting(m)') \in Nat
      /\ Cardinality(Awaiting(m)') + (IF Awaits(d, m) THEN 1 ELSE 0)
           <= Cardinality(Awaiting(m)) + (IF Awaits(d, m)' THEN 1 ELSE 0)
  BY <1>2, <1>3, <1>4, AsideOne
<1>6. calls[m] + Cardinality(Awaiting(m)) <= attempts[m]
  BY DEF MailInv, CallsInv
<1>7. calls'[m] + Cardinality(Awaiting(m)') <= attempts'[m]
  BY <1>1, <1>5, <1>6 DEF Counts
<1>8. QED
  BY <1>7 DEF CallsInv

(* What d's step adds to what it has heard of m, it adds to accepted[m],   *)
(* or it records the one acceptance of m.                                  *)
Accepts(d, m) ==
  /\ Hears(d, m)' => Mine(d, m)
  /\ \/ /\ status'[m] = "sent" <=> status[m] = "sent"
        /\ accepted'[m] = accepted[m] + (IF Hears(d, m)' THEN 1 ELSE 0)
                                      - (IF Hears(d, m) THEN 1 ELSE 0)
     \/ Hears(d, m) /\ status'[m] = "sent" /\ accepted'[m] = accepted[m]

LEMMA HearsMine ==
  ASSUME MailInv, NEW d \in Dispatchers, NEW m, Hears(d, m)
  PROVE  Mine(d, m)
  BY DEF MailInv, GuardInv, HeldInv, Hears

LEMMA AcceptedStep ==
  ASSUME MailInv, NEW d \in Dispatchers, NEW m \in Mails, Accepts(d, m),
         \A e \in Dispatchers : e # d => (Hears(e, m)' <=> Hears(e, m))
  PROVE  AcceptedInv(m)'
<1>1. AcceptedInv(m) /\ accepted[m] \in Int
  BY DEF MailInv, MailTypeOK
<1>2. ASSUME Mine(d, m), NEW e \in Dispatchers, e # d PROVE ~Hears(e, m)
  BY <1>2, HearsMine DEF Mine
<1>3. ASSUME Hears(d, m) PROVE status[m] # "sent" /\ accepted[m] = 1
  BY <1>1, <1>3, HearsMine DEF AcceptedInv, Mine
<1>4. CASE Hears(d, m) /\ status'[m] = "sent" /\ accepted'[m] = accepted[m]
  BY <1>3, <1>4 DEF AcceptedInv
<1>5. CASE /\ status'[m] = "sent" <=> status[m] = "sent"
           /\ accepted'[m] = accepted[m] + (IF Hears(d, m)' THEN 1 ELSE 0)
                                         - (IF Hears(d, m) THEN 1 ELSE 0)
  <2>1. Hears(d, m) \/ Hears(d, m)' => Mine(d, m)
    BY HearsMine DEF Accepts
  <2>2. CASE status[m] = "sent"
    <3>1. ~Hears(d, m) /\ ~Hears(d, m)'
      BY <2>1, <2>2 DEF Mine
    <3>2. accepted'[m] = 1 /\ status'[m] = "sent"
      BY <1>1, <1>5, <2>2, <3>1 DEF AcceptedInv
    <3>3. QED
      BY <3>2 DEF AcceptedInv
  <2>3. CASE status[m] # "sent"
    <3>1. status'[m] # "sent"
      BY <1>5, <2>3
    <3>2. accepted[m] = IF \E e \in Dispatchers : Hears(e, m) THEN 1 ELSE 0
      BY <1>1, <2>3 DEF AcceptedInv
    <3>3. accepted'[m] = IF \E e \in Dispatchers : Hears(e, m)' THEN 1 ELSE 0
      <4>1. CASE Hears(d, m) \/ Hears(d, m)'
        <5>1. \A e \in Dispatchers : e # d => ~Hears(e, m) /\ ~Hears(e, m)'
          BY <1>2, <2>1, <4>1
        <5>2. accepted[m] = IF Hears(d, m) THEN 1 ELSE 0
          BY <3>2, <5>1
        <5>3. accepted'[m] = IF Hears(d, m)' THEN 1 ELSE 0
          BY <1>5, <5>2
        <5>4. QED
          BY <5>1, <5>3
      <4>2. CASE ~Hears(d, m) /\ ~Hears(d, m)'
        <5>1. accepted'[m] = accepted[m]
          BY <1>1, <1>5, <4>2
        <5>2. (\E e \in Dispatchers : Hears(e, m)') <=> (\E e \in Dispatchers : Hears(e, m))
          BY <4>2
        <5>3. QED
          BY <3>2, <5>1, <5>2
      <4>3. QED
        BY <4>1, <4>2
    <3>4. QED
      BY <3>1, <3>3 DEF AcceptedInv
  <2>4. QED
    BY <2>2, <2>3
<1>6. QED
  BY <1>4, <1>5 DEF Accepts

(* A step of d keeps the invariant, if it leaves the domain and the other  *)
(* dispatchers alone, and balances its own books.                          *)
StepOf(d) ==
  /\ UNCHANGED <<domain, rows, kind>>
  /\ \A e \in Dispatchers : e # d => Still(e)
  /\ HeldInv(d)' /\ CalledInv(d)' /\ HeardInv(d)'
  /\ at'[d] = "send" =>
       (at[d] = "send" /\ First(d)' = First(d)) \/ Valid(First(d)')
  /\ (overtaken' = overtaken) \/ KeepOvertaken
  /\ \A m \in Mails : /\ status[m] = "none" => status'[m] = "none"
                      /\ Counts(d, m) /\ Accepts(d, m)

LEMMA StepKeeps ==
  ASSUME MailInv, MailTypeOK', NEW d \in Dispatchers, StepOf(d)
  PROVE  MailInv'
<1>1. ASSUME NEW e \in Dispatchers, e # d
      PROVE  /\ HeldInv(e)' /\ CalledInv(e)' /\ HeardInv(e)'
             /\ \A m \in Mails : Hears(e, m)' <=> Hears(e, m)
             /\ \A m \in Mails : Awaits(e, m)' => Awaits(e, m)
  BY <1>1, StillKeeps DEF StepOf
<1>2. GuardInv'
  BY <1>1 DEF GuardInv, StepOf
<1>3. RowsInv'
  BY DEF RowsInv, StepOf, MailInv
<1>4. \A m \in Mails : AcceptedInv(m)' /\ CallsInv(m)'
  BY <1>1, AcceptedStep, CallsStep DEF StepOf
<1>5. ASSUME NEW m \in Mails, InSend(m)' PROVE Valid(m)' \/ m \in overtaken'
  <2>1. Valid(m)' <=> Valid(m)
    BY DEF StepOf, Valid, domain
  <2>2. PICK e \in Dispatchers : at'[e] = "send" /\ First(e)' = m
    BY <1>5 DEF InSend
  <2>3. InSend(m) \/ Valid(m)
    <3>1. CASE e = d
      BY <2>2, <3>1 DEF StepOf, InSend
    <3>2. CASE e # d
      BY <2>2, <3>2 DEF StepOf, Still, InSend
    <3>3. QED
      BY <3>1, <3>2
  <2>4. m \in overtaken => m \in overtaken'
    BY <1>5 DEF StepOf, KeepOvertaken
  <2>5. QED
    BY <2>1, <2>3, <2>4 DEF MailInv, CheckedInv
<1>6. QED
  BY <1>2, <1>3, <1>4, <1>5 DEF MailInv, CheckedInv

-----------------------------------------------------------------------------
(* The steps of a dispatcher *)

LEMMA WaitStep ==
  ASSUME MailInv, NEW d \in Dispatchers,
         TryAcquireEmailDispatcherLock(d) \/ Alive(d)
  PROVE  MailTypeOK' /\ StepOf(d)
<1>1. MailTypeOK /\ HeldInv(d) /\ HeardInv(d)
  BY DEF MailInv, GuardInv
<1>2. PICK p \in {"wait", "lead", "claim"} :
        /\ at[d] \in {"wait", "lead"} /\ at' = [at EXCEPT ![d] = p]
        /\ lock' \in Dispatchers \cup {"none"}
        /\ UNCHANGED <<domain, outbox, batch, held, outcome, provider, mailBounds, overtaken>>
  BY <1>1 DEF TryAcquireEmailDispatcherLock, Alive, Place, MailTypeOK
<1>3. /\ UNCHANGED <<exists, invited, standing, rows, kind, status, attempts, waiting, lease,
                     lapsed, batch, held, outcome, accepted, calls, mailFaults, stalls, overtaken>>
      /\ at'[d] = p /\ \A e \in Dispatchers : e # d => at'[e] = at[e]
      /\ at' \in [Dispatchers -> Places]
  BY <1>1, <1>2 DEF domain, outbox, provider, mailBounds, MailTypeOK, Places
<1>4. batch[d] = {} /\ ~held[d] /\ outcome[d] = "none"
  BY <1>1, <1>2 DEF MailTypeOK, HeldInv, HeardInv
<1>5. MailTypeOK'
  BY <1>1, <1>2, <1>3, <1>4 DEF MailTypeOK
<1>6. \A e \in Dispatchers : First(e)' = First(e) /\ \A m \in Mails : Mine(e, m)' <=> Mine(e, m)
  BY <1>3 DEF First, Mine
<1>7. ASSUME NEW e \in Dispatchers, e # d PROVE Still(e)
  <2>1. HeldInv(e) /\ (at[e] = "mark" => First(e) \in Mails)
    BY <1>1, FirstFacts DEF MailInv, GuardInv, Working
  <2>2. at[e] = "mark" => calls'[First(e)] >= calls[First(e)]
    BY <1>1, <1>3, <2>1 DEF MailTypeOK
  <2>3. held[e] => Mine(e, First(e))'
    BY <1>3, <1>6, <2>1 DEF HeldInv, Mine
  <2>4. QED
    BY <1>3, <1>6, <1>7, <2>2, <2>3 DEF Still
<1>8. HeldInv(d)' /\ CalledInv(d)' /\ HeardInv(d)'
  BY <1>3, <1>4 DEF HeldInv, CalledInv, HeardInv
<1>9. ASSUME NEW m \in Mails PROVE Counts(d, m) /\ Accepts(d, m)
  <2>1. ~Awaits(d, m) /\ ~Awaits(d, m)' /\ ~Hears(d, m) /\ ~Hears(d, m)'
    BY <1>2, <1>3, <1>4 DEF Awaits, Hears
  <2>2. calls[m] \in Nat /\ attempts[m] \in 0..MaxAttempts /\ accepted[m] \in Nat
    BY <1>1 DEF MailTypeOK
  <2>3. QED
    BY <1>3, <2>1, <2>2, MailAssumption DEF Counts, Accepts
<1>10. QED
  BY <1>3, <1>5, <1>7, <1>8, <1>9 DEF StepOf, domain

(* The oldest of a set are of the set. *)
LEMMA OldestOf == \A S : Oldest(S) \subseteq S
  BY DEF Oldest

LEMMA ClaimStep ==
  ASSUME MailInv, NEW d \in Dispatchers, ClaimEmails(d)
  PROVE  MailTypeOK' /\ StepOf(d)
<1> DEFINE mine == Oldest(Claimable)
           out == {m \in Mails : (status[m] = "pending" \/ m \in Stale) /\ Exhausted(m)}
<1>1. MailTypeOK /\ HeldInv(d) /\ HeardInv(d)
  BY DEF MailInv, GuardInv
<1>2. /\ at[d] = "claim"
      /\ \A m \in Stale : ~Guarded(m)
      /\ status' = [m \in Mails |-> IF m \in out THEN "failed"
                                    ELSE IF m \in mine THEN "sending"
                                    ELSE IF m \in Stale THEN "pending" ELSE status[m]]
      /\ attempts' = [m \in Mails |-> attempts[m] + IF m \in mine THEN 1 ELSE 0]
      /\ lease' = [m \in Mails |-> IF m \in mine THEN d
                                   ELSE IF m \in out \cup Stale THEN "none" ELSE lease[m]]
      /\ lapsed' = lapsed \ Stale
      /\ batch' = [batch EXCEPT ![d] = mine]
      /\ at' = [at EXCEPT ![d] = IF mine = {} THEN "lead" ELSE "next"]
      /\ UNCHANGED <<exists, invited, standing, rows, kind, waiting, lock, held, outcome,
                     accepted, calls, mailFaults, stalls, overtaken>>
  BY DEF ClaimEmails, Place, domain, provider, mailBounds
<1>3. mine \subseteq Mails
      /\ \A m \in mine : (status[m] = "pending" \/ m \in Stale) /\ ~Exhausted(m)
  BY OldestOf DEF Claimable
<1>4. \A m \in Stale : m \in Mails /\ status[m] = "sending"
  BY DEF Stale
<1>5. \A m \in out : m \in Mails /\ m \notin mine /\ (status[m] = "pending" \/ m \in Stale)
  BY <1>3
<1> HIDE DEF mine, out
<1>6. /\ batch'[d] = mine /\ at'[d] = IF mine = {} THEN "lead" ELSE "next"
      /\ \A e \in Dispatchers : e # d => batch'[e] = batch[e] /\ at'[e] = at[e]
      /\ at' \in [Dispatchers -> Places] /\ batch' \in [Dispatchers -> SUBSET Mails]
  BY <1>1, <1>2, <1>3 DEF MailTypeOK, Places
<1>7. batch[d] = {} /\ ~held[d] /\ outcome[d] = "none"
  BY <1>1, <1>2 DEF MailTypeOK, HeldInv, HeardInv
<1>8. \A m \in Mails : attempts[m] \in Nat /\ attempts[m] <= MaxAttempts /\ MaxAttempts \in Nat
  BY <1>1, MailAssumption DEF MailTypeOK
<1>9. attempts' \in [Mails -> 0..MaxAttempts]
  <2>1. ASSUME NEW m \in Mails
        PROVE  attempts[m] + (IF m \in mine THEN 1 ELSE 0) \in 0..MaxAttempts
    <3>1. m \in mine => attempts[m] < MaxAttempts
      BY <1>3, <1>8 DEF Exhausted
    <3>2. QED
      BY <1>8, <3>1
  <2>2. QED
    BY <1>2, <2>1
<1>10. /\ status' \in [Mails -> MailStatuses] /\ lease' \in [Mails -> Dispatchers \cup {"none"}]
       /\ lapsed' \subseteq Mails
  BY <1>1, <1>2 DEF MailTypeOK, MailStatuses
<1>11. \A e \in Dispatchers : (batch'[e] = {}) <=> (at'[e] \in {"wait", "lead", "claim"})
  BY <1>1, <1>6 DEF MailTypeOK
<1>12. MailTypeOK'
  BY <1>1, <1>2, <1>6, <1>9, <1>10, <1>11 DEF MailTypeOK
<1>13. ASSUME NEW e \in Dispatchers, e # d, NEW m \in Mails
       PROVE  /\ Mine(e, m)' => Mine(e, m)
              /\ Mine(e, m) /\ m \notin Stale => Mine(e, m)'
  <2>1. m \in mine => lease'[m] = d
    BY <1>2
  <2>2. m \notin mine => (status'[m] = "sending" => status[m] = "sending" /\ m \notin Stale
                                                     /\ m \notin out)
    BY <1>2
  <2>3. m \notin mine /\ m \notin Stale /\ m \notin out =>
          lease'[m] = lease[m] /\ status'[m] = status[m]
    BY <1>2
  <2>4. status[m] = "sending" /\ m \notin Stale => m \notin mine /\ m \notin out
    BY <1>3, <1>5
  <2>5. QED
    BY <1>13, <2>1, <2>2, <2>3, <2>4 DEF Mine
<1>14. ASSUME NEW e \in Dispatchers, e # d PROVE Still(e)
  <2>1. HeldInv(e) /\ (at[e] \in Working => First(e) \in Mails)
    BY <1>1, FirstFacts DEF MailInv, GuardInv
  <2>2. First(e)' = First(e)
    BY <1>6, <1>14, FirstSame
  <2>3. at[e] = "mark" => calls'[First(e)] >= calls[First(e)]
    BY <1>1, <1>2, <2>1 DEF MailTypeOK, Working
  <2>4. ASSUME held[e] PROVE Mine(e, First(e))'
    <3>1. Mine(e, First(e)) /\ First(e) \in Mails /\ First(e) \notin Stale
      BY <1>2, <2>1, <2>4 DEF HeldInv, Working, Guarded
    <3>2. status'[First(e)] = "sending" /\ lease'[First(e)] = e
      BY <1>13, <1>14, <3>1 DEF Mine
    <3>3. QED
      BY <2>2, <3>2 DEF Mine
  <2>5. QED
    BY <1>2, <1>6, <1>13, <1>14, <2>2, <2>3, <2>4 DEF Still
<1>15. HeldInv(d)' /\ CalledInv(d)' /\ HeardInv(d)' /\ at'[d] # "send"
  BY <1>2, <1>6, <1>7 DEF HeldInv, CalledInv, HeardInv
<1>16. ASSUME NEW m \in Mails
       PROVE  /\ status[m] = "none" => status'[m] = "none"
              /\ Counts(d, m) /\ Accepts(d, m)
  <2>1. ~Awaits(d, m) /\ ~Hears(d, m) /\ ~Hears(d, m)'
    BY <1>2, <1>7 DEF Awaits, Hears
  <2>2. Awaits(d, m)' => m \in mine
    BY <1>6 DEF Awaits
  <2>3. calls[m] \in Nat /\ attempts[m] \in Nat /\ accepted[m] \in Nat
    BY <1>1, <1>8 DEF MailTypeOK
  <2>4. calls'[m] = calls[m] /\ accepted'[m] = accepted[m]
        /\ attempts'[m] = attempts[m] + (IF m \in mine THEN 1 ELSE 0)
    BY <1>2
  <2>5. Counts(d, m)
    BY <2>1, <2>2, <2>3, <2>4 DEF Counts
  <2>6. status'[m] = "sent" <=> status[m] = "sent"
    BY <1>2, <1>3, <1>4, <1>5
  <2>7. Accepts(d, m)
    BY <2>1, <2>3, <2>4, <2>6 DEF Accepts
  <2>8. status[m] = "none" => status'[m] = "none"
    BY <1>2, <1>3, <1>4, <1>5
  <2>9. QED
    BY <2>5, <2>7, <2>8
<1>17. QED
  BY <1>2, <1>12, <1>14, <1>15, <1>16 DEF StepOf, domain

LEMMA BeginStep ==
  ASSUME MailInv, NEW d \in Dispatchers, BeginEmailSend(d)
  PROVE  MailTypeOK' /\ StepOf(d)
<1>1. MailTypeOK /\ HeldInv(d) /\ HeardInv(d)
  BY DEF MailInv, GuardInv
<1>2. /\ at[d] = "next"
      /\ UNCHANGED <<exists, invited, standing, rows, kind, status, attempts, waiting, lease, lapsed,
                     lock, batch, outcome, accepted, calls, mailFaults, stalls, overtaken>>
  BY DEF BeginEmailSend, domain, outbox, provider, mailBounds
<1>3. \/ /\ Mine(d, First(d)) /\ Valid(First(d))
         /\ at' = [at EXCEPT ![d] = "send"] /\ held' = [held EXCEPT ![d] = TRUE]
      \/ at' = [at EXCEPT ![d] = "cancel"] /\ held' = held
  BY DEF BeginEmailSend, Place
<1>4. /\ at'[d] \in {"send", "cancel"} /\ held'[d] \in BOOLEAN
      /\ at'[d] = "send" => Mine(d, First(d)) /\ Valid(First(d))
      /\ held'[d] => at'[d] = "send"
      /\ \A e \in Dispatchers : e # d => at'[e] = at[e] /\ held'[e] = held[e]
      /\ at' \in [Dispatchers -> Places] /\ held' \in [Dispatchers -> BOOLEAN]
  BY <1>1, <1>2, <1>3 DEF MailTypeOK, Places, HeldInv
<1>5. outcome[d] = "none" /\ First(d) \in batch[d] /\ First(d) \in Mails
  BY <1>1, <1>2, FirstFacts DEF HeardInv, Working
<1>6. MailTypeOK'
  BY <1>1, <1>2, <1>4 DEF MailTypeOK
<1>7. \A e \in Dispatchers : First(e)' = First(e) /\ \A m : Mine(e, m)' <=> Mine(e, m)
  BY <1>2 DEF First, Mine
<1>8. ASSUME NEW e \in Dispatchers, e # d PROVE Still(e)
  <2>1. HeldInv(e) /\ (at[e] = "mark" => First(e) \in Mails)
    BY <1>1, FirstFacts DEF MailInv, GuardInv, Working
  <2>2. at[e] = "mark" => calls'[First(e)] >= calls[First(e)]
    BY <1>1, <1>2, <2>1 DEF MailTypeOK
  <2>3. held[e] => Mine(e, First(e))'
    BY <1>2, <1>7, <2>1 DEF HeldInv, Mine
  <2>4. QED
    BY <1>2, <1>4, <1>7, <1>8, <2>2, <2>3 DEF Still
<1>9. HeldInv(d)' /\ CalledInv(d)' /\ HeardInv(d)'
  BY <1>2, <1>4, <1>5, <1>7 DEF HeldInv, CalledInv, HeardInv, Mine
<1>10. ASSUME NEW m \in Mails PROVE Counts(d, m) /\ Accepts(d, m)
  <2>1. ~Hears(d, m) /\ ~Hears(d, m)'
    BY <1>2, <1>5 DEF Hears
  <2>2. Awaits(d, m)' => Awaits(d, m)
    BY <1>2, <1>4, <1>5, <1>7 DEF Awaits
  <2>3. calls[m] \in Nat /\ attempts[m] \in 0..MaxAttempts /\ accepted[m] \in Nat
    BY <1>1 DEF MailTypeOK
  <2>4. QED
    BY <1>2, <2>1, <2>2, <2>3, MailAssumption DEF Counts, Accepts
<1>11. QED
  BY <1>2, <1>4, <1>6, <1>7, <1>8, <1>9, <1>10 DEF StepOf, domain

(* What a call is answered, or that it is not, is heard by a living guard. *)
LEMMA SendStep ==
  ASSUME MailInv, NEW d \in Dispatchers, Send(d)
  PROVE  MailTypeOK' /\ StepOf(d)
<1> DEFINE f == First(d)
<1>1. MailTypeOK /\ HeldInv(d) /\ HeardInv(d)
  BY DEF MailInv, GuardInv
<1>2. /\ at[d] = "send" /\ at' = [at EXCEPT ![d] = "mark"]
      /\ calls' = [calls EXCEPT ![f] = @ + 1]
      /\ \/ /\ outcome' = [outcome EXCEPT ![d] = "ok"]
            /\ accepted' = IF held[d] THEN [accepted EXCEPT ![f] = @ + 1] ELSE accepted
         \/ outcome' = [outcome EXCEPT ![d] = "failed"] /\ accepted' = accepted
      /\ UNCHANGED <<exists, invited, standing, rows, kind, status, attempts, waiting, lease, lapsed,
                     lock, batch, held, mailFaults, stalls>>
      /\ KeepOvertaken
  BY DEF Send, Place, domain, outbox, mailBounds
<1>3. outcome[d] = "none" /\ f \in batch[d] /\ f \in Mails
  BY <1>1, <1>2, FirstFacts DEF HeardInv, Working
<1>4. /\ at'[d] = "mark" /\ at' \in [Dispatchers -> Places]
      /\ outcome'[d] \in {"ok", "failed"} /\ outcome' \in [Dispatchers -> {"none", "ok", "failed"}]
      /\ \A e \in Dispatchers : e # d => at'[e] = at[e] /\ outcome'[e] = outcome[e]
  BY <1>1, <1>2 DEF MailTypeOK, Places
<1>5. \A m \in Mails : calls[m] \in Nat /\ accepted[m] \in Nat
  BY <1>1 DEF MailTypeOK
<1>6. /\ calls' \in [Mails -> Nat]
      /\ \A m \in Mails : calls'[m] = calls[m] + (IF m = f THEN 1 ELSE 0)
  BY <1>1, <1>2, <1>3, <1>5 DEF MailTypeOK
<1>7. /\ accepted' \in [Mails -> Nat]
      /\ \A m \in Mails : accepted'[m] = accepted[m] +
           (IF m = f /\ held[d] /\ outcome'[d] = "ok" THEN 1 ELSE 0)
  <2>1. CASE outcome' = [outcome EXCEPT ![d] = "ok"]
             /\ accepted' = IF held[d] THEN [accepted EXCEPT ![f] = @ + 1] ELSE accepted
    <3>1. outcome'[d] = "ok"
      BY <1>1, <2>1 DEF MailTypeOK
    <3>2. CASE held[d]
      BY <1>1, <1>3, <1>5, <2>1, <3>1, <3>2 DEF MailTypeOK
    <3>3. CASE ~held[d]
      BY <1>1, <1>3, <1>5, <2>1, <3>1, <3>3 DEF MailTypeOK
    <3>4. QED
      BY <3>2, <3>3
  <2>2. CASE outcome' = [outcome EXCEPT ![d] = "failed"] /\ accepted' = accepted
    <3>1. outcome'[d] = "failed"
      BY <1>1, <2>2 DEF MailTypeOK
    <3>2. QED
      BY <1>1, <1>5, <2>2, <3>1 DEF MailTypeOK
  <2>3. QED
    BY <1>2, <2>1, <2>2
<1>8. overtaken' \subseteq Mails
  BY <1>1, <1>2 DEF KeepOvertaken, MailTypeOK
<1>9. MailTypeOK'
  BY <1>1, <1>2, <1>3, <1>4, <1>6, <1>7, <1>8 DEF MailTypeOK
<1>10. \A e \in Dispatchers : First(e)' = First(e) /\ \A m : Mine(e, m)' <=> Mine(e, m)
  BY <1>2 DEF First, Mine
<1>11. ASSUME NEW e \in Dispatchers, e # d PROVE Still(e)
  <2>1. HeldInv(e) /\ (at[e] = "mark" => First(e) \in Mails)
    BY <1>1, FirstFacts DEF MailInv, GuardInv, Working
  <2>2. at[e] = "mark" => calls'[First(e)] >= calls[First(e)]
    BY <1>5, <1>6, <2>1
  <2>3. held[e] => Mine(e, First(e))'
    BY <1>2, <1>10, <2>1 DEF HeldInv, Mine
  <2>4. QED
    BY <1>2, <1>4, <1>10, <1>11, <2>2, <2>3 DEF Still
<1> HIDE DEF f
<1>12. HeldInv(d)' /\ HeardInv(d)'
  BY <1>1, <1>2, <1>4, <1>10 DEF HeldInv, HeardInv, Mine
<1>13. First(d) = f
  BY DEF f
<1>14. CalledInv(d)'
  BY <1>3, <1>5, <1>6, <1>10, <1>13 DEF CalledInv
<1>15. ASSUME NEW m \in Mails PROVE Counts(d, m) /\ Accepts(d, m)
  <2>1. ~Hears(d, m) /\ (Hears(d, m)' <=> m = f /\ held[d] /\ outcome'[d] = "ok")
    BY <1>2, <1>3, <1>10, <1>13 DEF Hears
  <2>2. Hears(d, m)' => Mine(d, m)
    BY <1>1, <1>13, <2>1 DEF HeldInv
  <2>3. Awaits(d, m)' => Awaits(d, m) /\ m # f
    BY <1>2, <1>4, <1>10, <1>13 DEF Awaits
  <2>4. m = f => Awaits(d, m)
    BY <1>2, <1>13 DEF Awaits
  <2>5. calls[m] \in Nat /\ attempts[m] \in Nat /\ accepted[m] \in Nat /\ attempts'[m] = attempts[m]
    BY <1>1, <1>2, MailAssumption DEF MailTypeOK
  <2>6. Counts(d, m)
    BY <1>6, <2>3, <2>4, <2>5 DEF Counts
  <2>7. Accepts(d, m)
    BY <1>2, <1>7, <2>1, <2>2, <2>5 DEF Accepts
  <2>8. QED
    BY <2>6, <2>7
<1>16. QED
  BY <1>2, <1>4, <1>9, <1>11, <1>12, <1>14, <1>15 DEF StepOf, domain

(* d deals with its mail and goes on: whatever it hears is recorded, and   *)
(* only what it hears is recorded as sent.                                 *)
LEMMA AdvanceStep ==
  ASSUME MailInv, NEW d \in Dispatchers, at[d] \in Working, Advance(d),
         UNCHANGED <<domain, rows, kind, attempts, lock, provider, overtaken, stalls>>,
         \/ UNCHANGED <<status, lease, lapsed>>
         \/ /\ Mine(d, First(d))
            /\ \E s \in {"failed", "pending", "sent"} : Becomes(First(d), s),
         waiting' \subseteq Mails, mailFaults' \in 0..MailFaults,
         \A m \in Mails : Hears(d, m) => status'[m] = "sent",
         \A m \in Mails : status'[m] = "sent" => status[m] = "sent" \/ Hears(d, m)
  PROVE  MailTypeOK' /\ StepOf(d)
<1> DEFINE f == First(d)
<1>1. MailTypeOK /\ HeldInv(d) /\ HeardInv(d)
  BY DEF MailInv, GuardInv
<1>2. f \in batch[d] /\ f \in Mails
  BY <1>1, FirstFacts
<1>3. UNCHANGED <<exists, invited, standing, rows, kind, attempts, lock, accepted, calls,
                  overtaken, stalls>>
  BY DEF domain, provider
<1>4. /\ at' \in [Dispatchers -> Places] /\ batch' \in [Dispatchers -> SUBSET Mails]
      /\ held' \in [Dispatchers -> BOOLEAN]
      /\ outcome' \in [Dispatchers -> {"none", "ok", "failed"}]
      /\ \A e \in Dispatchers : (batch'[e] = {}) <=> (at'[e] \in {"wait", "lead", "claim"})
      /\ ~held'[d] /\ at'[d] \in {"lead", "next"} /\ outcome'[d] = "none"
      /\ batch'[d] = batch[d] \ {f}
      /\ \A e \in Dispatchers : e # d =>
           /\ at'[e] = at[e] /\ batch'[e] = batch[e] /\ held'[e] = held[e]
           /\ outcome'[e] = outcome[e] /\ First(e)' = First(e)
  BY <1>1, AdvanceFacts
<1>5. /\ status' \in [Mails -> MailStatuses] /\ lease' \in [Mails -> Dispatchers \cup {"none"}]
      /\ lapsed' \subseteq Mails
  BY <1>1, <1>2 DEF MailTypeOK, MailStatuses, Becomes
<1>6. MailTypeOK'
  BY <1>1, <1>3, <1>4, <1>5 DEF MailTypeOK
<1>7. \A m \in Mails :
        /\ status[m] = "none" => status'[m] = "none"
        /\ \A e \in Dispatchers : Mine(e, m)' => Mine(e, m)
        /\ \A e \in Dispatchers : e # d /\ Mine(e, m) => Mine(e, m)'
  <2>1. CASE UNCHANGED <<status, lease, lapsed>>
    BY <2>1 DEF Mine
  <2>2. ASSUME Mine(d, f), NEW s \in {"failed", "pending", "sent"}, Becomes(f, s), NEW m \in Mails
        PROVE  /\ status[m] = "none" => status'[m] = "none"
               /\ \A e \in Dispatchers : Mine(e, m)' => Mine(e, m)
               /\ \A e \in Dispatchers : e # d /\ Mine(e, m) => Mine(e, m)'
    <3>1. CASE m = f
      BY <1>1, <1>2, <2>2, <3>1 DEF MailTypeOK, Becomes, Mine
    <3>2. CASE m # f
      BY <1>1, <2>2, <3>2 DEF MailTypeOK, Becomes, Mine
    <3>3. QED
      BY <3>1, <3>2
  <2>3. QED
    BY <2>1, <2>2
<1>8. ASSUME NEW e \in Dispatchers, e # d PROVE Still(e)
  <2>1. HeldInv(e) /\ (at[e] \in {"send", "mark"} => First(e) \in Mails)
    BY <1>1, FirstFacts DEF MailInv, GuardInv, Working
  <2>2. at[e] = "mark" => calls'[First(e)] >= calls[First(e)]
    BY <1>1, <1>3, <2>1 DEF MailTypeOK
  <2>3. ASSUME held[e] PROVE Mine(e, First(e))'
    <3>1. Mine(e, First(e)) /\ First(e) \in Mails
      BY <2>1, <2>3 DEF HeldInv
    <3>2. status'[First(e)] = "sending" /\ lease'[First(e)] = e
      BY <1>7, <1>8, <3>1 DEF Mine
    <3>3. QED
      BY <1>4, <1>8, <3>2 DEF Mine
  <2>4. QED
    BY <1>4, <1>7, <1>8, <2>2, <2>3 DEF Still
<1> HIDE DEF f
<1>9. HeldInv(d)' /\ CalledInv(d)' /\ HeardInv(d)'
  BY <1>4 DEF HeldInv, CalledInv, HeardInv
<1>10. ASSUME NEW m \in Mails PROVE Counts(d, m) /\ Accepts(d, m)
  <2>1. ~Hears(d, m)'
    BY <1>4 DEF Hears
  <2>2. Awaits(d, m)' => Awaits(d, m)
    BY <1>4, <1>7 DEF Awaits, f
  <2>3. calls[m] \in Nat /\ attempts[m] \in Nat /\ accepted[m] \in Nat
    BY <1>1, MailAssumption DEF MailTypeOK
  <2>4. Counts(d, m)
    BY <1>3, <2>2, <2>3 DEF Counts
  <2>5. Hears(d, m) => status[m] = "sending"
    BY HearsMine DEF Mine
  <2>6. ~Hears(d, m) => (status[m] = "sent" => status'[m] = "sent")
    <3>1. CASE UNCHANGED <<status, lease, lapsed>>
      BY <3>1
    <3>2. CASE Mine(d, First(d)) /\ \E s \in {"failed", "pending", "sent"} : Becomes(First(d), s)
      BY <1>1, <3>2 DEF Mine, Becomes, MailTypeOK
    <3>3. QED
      BY <3>1, <3>2
  <2>7. Accepts(d, m)
    BY <1>3, <2>1, <2>3, <2>5, <2>6 DEF Accepts
  <2>8. QED
    BY <2>4, <2>7
<1>11. QED
  BY <1>3, <1>4, <1>6, <1>7, <1>8, <1>9, <1>10 DEF StepOf, domain

LEMMA CancelStep ==
  ASSUME MailInv, NEW d \in Dispatchers, CancelEmailClaim(d)
  PROVE  MailTypeOK' /\ StepOf(d)
<1>1. MailTypeOK /\ HeldInv(d)
  BY DEF MailInv, GuardInv
<1>2. at[d] = "cancel" /\ at[d] \in Working /\ Advance(d) /\ ~held[d]
  BY <1>1 DEF CancelEmailClaim, Working, HeldInv
<1>3. \/ UNCHANGED <<status, lease, lapsed>>
      \/ Mine(d, First(d)) /\ Becomes(First(d), "failed")
  BY DEF CancelEmailClaim
<1>4. /\ UNCHANGED <<domain, rows, kind, attempts, lock, provider, overtaken, stalls>>
      /\ waiting' \subseteq Mails /\ mailFaults' \in 0..MailFaults
  BY <1>1 DEF CancelEmailClaim, MailTypeOK, mailBounds
<1>5. ASSUME NEW m \in Mails
      PROVE  ~Hears(d, m) /\ (status'[m] = "sent" => status[m] = "sent")
  BY <1>1, <1>2, <1>3 DEF Hears, Becomes, MailTypeOK
<1>6. QED
  BY <1>2, <1>3, <1>4, <1>5, AdvanceStep

LEMMA MarkSentStep ==
  ASSUME MailInv, NEW d \in Dispatchers, MarkSent(d)
  PROVE  MailTypeOK' /\ StepOf(d)
<1>1. MailTypeOK /\ HeldInv(d)
  BY DEF MailInv, GuardInv
<1>2. at[d] \in Working /\ Advance(d) /\ outcome[d] = "ok"
  BY DEF MarkSent, Working
<1>3. \/ ~held[d] /\ UNCHANGED <<status, lease, lapsed>>
      \/ held[d] /\ Mine(d, First(d)) /\ Becomes(First(d), "sent")
  BY <1>1 DEF MarkSent, HeldInv
<1>4. /\ UNCHANGED <<domain, rows, kind, attempts, lock, provider, overtaken, stalls>>
      /\ waiting' \subseteq Mails /\ mailFaults' \in 0..MailFaults
  BY <1>1 DEF MarkSent, MailTypeOK, mailBounds
<1>5. ASSUME NEW m \in Mails
      PROVE  /\ Hears(d, m) => status'[m] = "sent"
             /\ status'[m] = "sent" => status[m] = "sent" \/ Hears(d, m)
  BY <1>1, <1>2, <1>3 DEF Hears, Becomes, MailTypeOK
<1>6. QED
  BY <1>2, <1>3, <1>4, <1>5, AdvanceStep

LEMMA MarkFailedStep ==
  ASSUME MailInv, NEW d \in Dispatchers, MarkFailed(d)
  PROVE  MailTypeOK' /\ StepOf(d)
<1>1. MailTypeOK /\ HeldInv(d)
  BY DEF MailInv, GuardInv
<1>2. at[d] \in Working /\ Advance(d) /\ outcome[d] = "failed"
  BY DEF MarkFailed, Working
<1>3. \/ UNCHANGED <<status, lease, lapsed>>
      \/ Mine(d, First(d)) /\ \E s \in {"failed", "pending"} : Becomes(First(d), s)
  BY <1>1 DEF MarkFailed, HeldInv
<1>4. First(d) \in Mails
  BY <1>1, <1>2, FirstFacts
<1>5. /\ UNCHANGED <<domain, rows, kind, attempts, lock, provider, overtaken, stalls>>
      /\ waiting' \subseteq Mails /\ mailFaults' \in 0..MailFaults
  BY <1>1, <1>4 DEF MarkFailed, MailTypeOK, mailBounds
<1>6. ASSUME NEW m \in Mails
      PROVE  ~Hears(d, m) /\ (status'[m] = "sent" => status[m] = "sent")
  BY <1>1, <1>2, <1>3 DEF Hears, Becomes, MailTypeOK
<1>7. QED
  BY <1>2, <1>3, <1>5, <1>6, AdvanceStep

LEMMA BeginFailsStep ==
  ASSUME MailInv, NEW d \in Dispatchers, BeginFails(d)
  PROVE  MailTypeOK' /\ StepOf(d)
<1>1. MailTypeOK /\ HeldInv(d)
  BY DEF MailInv, GuardInv
<1>2. at[d] \in Working /\ Advance(d) /\ ~held[d]
  BY <1>1 DEF BeginFails, Working, HeldInv
<1>3. /\ UNCHANGED <<domain, rows, kind, attempts, waiting, status, lease, lapsed, lock,
                     provider, overtaken, stalls>>
      /\ mailFaults < MailFaults /\ mailFaults' = mailFaults + 1
  BY DEF BeginFails, Fault, outbox
<1>4. waiting' \subseteq Mails /\ mailFaults' \in 0..MailFaults
  BY <1>1, <1>3, MailAssumption DEF MailTypeOK
<1>5. \A m \in Mails : ~Hears(d, m)
  BY <1>2 DEF Hears
<1>6. QED
  BY <1>2, <1>3, <1>4, <1>5, AdvanceStep

-----------------------------------------------------------------------------
(* Faults of a dispatcher, and what it has no part in *)

(* What d heard and cannot record any more is no longer counted. *)
LEMMA UntoldFacts ==
  ASSUME MailInv, NEW d \in Dispatchers, Untold(d)
  PROVE  /\ accepted' \in [Mails -> Nat]
         /\ \A m \in Mails :
              accepted'[m] = accepted[m] - (IF Hears(d, m) THEN 1 ELSE 0)
<1>1. MailTypeOK /\ HeldInv(d) /\ \A m \in Mails : accepted[m] \in Nat
  BY DEF MailInv, GuardInv, MailTypeOK
<1>2. CASE held[d] /\ outcome[d] = "ok"
  <2>1. First(d) \in Mails /\ Mine(d, First(d))
    BY <1>1, <1>2, FirstFacts DEF HeldInv, Working
  <2>2. Hears(d, First(d)) /\ status[First(d)] # "sent"
    BY <1>2, <2>1 DEF Hears, Mine
  <2>3. accepted[First(d)] = 1
    BY <2>1, <2>2 DEF MailInv, AcceptedInv
  <2>4. accepted' = [accepted EXCEPT ![First(d)] = @ - 1]
    BY <1>2 DEF Untold
  <2>5. \A m \in Mails : Hears(d, m) <=> m = First(d)
    BY <1>2 DEF Hears
  <2>6. QED
    BY <1>1, <2>1, <2>3, <2>4, <2>5 DEF MailTypeOK
<1>3. CASE ~(held[d] /\ outcome[d] = "ok")
  BY <1>1, <1>3 DEF Untold, Hears, MailTypeOK
<1>4. QED
  BY <1>2, <1>3

LEMMA LoseGuardStep ==
  ASSUME MailInv, NEW d \in Dispatchers, LoseGuard(d)
  PROVE  MailTypeOK' /\ StepOf(d)
<1>1. MailTypeOK /\ HeldInv(d) /\ CalledInv(d) /\ HeardInv(d)
  BY DEF MailInv, GuardInv
<1>2. /\ UNCHANGED <<exists, invited, standing, rows, kind, status, attempts, waiting, lease,
                     lapsed, lock, at, batch, outcome, calls, stalls, overtaken>>
      /\ mailFaults < MailFaults /\ mailFaults' = mailFaults + 1
      /\ held' = [held EXCEPT ![d] = FALSE] /\ Untold(d)
  BY DEF LoseGuard, Fault, domain, outbox
<1>3. /\ accepted' \in [Mails -> Nat]
      /\ \A m \in Mails :
           accepted'[m] = accepted[m] - (IF Hears(d, m) THEN 1 ELSE 0)
  BY <1>2, UntoldFacts
<1>4. /\ ~held'[d] /\ held' \in [Dispatchers -> BOOLEAN]
      /\ \A e \in Dispatchers : e # d => held'[e] = held[e]
  BY <1>1, <1>2 DEF MailTypeOK
<1>5. mailFaults' \in 0..MailFaults
  BY <1>1, <1>2, MailAssumption DEF MailTypeOK
<1>6. MailTypeOK'
  BY <1>1, <1>2, <1>3, <1>4, <1>5 DEF MailTypeOK
<1>7. \A e \in Dispatchers : First(e)' = First(e) /\ \A m : Mine(e, m)' <=> Mine(e, m)
  BY <1>2 DEF First, Mine
<1>8. ASSUME NEW e \in Dispatchers, e # d PROVE Still(e)
  <2>1. HeldInv(e) /\ (at[e] = "mark" => First(e) \in Mails)
    BY <1>1, FirstFacts DEF MailInv, GuardInv, Working
  <2>2. at[e] = "mark" => calls'[First(e)] >= calls[First(e)]
    BY <1>1, <1>2, <2>1 DEF MailTypeOK
  <2>3. held[e] => Mine(e, First(e))'
    BY <1>2, <1>7, <2>1 DEF HeldInv, Mine
  <2>4. QED
    BY <1>2, <1>4, <1>7, <1>8, <2>2, <2>3 DEF Still
<1>9. HeldInv(d)' /\ CalledInv(d)' /\ HeardInv(d)'
  BY <1>1, <1>2, <1>4, <1>7 DEF HeldInv, CalledInv, HeardInv, Mine
<1>10. ASSUME NEW m \in Mails PROVE Counts(d, m) /\ Accepts(d, m)
  <2>1. ~Hears(d, m)'
    BY <1>4 DEF Hears
  <2>2. Awaits(d, m)' => Awaits(d, m)
    BY <1>2, <1>7 DEF Awaits
  <2>3. calls[m] \in Nat /\ attempts[m] \in Nat /\ accepted[m] \in Nat
    BY <1>1, MailAssumption DEF MailTypeOK
  <2>4. QED
    BY <1>2, <1>3, <2>1, <2>2, <2>3 DEF Counts, Accepts
<1>11. QED
  BY <1>2, <1>6, <1>7, <1>8, <1>9, <1>10 DEF StepOf, domain

(* What an instance that ends leaves behind. *)
LEMMA EndsFacts ==
  ASSUME MailInv, NEW d \in Dispatchers, Ends(d)
  PROVE  /\ UNCHANGED <<exists, invited, standing, stalls>> /\ KeepOvertaken
         /\ overtaken' \subseteq Mails
         /\ at' \in [Dispatchers -> Places] /\ batch' \in [Dispatchers -> SUBSET Mails]
         /\ held' \in [Dispatchers -> BOOLEAN]
         /\ outcome' \in [Dispatchers -> {"none", "ok", "failed"}]
         /\ \A e \in Dispatchers : (batch'[e] = {}) <=> (at'[e] \in {"wait", "lead", "claim"})
         /\ lock' \in Dispatchers \cup {"none"} /\ mailFaults' \in 0..MailFaults
         /\ at'[d] = "wait" /\ batch'[d] = {} /\ ~held'[d] /\ outcome'[d] = "none"
         /\ \A e \in Dispatchers : e # d =>
              /\ at'[e] = at[e] /\ batch'[e] = batch[e] /\ held'[e] = held[e]
              /\ outcome'[e] = outcome[e] /\ First(e)' = First(e)
         /\ accepted' \in [Mails -> Nat]
         /\ \A m \in Mails :
              accepted'[m] = accepted[m] - (IF Hears(d, m) THEN 1 ELSE 0)
<1>1. MailTypeOK
  BY DEF MailInv
<1>2. /\ UNCHANGED <<exists, invited, standing, stalls>> /\ KeepOvertaken
      /\ mailFaults < MailFaults /\ mailFaults' = mailFaults + 1
      /\ at' = [at EXCEPT ![d] = "wait"] /\ batch' = [batch EXCEPT ![d] = {}]
      /\ held' = [held EXCEPT ![d] = FALSE] /\ outcome' = [outcome EXCEPT ![d] = "none"]
      /\ lock' = IF lock = d THEN "none" ELSE lock
      /\ Untold(d)
  BY DEF Ends, Fault, Place, domain
<1>3. /\ accepted' \in [Mails -> Nat]
      /\ \A m \in Mails :
           accepted'[m] = accepted[m] - (IF Hears(d, m) THEN 1 ELSE 0)
  BY <1>2, UntoldFacts
<1>4. /\ at' \in [Dispatchers -> Places] /\ batch' \in [Dispatchers -> SUBSET Mails]
      /\ held' \in [Dispatchers -> BOOLEAN]
      /\ outcome' \in [Dispatchers -> {"none", "ok", "failed"}]
      /\ at'[d] = "wait" /\ batch'[d] = {} /\ ~held'[d] /\ outcome'[d] = "none"
  BY <1>1, <1>2 DEF MailTypeOK, Places
<1>5. ASSUME NEW e \in Dispatchers, e # d
      PROVE  /\ at'[e] = at[e] /\ batch'[e] = batch[e] /\ held'[e] = held[e]
             /\ outcome'[e] = outcome[e] /\ First(e)' = First(e)
  <2>1. /\ at'[e] = at[e] /\ batch'[e] = batch[e] /\ held'[e] = held[e]
        /\ outcome'[e] = outcome[e]
    BY <1>1, <1>2, <1>5 DEF MailTypeOK
  <2>2. QED
    BY <2>1, FirstSame
<1>6. \A e \in Dispatchers : (batch'[e] = {}) <=> (at'[e] \in {"wait", "lead", "claim"})
  BY <1>1, <1>4, <1>5 DEF MailTypeOK
<1>7. /\ lock' \in Dispatchers \cup {"none"} /\ mailFaults' \in 0..MailFaults
      /\ overtaken' \subseteq Mails
  BY <1>1, <1>2, MailAssumption DEF MailTypeOK, KeepOvertaken
<1>8. QED
  BY <1>2, <1>3, <1>4, <1>5, <1>6, <1>7

LEMMA CrashStep ==
  ASSUME MailInv, NEW d \in Dispatchers, Crash(d)
  PROVE  MailTypeOK' /\ StepOf(d)
<1>1. MailTypeOK
  BY DEF MailInv
<1>2. Ends(d)
  BY DEF Crash
<1>3. UNCHANGED <<rows, kind, status, attempts, waiting, lease, lapsed, calls>>
  BY DEF Crash, outbox
<1>4. MailTypeOK'
  BY <1>1, <1>2, <1>3, EndsFacts DEF MailTypeOK
<1>5. \A e \in Dispatchers, m \in Mails : Mine(e, m)' <=> Mine(e, m)
  BY <1>3 DEF Mine
<1>6. ASSUME NEW e \in Dispatchers, e # d PROVE Still(e)
  <2>1. HeldInv(e) /\ (at[e] = "mark" => First(e) \in Mails)
    BY <1>1, FirstFacts DEF MailInv, GuardInv, Working
  <2>2. at[e] = "mark" => calls'[First(e)] >= calls[First(e)]
    BY <1>1, <1>3, <2>1 DEF MailTypeOK
  <2>3. First(e)' = First(e)
    BY <1>2, <1>6, EndsFacts
  <2>4. held[e] => Mine(e, First(e))'
    BY <1>3, <2>1, <2>3 DEF HeldInv, Mine
  <2>5. QED
    BY <1>2, <1>5, <1>6, <2>2, <2>4, EndsFacts DEF Still
<1>7. HeldInv(d)' /\ CalledInv(d)' /\ HeardInv(d)' /\ at'[d] # "send"
  BY <1>2, EndsFacts DEF HeldInv, CalledInv, HeardInv
<1>8. ASSUME NEW m \in Mails PROVE Counts(d, m) /\ Accepts(d, m)
  <2>1. /\ ~Hears(d, m)' /\ ~Awaits(d, m)'
        /\ accepted'[m] = accepted[m] - (IF Hears(d, m) THEN 1 ELSE 0)
    BY <1>2, EndsFacts DEF Hears, Awaits
  <2>2. calls[m] \in Nat /\ attempts[m] \in Nat /\ accepted[m] \in Nat
    BY <1>1, MailAssumption DEF MailTypeOK
  <2>3. QED
    BY <1>3, <2>1, <2>2 DEF Counts, Accepts
<1>9. KeepOvertaken /\ UNCHANGED <<exists, invited, standing>>
  BY <1>2, EndsFacts
<1>10. QED
  BY <1>3, <1>4, <1>6, <1>7, <1>8, <1>9 DEF StepOf, domain

(* A call under way counts for the attempt it was made on: both are given  *)
(* back together.                                                          *)
LEMMA ShutdownStep ==
  ASSUME MailInv, NEW d \in Dispatchers, Shutdown(d)
  PROVE  MailTypeOK' /\ StepOf(d)
<1> DEFINE back == {m \in batch[d] : Mine(d, m)}
           told(m) == m \in back /\ at[d] = "mark" /\ m = First(d)
<1>1. MailTypeOK /\ CalledInv(d) /\ batch[d] \subseteq Mails
  BY DEF MailInv, GuardInv, MailTypeOK
<1>2. Ends(d)
  BY DEF Shutdown
<1>3. /\ status' = [m \in Mails |-> IF m \in back THEN "pending" ELSE status[m]]
      /\ attempts' = [m \in Mails |-> IF m \in back /\ attempts[m] > 0
                                      THEN attempts[m] - 1 ELSE attempts[m]]
      /\ lease' = [m \in Mails |-> IF m \in back THEN "none" ELSE lease[m]]
      /\ lapsed' = lapsed \ back
      /\ calls' = [m \in Mails |-> calls[m] - IF told(m) THEN 1 ELSE 0]
      /\ UNCHANGED <<rows, kind, waiting>>
  BY DEF Shutdown
<1>4. \A m \in Mails : m \in back <=> m \in batch[d] /\ Mine(d, m)
  BY <1>1
<1>5. \A m \in Mails : told(m) <=> m \in back /\ at[d] = "mark" /\ m = First(d)
  OBVIOUS
<1>6. \A m \in Mails : /\ attempts[m] \in Nat /\ attempts[m] <= MaxAttempts
                       /\ MaxAttempts \in Nat /\ calls[m] \in Nat /\ accepted[m] \in Nat
  BY <1>1, MailAssumption DEF MailTypeOK
<1>7. \A m \in Mails : told(m) => calls[m] >= 1
  BY <1>1, <1>4 DEF CalledInv
<1> HIDE DEF back, told
<1>8. attempts' \in [Mails -> 0..MaxAttempts]
  <2>1. ASSUME NEW m \in Mails
        PROVE  (IF m \in back /\ attempts[m] > 0 THEN attempts[m] - 1 ELSE attempts[m])
                 \in 0..MaxAttempts
    BY <1>6
  <2>2. QED
    BY <1>3, <2>1
<1>9. calls' \in [Mails -> Nat]
  <2>1. ASSUME NEW m \in Mails
        PROVE  calls[m] - (IF told(m) THEN 1 ELSE 0) \in Nat
    BY <1>6, <1>7
  <2>2. QED
    BY <1>3, <2>1
<1>10. /\ status' \in [Mails -> MailStatuses] /\ lease' \in [Mails -> Dispatchers \cup {"none"}]
       /\ lapsed' \subseteq Mails
  BY <1>1, <1>3 DEF MailTypeOK, MailStatuses
<1>11. MailTypeOK'
  BY <1>1, <1>2, <1>3, <1>8, <1>9, <1>10, EndsFacts DEF MailTypeOK
<1>12. \A e \in Dispatchers, m \in Mails :
         /\ Mine(e, m)' => Mine(e, m) /\ m \notin back
         /\ e # d /\ Mine(e, m) => Mine(e, m)' /\ m \notin back
  <2>1. ASSUME NEW e \in Dispatchers, NEW m \in Mails
        PROVE  Mine(e, m)' => Mine(e, m) /\ m \notin back
    BY <1>3 DEF Mine
  <2>2. ASSUME NEW e \in Dispatchers, NEW m \in Mails, e # d, Mine(e, m)
        PROVE  Mine(e, m)' /\ m \notin back
    <3>1. m \notin back
      BY <1>4, <2>2 DEF Mine
    <3>2. status'[m] = status[m] /\ lease'[m] = lease[m]
      BY <1>3, <3>1
    <3>3. QED
      BY <2>2, <3>1, <3>2 DEF Mine
  <2>3. QED
    BY <2>1, <2>2
<1>13. ASSUME NEW e \in Dispatchers, e # d PROVE Still(e)
  <2>1. HeldInv(e) /\ (at[e] \in {"send", "mark"} => First(e) \in Mails)
    BY <1>1, FirstFacts DEF MailInv, GuardInv, Working
  <2>2. First(e)' = First(e)
    BY <1>2, <1>13, EndsFacts
  <2>3. ASSUME at[e] = "mark", Mine(e, First(e))'
        PROVE  calls'[First(e)] >= calls[First(e)]
    <3>1. First(e) \in Mails /\ status'[First(e)] = "sending"
      BY <2>1, <2>2, <2>3 DEF Mine
    <3>2. First(e) \notin back
      BY <1>3, <3>1
    <3>3. ~told(First(e))
      BY <1>5, <3>1, <3>2
    <3>4. QED
      BY <1>3, <1>6, <3>1, <3>3
  <2>4. ASSUME held[e] PROVE Mine(e, First(e))'
    <3>1. Mine(e, First(e)) /\ First(e) \in Mails
      BY <2>1, <2>4 DEF HeldInv
    <3>2. status'[First(e)] = "sending" /\ lease'[First(e)] = e
      BY <1>12, <1>13, <3>1 DEF Mine
    <3>3. QED
      BY <2>2, <3>2 DEF Mine
  <2>5. QED
    BY <1>2, <1>12, <1>13, <2>3, <2>4, EndsFacts DEF Still
<1>14. HeldInv(d)' /\ CalledInv(d)' /\ HeardInv(d)' /\ at'[d] # "send"
  BY <1>2, EndsFacts DEF HeldInv, CalledInv, HeardInv
<1>15. ASSUME NEW m \in Mails
       PROVE  /\ status[m] = "none" => status'[m] = "none"
              /\ Counts(d, m) /\ Accepts(d, m)
  <2>1. /\ ~Hears(d, m)' /\ ~Awaits(d, m)'
        /\ accepted'[m] = accepted[m] - (IF Hears(d, m) THEN 1 ELSE 0)
    BY <1>2, EndsFacts DEF Hears, Awaits
  <2>2. m \in back => status[m] = "sending"
    BY <1>4 DEF Mine
  <2>3. /\ status'[m] = IF m \in back THEN "pending" ELSE status[m]
        /\ calls'[m] = calls[m] - (IF told(m) THEN 1 ELSE 0)
        /\ attempts'[m] = IF m \in back /\ attempts[m] > 0
                          THEN attempts[m] - 1 ELSE attempts[m]
    BY <1>3
  <2>4. m \in back /\ ~told(m) => Awaits(d, m)
    BY <1>4, <1>5 DEF Awaits
  <2>5. Counts(d, m)
    BY <1>6, <2>1, <2>3, <2>4 DEF Counts
  <2>6. Accepts(d, m)
    BY <1>6, <2>1, <2>2, <2>3 DEF Accepts
  <2>7. QED
    BY <2>2, <2>3, <2>5, <2>6
<1>16. KeepOvertaken /\ UNCHANGED <<exists, invited, standing>>
  BY <1>2, EndsFacts
<1>17. QED
  BY <1>3, <1>11, <1>13, <1>14, <1>15, <1>16 DEF StepOf, domain

(* A step that is no dispatcher's leaves the claims and the books alone. *)
LEMMA QuietKeeps ==
  ASSUME MailInv, MailTypeOK', \A e \in Dispatchers : Still(e), RowsInv', CheckedInv',
         UNCHANGED <<attempts, provider>>,
         \A m \in Mails : status'[m] = "sent" <=> status[m] = "sent"
  PROVE  MailInv'
<1>1. \A e \in Dispatchers :
        /\ HeldInv(e)' /\ CalledInv(e)' /\ HeardInv(e)'
        /\ \A m \in Mails : (Hears(e, m)' <=> Hears(e, m)) /\ (Awaits(e, m)' => Awaits(e, m))
  BY StillKeeps
<1>2. GuardInv'
  BY <1>1 DEF GuardInv
<1>3. \A m \in Mails : AcceptedInv(m)'
  BY <1>1 DEF MailInv, AcceptedInv, provider
<1>4. ASSUME NEW m \in Mails PROVE CallsInv(m)'
  <2>1. Awaiting(m)' \subseteq Awaiting(m) /\ IsFiniteSet(Awaiting(m))
    BY <1>1, MailAssumption, FS_Subset DEF Awaiting
  <2>2. /\ Cardinality(Awaiting(m)') <= Cardinality(Awaiting(m))
        /\ Cardinality(Awaiting(m)') \in Nat /\ Cardinality(Awaiting(m)) \in Nat
    BY <2>1, FS_Subset, FS_CardinalityType
  <2>3. /\ calls[m] \in Int /\ attempts[m] \in Int
        /\ calls[m] + Cardinality(Awaiting(m)) <= attempts[m]
    BY MailAssumption DEF MailInv, MailTypeOK, CallsInv
  <2>4. calls'[m] = calls[m] /\ attempts'[m] = attempts[m]
    BY DEF provider
  <2>5. calls'[m] + Cardinality(Awaiting(m)') <= attempts'[m]
    BY <2>2, <2>3, <2>4
  <2>6. QED
    BY <2>5 DEF CallsInv
<1>5. QED
  BY <1>2, <1>3, <1>4 DEF MailInv

(* Time, and the broken session of the lock. *)
LEMMA QuietStep ==
  ASSUME MailInv, NEW m,
         Due(m) \/ Lapse(m) \/ Stall(m) \/ LoseLock, m \in Mails \/ LoseLock
  PROVE  MailInv' /\ UNCHANGED calls
<1>1. MailTypeOK
  BY DEF MailInv
<1>2. /\ UNCHANGED <<exists, invited, standing, rows, kind, status, attempts, lease,
                     at, batch, held, outcome, accepted, calls, overtaken>>
      /\ waiting' \subseteq Mails /\ lapsed' \subseteq Mails
      /\ lock' \in Dispatchers \cup {"none"}
      /\ mailFaults' \in 0..MailFaults /\ stalls' \in 0..Stalls
  <2>1. CASE Due(m)
    BY <1>1, <2>1 DEF Due, MailTypeOK, domain, dispatch, provider, mailBounds
  <2>2. CASE m \in Mails /\ Lapse(m)
    BY <1>1, <2>2 DEF Lapse, LeaseEnds, MailTypeOK, domain, dispatch, provider
  <2>3. CASE m \in Mails /\ Stall(m)
    BY <1>1, <2>3, MailAssumption DEF Stall, LeaseEnds, MailTypeOK, domain, dispatch, provider
  <2>4. CASE LoseLock
    BY <1>1, <2>4, MailAssumption
    DEF LoseLock, Fault, MailTypeOK, domain, outbox, provider
  <2>5. QED
    BY <2>1, <2>2, <2>3, <2>4
<1>3. MailTypeOK'
  BY <1>1, <1>2 DEF MailTypeOK
<1>4. \A e \in Dispatchers : First(e)' = First(e) /\ \A x : Mine(e, x)' <=> Mine(e, x)
  BY <1>2 DEF First, Mine
<1>5. ASSUME NEW e \in Dispatchers PROVE Still(e)
  <2>1. HeldInv(e) /\ (at[e] = "mark" => First(e) \in Mails)
    BY <1>1, FirstFacts DEF MailInv, GuardInv, Working
  <2>2. at[e] = "mark" => calls'[First(e)] >= calls[First(e)]
    BY <1>1, <1>2, <2>1 DEF MailTypeOK
  <2>3. held[e] => Mine(e, First(e))'
    BY <1>2, <1>4, <2>1 DEF HeldInv, Mine
  <2>4. QED
    BY <1>2, <1>4, <2>2, <2>3 DEF Still
<1>6. RowsInv'
  BY <1>2 DEF MailInv, RowsInv
<1>7. CheckedInv'
  BY <1>2 DEF MailInv, CheckedInv, InSend, Valid, First
<1>8. QED
  BY <1>2, <1>3, <1>5, <1>6, <1>7, QuietKeeps DEF provider

(* A transaction of the domain: what it outdates in a send is overtaken. *)
LEMMA DomainStep ==
  ASSUME MailInv, DomainNext
  PROVE  MailInv' /\ UNCHANGED calls
<1>1. MailTypeOK
  BY DEF MailInv
<1>2. PICK K, k, i, s : Happens(K, k, i, s)
  BY <1>1, DomainIsTransact
<1>3. MailTypeOK'
  BY <1>1, <1>2, TransactType DEF Happens
<1>4. /\ UNCHANGED <<attempts, lease, lapsed, dispatch, provider>>
      /\ \A m \in Mails :
           /\ status[m] \in {"sending", "sent"} => status'[m] = status[m]
           /\ status'[m] \in {"sending", "sent"} => status'[m] = status[m]
      /\ \A m \in Mails : m > rows' => status'[m] = "none"
  BY <1>2, TransactKeeps
<1>5. UNCHANGED <<lease, at, batch, held, outcome, accepted, calls>>
  BY <1>4 DEF dispatch, provider
<1>6. \A e \in Dispatchers : First(e)' = First(e) /\ \A x \in Mails : Mine(e, x)' <=> Mine(e, x)
  BY <1>4, <1>5 DEF First, Mine
<1>7. ASSUME NEW e \in Dispatchers PROVE Still(e)
  <2>1. HeldInv(e) /\ (at[e] \in {"send", "mark"} => First(e) \in Mails)
    BY <1>1, FirstFacts DEF MailInv, GuardInv, Working
  <2>2. at[e] = "mark" => calls'[First(e)] >= calls[First(e)]
    BY <1>1, <1>5, <2>1 DEF MailTypeOK
  <2>3. held[e] => Mine(e, First(e))'
    BY <1>4, <1>5, <1>6, <2>1 DEF HeldInv, Mine
  <2>4. QED
    BY <1>5, <1>6, <2>2, <2>3 DEF Still
<1>8. RowsInv'
  BY <1>4 DEF RowsInv
<1>9. CheckedInv'
  <2>1. overtaken' = overtaken \cup {m \in Mails : InSend(m) /\ Valid(m) /\ ~Valid(m)'}
    BY <1>2 DEF Happens, Transact
  <2>2. \A m \in Mails : InSend(m)' <=> InSend(m)
    BY <1>5 DEF InSend, First
  <2>3. QED
    BY <2>1, <2>2 DEF MailInv, CheckedInv
<1>10. QED
  BY <1>3, <1>4, <1>5, <1>7, <1>8, <1>9, QuietKeeps

-----------------------------------------------------------------------------
(* The theorems *)

LEMMA MailInitInv == MailInit => MailInv
<1> SUFFICES ASSUME MailInit PROVE MailInv
  OBVIOUS
<1>1. MailTypeOK
  BY MailInitType
<1>2. RowsInv /\ GuardInv /\ CheckedInv
  BY DEF MailInit, RowsInv, GuardInv, HeldInv, CalledInv, HeardInv, CheckedInv, InSend
<1>3. ASSUME NEW m \in Mails PROVE AcceptedInv(m) /\ CallsInv(m)
  <2>1. Awaiting(m) = {}
    BY DEF MailInit, Awaiting, Awaits
  <2>2. Cardinality(Awaiting(m)) = 0
    BY <2>1, FS_EmptySet
  <2>3. QED
    BY <2>2 DEF MailInit, AcceptedInv, Hears, CallsInv
<1>4. QED
  BY <1>1, <1>2, <1>3 DEF MailInv

(* What the steps of MailNext are. *)
LEMMA MailSteps ==
  ASSUME MailNext
  PROVE  \/ DomainNext
         \/ \E d \in Dispatchers :
              \/ TryAcquireEmailDispatcherLock(d) \/ Alive(d) \/ ClaimEmails(d)
              \/ BeginEmailSend(d) \/ CancelEmailClaim(d) \/ Send(d) \/ MarkSent(d)
              \/ MarkFailed(d) \/ LoseGuard(d) \/ BeginFails(d) \/ Crash(d) \/ Shutdown(d)
         \/ \E m \in Mails : Due(m) \/ Lapse(m) \/ Stall(m)
         \/ LoseLock
  BY DEF MailNext, DispatcherNext, FaultNext

LEMMA MailNextInv == MailInv /\ [MailNext]_mailVars => MailInv'
<1> SUFFICES ASSUME MailInv, [MailNext]_mailVars PROVE MailInv'
  OBVIOUS
<1>1. CASE UNCHANGED mailVars
  <2>1. /\ UNCHANGED <<exists, invited, standing, rows, kind, status, attempts, waiting, lease,
                       lapsed, lock, at, batch, held, outcome>>
        /\ UNCHANGED <<accepted, calls, mailFaults, stalls, overtaken>>
    BY <1>1 DEF mailVars, domain, outbox, dispatch, provider, mailBounds
  <2>2. MailTypeOK' /\ RowsInv'
    BY <2>1 DEF MailInv, MailTypeOK, RowsInv
  <2>3. GuardInv'
    BY <2>1 DEF MailInv, GuardInv, HeldInv, CalledInv, HeardInv, Mine, First
  <2>4. CheckedInv'
    BY <2>1 DEF MailInv, CheckedInv, InSend, Valid, First
  <2>5. ASSUME NEW m \in Mails PROVE AcceptedInv(m)' /\ CallsInv(m)'
    <3>1. Awaiting(m)' = Awaiting(m)
      BY <2>1 DEF Awaiting, Awaits, Mine, First
    <3>2. \A d \in Dispatchers : Hears(d, m)' <=> Hears(d, m)
      BY <2>1 DEF Hears, First
    <3>3. QED
      BY <2>1, <3>1, <3>2 DEF MailInv, AcceptedInv, CallsInv
  <2>6. QED
    BY <2>2, <2>3, <2>4, <2>5 DEF MailInv
<1>2. CASE DomainNext
  BY <1>2, DomainStep
<1>3. ASSUME NEW d \in Dispatchers,
             \/ TryAcquireEmailDispatcherLock(d) \/ Alive(d) \/ ClaimEmails(d)
             \/ BeginEmailSend(d) \/ CancelEmailClaim(d) \/ Send(d) \/ MarkSent(d)
             \/ MarkFailed(d) \/ LoseGuard(d) \/ BeginFails(d) \/ Crash(d) \/ Shutdown(d)
      PROVE  MailInv'
  <2>1. MailTypeOK' /\ StepOf(d)
    BY <1>3, WaitStep, ClaimStep, BeginStep, CancelStep, SendStep, MarkSentStep,
       MarkFailedStep, LoseGuardStep, BeginFailsStep, CrashStep, ShutdownStep
  <2>2. QED
    BY <2>1, StepKeeps
<1>4. ASSUME NEW m \in Mails, Due(m) \/ Lapse(m) \/ Stall(m) PROVE MailInv'
  BY <1>4, QuietStep
<1>5. CASE LoseLock
  BY <1>5, QuietStep
<1>6. QED
  BY <1>1, <1>2, <1>3, <1>4, <1>5, MailSteps

LEMMA MailAlways == MailSpec => []MailInv
<1>1. QED
  BY MailInitInv, MailNextInv, PTL DEF MailSpec

(* Every variable keeps its type: a claim never has an attempt too many,   *)
(* a dispatcher is at a mail exactly when it has claims left, and neither  *)
(* a shutdown nor a lost guard takes back a call or an acceptance that was *)
(* never counted.                                                          *)
THEOREM MailTypes == MailSpec => []MailTypeOK
<1>1. MailInv => MailTypeOK
  BY DEF MailInv
<1>2. QED
  BY <1>1, MailAlways, PTL

(* However many dispatchers overlap, whoever loses its lock, its lease or  *)
(* its connection, the provider accepts a mail once more only after an     *)
(* acceptance that no row tells of, a row that says sent was accepted, and *)
(* the provider is called at most maxEmailAttempts times.                  *)
THEOREM MailsSentOnce == MailSpec => []SentOnce
<1>1. ASSUME MailInv PROVE SentOnce
  <2>1. ASSUME NEW m \in Mails
        PROVE  accepted[m] <= 1 /\ (status[m] = "sent" => accepted[m] = 1)
    BY <1>1 DEF MailInv, AcceptedInv
  <2>2. ASSUME NEW m \in Mails PROVE calls[m] <= MaxAttempts
    <3>1. IsFiniteSet(Awaiting(m))
      BY MailAssumption, FS_Subset DEF Awaiting
    <3>2. Cardinality(Awaiting(m)) \in Nat
      BY <3>1, FS_CardinalityType
    <3>3. calls[m] \in Nat /\ attempts[m] \in 0..MaxAttempts /\ MaxAttempts \in Nat
      BY <1>1, MailAssumption DEF MailInv, MailTypeOK
    <3>4. calls[m] + Cardinality(Awaiting(m)) <= attempts[m]
      BY <1>1 DEF MailInv, CallsInv
    <3>5. QED
      BY <3>2, <3>3, <3>4
  <2>3. QED
    BY <2>1, <2>2 DEF SentOnce
<1>2. QED
  BY <1>1, MailAlways, PTL

(* Only Send calls the provider, for the mail its dispatcher has checked.  *)
LEMMA OnlySendCalls ==
  ASSUME MailInv, [MailNext]_mailVars, NEW m \in Mails, calls'[m] > calls[m]
  PROVE  Valid(m) \/ m \in overtaken
<1>1. MailTypeOK /\ calls[m] \in Int
  BY DEF MailInv, MailTypeOK
<1>2. CASE UNCHANGED calls
  BY <1>1, <1>2
<1>3. ASSUME NEW d \in Dispatchers, Send(d) PROVE Valid(m) \/ m \in overtaken
  <2>1. at[d] = "send" /\ calls' = [calls EXCEPT ![First(d)] = @ + 1]
    BY <1>3 DEF Send
  <2>2. m = First(d)
    BY <1>1, <2>1 DEF MailTypeOK
  <2>3. QED
    BY <2>1, <2>2 DEF MailInv, CheckedInv, InSend
<1>4. ASSUME NEW d \in Dispatchers, Shutdown(d) PROVE FALSE
  <2>1. PICK x \in {0, 1} : calls'[m] = calls[m] - x
    BY <1>4 DEF Shutdown
  <2>2. QED
    BY <1>1, <2>1
<1>5. ASSUME NEW d \in Dispatchers,
             \/ TryAcquireEmailDispatcherLock(d) \/ Alive(d) \/ ClaimEmails(d)
             \/ BeginEmailSend(d) \/ CancelEmailClaim(d) \/ MarkSent(d)
             \/ MarkFailed(d) \/ LoseGuard(d) \/ BeginFails(d) \/ Crash(d)
      PROVE  UNCHANGED calls
  BY <1>5
  DEF TryAcquireEmailDispatcherLock, Alive, ClaimEmails, BeginEmailSend, CancelEmailClaim,
      MarkSent, MarkFailed, LoseGuard, BeginFails, Crash, provider
<1>6. ASSUME NEW x \in Mails, Due(x) \/ Lapse(x) \/ Stall(x) PROVE UNCHANGED calls
  BY <1>6, QuietStep
<1>7. LoseLock => UNCHANGED calls
  BY QuietStep
<1>8. DomainNext => UNCHANGED calls
  BY DomainStep
<1>9. UNCHANGED mailVars => UNCHANGED calls
  BY DEF mailVars, provider
<1>10. QED
  BY <1>2, <1>3, <1>4, <1>5, <1>6, <1>7, <1>8, <1>9, MailSteps

(* No step hands the provider a mail whose invitation, role or removal no  *)
(* longer stands, unless it was outdated between the check and the call of *)
(* the very send.                                                          *)
THEOREM OutdatedNotSent == MailSpec => NeverOutdated
<1>1. MailInv /\ [MailNext]_mailVars =>
        [\A m \in Mails : calls'[m] > calls[m] => Valid(m) \/ m \in overtaken]_mailVars
  BY OnlySendCalls
<1>2. QED
  BY <1>1, MailAlways, PTL DEF MailSpec, NeverOutdated
-----------------------------------------------------------------------------
(* Why a claim is failed *)

(* A reason to give a claim up: its lease ran out, or the event it tells   *)
(* of was undone.  A removal is undone by an invitation and can happen     *)
(* again, to the mail of the first one, until it is given up.              *)
Reason(m) == m \in lapsed \/ kind[m] = "removed" \/ ~Valid(m)
CancelInv == \A d \in Dispatchers : at[d] = "cancel" /\ Mine(d, First(d)) => Reason(First(d))

(* A lease that ran out is that of a claim.                                *)
LapsedInv == \A m \in lapsed : status[m] = "sending"

(* No lease runs out under a dispatcher that still has the claim to do.    *)
ClaimsFresh == \A d \in Dispatchers, m \in Mails : m \in batch[d] /\ Mine(d, m) => m \notin lapsed

(* What becomes of leases and of d's claims when d takes a step.           *)
LeasesOf(d) ==
  /\ \A m \in lapsed' : m \in lapsed /\ status'[m] = "sending"
  /\ \A e \in Dispatchers, m \in lapsed \ lapsed' : e # d => ~Mine(e, m)'
  /\ at'[d] = "cancel" /\ Mine(d, First(d))' => Reason(First(d))'
  /\ \A m \in Mails : m \in batch'[d] /\ Mine(d, m)' =>
       m \notin lapsed' \/ (m \in batch[d] /\ Mine(d, m))

LEMMA WaitLeases ==
  ASSUME MailInv, LapsedInv, NEW d \in Dispatchers,
         TryAcquireEmailDispatcherLock(d) \/ Alive(d)
  PROVE  LeasesOf(d)
<1>1. /\ UNCHANGED <<status, lease, lapsed, batch>>
      /\ at'[d] # "cancel"
  BY DEF TryAcquireEmailDispatcherLock, Alive, Place, outbox, MailInv, MailTypeOK
<1>2. \A m \in Mails : Mine(d, m)' <=> Mine(d, m)
  BY <1>1 DEF Mine
<1>3. QED
  BY <1>1, <1>2 DEF LeasesOf, LapsedInv

LEMMA ClaimLeases ==
  ASSUME MailInv, LapsedInv, NEW d \in Dispatchers, ClaimEmails(d)
  PROVE  LeasesOf(d)
<1> DEFINE mine == Oldest(Claimable)
           out == {m \in Mails : (status[m] = "pending" \/ m \in Stale) /\ Exhausted(m)}
<1>1. /\ status' = [m \in Mails |-> IF m \in out THEN "failed"
                                    ELSE IF m \in mine THEN "sending"
                                    ELSE IF m \in Stale THEN "pending" ELSE status[m]]
      /\ lease' = [m \in Mails |-> IF m \in mine THEN d
                                   ELSE IF m \in out \cup Stale THEN "none" ELSE lease[m]]
      /\ lapsed' = lapsed \ Stale
      /\ batch' = [batch EXCEPT ![d] = mine]
      /\ at' = [at EXCEPT ![d] = IF mine = {} THEN "lead" ELSE "next"]
  BY DEF ClaimEmails, Place
<1>2. /\ mine \subseteq Mails
      /\ \A m \in mine : (status[m] = "pending" \/ m \in Stale) /\ ~Exhausted(m)
  BY OldestOf DEF Claimable
<1>3. Stale = {m \in Mails : status[m] = "sending" /\ m \in lapsed}
  BY DEF Stale
<1>4. \A m \in out : m \in Mails /\ m \notin mine /\ (status[m] = "pending" \/ m \in Stale)
  BY <1>2
<1> HIDE DEF mine, out
<1>5. lapsed \subseteq Stale
  BY <1>3 DEF LapsedInv, MailInv, MailTypeOK
<1>6. lapsed' = {}
  BY <1>1, <1>5
<1>7. at'[d] # "cancel"
  BY <1>1 DEF MailInv, MailTypeOK
<1>8. ASSUME NEW e \in Dispatchers, e # d, NEW m \in lapsed PROVE ~Mine(e, m)'
  <2>1. m \in Stale /\ m \in Mails
    BY <1>3, <1>5
  <2>2. lease'[m] \in {d, "none"}
    BY <1>1, <2>1
  <2>3. e # "none"
    BY MailAssumption
  <2>4. QED
    BY <1>8, <2>2, <2>3 DEF Mine
<1>9. QED
  BY <1>6, <1>7, <1>8 DEF LeasesOf

LEMMA BeginLeases ==
  ASSUME MailInv, LapsedInv, NEW d \in Dispatchers, BeginEmailSend(d)
  PROVE  LeasesOf(d)
<1>1. /\ UNCHANGED <<status, lease, lapsed, batch, kind, invited, standing>>
      /\ at'[d] = "cancel" => ~(Mine(d, First(d)) /\ First(d) \notin lapsed /\ Valid(First(d)))
  BY DEF BeginEmailSend, Place, outbox, domain, MailInv, MailTypeOK
<1>2. First(d)' = First(d)
  BY <1>1, FirstSame
<1>3. \A m \in Mails : Mine(d, m)' <=> Mine(d, m)
  BY <1>1 DEF Mine
<1>4. at'[d] = "cancel" /\ Mine(d, First(d))' => Reason(First(d))'
  BY <1>1, <1>2 DEF Mine, Reason, Valid
<1>5. QED
  BY <1>1, <1>3, <1>4 DEF LeasesOf, LapsedInv

(* A claim of d ends, or what d knew of it is lost; d goes on.             *)
LEMMA EndedLeases ==
  ASSUME MailInv, LapsedInv, NEW d \in Dispatchers,
         CancelEmailClaim(d) \/ MarkSent(d) \/ MarkFailed(d) \/ BeginFails(d)
  PROVE  LeasesOf(d)
<1> DEFINE m0 == First(d)
<1>1. /\ at[d] \in Working /\ Advance(d)
      /\ \/ UNCHANGED <<status, lease, lapsed>>
         \/ \E s \in {"failed", "sent", "pending"} : Mine(d, m0) /\ Becomes(m0, s)
  <2>1. held[d] => Mine(d, m0)
    BY DEF MailInv, GuardInv, HeldInv
  <2>2. CASE CancelEmailClaim(d)
    BY <2>2 DEF CancelEmailClaim, Working
  <2>3. CASE MarkSent(d)
    BY <2>1, <2>3 DEF MarkSent, Working
  <2>4. CASE MarkFailed(d)
    BY <2>1, <2>4 DEF MarkFailed, Working
  <2>5. CASE BeginFails(d)
    BY <2>5 DEF BeginFails, outbox, Working
  <2>6. QED
    BY <2>2, <2>3, <2>4, <2>5
<1>2. MailTypeOK /\ m0 \in Mails /\ batch[d] \subseteq Mails
  BY <1>1, FirstFacts DEF MailInv
<1>3. batch'[d] = batch[d] \ {m0} /\ at'[d] \in {"lead", "next"}
  BY <1>1, <1>2, AdvanceFacts
<1>4. CASE UNCHANGED <<status, lease, lapsed>>
  <2>1. \A x \in Mails : Mine(d, x)' <=> Mine(d, x)
    BY <1>4 DEF Mine
  <2>2. QED
    BY <1>3, <1>4, <2>1 DEF LeasesOf, LapsedInv
<1>5. ASSUME NEW s \in {"failed", "sent", "pending"}, Mine(d, m0), Becomes(m0, s)
      PROVE  LeasesOf(d)
  <2> PICK m \in Mails : m = m0
    BY <1>2
  <2>0. batch'[d] = batch[d] \ {m} /\ Mine(d, m) /\ Becomes(m, s)
    BY <1>3, <1>5
  <2> HIDE DEF m0
  <2>1. /\ status' = [status EXCEPT ![m] = s] /\ lapsed' = lapsed \ {m}
        /\ lease' = [lease EXCEPT ![m] = "none"]
    BY <2>0 DEF Becomes
  <2>2. \A x \in Mails : x # m => status'[x] = status[x] /\ lease'[x] = lease[x]
    BY <1>2, <2>1 DEF MailTypeOK
  <2>3. status'[m] = s
    BY <1>2, <2>1 DEF MailTypeOK
  <2>4. \A x \in lapsed' : x \in lapsed /\ status'[x] = "sending"
    BY <1>2, <2>1, <2>2 DEF LapsedInv, MailTypeOK
  <2>5. \A e \in Dispatchers : ~Mine(e, m)'
    BY <2>3 DEF Mine
  <2>6. \A x \in Mails : x # m => (Mine(d, x)' <=> Mine(d, x))
    BY <2>2 DEF Mine
  <2>7. QED
    BY <1>3, <2>0, <2>1, <2>4, <2>5, <2>6 DEF LeasesOf
<1>6. QED
  BY <1>1, <1>4, <1>5

LEMMA SendLeases ==
  ASSUME MailInv, LapsedInv, NEW d \in Dispatchers, Send(d) \/ LoseGuard(d)
  PROVE  LeasesOf(d)
<1>1. /\ UNCHANGED <<status, lease, lapsed, batch>>
      /\ at'[d] # "cancel"
  BY DEF Send, LoseGuard, Place, outbox, MailInv, MailTypeOK, GuardInv, HeldInv
<1>2. \A m \in Mails : Mine(d, m)' <=> Mine(d, m)
  BY <1>1 DEF Mine
<1>3. QED
  BY <1>1, <1>2 DEF LeasesOf, LapsedInv

LEMMA EndsLeases ==
  ASSUME MailInv, LapsedInv, NEW d \in Dispatchers, Crash(d) \/ Shutdown(d)
  PROVE  LeasesOf(d)
<1>1. at'[d] = "wait" /\ batch'[d] = {}
  BY DEF Crash, Shutdown, Ends, Place, MailInv, MailTypeOK
<1>2. CASE Crash(d)
  BY <1>1, <1>2 DEF Crash, outbox, LeasesOf, LapsedInv
<1>3. CASE Shutdown(d)
  <2> DEFINE back == {m \in batch[d] : Mine(d, m)}
  <2>1. /\ status' = [m \in Mails |-> IF m \in back THEN "pending" ELSE status[m]]
        /\ lapsed' = lapsed \ back
    BY <1>3 DEF Shutdown
  <2>2. lapsed \subseteq Mails /\ back \subseteq Mails
    BY FirstFacts DEF MailInv, MailTypeOK
  <2> HIDE DEF back
  <2>3. \A m \in lapsed' : m \in lapsed /\ status'[m] = "sending"
    BY <2>1, <2>2 DEF LapsedInv
  <2>4. \A e \in Dispatchers, m \in lapsed \ lapsed' : ~Mine(e, m)'
    BY <2>1, <2>2 DEF Mine
  <2>5. QED
    BY <1>1, <2>3, <2>4 DEF LeasesOf
<1>4. QED
  BY <1>2, <1>3

LEMMA LeasesStep ==
  ASSUME MailInv, LapsedInv, NEW d \in Dispatchers,
         \/ TryAcquireEmailDispatcherLock(d) \/ Alive(d) \/ ClaimEmails(d)
         \/ BeginEmailSend(d) \/ CancelEmailClaim(d) \/ Send(d) \/ MarkSent(d)
         \/ MarkFailed(d) \/ LoseGuard(d) \/ BeginFails(d) \/ Crash(d) \/ Shutdown(d)
  PROVE  LeasesOf(d) /\ StepOf(d)
  BY WaitLeases, ClaimLeases, BeginLeases, EndedLeases, SendLeases, EndsLeases,
     WaitStep, ClaimStep, BeginStep, CancelStep, SendStep, MarkSentStep,
     MarkFailedStep, LoseGuardStep, BeginFailsStep, CrashStep, ShutdownStep

(* The marks of the invitation and of the membership are never set back to *)
(* an earlier mail.                                                        *)
LEMMA DomainMarks ==
  ASSUME MailInv, DomainNext
  PROVE  /\ invited' \in {invited, 0, rows + 1}
         /\ standing' \in {standing, 0, -1, rows + 1}
         /\ UNCHANGED <<lapsed, lease, at, batch>>
         /\ \A m \in Mails : m <= rows => kind'[m] = kind[m]
<1>1. invited' \in {invited, 0, rows + 1} /\ standing' \in {standing, 0, -1, rows + 1}
  BY DEF DomainNext, CreateWorkspaceInvite, ExpireWorkspaceInvites, AcceptWorkspaceInvite,
         SetWorkspaceMemberRole, RemoveWorkspaceMember, DeleteWorkspace, NotifyTx, PurgeUser,
         Change, Told, Stamp, Transact
<1>2. PICK K, k, i, s : Happens(K, k, i, s)
  BY DomainIsTransact DEF MailInv
<1>3. UNCHANGED <<lapsed, lease, at, batch>>
  BY <1>2 DEF Happens, Transact, dispatch
<1>4. kind' = [m \in Mails |-> IF m \in (IF k = "none" THEN {} ELSE {rows + 1})
                               THEN k ELSE kind[m]]
  BY <1>2 DEF Happens, Transact
<1>5. rows \in Int /\ \A m \in Mails : m \in Int
  BY DEF MailInv, MailTypeOK, Mails
<1>6. \A m \in Mails : m <= rows => kind'[m] = kind[m]
  BY <1>4, <1>5
<1>7. QED
  BY <1>1, <1>3, <1>6

ReasonInv == MailInv /\ LapsedInv /\ CancelInv

LEMMA ReasonDomain ==
  ASSUME ReasonInv, DomainNext
  PROVE  LapsedInv' /\ CancelInv' /\ (ClaimsFresh => ClaimsFresh')
<1>1. MailInv /\ LapsedInv /\ CancelInv
  BY DEF ReasonInv
<1>2. /\ invited' \in {invited, 0, rows + 1}
      /\ standing' \in {standing, 0, -1, rows + 1}
      /\ UNCHANGED <<lapsed, lease, at, batch>>
      /\ \A m \in Mails : m <= rows => kind'[m] = kind[m]
  BY <1>1, DomainMarks
<1>3. PICK K, k, i, s : Happens(K, k, i, s)
  BY <1>1, DomainIsTransact DEF MailInv
<1>4. \A m \in Mails : /\ status[m] = "sending" => status'[m] = "sending"
                       /\ status'[m] = "sending" => status[m] = "sending"
  BY <1>1, <1>3, TransactKeeps
<1>5. LapsedInv'
  BY <1>1, <1>2, <1>4 DEF LapsedInv, MailInv, MailTypeOK
<1>6. \A d \in Dispatchers, m \in Mails : Mine(d, m)' => Mine(d, m)
  BY <1>2, <1>4 DEF Mine
<1>7. ASSUME NEW d \in Dispatchers, at'[d] = "cancel", Mine(d, First(d))'
      PROVE  Reason(First(d))'
  <2>1. First(d)' = First(d) /\ at[d] = "cancel"
    BY <1>2, <1>7, FirstSame
  <2>2. First(d) \in Mails
    BY <1>1, <2>1, FirstFacts DEF MailInv, Working
  <2>3. Mine(d, First(d))
    BY <1>6, <1>7, <2>1, <2>2 DEF Mine
  <2>4. Reason(First(d))
    BY <1>1, <2>1, <2>3 DEF CancelInv
  <2>5. First(d) \in Int /\ rows \in Int /\ 1 <= First(d) /\ First(d) <= rows
    BY <1>1, <2>2, <2>3 DEF MailInv, RowsInv, MailTypeOK, Mails, Mine
  <2>6. kind'[First(d)] = kind[First(d)]
    BY <1>2, <2>2, <2>5
  <2>7. CASE First(d) \in lapsed \/ kind[First(d)] = "removed"
    BY <1>2, <2>1, <2>6, <2>7 DEF Reason
  <2>8. CASE ~Valid(First(d)) /\ kind[First(d)] # "removed"
    <3>1. \/ kind[First(d)] = "invite" /\ invited # First(d)
          \/ kind[First(d)] = "role" /\ standing # First(d)
      BY <2>8 DEF Valid
    <3>2. invited # First(d) => invited' # First(d)
      BY <1>2, <2>5
    <3>3. standing # First(d) => standing' # First(d)
      BY <1>2, <2>5
    <3>4. QED
      BY <2>1, <2>6, <3>1, <3>2, <3>3 DEF Reason, Valid
  <2>9. QED
    BY <2>4, <2>7, <2>8 DEF Reason
<1>8. CancelInv'
  BY <1>7 DEF CancelInv
<1>9. ClaimsFresh => ClaimsFresh'
  BY <1>2, <1>6 DEF ClaimsFresh
<1>10. QED
  BY <1>5, <1>8, <1>9

LEMMA ReasonStep ==
  ASSUME ReasonInv, NEW d \in Dispatchers, LeasesOf(d), StepOf(d)
  PROVE  LapsedInv' /\ CancelInv' /\ (ClaimsFresh => ClaimsFresh')
<1>1. MailInv /\ LapsedInv /\ CancelInv
  BY DEF ReasonInv
<1>2. LapsedInv'
  BY DEF LeasesOf, LapsedInv
<1>3. ASSUME NEW e \in Dispatchers, at'[e] = "cancel", Mine(e, First(e))'
      PROVE  Reason(First(e))'
  <2>1. CASE e = d
    BY <1>3, <2>1 DEF LeasesOf
  <2>2. CASE e # d
    <3>1. Still(e)
      BY <2>2 DEF StepOf
    <3>2. at[e] = "cancel" /\ First(e)' = First(e)
      BY <1>3, <3>1 DEF Still
    <3>3. First(e) \in Mails
      BY <1>1, <3>2, FirstFacts DEF MailInv, Working
    <3>4. Mine(e, First(e)) /\ Mine(e, First(e))'
      BY <1>3, <3>1, <3>2, <3>3 DEF Still, Mine
    <3>5. Reason(First(e))
      BY <1>1, <3>2, <3>4 DEF CancelInv
    <3>6. First(e) \in lapsed => First(e) \in lapsed'
      BY <1>3, <2>2, <3>2 DEF LeasesOf, Mine
    <3>7. UNCHANGED <<kind, invited, standing>>
      BY DEF StepOf, domain
    <3>8. QED
      BY <3>2, <3>5, <3>6, <3>7 DEF Reason, Valid
  <2>3. QED
    BY <2>1, <2>2
<1>4. CancelInv'
  BY <1>3 DEF CancelInv
<1>5. ASSUME ClaimsFresh, NEW e \in Dispatchers, NEW m \in Mails, m \in batch'[e], Mine(e, m)'
      PROVE  m \notin lapsed'
  <2>1. m \in lapsed' => m \in lapsed
    BY DEF LeasesOf
  <2>2. CASE e = d
    BY <1>5, <2>1, <2>2 DEF LeasesOf, ClaimsFresh
  <2>3. CASE e # d
    <3>1. m \in batch[e] /\ Mine(e, m)
      BY <1>5, <2>3 DEF StepOf, Still
    <3>2. QED
      BY <1>5, <2>1, <3>1 DEF ClaimsFresh
  <2>4. QED
    BY <2>2, <2>3
<1>6. ClaimsFresh => ClaimsFresh'
  BY <1>5 DEF ClaimsFresh
<1>7. QED
  BY <1>2, <1>4, <1>6

(* Time, and a lock that is lost.                                          *)
LEMMA ReasonQuiet ==
  ASSUME ReasonInv, (\E m \in Mails : Due(m) \/ Lapse(m) \/ Stall(m)) \/ LoseLock
  PROVE  /\ LapsedInv' /\ CancelInv'
         /\ ClaimsFresh /\ Stalls = 0 => ClaimsFresh'
<1>1. MailInv /\ LapsedInv /\ CancelInv
  BY DEF ReasonInv
<1>2. /\ UNCHANGED <<kind, status, lease, at, batch, invited, standing>>
      /\ \/ UNCHANGED lapsed
         \/ \E m \in Mails : /\ status[m] = "sending" /\ lapsed' = lapsed \cup {m}
                             /\ AtWork(m) => stalls < Stalls
  BY DEF Due, Lapse, Stall, LeaseEnds, LoseLock, domain, outbox, dispatch
<1>3. \A d \in Dispatchers, m \in Mails : Mine(d, m)' <=> Mine(d, m)
  BY <1>2 DEF Mine
<1>4. \A d \in Dispatchers : First(d)' = First(d) /\ at'[d] = at[d]
  BY <1>2, FirstSame
<1>5. lapsed \subseteq lapsed'
  BY <1>2
<1>6. LapsedInv'
  BY <1>1, <1>2 DEF LapsedInv
<1>7. ASSUME NEW d \in Dispatchers, at'[d] = "cancel", Mine(d, First(d))'
      PROVE  Reason(First(d))'
  <2>1. at[d] = "cancel" /\ Mine(d, First(d)) /\ First(d)' = First(d)
    BY <1>2, <1>4, <1>7 DEF Mine
  <2>2. Reason(First(d))
    BY <1>1, <2>1 DEF CancelInv
  <2>3. QED
    BY <1>2, <1>5, <2>1, <2>2 DEF Reason, Valid
<1>8. CancelInv'
  BY <1>7 DEF CancelInv
<1>9. ASSUME ClaimsFresh, Stalls = 0, NEW d \in Dispatchers, NEW m \in Mails,
             m \in batch'[d], Mine(d, m)'
      PROVE  m \notin lapsed'
  <2>1. m \in batch[d] /\ Mine(d, m) /\ m \notin lapsed
    BY <1>2, <1>3, <1>9 DEF ClaimsFresh
  <2>2. AtWork(m)
    BY <2>1 DEF AtWork, Mine
  <2>3. ~(stalls < Stalls)
    BY <1>1, <1>9 DEF MailInv, MailTypeOK
  <2>4. QED
    BY <1>2, <2>1, <2>2, <2>3
<1>10. ClaimsFresh /\ Stalls = 0 => ClaimsFresh'
  BY <1>9 DEF ClaimsFresh
<1>11. QED
  BY <1>6, <1>8, <1>10

LEMMA ReasonNext ==
  ASSUME ReasonInv, [MailNext]_mailVars
  PROVE  ReasonInv' /\ (ClaimsFresh /\ Stalls = 0 => ClaimsFresh')
<1>1. MailInv'
  BY MailNextInv DEF ReasonInv
<1>2. CASE UNCHANGED mailVars
  <2>1. UNCHANGED <<kind, status, lease, lapsed, at, batch, invited, standing>>
    BY <1>2 DEF mailVars, domain, outbox, dispatch
  <2>2. QED
    BY <1>1, <2>1
    DEF ReasonInv, LapsedInv, CancelInv, ClaimsFresh, Reason, Valid, Mine, First
<1>3. CASE DomainNext
  BY <1>1, <1>3, ReasonDomain DEF ReasonInv
<1>4. ASSUME NEW d \in Dispatchers,
             \/ TryAcquireEmailDispatcherLock(d) \/ Alive(d) \/ ClaimEmails(d)
             \/ BeginEmailSend(d) \/ CancelEmailClaim(d) \/ Send(d) \/ MarkSent(d)
             \/ MarkFailed(d) \/ LoseGuard(d) \/ BeginFails(d) \/ Crash(d) \/ Shutdown(d)
      PROVE  ReasonInv' /\ (ClaimsFresh => ClaimsFresh')
  <2>1. LeasesOf(d) /\ StepOf(d)
    BY <1>4, LeasesStep DEF ReasonInv
  <2>2. QED
    BY <1>1, <2>1, ReasonStep DEF ReasonInv
<1>5. CASE (\E m \in Mails : Due(m) \/ Lapse(m) \/ Stall(m)) \/ LoseLock
  BY <1>1, <1>5, ReasonQuiet DEF ReasonInv
<1>6. QED
  BY <1>2, <1>3, <1>4, <1>5, MailSteps

LEMMA ReasonInit == MailInit => ReasonInv /\ ClaimsFresh
<1>1. MailInit => MailInv
  BY MailInitInv
<1>2. QED
  BY <1>1 DEF MailInit, ReasonInv, LapsedInv, CancelInv, ClaimsFresh

(* Only CancelEmailClaim fails a claim that has attempts left.             *)
LEMMA OnlyCancelFails ==
  ASSUME ReasonInv, [MailNext]_mailVars, NEW m \in Mails,
         status[m] = "sending", status'[m] = "failed", ~Exhausted(m)
  PROVE  \E d \in Dispatchers : at[d] = "cancel" /\ First(d) = m /\ Mine(d, m)
<1>1. MailTypeOK /\ GuardInv /\ MailInv
  BY DEF ReasonInv, MailInv
<1>2. \A d \in Dispatchers : at[d] \in Working => First(d) \in Mails
  BY <1>1, FirstFacts
<1>3. UNCHANGED mailVars => FALSE
  BY DEF mailVars, outbox
<1>4. DomainNext => FALSE
  <2>1. SUFFICES ASSUME DomainNext PROVE FALSE
    OBVIOUS
  <2>2. PICK K, k, i, s : Happens(K, k, i, s)
    BY <1>1, <2>1, DomainIsTransact
  <2>3. QED
    BY <1>1, <2>2, TransactKeeps
<1>5. ASSUME NEW d \in Dispatchers, CancelEmailClaim(d)
      PROVE  at[d] = "cancel" /\ First(d) = m /\ Mine(d, m)
  <2>1. at[d] = "cancel" /\ First(d) \in Mails
    BY <1>2, <1>5 DEF CancelEmailClaim, Working
  <2>2. Mine(d, First(d)) /\ status' = [status EXCEPT ![First(d)] = "failed"]
    BY <1>5 DEF CancelEmailClaim, Becomes
  <2>3. First(d) = m
    BY <1>1, <2>2 DEF MailTypeOK
  <2>4. QED
    BY <2>1, <2>2, <2>3
<1>6. ASSUME NEW d \in Dispatchers, ClaimEmails(d) PROVE FALSE
  BY <1>6 DEF ClaimEmails, Stale, Exhausted
<1>7. ASSUME NEW d \in Dispatchers, MarkFailed(d) PROVE FALSE
  <2>1. CASE held[d]
    <3>1. /\ status' = [status EXCEPT ![First(d)] =
                          IF Exhausted(First(d)) THEN "failed" ELSE "pending"]
      BY <1>7, <2>1 DEF MarkFailed, Becomes
    <3>2. QED
      BY <1>1, <3>1 DEF MailTypeOK
  <2>2. CASE ~held[d]
    BY <1>7, <2>2 DEF MarkFailed
  <2>3. QED
    BY <2>1, <2>2
<1>8. ASSUME NEW d \in Dispatchers, MarkSent(d) PROVE FALSE
  BY <1>1, <1>8 DEF MarkSent, Becomes, MailTypeOK
<1>9. ASSUME NEW d \in Dispatchers, Shutdown(d) PROVE FALSE
  BY <1>9 DEF Shutdown
<1>10. ASSUME NEW d \in Dispatchers,
              \/ TryAcquireEmailDispatcherLock(d) \/ Alive(d) \/ BeginEmailSend(d)
              \/ Send(d) \/ LoseGuard(d) \/ BeginFails(d) \/ Crash(d)
       PROVE  UNCHANGED status
  BY <1>10
  DEF TryAcquireEmailDispatcherLock, Alive, BeginEmailSend, Send, LoseGuard, BeginFails,
      Crash, outbox
<1>11. ASSUME NEW x \in Mails, Due(x) \/ Lapse(x) \/ Stall(x) PROVE UNCHANGED status
  BY <1>11 DEF Due, Lapse, Stall, LeaseEnds
<1>12. LoseLock => UNCHANGED status
  BY DEF LoseLock, outbox
<1>13. QED
  BY <1>3, <1>4, <1>5, <1>6, <1>7, <1>8, <1>9, <1>10, <1>11, <1>12, MailSteps

DroppedForAReason ==
  [][\A m \in Mails : status[m] = "sending" /\ status'[m] = "failed" /\ ~Exhausted(m)
       => Reason(m)]_mailVars

(* The whole cause of what the run mail_dropped finds: CancelEmailClaim    *)
(* fails a claim that has attempts left only when its lease has run out,   *)
(* its event was undone, or it tells of a removal, which may have been     *)
(* undone when it was checked and have happened again since.               *)
THEOREM DropsHaveAReason == MailSpec => DroppedForAReason
<1>1. ReasonInv /\ [MailNext]_mailVars =>
        [\A m \in Mails : status[m] = "sending" /\ status'[m] = "failed" /\ ~Exhausted(m)
           => Reason(m)]_mailVars
  BY OnlyCancelFails DEF ReasonInv, CancelInv
<1>2. ReasonInv /\ [MailNext]_mailVars => ReasonInv'
  BY ReasonNext
<1>3. QED
  BY <1>1, <1>2, ReasonInit, PTL DEF MailSpec, DroppedForAReason

DueKept ==
  [][\A m \in Mails : status[m] = "sending" /\ status'[m] = "failed" /\ ~Exhausted(m)
       => kind[m] = "removed" \/ ~Valid(m)]_mailVars

(* As long as no lease runs out under a dispatcher at work, no invitation  *)
(* or change of role that still stands is given up: BeginEmailSend's "not  *)
(* active" then means what sendOutboxEmail takes it for.  A removal may    *)
(* happen a second time between the check and CancelEmailClaim.            *)
THEOREM DueMailsKept == ASSUME Stalls = 0 PROVE MailSpec => DueKept
<1>1. ASSUME ReasonInv, ClaimsFresh, [MailNext]_mailVars, NEW m \in Mails,
             status[m] = "sending", status'[m] = "failed", ~Exhausted(m)
      PROVE  kind[m] = "removed" \/ ~Valid(m)
  <2>1. PICK d \in Dispatchers : at[d] = "cancel" /\ First(d) = m /\ Mine(d, m)
    BY <1>1, OnlyCancelFails
  <2>2. m \in batch[d]
    BY <1>1, <2>1, FirstFacts DEF ReasonInv, MailInv, Working
  <2>3. m \notin lapsed
    BY <1>1, <2>1, <2>2 DEF ClaimsFresh
  <2>4. QED
    BY <1>1, <2>1, <2>3 DEF ReasonInv, CancelInv, Reason
<1>2. (ReasonInv /\ ClaimsFresh) /\ [MailNext]_mailVars =>
        [\A m \in Mails : status[m] = "sending" /\ status'[m] = "failed" /\ ~Exhausted(m)
           => kind[m] = "removed" \/ ~Valid(m)]_mailVars
  BY <1>1
<1>3. (ReasonInv /\ ClaimsFresh) /\ [MailNext]_mailVars => (ReasonInv /\ ClaimsFresh)'
  BY ReasonNext
<1>4. QED
  BY <1>2, <1>3, ReasonInit, PTL DEF MailSpec, DueKept

WaitsForSender ==
  \A d \in Dispatchers :
    /\ at[d] = "mark" => outcome[d] \in {"ok", "failed"}
    /\ at[d] = "claim" => \A m \in Stale : Guarded(m) =>
         \E e \in Dispatchers \ {d} : /\ First(e) = m /\ at[e] \in {"send", "mark"}
                                      /\ Mine(e, m)

(* The row locks of email_outbox.go never close a circle: a dispatcher     *)
(* that heard from the provider knows an outcome to record, and one whose  *)
(* ClaimEmails has to wait for a locked row waits for another one that is  *)
(* in the middle of a send (BeginEmailSend to MarkSent), which waits for   *)
(* nobody.                                                                 *)
THEOREM NoWaitingInCircles == MailSpec => []WaitsForSender
<1>1. ASSUME MailInv PROVE WaitsForSender
  <2>1. ASSUME NEW d \in Dispatchers, at[d] = "mark" PROVE outcome[d] \in {"ok", "failed"}
    BY <1>1, <2>1 DEF MailInv, MailTypeOK, GuardInv, HeardInv
  <2>2. ASSUME NEW d \in Dispatchers, at[d] = "claim", NEW m \in Stale, Guarded(m)
        PROVE  \E e \in Dispatchers \ {d} :
                 First(e) = m /\ at[e] \in {"send", "mark"} /\ Mine(e, m)
    <3>1. PICK e \in Dispatchers : held[e] /\ First(e) = m
      BY <2>2 DEF Guarded
    <3>2. at[e] \in {"send", "mark"} /\ Mine(e, m)
      BY <1>1, <3>1 DEF MailInv, GuardInv, HeldInv
    <3>3. QED
      BY <2>2, <3>1, <3>2
  <2>3. QED
    BY <2>1, <2>2 DEF WaitsForSender
<1>2. QED
  BY <1>1, MailAlways, PTL
=============================================================================

---------------------------- MODULE BrokerProofs ----------------------------
(***************************************************************************)
(* Theorems of Broker, for any number of requests, programs, vaults and    *)
(* uses.  Each invariant is made inductive by the conjuncts defined just   *)
(* before its theorem.                                                     *)
(***************************************************************************)
EXTENDS BrokerConsent, SequenceTheorems, FiniteSetTheorems, TLAPS

\* Every next-state step, with the bound variables named: the case split of
\* all the proofs below.
LEMMA NextCases ==
  ASSUME Next
  PROVE  \/ \E r \in Request : List(r) \/ Receive(r) \/ Resolve(r)
         \/ \E r \in Request : Redeem(r)
         \/ \E r \in Request : Ask(r) \/ Timeout(r) \/ Denied(r)
         \/ \E r \in Request : Mint(r)
         \/ \E r \in Request : CheckUnlocked(r)
         \/ \E r \in Request : RevokeOwn(r)
         \/ \E r \in Request : Fetch(r) \/ CommandEnds(r)
         \/ \E r \in Request : PushAudit(r)
         \/ \E r \in Request : SaveAudit(r)
         \/ \E r \in Request : LogAudit(r)
         \/ \E v \in Vault : Unlock(v)
         \/ RestoreAudit
         \/ Lock
         \/ AbandonAll
         \/ ForgetGrants
         \/ ForgetLog
         \/ \E r \in Request, choice \in {"deny"} \cup Allow : Answer(r, choice)
         \/ \E r \in Request : AnswerTooLate(r)
         \/ \E g \in grants : RevokeGrant(g)
         \/ \E t \in Target : Edit(t)
         \/ Tick
  BY DEF Next, TaskStep, CommandStep

\* A step of the store keeps it a set of grants.
LEMMA ChargeType ==
  ASSUME NEW store \in SUBSET Grant, NEW g \in store
  PROVE  Charge(store, g) \in SUBSET Grant
  BY DEF Charge, Grant

LEMMA PruneSubset ==
  ASSUME NEW store, NEW t
  PROVE  Prune(store, t) \subseteq store
  BY DEF Prune

\* What redeem finds is in the store, live, and for this very request.
LEMMA RedeemableIsMatching ==
  ASSUME NEW store, NEW w, NEW t, NEW g \in Redeemable(store, w, t)
  PROVE  /\ g \in store
         /\ g.target = w.target /\ g.scope = w.scope
         /\ g.client = w.client /\ w.client \in Program
  BY DEF Redeemable, Matching, Authorises, SameProgram

\* GrantFor is a grant of what r asked for.
LEMMA GrantForType ==
  ASSUME TypeOK, NEW r \in Request
  PROVE  /\ GrantFor(r) \in Grant
         /\ GrantFor(r).id = issued + 1
         /\ GrantFor(r).target = want[r].target
         /\ GrantFor(r).scope = want[r].scope
         /\ GrantFor(r).client = want[r].client
  BY NumberAssumption
  DEF TypeOK, GrantFor, NewGrant, Grant, Access, Client

\* A record pushed to a log of records leaves one.
LEMMA RecordingType ==
  ASSUME NEW S, NEW log \in Seq(S), NEW e \in S
  PROVE  Recording(log, e) \in Seq(S)
<1> DEFINE pushed == Append(log, e)
           excess == Len(pushed) - AuditCapacity
<1>1. pushed \in Seq(S) /\ Len(pushed) \in Nat
  OBVIOUS
<1>2. CASE excess > 0
  <2>1. \A i \in (excess + 1) .. Len(pushed) : pushed[i] \in S
    BY <1>1, <1>2, NumberAssumption
  <2>2. SubSeq(pushed, excess + 1, Len(pushed)) \in Seq(S)
    BY <1>1, <1>2, <2>1, NumberAssumption
  <2> QED BY <1>2, <2>2 DEF Recording
<1>3. CASE ~(excess > 0)
  BY <1>1, <1>3 DEF Recording
<1> QED BY <1>2, <1>3

\* A record pushed to a log that fits: the oldest goes if it is full.
LEMMA RecordingIs ==
  ASSUME NEW S, NEW log \in Seq(S), Len(log) <= AuditCapacity, NEW e \in S
  PROVE  LET new == Recording(log, e)
         IN \E gone \in {0, 1} :
              /\ gone = 1 <=> Len(log) = AuditCapacity
              /\ Len(new) = Len(log) + 1 - gone
              /\ \A i \in 1 .. (Len(log) - gone) : new[i] = log[i + gone]
              /\ new[Len(new)] = e
<1> DEFINE pushed == Append(log, e)
           excess == Len(pushed) - AuditCapacity
<1>1. /\ Len(pushed) = Len(log) + 1 /\ Len(log) \in Nat /\ pushed \in Seq(S)
      /\ \A i \in 1 .. Len(log) : pushed[i] = log[i]
      /\ pushed[Len(log) + 1] = e
  OBVIOUS
<1>2. CASE Len(log) = AuditCapacity
  <2>1. excess = 1
    BY <1>1, <1>2
  <2>2. Recording(log, e) = SubSeq(pushed, 2, Len(log) + 1)
    BY <1>1, <2>1 DEF Recording
  <2>3. /\ Len(SubSeq(pushed, 2, Len(log) + 1)) = Len(log)
        /\ \A i \in 1 .. Len(log) : SubSeq(pushed, 2, Len(log) + 1)[i] = pushed[i + 1]
    BY <1>1, NumberAssumption, <1>2
  <2> QED BY <1>1, <1>2, <2>2, <2>3, NumberAssumption
<1>3. CASE Len(log) < AuditCapacity
  <2>1. ~(excess > 0)
    BY <1>1, <1>3, NumberAssumption
  <2>2. Recording(log, e) = pushed
    BY <2>1 DEF Recording
  <2> QED BY <1>1, <1>3, <2>2, NumberAssumption
<1> QED BY <1>1, <1>2, <1>3, NumberAssumption

-----------------------------------------------------------------------------
\* The variables have their types, whatever requests, locks and failures meet.
THEOREM TypeCorrect == Spec => []TypeOK
<1>1. Init => TypeOK
  <2>1. <<>> \in Seq(Request) /\ <<>> \in Seq(Entries)
    OBVIOUS
  <2> QED BY <2>1 DEF Init, TypeOK, Phases, Replies, NoGrant, Allow, Grant
<1>2. TypeOK /\ [Next]_vars => TypeOK'
  <2> SUFFICES ASSUME TypeOK, [Next]_vars PROVE TypeOK'
    OBVIOUS
  <2>1. ASSUME NEW r \in Request, List(r) \/ Receive(r) \/ Resolve(r)
        PROVE  TypeOK'
    BY <2>1 DEF TypeOK, List, Receive, Resolve, Goto, Answered, Phases, Replies,
                appVars, promptVars, grantVars, logVars
  <2>2. ASSUME NEW r \in Request, Redeem(r) PROVE TypeOK'
    <3> DEFINE live == Prune(grants, now[r])
               found == Redeemable(live, want[r], now[r])
    <3>1. live \in SUBSET Grant
      BY PruneSubset DEF TypeOK
    <3>2. grants' \in SUBSET Grant /\ allowed' \in [Request -> Nat]
      <4>1. CASE found = {} /\ grants' = live /\ UNCHANGED allowed
        BY <4>1, <3>1 DEF TypeOK
      <4>2. ASSUME NEW g \in found, grants' = Charge(live, g),
                   allowed' = [allowed EXCEPT ![r] = g.id]
            PROVE  grants' \in SUBSET Grant /\ allowed' \in [Request -> Nat]
        <5>1. g \in live
          BY RedeemableIsMatching
        <5>2. g.id \in Nat
          BY <5>1, <3>1 DEF Grant
        <5> QED BY <4>2, <5>1, <5>2, <3>1, ChargeType DEF TypeOK
      <4> QED BY <4>1, <4>2, <2>2 DEF Redeem
    <3>3. pc' \in [Request -> Phases]
      BY <2>2 DEF TypeOK, Redeem, Goto, Phases
    <3> QED BY <2>2, <3>2, <3>3
            DEF TypeOK, Redeem, appVars, promptVars, logVars
  <2>3. ASSUME NEW r \in Request, Ask(r) \/ Timeout(r) \/ Denied(r)
        PROVE  TypeOK'
    <3>1. queue' \in Seq(Request)
      <4>1. Append(queue, r) \in Seq(Request) /\ queue \in Seq(Request)
        BY AppendProperties DEF TypeOK
      <4> QED BY <2>3, <4>1 DEF Ask, Timeout, Denied, promptVars
    <3> QED BY <2>3, <3>1 DEF TypeOK, Ask, Timeout, Denied, Goto, Answered, Phases, Replies,
                appVars, promptVars, grantVars, logVars
  <2>4. ASSUME NEW r \in Request, Mint(r) PROVE TypeOK'
    <3> DEFINE store == Issue(grants, GrantFor(r))
               found == Redeemable(store, want[r], now[r])
    <3>1. store \in SUBSET Grant
      BY GrantForType DEF TypeOK, Issue
    <3>2. grants' \in SUBSET Grant
      <4>1. CASE grants' = Prune(store, now[r])
        BY <4>1, <3>1, PruneSubset
      <4>2. ASSUME NEW g \in found, grants' = Prune(Charge(store, g), now[r])
            PROVE  grants' \in SUBSET Grant
        BY <4>2, <3>1, PruneSubset, ChargeType, RedeemableIsMatching
      <4> QED BY <4>1, <4>2, <2>4 DEF Mint
    <3>3. /\ pc' \in [Request -> Phases]
          /\ issued' \in Nat
          /\ allowed' \in [Request -> Nat]
      BY <2>4 DEF TypeOK, Mint, Goto, Phases
    <3> QED BY <2>4, <3>2, <3>3 DEF TypeOK, Mint, appVars, promptVars, logVars
  <2>5. ASSUME NEW r \in Request, CheckUnlocked(r) \/ RevokeOwn(r) PROVE TypeOK'
    BY <2>5 DEF TypeOK, CheckUnlocked, RevokeOwn, Revoke, Goto, Answered,
                Phases, Replies, appVars, promptVars, grantVars, logVars
  <2>6. ASSUME NEW r \in Request, Fetch(r) \/ CommandEnds(r) PROVE TypeOK'
    <3>1. UNCHANGED <<appVars, promptVars, grantVars, logVars, want, now, allowed>>
      BY <2>6 DEF Fetch, CommandEnds
    <3>2. pc' \in [Request -> Phases]
      BY <2>6 DEF Fetch, CommandEnds, Goto, Phases, TypeOK
    <3>3. reply' \in [Request -> Replies]
      BY <2>6 DEF Fetch, CommandEnds, Answered, Replies, TypeOK
    <3> QED BY <3>1, <3>2, <3>3 DEF TypeOK, appVars, promptVars, grantVars, logVars
  <2>7. ASSUME NEW r \in Request, PushAudit(r) \/ SaveAudit(r) \/ LogAudit(r)
        PROVE  TypeOK'
    <3>1. Entry(r) \in Entries
      BY DEF TypeOK, Entry, Entries, Allow, Served, NoGrant
    <3>2. Recording(vaultLog, Entry(r)) \in Seq(Entries)
          /\ Recording(memLog, Entry(r)) \in Seq(Entries)
      BY <3>1, RecordingType DEF TypeOK
    <3>3. newer' \in [Request -> SUBSET Request] /\ vaultLog' \in Seq(Entries)
          /\ memLog' \in Seq(Entries)
      <4>1. CASE PushAudit(r)
        <5>1. newer' \in [Request -> SUBSET Request]
          <6>1. CASE open = NoVault
            BY <4>1, <6>1 DEF PushAudit, TypeOK
          <6>2. CASE open # NoVault
            <7>1. newer' = [q \in Request |->
                             IF Pushed(q) THEN newer[q] \cup {r} ELSE newer[q]]
              BY <4>1, <6>2 DEF PushAudit
            <7>2. \A q \in Request : newer[q] \in SUBSET Request
              BY DEF TypeOK
            <7> HIDE DEF Pushed
            <7> QED BY <7>1, <7>2
          <6> QED BY <6>1, <6>2
        <5>2. vaultLog' \in {vaultLog, Recording(vaultLog, Entry(r))} /\ memLog' = memLog
          BY <4>1 DEF PushAudit
        <5> QED BY <3>2, <5>1, <5>2 DEF TypeOK
      <4>2. CASE SaveAudit(r) \/ LogAudit(r)
        BY <4>2, <3>2 DEF SaveAudit, LogAudit, TypeOK
      <4> QED BY <2>7, <4>1, <4>2
    <3>4. diskLog' \in [Vault -> Seq(Entries)]
      BY <2>7 DEF PushAudit, SaveAudit, LogAudit, Save, TypeOK
    <3>5. pc' \in [Request -> Phases]
      BY <2>7 DEF PushAudit, SaveAudit, LogAudit, Goto, Phases, TypeOK
    <3>6. UNCHANGED <<appVars, promptVars, grantVars, want, now, allowed, reply>>
      BY <2>7 DEF PushAudit, SaveAudit, LogAudit
    <3> QED BY <3>3, <3>4, <3>5, <3>6 DEF TypeOK, appVars, promptVars, grantVars
  <2>8. ASSUME (\E v \in Vault : Unlock(v)) \/ RestoreAudit \/ Lock PROVE TypeOK'
    <3>1. CASE \E v \in Vault : Unlock(v)
      BY <3>1 DEF TypeOK, Unlock, promptVars, grantVars
    <3>2. CASE RestoreAudit
      BY <3>2 DEF TypeOK, RestoreAudit, promptVars, grantVars
    <3>3. CASE Lock
      <4>1. <<>> \in Seq(Request) /\ <<>> \in Seq(Entries)
        OBVIOUS
      <4> QED BY <3>3, <4>1 DEF TypeOK, Lock, grantVars
    <3> QED BY <2>8, <3>1, <3>2, <3>3
  <2>9. ASSUME AbandonAll \/ ForgetGrants \/ ForgetLog PROVE TypeOK'
    <3>1. <<>> \in Seq(Entries)
      OBVIOUS
    <3> QED BY <2>9, <3>1 DEF TypeOK, AbandonAll, ForgetGrants, ForgetLog,
                promptVars, grantVars, logVars
  <2>10. ASSUME NEW r \in Request,
                (\E choice \in {"deny"} \cup Allow : Answer(r, choice))
                  \/ AnswerTooLate(r)
         PROVE  TypeOK'
    <3>1. CASE \E choice \in {"deny"} \cup Allow : Answer(r, choice)
      <4>1. queue' \in Seq(Request)
        BY <3>1, HeadTailProperties DEF TypeOK, Answer
      <4> QED BY <3>1, <4>1 DEF TypeOK, Answer, appVars, grantVars, logVars
    <3>2. CASE AnswerTooLate(r)
      BY <3>2 DEF TypeOK, AnswerTooLate, appVars, grantVars, logVars
    <3> QED BY <2>10, <3>1, <3>2
  <2>11. ASSUME NEW g \in grants, RevokeGrant(g) PROVE TypeOK'
    BY <2>11 DEF TypeOK, RevokeGrant, Revoke, appVars, promptVars, logVars
  <2>12. ASSUME NEW t \in Target, Edit(t) PROVE TypeOK'
    <3>1. diskLog' \in [Vault -> Seq(Entries)]
      BY <2>12 DEF TypeOK, Edit, Save
    <3>2. present' \in [Vault -> SUBSET Target]
      <4>1. PICK with \in {present[open] \cup {t}, present[open] \ {t}} :
              present' = [present EXCEPT ![open] = with]
        BY <2>12 DEF Edit
      <4>2. with \in SUBSET Target
        BY <2>12 DEF TypeOK, Edit
      <4> QED BY <4>1, <4>2 DEF TypeOK
    <3> QED BY <2>12, <3>1, <3>2 DEF TypeOK, Edit, promptVars, grantVars
  <2>13. CASE Tick
    BY <2>13 DEF TypeOK, Tick, promptVars, grantVars, logVars
  <2>14. CASE UNCHANGED vars
    BY <2>14 DEF TypeOK, vars, appVars, promptVars, grantVars, logVars
  <2> QED BY NextCases, <2>1, <2>2, <2>3, <2>4, <2>5, <2>6, <2>7, <2>8, <2>9,
             <2>10, <2>11, <2>12, <2>13, <2>14
<1> QED BY <1>1, <1>2, PTL DEF Spec


-----------------------------------------------------------------------------
(* Consent.  Only two steps authorise anything, Redeem and Mint; every     *)
(* other one is quiet: it can only take grants away, and touches an answer *)
(* only while its request still waits for it.                              *)

Unasked == {"idle", "resolve", "redeem", "ask"}
Unanswered == {"idle", "resolve", "redeem", "ask", "waiting"}

Quiet ==
  /\ UNCHANGED <<allowed, want, issued>>
  /\ grants' \subseteq grants
  /\ \A r \in Request : decision'[r] = decision[r] \/ pc[r] = "waiting"
  /\ \A r \in Request : pc'[r] \in Unanswered => pc[r] \in Unanswered
  /\ \A r \in Request : pc'[r] \in Unasked => pc[r] \in Unasked

\* The step in which redeem finds a grant.
Reuses(r, g) ==
  LET live == Prune(grants, now[r])
  IN /\ g \in Redeemable(live, want[r], now[r])
     /\ Goto(r, "redeem", "dispatch")
     /\ grants' = Charge(live, g)
     /\ allowed' = [allowed EXCEPT ![r] = g.id]
     /\ UNCHANGED <<want, decision, issued>>

LEMMA AuthorisingSteps ==
  ASSUME TypeOK, [Next]_vars
  PROVE  \/ Quiet
         \/ \E r \in Request : \E g \in grants : Reuses(r, g)
         \/ \E r \in Request : Mint(r)
<1>1. ASSUME NEW r \in Request, List(r) \/ Receive(r) \/ Resolve(r) PROVE Quiet
  BY <1>1 DEF Quiet, Unanswered, Unasked, List, Receive, Resolve, Goto, TypeOK,
              grantVars, promptVars
<1>2. ASSUME NEW r \in Request, Redeem(r)
      PROVE  Quiet \/ \E g \in grants : Reuses(r, g)
  <2> DEFINE live == Prune(grants, now[r])
             found == Redeemable(live, want[r], now[r])
  <2>1. CASE /\ Goto(r, "redeem", "ask")
             /\ grants' = live /\ UNCHANGED allowed
    BY <1>2, <2>1, PruneSubset DEF Quiet, Unanswered, Unasked, Redeem, Goto, TypeOK, promptVars
  <2>2. ASSUME NEW g \in found, Goto(r, "redeem", "dispatch"),
               grants' = Charge(live, g), allowed' = [allowed EXCEPT ![r] = g.id]
        PROVE  g \in grants /\ Reuses(r, g)
    <3>1. g \in live
      BY RedeemableIsMatching
    <3>2. g \in grants
      BY <3>1, PruneSubset
    <3>3. UNCHANGED <<want, decision, issued>>
      BY <1>2 DEF Redeem, promptVars
    <3> QED BY <2>2, <3>2, <3>3 DEF Reuses
  <2> QED BY <1>2, <2>1, <2>2 DEF Redeem
<1>3. ASSUME NEW r \in Request, Ask(r) \/ Timeout(r) \/ Denied(r) PROVE Quiet
  BY <1>3 DEF Quiet, Unanswered, Unasked, Ask, Timeout, Denied, Goto, TypeOK,
              grantVars, promptVars
<1>4. ASSUME NEW r \in Request,
             CheckUnlocked(r) \/ RevokeOwn(r) \/ Fetch(r) \/ CommandEnds(r)
      PROVE  Quiet
  BY <1>4 DEF Quiet, Unanswered, Unasked, CheckUnlocked, RevokeOwn, Revoke, Fetch,
              CommandEnds, Goto, TypeOK, grantVars, promptVars
<1>5. ASSUME NEW r \in Request, PushAudit(r) \/ SaveAudit(r) \/ LogAudit(r)
      PROVE  Quiet
  BY <1>5 DEF Quiet, Unanswered, Unasked, PushAudit, SaveAudit, LogAudit, Goto, TypeOK,
              grantVars, promptVars
<1>6. ASSUME (\E v \in Vault : Unlock(v)) \/ RestoreAudit \/ Lock
             \/ ForgetGrants \/ ForgetLog \/ Tick
             \/ (\E g \in grants : RevokeGrant(g)) \/ (\E t \in Target : Edit(t))
      PROVE  Quiet
  BY <1>6 DEF Quiet, Unlock, RestoreAudit, Lock, ForgetGrants, ForgetLog, Tick,
              RevokeGrant, Revoke, Edit, grantVars, promptVars
<1>7. CASE AbandonAll
  BY <1>7 DEF Quiet, AbandonAll, TypeOK, grantVars
<1>8. ASSUME NEW r \in Request,
             (\E choice \in {"deny"} \cup Allow : Answer(r, choice))
               \/ AnswerTooLate(r)
      PROVE  Quiet
  BY <1>8 DEF Quiet, Answer, AnswerTooLate, TypeOK, grantVars
<1>9. CASE UNCHANGED vars
  BY <1>9 DEF Quiet, vars, grantVars, promptVars
<1> QED BY NextCases, <1>1, <1>2, <1>3, <1>4, <1>5, <1>6, <1>7, <1>8, <1>9

\* A grant is only ever held by a request that has been answered.
NoGrantUnanswered ==
  \A r \in Request : pc[r] \in Unanswered => allowed[r] = NoGrant

LEMMA UnansweredStep ==
  ASSUME TypeOK, NoGrantUnanswered, [Next]_vars
  PROVE  NoGrantUnanswered'
<1>1. CASE Quiet
  BY <1>1 DEF Quiet, NoGrantUnanswered
<1>2. ASSUME NEW r \in Request, NEW g \in grants, Reuses(r, g)
      PROVE  NoGrantUnanswered'
  BY <1>2 DEF Reuses, NoGrantUnanswered, Goto, TypeOK, Unanswered
<1>3. ASSUME NEW r \in Request, Mint(r) PROVE NoGrantUnanswered'
  BY <1>3 DEF Mint, NoGrantUnanswered, Goto, TypeOK, Unanswered
<1> QED BY AuthorisingSteps, <1>1, <1>2, <1>3

-----------------------------------------------------------------------------
DisclosureInv ==
  /\ TypeOK
  /\ NoGrantUnanswered
  /\ DisclosuresNeverStand
  /\ DisclosureWasAsked

\* The one-shot grant of an identified client's disclosure is found, charged
\* and pruned by the redemption that follows its issue.
LEMMA DisclosureIsSpent ==
  ASSUME TypeOK, DisclosuresNeverStand, NEW r \in Request, Mint(r)
  PROVE  DisclosuresNeverStand'
<1> DEFINE new == GrantFor(r)
           store == Issue(grants, new)
           found == Redeemable(store, want[r], now[r])
<1>0. /\ new \in Grant
      /\ new.scope = want[r].scope
      /\ new.client = want[r].client
      /\ new.target = want[r].target
  BY GrantForType
<1>1. CASE want[r].scope \notin Disclosing \/ want[r].client = Unidentified
  <2>1. \A g \in store : g.scope \in Disclosing => g.client = Unidentified
    BY <1>0, <1>1 DEF Issue, DisclosuresNeverStand
  <2>2. \A g \in found : \A h \in Charge(store, g) :
          h.scope \in Disclosing => h.client = Unidentified
    <3> SUFFICES ASSUME NEW g \in found, NEW h \in Charge(store, g),
                        h.scope \in Disclosing
                 PROVE  h.client = Unidentified
      OBVIOUS
    <3>1. g \in store /\ store \in SUBSET Grant
      BY <1>0, RedeemableIsMatching DEF Issue, TypeOK
    <3>2. CASE h \in store
      BY <2>1, <3>2
    <3>3. CASE h = [g EXCEPT !.uses = @ + 1]
      <4>1. h.scope = g.scope /\ h.client = g.client
        BY <3>1, <3>3 DEF Grant
      <4> QED BY <2>1, <3>1, <4>1
    <3> QED BY <3>2, <3>3 DEF Charge
  <2> QED BY <2>1, <2>2 DEF Mint, DisclosuresNeverStand, Prune
<1>2. CASE want[r].scope \in Disclosing /\ want[r].client # Unidentified
  <2>1. /\ new = NewGrant(issued + 1, want[r], now[r], OnceSeconds, 1)
        /\ want[r].client \in Program
    BY <1>2 DEF GrantFor, TypeOK, Access, Client
  <2>2. Authorises(new, want[r], now[r]) /\ new.uses = 0 /\ new.max = 1
    BY <2>1, NumberAssumption
    DEF NewGrant, Authorises, IsLive, SameProgram, TypeOK
  <2>3. \A g \in grants : ~Authorises(g, want[r], now[r])
    BY <1>2, ClientAssumption DEF DisclosuresNeverStand, Authorises, SameProgram
  <2>4. found = {new}
    BY <2>2, <2>3, <1>0 DEF Redeemable, Matching, Issue, Grant
  <2>5. grants' = Prune(Charge(store, new), now[r])
    BY <2>4 DEF Mint
  <2>6. \A h \in grants' : h \in grants
    <3> SUFFICES ASSUME NEW h \in grants' PROVE h \in grants
      OBVIOUS
    <3>1. h \in Charge(store, new) /\ h.uses < h.max
      BY <2>5 DEF Prune, IsLive
    <3>2. CASE h = [new EXCEPT !.uses = @ + 1]
      <4>1. h.uses = 1 /\ h.max = 1
        BY <2>2, <3>2, <1>0 DEF Grant
      <4> QED BY <3>1, <4>1
    <3> QED BY <3>1, <3>2 DEF Charge, Issue
  <2> QED BY <2>6 DEF DisclosuresNeverStand
<1> QED BY <1>1, <1>2

LEMMA DisclosureStep ==
  ASSUME DisclosureInv, [Next]_vars
  PROVE  DisclosuresNeverStand' /\ DisclosureWasAsked'
<1> USE DEF DisclosureInv
<1>1. CASE Quiet
  <2>1. \A r \in Request :
          allowed[r] # NoGrant => decision'[r] = decision[r]
    BY <1>1 DEF Quiet, NoGrantUnanswered, Unanswered
  <2> QED BY <1>1, <2>1 DEF Quiet, DisclosuresNeverStand, DisclosureWasAsked
<1>2. ASSUME NEW r \in Request, NEW g \in grants, Reuses(r, g)
      PROVE  DisclosuresNeverStand' /\ DisclosureWasAsked'
  <2>1. /\ g \in Grant
        /\ g.scope = want[r].scope
        /\ g.client \in Program
    <3>1. g \in Redeemable(Prune(grants, now[r]), want[r], now[r])
      BY <1>2 DEF Reuses
    <3>2. g \in Grant
      BY DEF TypeOK
    <3> QED BY <3>1, <3>2, RedeemableIsMatching
  <2>2. g.scope \notin Disclosing
    BY <2>1, ClientAssumption DEF DisclosuresNeverStand
  <2>3. DisclosureWasAsked'
    BY <1>2, <2>1, <2>2 DEF Reuses, DisclosureWasAsked, TypeOK
  <2>4. DisclosuresNeverStand'
    <3>1. [g EXCEPT !.uses = @ + 1].scope = g.scope
      BY <2>1 DEF Grant
    <3> QED BY <1>2, <2>2, <3>1, PruneSubset
            DEF Reuses, Charge, DisclosuresNeverStand
  <2> QED BY <2>3, <2>4
<1>3. ASSUME NEW r \in Request, Mint(r)
      PROVE  DisclosuresNeverStand' /\ DisclosureWasAsked'
  <2>1. DisclosureWasAsked'
    BY <1>3 DEF Mint, DisclosureWasAsked, TypeOK, promptVars
  <2> QED BY <1>3, <2>1, DisclosureIsSpent
<1> QED BY AuthorisingSteps, <1>1, <1>2, <1>3

LEMMA DisclosuresAlways == Spec => [](DisclosuresNeverStand /\ DisclosureWasAsked)
<1>1. Init => NoGrantUnanswered /\ DisclosuresNeverStand /\ DisclosureWasAsked
  BY DEF Init, NoGrantUnanswered, DisclosuresNeverStand, DisclosureWasAsked
<1>2. TypeOK /\ TypeOK' /\ NoGrantUnanswered /\ DisclosuresNeverStand
        /\ DisclosureWasAsked /\ [Next]_vars
      => NoGrantUnanswered' /\ DisclosuresNeverStand' /\ DisclosureWasAsked'
  BY UnansweredStep, DisclosureStep DEF DisclosureInv
<1> QED BY <1>1, <1>2, TypeCorrect, PTL DEF Spec

\* No disclosure goes through on another request's answer.
THEOREM DisclosuresAskEachTime == Spec => []DisclosureWasAsked
BY DisclosuresAlways, PTL

\* A disclosure never leaves a grant an identified program could use: the one
\* its answer buys is charged and pruned in the step that issues it.
THEOREM DisclosuresLeaveNothing == Spec => []DisclosuresNeverStand
BY DisclosuresAlways, PTL

-----------------------------------------------------------------------------
\* Behind each grant in the store is the answer that bought it.
GrantsHaveApprovals ==
  \A g \in grants : \E q \in Request :
    /\ decision[q] \in Allow
    /\ allowed[q] = g.id
    /\ want[q] = [client |-> g.client, target |-> g.target, scope |-> g.scope]

LEMMA ConsentStep ==
  ASSUME TypeOK, NoGrantUnanswered, GrantsHaveApprovals, ReuseWasConsented,
         [Next]_vars
  PROVE  GrantsHaveApprovals' /\ ReuseWasConsented'
<1>0. \A q \in Request : allowed[q] # NoGrant => pc[q] # "waiting"
  BY DEF NoGrantUnanswered, Unanswered
<1>1. CASE Quiet
  <2>1. \A q \in Request : allowed[q] # NoGrant => decision'[q] = decision[q]
    BY <1>0, <1>1 DEF Quiet
  <2>2. GrantsHaveApprovals'
    <3> SUFFICES ASSUME NEW g \in grants'
                 PROVE  \E q \in Request :
                          /\ decision'[q] \in Allow
                          /\ allowed'[q] = g.id
                          /\ want'[q] = [client |-> g.client,
                                         target |-> g.target, scope |-> g.scope]
      BY DEF GrantsHaveApprovals
    <3>1. PICK q \in Request :
            /\ decision[q] \in Allow
            /\ allowed[q] = g.id
            /\ want[q] = [client |-> g.client, target |-> g.target, scope |-> g.scope]
      BY <1>1 DEF Quiet, GrantsHaveApprovals
    <3>2. g.id # NoGrant
      BY <1>1 DEF Quiet, TypeOK, Grant, NoGrant
    <3> QED BY <1>1, <2>1, <3>1, <3>2 DEF Quiet
  <2>3. ReuseWasConsented'
    BY <1>1, <2>1 DEF Quiet, ReuseWasConsented
  <2> QED BY <2>2, <2>3
<1>2. ASSUME NEW r \in Request, NEW g \in grants, Reuses(r, g)
      PROVE  GrantsHaveApprovals' /\ ReuseWasConsented'
  <2>1. g \in Redeemable(Prune(grants, now[r]), want[r], now[r])
    BY <1>2 DEF Reuses
  <2>2. /\ g \in Grant /\ want[r] \in Access
        /\ want[r].client = g.client /\ g.client \in Program
        /\ want[r].target = g.target /\ want[r].scope = g.scope
    BY <2>1, RedeemableIsMatching DEF TypeOK
  <2>3. want[r] = [client |-> g.client, target |-> g.target, scope |-> g.scope]
    BY <2>2 DEF Access
  <2>4. allowed[r] = NoGrant
    BY <1>2 DEF Reuses, Goto, NoGrantUnanswered, Unanswered
  <2>5. \A h \in Grant : h.id # NoGrant
    BY DEF Grant, NoGrant
  <2>6. \A q \in Request : allowed[q] # NoGrant =>
          allowed'[q] = allowed[q] /\ decision'[q] = decision[q] /\ want'[q] = want[q]
    BY <1>2, <2>4 DEF Reuses, TypeOK
  <2>7. GrantsHaveApprovals'
    <3> SUFFICES ASSUME NEW h \in grants'
                 PROVE  \E q \in Request :
                          /\ decision'[q] \in Allow
                          /\ allowed'[q] = h.id
                          /\ want'[q] = [client |-> h.client,
                                         target |-> h.target, scope |-> h.scope]
      BY DEF GrantsHaveApprovals
    <3>1. \E k \in grants : h.id = k.id /\ h.client = k.client
                             /\ h.target = k.target /\ h.scope = k.scope
      <4>1. CASE h \in grants
        BY <4>1
      <4>2. CASE h = [g EXCEPT !.uses = @ + 1]
        BY <4>2, <2>2 DEF Grant
      <4> QED BY <1>2, <4>1, <4>2, PruneSubset DEF Reuses, Charge
    <3>2. PICK k \in grants : h.id = k.id /\ h.client = k.client
                               /\ h.target = k.target /\ h.scope = k.scope
      BY <3>1
    <3>3. PICK q \in Request :
            /\ decision[q] \in Allow
            /\ allowed[q] = k.id
            /\ want[q] = [client |-> k.client, target |-> k.target, scope |-> k.scope]
      BY DEF GrantsHaveApprovals
    <3>4. allowed[q] # NoGrant
      BY <2>5, <3>3 DEF TypeOK
    <3> QED BY <2>6, <3>2, <3>3, <3>4
  <2>8. ReuseWasConsented'
    <3> SUFFICES ASSUME NEW p \in Request, allowed'[p] # NoGrant
                 PROVE  \E q \in Request :
                          /\ decision'[q] \in Allow
                          /\ allowed'[q] = allowed'[p]
                          /\ want'[q] = want'[p]
                          /\ q # p => want'[p].client \in Program
      BY DEF ReuseWasConsented
    <3>1. CASE p = r
      <4>1. PICK q \in Request :
              decision[q] \in Allow /\ allowed[q] = g.id /\ want[q] = want[r]
        BY <2>3 DEF GrantsHaveApprovals
      <4>2. allowed[q] # NoGrant
        BY <2>2, <2>5, <4>1
      <4>3. allowed'[r] = g.id /\ want' = want
        BY <1>2 DEF Reuses, TypeOK
      <4> QED BY <2>2, <2>6, <3>1, <4>1, <4>2, <4>3
    <3>2. CASE p # r
      <4>1. allowed'[p] = allowed[p] /\ want' = want
        BY <1>2, <3>2 DEF Reuses, TypeOK
      <4>2. PICK q \in Request :
              /\ decision[q] \in Allow
              /\ allowed[q] = allowed[p]
              /\ want[q] = want[p]
              /\ q # p => want[p].client \in Program
        BY <4>1 DEF ReuseWasConsented
      <4> QED BY <2>6, <4>1, <4>2
    <3> QED BY <3>1, <3>2
  <2> QED BY <2>7, <2>8
<1>3. ASSUME NEW r \in Request, Mint(r)
      PROVE  GrantsHaveApprovals' /\ ReuseWasConsented'
  <2> DEFINE new == GrantFor(r)
             store == Issue(grants, new)
             found == Redeemable(store, want[r], now[r])
  <2>1. /\ new \in Grant /\ new.id = issued + 1
        /\ want[r] = [client |-> new.client, target |-> new.target,
                      scope |-> new.scope]
    <3>1. want[r] \in Access
      BY DEF TypeOK
    <3> QED BY <3>1, GrantForType DEF Access
  <2>2. allowed[r] = NoGrant
    BY <1>3 DEF Mint, Goto, NoGrantUnanswered, Unanswered
  <2>3. \A q \in Request : allowed[q] # NoGrant => allowed'[q] = allowed[q]
    BY <1>3, <2>2 DEF Mint, TypeOK
  <2>4. /\ decision' = decision /\ want' = want
        /\ decision[r] \in Allow /\ allowed'[r] = new.id
    BY <1>3, <2>1 DEF Mint, TypeOK, promptVars
  <2>5. \A h \in grants' : \E k \in store :
          h.id = k.id /\ h.client = k.client
            /\ h.target = k.target /\ h.scope = k.scope
    <3> SUFFICES ASSUME NEW h \in grants'
                 PROVE  \E k \in store :
                          h.id = k.id /\ h.client = k.client
                            /\ h.target = k.target /\ h.scope = k.scope
      OBVIOUS
    <3>1. CASE grants' = Prune(store, now[r])
      BY <3>1, PruneSubset
    <3>2. ASSUME NEW g \in found, grants' = Prune(Charge(store, g), now[r])
          PROVE  \E k \in store :
                   h.id = k.id /\ h.client = k.client
                     /\ h.target = k.target /\ h.scope = k.scope
      <4>1. g \in store /\ g \in Grant
        BY <2>1, RedeemableIsMatching DEF Issue, TypeOK
      <4>2. h \in Charge(store, g)
        BY <3>2, PruneSubset
      <4>3. CASE h = [g EXCEPT !.uses = @ + 1]
        BY <4>1, <4>3 DEF Grant
      <4> QED BY <4>2, <4>3 DEF Charge
    <3> QED BY <1>3, <3>1, <3>2 DEF Mint
  <2>6. GrantsHaveApprovals'
    <3> SUFFICES ASSUME NEW h \in grants'
                 PROVE  \E q \in Request :
                          /\ decision'[q] \in Allow
                          /\ allowed'[q] = h.id
                          /\ want'[q] = [client |-> h.client,
                                         target |-> h.target, scope |-> h.scope]
      BY DEF GrantsHaveApprovals
    <3>1. PICK k \in store : h.id = k.id /\ h.client = k.client
                              /\ h.target = k.target /\ h.scope = k.scope
      BY <2>5
    <3>2. CASE k = new
      BY <2>1, <2>4, <3>1, <3>2
    <3>3. CASE k \in grants
      <4>1. PICK q \in Request :
              /\ decision[q] \in Allow
              /\ allowed[q] = k.id
              /\ want[q] = [client |-> k.client, target |-> k.target,
                            scope |-> k.scope]
        BY <3>3 DEF GrantsHaveApprovals
      <4>2. allowed[q] # NoGrant
        BY <3>3, <4>1 DEF TypeOK, Grant, NoGrant
      <4> QED BY <2>3, <2>4, <3>1, <4>1, <4>2
    <3> QED BY <3>2, <3>3 DEF Issue
  <2>7. ReuseWasConsented'
    <3> SUFFICES ASSUME NEW p \in Request, allowed'[p] # NoGrant
                 PROVE  \E q \in Request :
                          /\ decision'[q] \in Allow
                          /\ allowed'[q] = allowed'[p]
                          /\ want'[q] = want'[p]
                          /\ q # p => want'[p].client \in Program
      BY DEF ReuseWasConsented
    <3>1. CASE p = r
      BY <2>4, <3>1
    <3>2. CASE p # r
      <4>1. allowed'[p] = allowed[p]
        BY <1>3, <3>2 DEF Mint, TypeOK
      <4>2. PICK q \in Request :
              /\ decision[q] \in Allow
              /\ allowed[q] = allowed[p]
              /\ want[q] = want[p]
              /\ q # p => want[p].client \in Program
        BY <4>1 DEF ReuseWasConsented
      <4> QED BY <2>3, <2>4, <4>1, <4>2
    <3> QED BY <3>1, <3>2
  <2> QED BY <2>6, <2>7
<1> QED BY AuthorisingSteps, <1>1, <1>2, <1>3

\* No request is let through without the user having allowed that target and
\* that scope to that program: at its own prompt, or at another one's if the
\* program is identified.
THEOREM NothingWithoutConsent == Spec => []ReuseWasConsented
<1>1. Init => NoGrantUnanswered /\ GrantsHaveApprovals /\ ReuseWasConsented
  BY DEF Init, NoGrantUnanswered, GrantsHaveApprovals, ReuseWasConsented
<1>2. TypeOK /\ NoGrantUnanswered /\ GrantsHaveApprovals /\ ReuseWasConsented
        /\ [Next]_vars
      => NoGrantUnanswered' /\ GrantsHaveApprovals' /\ ReuseWasConsented'
  BY UnansweredStep, ConsentStep
<1> QED BY <1>1, <1>2, TypeCorrect, PTL DEF Spec


-----------------------------------------------------------------------------
(* Locking.  Once forget_grants has emptied the store of a locked vault,   *)
(* only tasks caught mid-flight put grants back, and each still owns what  *)
(* it put there.                                                           *)

InFlight(r, id) == allowed[r] = id /\ pc[r] \in {"dispatch", "revoke"}

LockInv ==
  /\ open = NoVault /\ ui \in {"ready", "forgetLog"} =>
       \A g \in grants : \E r \in Request : InFlight(r, g.id)
  /\ ui = "restore" => open # NoVault

\* A step that moves no task out of flight, and adds no grant.
Holds ==
  /\ \A g \in grants' : \E k \in grants : k.id = g.id
  /\ \A r \in Request : \A id \in Nat \ {0} :
       InFlight(r, id) => allowed'[r] = id /\ pc'[r] \in {"dispatch", "revoke"}

LEMMA HoldsKeepsLockInv ==
  ASSUME TypeOK, LockInv, Holds, UNCHANGED <<open, ui>>
  PROVE  LockInv'
<1> SUFFICES ASSUME open' = NoVault, ui' \in {"ready", "forgetLog"},
                    NEW g \in grants'
             PROVE  \E r \in Request :
                      allowed'[r] = g.id /\ pc'[r] \in {"dispatch", "revoke"}
  BY DEF LockInv, InFlight
<1>1. PICK k \in grants : k.id = g.id
  BY DEF Holds
<1>2. PICK r \in Request : InFlight(r, k.id)
  BY DEF LockInv
<1>3. k.id \in Nat \ {0}
  BY DEF TypeOK, Grant
<1> QED BY <1>1, <1>2, <1>3 DEF Holds

LEMMA LockStep ==
  ASSUME TypeOK, NoGrantUnanswered, LockInv, [Next]_vars
  PROVE  LockInv'
<1>0. \A r \in Request : \A id \in Nat \ {0} :
        InFlight(r, id) => allowed[r] = id /\ pc[r] \in {"dispatch", "revoke"}
  BY DEF InFlight
<1>1. ASSUME NEW r \in Request, List(r) \/ Receive(r) \/ Resolve(r)
             \/ Ask(r) \/ Timeout(r) \/ Denied(r) \/ Fetch(r) \/ CommandEnds(r)
             \/ PushAudit(r) \/ SaveAudit(r) \/ LogAudit(r)
      PROVE  LockInv'
  <2>1. Holds /\ UNCHANGED <<open, ui>>
    BY <1>1 DEF Holds, InFlight, List, Receive, Resolve, Ask, Timeout, Denied,
                Fetch, CommandEnds, PushAudit, SaveAudit, LogAudit, Goto,
                TypeOK, appVars, grantVars
  <2> QED BY <2>1, HoldsKeepsLockInv
<1>2. ASSUME NEW r \in Request, Redeem(r) PROVE LockInv'
  <2> DEFINE live == Prune(grants, now[r])
             found == Redeemable(live, want[r], now[r])
  <2>1. UNCHANGED <<open, ui>>
    BY <1>2 DEF Redeem, appVars
  <2>2. \A q \in Request : \A id \in Nat \ {0} :
          InFlight(q, id) => allowed'[q] = id /\ pc'[q] \in {"dispatch", "revoke"}
    BY <1>2 DEF Redeem, InFlight, Goto, TypeOK
  <2>3. \A g \in grants' : \E k \in grants : k.id = g.id
    <3> SUFFICES ASSUME NEW g \in grants' PROVE \E k \in grants : k.id = g.id
      OBVIOUS
    <3>1. CASE grants' = live
      BY <3>1, PruneSubset
    <3>2. ASSUME NEW f \in found, grants' = Charge(live, f)
          PROVE  \E k \in grants : k.id = g.id
      <4>1. f \in grants /\ f \in Grant
        BY RedeemableIsMatching, PruneSubset DEF TypeOK
      <4>2. CASE g = [f EXCEPT !.uses = @ + 1]
        BY <4>1, <4>2 DEF Grant
      <4> QED BY <3>2, <4>2, PruneSubset DEF Charge
    <3> QED BY <1>2, <3>1, <3>2 DEF Redeem
  <2> QED BY <2>1, <2>2, <2>3, HoldsKeepsLockInv DEF Holds
<1>3. ASSUME NEW r \in Request, Mint(r) PROVE LockInv'
  <2> DEFINE store == Issue(grants, GrantFor(r))
             found == Redeemable(store, want[r], now[r])
  <2>1. UNCHANGED <<open, ui>>
    BY <1>3 DEF Mint, appVars
  <2>2. allowed[r] = NoGrant
    BY <1>3 DEF Mint, Goto, NoGrantUnanswered, Unanswered
  <2>3. \A q \in Request : \A id \in Nat \ {0} :
          InFlight(q, id) => allowed'[q] = id /\ pc'[q] \in {"dispatch", "revoke"}
    BY <1>3, <2>2 DEF Mint, InFlight, Goto, TypeOK, NoGrant
  <2>4. \A g \in grants' : g.id = issued + 1 \/ \E k \in grants : k.id = g.id
    <3> SUFFICES ASSUME NEW g \in grants'
                 PROVE  \E k \in store : k.id = g.id
      BY GrantForType DEF Issue
    <3>1. CASE grants' = Prune(store, now[r])
      BY <3>1, PruneSubset
    <3>2. ASSUME NEW f \in found, grants' = Prune(Charge(store, f), now[r])
          PROVE  \E k \in store : k.id = g.id
      <4>1. f \in store /\ f \in Grant
        BY RedeemableIsMatching, GrantForType DEF Issue, TypeOK
      <4>2. g \in Charge(store, f)
        BY <3>2, PruneSubset
      <4>3. CASE g = [f EXCEPT !.uses = @ + 1]
        BY <4>1, <4>3 DEF Grant
      <4> QED BY <4>1, <4>2, <4>3 DEF Charge
    <3> QED BY <1>3, <3>1, <3>2 DEF Mint
  <2>5. allowed'[r] = issued + 1 /\ pc'[r] = "dispatch"
    BY <1>3 DEF Mint, Goto, TypeOK
  <2> SUFFICES ASSUME open' = NoVault, ui' \in {"ready", "forgetLog"},
                      NEW g \in grants'
               PROVE  \E q \in Request :
                        allowed'[q] = g.id /\ pc'[q] \in {"dispatch", "revoke"}
    BY <2>1 DEF LockInv, InFlight
  <2>6. CASE g.id = issued + 1
    BY <2>5, <2>6
  <2>7. ASSUME NEW k \in grants, k.id = g.id
        PROVE  \E q \in Request :
                 allowed'[q] = g.id /\ pc'[q] \in {"dispatch", "revoke"}
    <3>1. PICK q \in Request : InFlight(q, k.id)
      BY <2>1 DEF LockInv
    <3>2. k.id \in Nat \ {0}
      BY DEF TypeOK, Grant
    <3> QED BY <2>3, <2>7, <3>1, <3>2
  <2> QED BY <2>4, <2>6, <2>7
<1>4. ASSUME NEW r \in Request, CheckUnlocked(r) PROVE LockInv'
  <2>1. CASE open = NoVault
    <3>1. Holds /\ UNCHANGED <<open, ui>>
      BY <1>4, <2>1 DEF Holds, InFlight, CheckUnlocked, Goto, TypeOK, appVars,
                        grantVars
    <3> QED BY <3>1, HoldsKeepsLockInv
  <2>2. CASE open # NoVault
    BY <1>4, <2>2 DEF LockInv, CheckUnlocked, appVars
  <2> QED BY <2>1, <2>2
<1>5. ASSUME NEW r \in Request, RevokeOwn(r) PROVE LockInv'
  <2> SUFFICES ASSUME open' = NoVault, ui' \in {"ready", "forgetLog"},
                      NEW g \in grants'
               PROVE  \E q \in Request :
                        allowed'[q] = g.id /\ pc'[q] \in {"dispatch", "revoke"}
    BY <1>5 DEF RevokeOwn, LockInv, InFlight, appVars
  <2>1. g \in grants /\ g.id # allowed[r]
    BY <1>5 DEF RevokeOwn, Revoke
  <2>2. PICK q \in Request : InFlight(q, g.id)
    BY <1>5, <2>1 DEF RevokeOwn, LockInv, appVars
  <2>3. q # r
    BY <2>1, <2>2 DEF InFlight
  <2> QED BY <1>5, <2>2, <2>3 DEF RevokeOwn, InFlight, Goto, TypeOK
<1>6. CASE \E v \in Vault : Unlock(v)
  BY <1>6, VaultAssumption DEF LockInv, Unlock
<1>7. CASE RestoreAudit
  BY <1>7 DEF LockInv, RestoreAudit, InFlight
<1>8. CASE Lock \/ AbandonAll \/ ForgetGrants
  BY <1>8 DEF LockInv, Lock, AbandonAll, ForgetGrants, InFlight
<1>9. CASE ForgetLog
  BY <1>9 DEF LockInv, ForgetLog, InFlight, grantVars
<1>10. CASE \/ \E r \in Request, choice \in {"deny"} \cup Allow : Answer(r, choice)
            \/ \E r \in Request : AnswerTooLate(r)
            \/ \E g \in grants : RevokeGrant(g)
            \/ UNCHANGED vars
  <2>1. Holds /\ UNCHANGED <<open, ui>>
    BY <1>10, <1>0 DEF Holds, Answer, AnswerTooLate, RevokeGrant, Revoke,
                       vars, appVars, grantVars
  <2> QED BY <2>1, HoldsKeepsLockInv
<1>11. CASE (\E t \in Target : Edit(t)) \/ Tick
  <2>1. Holds /\ UNCHANGED <<open, ui>>
    BY <1>11, <1>0 DEF Holds, Edit, Tick, grantVars
  <2> QED BY <2>1, HoldsKeepsLockInv
<1> QED BY NextCases, <1>1, <1>2, <1>3, <1>4, <1>5, <1>6, <1>7, <1>8, <1>9,
           <1>10, <1>11

\* Whatever a lock catches in flight, a grant in a locked vault's store is one
\* some request is about to revoke.
THEOREM LockDestroysGrants == Spec => []LockedGrantsAreInFlight
<1>1. Init => NoGrantUnanswered /\ LockInv
  BY DEF Init, NoGrantUnanswered, LockInv
<1>2. TypeOK /\ NoGrantUnanswered /\ LockInv /\ [Next]_vars
      => NoGrantUnanswered' /\ LockInv'
  BY UnansweredStep, LockStep
<1>3. LockInv => LockedGrantsAreInFlight
  BY DEF LockInv, LockedGrantsAreInFlight, InFlight
<1> QED BY <1>1, <1>2, <1>3, TypeCorrect, PTL DEF Spec

-----------------------------------------------------------------------------
(* The log.  Memory goes on from the file of the vault that is open, so    *)
(* that whoever saves next takes out of the file only what its capacity    *)
(* has no room for.                                                        *)

LogsFit ==
  /\ Len(vaultLog) <= AuditCapacity
  /\ \A v \in Vault : Len(diskLog[v]) <= AuditCapacity

LogIsAhead == LogsFit /\ (open # NoVault => GoesOnFrom(diskLog[open], vaultLog))

\* What a step does to the log of the vault and to the file.
LogKept == UNCHANGED <<open, vaultLog, diskLog, newer>>
LogSaved == Save /\ UNCHANGED <<open, vaultLog, newer>>

LEMMA LoggingSteps ==
  ASSUME [Next]_vars
  PROVE  \/ LogKept
         \/ LogSaved
         \/ \E r \in Request : PushAudit(r)
         \/ \E v \in Vault : Unlock(v)
         \/ Lock
<1>1. ASSUME NEW r \in Request, List(r) \/ Receive(r) \/ Resolve(r) \/ Redeem(r)
             \/ Ask(r) \/ Timeout(r) \/ Denied(r) \/ Mint(r) \/ CheckUnlocked(r)
             \/ RevokeOwn(r) \/ Fetch(r) \/ CommandEnds(r) \/ LogAudit(r)
      PROVE  LogKept
  BY <1>1 DEF LogKept, List, Receive, Resolve, Redeem, Ask, Timeout, Denied, Mint,
              CheckUnlocked, RevokeOwn, Fetch, CommandEnds, LogAudit, appVars, logVars
<1>2. ASSUME (\E r \in Request : SaveAudit(r)) \/ (\E t \in Target : Edit(t))
      PROVE  LogSaved
  BY <1>2 DEF LogSaved, SaveAudit, Edit, appVars
<1>3. CASE RestoreAudit \/ AbandonAll \/ ForgetGrants \/ ForgetLog \/ Tick
  BY <1>3 DEF LogKept, RestoreAudit, AbandonAll, ForgetGrants, ForgetLog, Tick, logVars
<1>4. CASE \/ \E r \in Request, choice \in {"deny"} \cup Allow : Answer(r, choice)
           \/ \E r \in Request : AnswerTooLate(r)
           \/ \E g \in grants : RevokeGrant(g)
  BY <1>4 DEF LogKept, Answer, AnswerTooLate, RevokeGrant, appVars, logVars
<1>5. CASE UNCHANGED vars
  BY <1>5 DEF LogKept, vars, appVars, logVars
<1> QED BY NextCases, <1>1, <1>2, <1>3, <1>4, <1>5

LEMMA GoesOnFromItself ==
  ASSUME NEW S, NEW log \in Seq(S) PROVE GoesOnFrom(log, log)
<1>1. 0 \in 0 .. Len(log) /\ Len(log) - 0 <= Len(log)
      /\ \A i \in 1 .. (Len(log) - 0) : log[i] = log[0 + i]
  OBVIOUS
<1> QED BY <1>1 DEF GoesOnFrom

\* A push goes on from whatever the log went on from.
LEMMA PushGoesOn ==
  ASSUME NEW S, NEW old \in Seq(S), NEW log \in Seq(S), Len(log) <= AuditCapacity,
         GoesOnFrom(old, log), NEW e \in S
  PROVE  GoesOnFrom(old, Recording(log, e)) /\ Len(Recording(log, e)) <= AuditCapacity
<1> DEFINE new == Recording(log, e)
<1>1. PICK gone \in 0 .. Len(old) :
        /\ Len(old) - gone <= Len(log)
        /\ \A i \in 1 .. (Len(old) - gone) : log[i] = old[gone + i]
        /\ gone > 0 => Len(log) = AuditCapacity
  BY DEF GoesOnFrom
<1>2. PICK now1 \in {0, 1} :
        /\ now1 = 1 <=> Len(log) = AuditCapacity
        /\ Len(new) = Len(log) + 1 - now1
        /\ \A i \in 1 .. (Len(log) - now1) : new[i] = log[i + now1]
  <2>1. \E k \in {0, 1} :
          /\ k = 1 <=> Len(log) = AuditCapacity
          /\ Len(new) = Len(log) + 1 - k
          /\ \A i \in 1 .. (Len(log) - k) : new[i] = log[i + k]
          /\ new[Len(new)] = e
    BY RecordingIs
  <2> QED BY <2>1
<1>3. /\ Len(log) \in Nat /\ Len(old) \in Nat /\ gone \in Nat /\ AuditCapacity \in Nat
      /\ gone <= Len(old) /\ new \in Seq(S) /\ Len(new) \in Nat
  BY NumberAssumption, RecordingType
<1>4. Len(new) <= AuditCapacity
  BY <1>2, <1>3
<1>5. CASE now1 = 0
  <2>1. gone = 0
    BY <1>1, <1>2, <1>3, <1>5
  <2> QED BY <1>1, <1>2, <1>3, <1>4, <1>5, <2>1 DEF GoesOnFrom
<1>6. CASE now1 = 1 /\ gone < Len(old)
  <2>1. gone + 1 \in 0 .. Len(old) /\ Len(old) - (gone + 1) <= Len(new)
    BY <1>1, <1>2, <1>3, <1>6
  <2>2. ASSUME NEW i \in 1 .. (Len(old) - (gone + 1))
        PROVE  new[i] = old[(gone + 1) + i]
    <3>1. i \in 1 .. (Len(log) - 1) /\ i + 1 \in 1 .. (Len(old) - gone)
      BY <1>1, <1>3
    <3>2. new[i] = log[i + 1] /\ log[i + 1] = old[gone + (i + 1)]
      BY <1>1, <1>2, <1>6, <3>1
    <3> QED BY <3>2, <1>3
  <2>3. Len(new) = AuditCapacity
    BY <1>2, <1>3, <1>6
  <2> QED BY <1>4, <2>1, <2>2, <2>3 DEF GoesOnFrom
<1>7. CASE now1 = 1 /\ gone = Len(old)
  <2>1. Len(new) = AuditCapacity /\ Len(old) - gone <= Len(new)
        /\ \A i \in 1 .. (Len(old) - gone) : new[i] = old[gone + i]
    BY <1>2, <1>3, <1>7
  <2> QED BY <1>4, <2>1 DEF GoesOnFrom
<1> QED BY <1>3, <1>5, <1>6, <1>7

LEMMA SaveKeeps ==
  ASSUME TypeOK, LogIsAhead, Save
  PROVE  /\ \A v \in Vault : GoesOnFrom(diskLog[v], diskLog'[v])
         /\ open # NoVault => GoesOnFrom(diskLog'[open], vaultLog)
         /\ \A v \in Vault : Len(diskLog'[v]) <= AuditCapacity
<1>1. vaultLog \in Seq(Entries) /\ \A v \in Vault : diskLog[v] \in Seq(Entries)
  BY DEF TypeOK
<1>2. GoesOnFrom(vaultLog, vaultLog) /\ \A v \in Vault : GoesOnFrom(diskLog[v], diskLog[v])
  BY <1>1, GoesOnFromItself
<1> QED BY <1>2 DEF TypeOK, LogIsAhead, LogsFit, Save

LEMMA LogStep ==
  ASSUME TypeOK, LogIsAhead, [Next]_vars
  PROVE  /\ LogIsAhead'
         /\ \A v \in Vault : GoesOnFrom(diskLog[v], diskLog'[v])
<1>1. vaultLog \in Seq(Entries) /\ \A v \in Vault : diskLog[v] \in Seq(Entries)
  BY DEF TypeOK
<1>2. \A v \in Vault : GoesOnFrom(diskLog[v], diskLog[v])
  BY <1>1, GoesOnFromItself
<1>3. CASE LogKept
  BY <1>2, <1>3 DEF LogKept, LogIsAhead, LogsFit, GoesOnFrom
<1>4. CASE LogSaved
  <2>1. /\ \A v \in Vault : GoesOnFrom(diskLog[v], diskLog'[v])
        /\ open # NoVault => GoesOnFrom(diskLog'[open], vaultLog)
        /\ \A v \in Vault : Len(diskLog'[v]) <= AuditCapacity
    BY <1>4, SaveKeeps DEF LogSaved
  <2> QED BY <1>4, <2>1 DEF LogSaved, LogIsAhead, LogsFit, GoesOnFrom
<1>5. ASSUME NEW r \in Request, PushAudit(r)
      PROVE  /\ LogIsAhead'
             /\ \A v \in Vault : GoesOnFrom(diskLog[v], diskLog'[v])
  <2>1. diskLog' = diskLog /\ open' = open
    BY <1>5 DEF PushAudit, appVars
  <2>2. CASE open = NoVault
    BY <1>2, <1>5, <2>1, <2>2 DEF PushAudit, LogIsAhead, LogsFit
  <2>3. CASE open # NoVault
    <3>1. Entry(r) \in Entries
      BY DEF TypeOK, Entry, Entries, Allow, Served, NoGrant
    <3>2. open \in Vault
      BY <2>3 DEF TypeOK
    <3>3. vaultLog' = Recording(vaultLog, Entry(r))
      BY <1>5, <2>3 DEF PushAudit
    <3>4. GoesOnFrom(diskLog[open], vaultLog') /\ Len(vaultLog') <= AuditCapacity
      BY <1>1, <2>3, <3>1, <3>2, <3>3, PushGoesOn DEF LogIsAhead, LogsFit
    <3> QED BY <1>2, <2>1, <3>4 DEF LogIsAhead, LogsFit, GoesOnFrom
  <2> QED BY <2>2, <2>3
<1>6. CASE \E v \in Vault : Unlock(v)
  BY <1>2, <1>6 DEF Unlock, LogIsAhead, LogsFit, GoesOnFrom
<1>7. CASE Lock
  BY <1>2, <1>7, NumberAssumption DEF Lock, LogIsAhead, LogsFit
<1> QED BY LoggingSteps, <1>3, <1>4, <1>5, <1>6, <1>7

\* No save, by a task or by a command, of whatever vault is open by then,
\* takes a record out of a vault's file, but the oldest of a full one.
THEOREM RecordsAreNeverLost == Spec => SavedEntriesStay
<1>1. Init => LogIsAhead
  BY NumberAssumption DEF Init, LogIsAhead, LogsFit
<1>2. TypeOK /\ LogIsAhead /\ [Next]_vars => LogIsAhead'
  BY LogStep
<1>3. TypeOK /\ LogIsAhead /\ [Next]_vars
        => [\A v \in Vault : GoesOnFrom(diskLog[v], diskLog'[v])]_vars
  BY LogStep
<1> QED BY <1>1, <1>2, <1>3, TypeCorrect, PTL DEF Spec, SavedEntriesStay

-----------------------------------------------------------------------------
(* A request that was served has a record due, and a vault that is open to *)
(* take it, until the record is in a file or has been pushed out of it; or *)
(* else a lock came in between.  The logs are in the order of the pushes:  *)
(* when a record falls out of a full log, what is left came after it.      *)

InOrder(log) ==
  /\ \A i \in DOMAIN log : Pushed(log[i].request)
  /\ \A i, j \in DOMAIN log : i < j => log[j].request \in newer[log[i].request]

LogsInOrder == InOrder(vaultLog) /\ \A v \in Vault : InOrder(diskLog[v])

Recorded(r) ==
  \E v \in Vault : HasOrOutgrew(diskLog[v], r) /\ (open = v => HasOrOutgrew(vaultLog, r))

RecordIsDue(r) ==
  /\ reply[r] \in Served => pc[r] \in {"record", "save", "log", "done"}
  /\ r \notin interrupted =>
       /\ pc[r] = "running" => open # NoVault
       /\ reply[r] \in Served =>
            /\ pc[r] = "record" => open # NoVault
            /\ pc[r] = "save" => open # NoVault /\ HasOrOutgrew(vaultLog, r)
            /\ pc[r] \in {"log", "done"} => Recorded(r)

RecordsAreDue == \A r \in Request : RecordIsDue(r)

\* The record of a request that has one due does not change any more.
LEMMA EntryStays ==
  ASSUME TypeOK, [Next]_vars, NEW r \in Request,
         pc[r] \in {"record", "save", "log", "done"}
  PROVE  reply'[r] = reply[r] => Entry(r)' = Entry(r)
<1>1. decision'[r] = decision[r] /\ allowed'[r] = allowed[r]
  <2>1. CASE Quiet
    BY <2>1 DEF Quiet
  <2>2. ASSUME NEW q \in Request, NEW g \in grants, Reuses(q, g)
        PROVE  decision'[r] = decision[r] /\ allowed'[r] = allowed[r]
    BY <2>2 DEF Reuses, Goto, TypeOK
  <2>3. ASSUME NEW q \in Request, Mint(q)
        PROVE  decision'[r] = decision[r] /\ allowed'[r] = allowed[r]
    BY <2>3 DEF Mint, Goto, TypeOK, promptVars
  <2> QED BY AuthorisingSteps, <2>1, <2>2, <2>3
<1> QED BY <1>1 DEF Entry

\* HasOrOutgrew, by the record and by those that came after it.
HasOr(log, entry, later) ==
  \/ \E i \in DOMAIN log : log[i] = entry
  \/ Len(log) = AuditCapacity /\ \A i \in DOMAIN log : log[i].request \in later

LEMMA HasOrIsThat ==
  /\ \A r \in Request, v \in Vault :
       /\ HasOrOutgrew(diskLog[v], r) <=> HasOr(diskLog[v], Entry(r), newer[r])
       /\ HasOrOutgrew(diskLog[v], r)' <=> HasOr(diskLog'[v], Entry(r)', newer'[r])
  /\ \A r \in Request :
       /\ HasOrOutgrew(vaultLog, r) <=> HasOr(vaultLog, Entry(r), newer[r])
       /\ HasOrOutgrew(vaultLog, r)' <=> HasOr(vaultLog', Entry(r)', newer'[r])
BY DEF HasOrOutgrew, HasOr

LEMMA MoreCameLater ==
  ASSUME NEW log, NEW entry, NEW later, NEW latest, later \subseteq latest,
         HasOr(log, entry, later)
  PROVE  HasOr(log, entry, latest)
BY DEF HasOr

LEMMA PushKeepsOrder ==
  ASSUME NEW log \in Seq(Entries), Len(log) <= AuditCapacity, NEW entry \in Entries,
         NEW new \in Entries, NEW later, NEW latest,
         later \subseteq latest, new.request \in latest, HasOr(log, entry, later),
         \A i, j \in DOMAIN log : log[i] = entry /\ i < j => log[j].request \in later
  PROVE  HasOr(Recording(log, new), entry, latest)
<1> DEFINE longer == Recording(log, new)
<1>1. PICK gone \in {0, 1} :
        /\ gone = 1 <=> Len(log) = AuditCapacity
        /\ Len(longer) = Len(log) + 1 - gone
        /\ \A i \in 1 .. (Len(log) - gone) : longer[i] = log[i + gone]
        /\ longer[Len(longer)] = new
  BY RecordingIs
<1>2. /\ Len(log) \in Nat /\ DOMAIN log = 1 .. Len(log) /\ longer \in Seq(Entries)
      /\ DOMAIN longer = 1 .. Len(longer) /\ Len(longer) \in Nat
  <2>1. longer \in Seq(Entries)
    BY RecordingType
  <2> QED BY <2>1
<1>3. ASSUME NEW k \in DOMAIN log, log[k] = entry, k > gone
      PROVE  HasOr(longer, entry, latest)
  <2>1. k - gone \in 1 .. (Len(log) - gone) /\ (k - gone) + gone = k
    BY <1>2, <1>3
  <2>2. k - gone \in DOMAIN longer /\ longer[k - gone] = entry
    BY <1>1, <1>2, <1>3, <2>1
  <2> QED BY <2>2 DEF HasOr
<1>4. ASSUME gone = 1, \A i \in 2 .. Len(log) : log[i].request \in latest
      PROVE  HasOr(longer, entry, latest)
  <2>1. Len(longer) = AuditCapacity
    BY <1>1, <1>2, <1>4
  <2>2. ASSUME NEW i \in DOMAIN longer PROVE longer[i].request \in latest
    <3>1. CASE i = Len(longer)
      BY <1>1, <3>1
    <3>2. CASE i # Len(longer)
      <4>1. i \in 1 .. (Len(log) - gone) /\ i + gone \in 2 .. Len(log)
        BY <1>1, <1>2, <1>4, <3>2
      <4> QED BY <1>1, <1>4, <4>1
    <3> QED BY <3>1, <3>2
  <2> QED BY <2>1, <2>2 DEF HasOr
<1>5. CASE \E k \in DOMAIN log : log[k] = entry
  <2>1. PICK k \in DOMAIN log : log[k] = entry
    BY <1>5
  <2>2. CASE k > gone
    BY <1>3, <2>1, <2>2
  <2>3. CASE ~(k > gone)
    <3>1. k = 1 /\ gone = 1
      BY <1>2, <2>3
    <3>2. \A i \in 2 .. Len(log) : log[i].request \in latest
      BY <1>2, <2>1, <3>1
    <3> QED BY <1>4, <3>1, <3>2
  <2> QED BY <2>2, <2>3
<1>6. CASE Len(log) = AuditCapacity /\ \A i \in DOMAIN log : log[i].request \in later
  BY <1>1, <1>2, <1>4, <1>6
<1> QED BY <1>5, <1>6 DEF HasOr

LEMMA PushHas ==
  ASSUME NEW log \in Seq(Entries), Len(log) <= AuditCapacity, NEW entry \in Entries,
         NEW later
  PROVE  HasOr(Recording(log, entry), entry, later)
<1> DEFINE longer == Recording(log, entry)
<1>1. PICK gone \in {0, 1} :
        /\ gone = 1 <=> Len(log) = AuditCapacity
        /\ Len(longer) = Len(log) + 1 - gone
        /\ longer[Len(longer)] = entry
  BY RecordingIs
<1>2. Len(log) \in Nat /\ longer \in Seq(Entries) /\ DOMAIN longer = 1 .. Len(longer)
  BY RecordingType
<1>3. Len(longer) \in DOMAIN longer
  BY <1>1, <1>2, NumberAssumption
<1> QED BY <1>1, <1>3 DEF HasOr

\* Whose record was pushed once, it stays so.
LEMMA PushedStays ==
  ASSUME TypeOK, [Next]_vars, NEW q \in Request, Pushed(q)
  PROVE  Pushed(q)'
<1> USE DEF Pushed, TypeOK, Goto
<1>1. ASSUME NEW r \in Request, List(r) \/ Receive(r) \/ Resolve(r) \/ Redeem(r) \/ Ask(r)
      PROVE  Pushed(q)'
  BY <1>1 DEF List, Receive, Resolve, Redeem, Ask
<1>2. ASSUME NEW r \in Request, Timeout(r) \/ Denied(r) \/ Mint(r) \/ CheckUnlocked(r)
             \/ RevokeOwn(r)
      PROVE  Pushed(q)'
  BY <1>2 DEF Timeout, Denied, Mint, CheckUnlocked, RevokeOwn
<1>3. ASSUME NEW r \in Request, Fetch(r) \/ CommandEnds(r) \/ PushAudit(r) \/ SaveAudit(r)
             \/ LogAudit(r)
      PROVE  Pushed(q)'
  BY <1>3 DEF Fetch, CommandEnds, PushAudit, SaveAudit, LogAudit
<1>4. CASE \/ \E v \in Vault : Unlock(v)
           \/ RestoreAudit \/ Lock \/ AbandonAll \/ ForgetGrants \/ ForgetLog \/ Tick
           \/ \E r \in Request, choice \in {"deny"} \cup Allow : Answer(r, choice)
           \/ \E r \in Request : AnswerTooLate(r)
           \/ \E g \in grants : RevokeGrant(g)
           \/ \E t \in Target : Edit(t)
           \/ UNCHANGED vars
  <2>1. pc' = pc
    BY <1>4 DEF Unlock, RestoreAudit, Lock, AbandonAll, ForgetGrants, ForgetLog, Tick,
                Answer, AnswerTooLate, RevokeGrant, Edit, vars
  <2> QED BY <2>1
<1> QED BY NextCases, <1>1, <1>2, <1>3, <1>4

LEMMA NewerGrows ==
  ASSUME TypeOK, [Next]_vars, NEW q \in Request
  PROVE  newer[q] \subseteq newer'[q]
<1>1. CASE LogKept \/ LogSaved \/ Lock \/ \E v \in Vault : Unlock(v)
  BY <1>1 DEF LogKept, LogSaved, Lock, Unlock
<1>2. ASSUME NEW r \in Request, PushAudit(r) PROVE newer[q] \subseteq newer'[q]
  BY <1>2 DEF PushAudit
<1> QED BY <1>1, <1>2, LoggingSteps

LEMMA OrderStep ==
  ASSUME TypeOK, LogIsAhead, LogsInOrder, [Next]_vars
  PROVE  LogsInOrder'
<1> DEFINE Ordered(log) ==
             /\ \A i \in DOMAIN log : pc'[log[i].request] \in {"save", "log", "done"}
             /\ \A i, j \in DOMAIN log : i < j => log[j].request \in newer'[log[i].request]
<1>1. Ordered(vaultLog) /\ \A v \in Vault : Ordered(diskLog[v])
  <2>1. \A q \in Request : newer[q] \subseteq newer'[q]
          /\ (Pushed(q) => pc'[q] \in {"save", "log", "done"})
    BY NewerGrows, PushedStays DEF Pushed
  <2>2. /\ \A i \in DOMAIN vaultLog : vaultLog[i].request \in Request
        /\ \A v \in Vault : \A i \in DOMAIN diskLog[v] : diskLog[v][i].request \in Request
    <3>1. /\ \A i \in DOMAIN vaultLog : vaultLog[i] \in Entries
          /\ \A v \in Vault : \A i \in DOMAIN diskLog[v] : diskLog[v][i] \in Entries
      <4>1. vaultLog \in Seq(Entries) /\ \A v \in Vault : diskLog[v] \in Seq(Entries)
        BY DEF TypeOK
      <4> QED BY <4>1
    <3> QED BY <3>1 DEF Entries
  <2>3. Ordered(vaultLog)
    BY <2>1, <2>2 DEF LogsInOrder, InOrder
  <2>4. ASSUME NEW v \in Vault PROVE Ordered(diskLog[v])
    BY <2>1, <2>2 DEF LogsInOrder, InOrder
  <2> QED BY <2>3, <2>4
<1>2. SUFFICES Ordered(vaultLog') /\ \A v \in Vault : Ordered(diskLog'[v])
  <2>1. InOrder(vaultLog)' <=> Ordered(vaultLog')
    BY DEF InOrder, Pushed
  <2>2. \A v \in Vault : InOrder(diskLog[v])' <=> Ordered(diskLog'[v])
    BY DEF InOrder, Pushed
  <2> HIDE DEF Ordered
  <2> QED BY <2>1, <2>2 DEF LogsInOrder
<1> HIDE DEF Ordered
<1>3. CASE LogKept
  BY <1>1, <1>3 DEF LogKept
<1>4. CASE LogSaved
  BY <1>1, <1>4 DEF LogSaved, Save, TypeOK
<1>5. CASE \E v \in Vault : Unlock(v)
  BY <1>1, <1>5 DEF Unlock
<1>6. CASE Lock
  <2>1. Ordered(<<>>)
    BY DEF Ordered
  <2> QED BY <1>1, <1>6, <2>1 DEF Lock
<1>7. ASSUME NEW r \in Request, PushAudit(r)
      PROVE  Ordered(vaultLog') /\ \A v \in Vault : Ordered(diskLog'[v])
  <2>1. diskLog' = diskLog
    BY <1>7 DEF PushAudit
  <2>2. CASE open = NoVault
    BY <1>1, <1>7, <2>1, <2>2 DEF PushAudit
  <2>3. CASE open # NoVault
    <3> DEFINE longer == Recording(vaultLog, Entry(r))
    <3>1. Entry(r) \in Entries /\ Entry(r).request = r
      BY DEF TypeOK, Entry, Entries, Allow, Served, NoGrant
    <3>2. vaultLog \in Seq(Entries) /\ Len(vaultLog) <= AuditCapacity
      BY DEF TypeOK, LogIsAhead, LogsFit
    <3>3. PICK gone \in {0, 1} :
            /\ Len(longer) = Len(vaultLog) + 1 - gone
            /\ \A i \in 1 .. (Len(vaultLog) - gone) : longer[i] = vaultLog[i + gone]
            /\ longer[Len(longer)] = Entry(r)
      BY <3>1, <3>2, RecordingIs
    <3>4. /\ longer \in Seq(Entries) /\ DOMAIN longer = 1 .. Len(longer)
          /\ DOMAIN vaultLog = 1 .. Len(vaultLog) /\ Len(vaultLog) \in Nat
          /\ Len(longer) \in Nat
      BY <3>1, <3>2, RecordingType
    <3>5. ASSUME NEW i \in DOMAIN longer
          PROVE  \/ i = Len(longer)
                 \/ i < Len(longer) /\ i + gone \in DOMAIN vaultLog
                    /\ longer[i] = vaultLog[i + gone]
      <4>1. CASE i < Len(longer)
        <5>1. i \in 1 .. (Len(vaultLog) - gone) /\ i + gone \in 1 .. Len(vaultLog)
          BY <3>3, <3>4, <4>1
        <5> QED BY <3>3, <3>4, <4>1, <5>1
      <4> QED BY <3>4, <4>1
    <3>6. pc'[r] \in {"save", "log", "done"}
      BY <1>7 DEF PushAudit, Goto, Pushed, TypeOK
    <3>7. \A k \in DOMAIN vaultLog : r \in newer'[vaultLog[k].request]
      <4>1. \A k \in DOMAIN vaultLog :
              vaultLog[k].request \in Request /\ Pushed(vaultLog[k].request)
        <5>1. \A k \in DOMAIN vaultLog : vaultLog[k] \in Entries
          BY <3>2
        <5> QED BY <5>1 DEF LogsInOrder, InOrder, Entries
      <4> QED BY <1>7, <2>3, <4>1 DEF PushAudit
    <3>8. \A i \in DOMAIN longer : pc'[longer[i].request] \in {"save", "log", "done"}
      <4> SUFFICES ASSUME NEW i \in DOMAIN longer
                   PROVE  pc'[longer[i].request] \in {"save", "log", "done"}
        OBVIOUS
      <4>1. CASE i = Len(longer)
        <5>1. longer[i].request = r
          BY <3>1, <3>3, <4>1
        <5> QED BY <3>6, <5>1
      <4>2. CASE i # Len(longer)
        <5>1. i + gone \in DOMAIN vaultLog /\ longer[i] = vaultLog[i + gone]
          BY <3>5, <4>2
        <5>2. pc'[vaultLog[i + gone].request] \in {"save", "log", "done"}
          BY <1>1, <5>1 DEF Ordered
        <5> QED BY <5>1, <5>2
      <4> QED BY <4>1, <4>2
    <3>9. ASSUME NEW i \in DOMAIN longer, NEW j \in DOMAIN longer, i < j
          PROVE  longer[j].request \in newer'[longer[i].request]
      <4>1. i + gone \in DOMAIN vaultLog /\ longer[i] = vaultLog[i + gone]
        BY <3>4, <3>5, <3>9
      <4>2. CASE j = Len(longer)
        BY <3>1, <3>3, <3>7, <4>1, <4>2
      <4>3. CASE j # Len(longer)
        <5>1. j + gone \in DOMAIN vaultLog /\ longer[j] = vaultLog[j + gone]
              /\ i + gone < j + gone
          BY <3>4, <3>5, <3>9, <4>3
        <5> QED BY <1>1, <4>1, <5>1 DEF Ordered
      <4> QED BY <4>2, <4>3
    <3>10. Ordered(longer)
      BY <3>8, <3>9 DEF Ordered
    <3>11. vaultLog' = longer
      BY <1>7, <2>3 DEF PushAudit
    <3> QED BY <1>1, <2>1, <3>10, <3>11
  <2> QED BY <2>2, <2>3
<1> QED BY LoggingSteps, <1>3, <1>4, <1>5, <1>6, <1>7

\* A record made is in the log of the open vault, or was pushed out of it,
\* whatever is pushed after it.
LEMMA StillHas ==
  ASSUME TypeOK, LogIsAhead, LogsInOrder, [Next]_vars, NEW r \in Request, Pushed(r),
         Entry(r)' = Entry(r), HasOrOutgrew(vaultLog, r),
         vaultLog' = vaultLog \/ \E q \in Request : PushAudit(q)
  PROVE  HasOrOutgrew(vaultLog, r)'
<1>1. HasOr(vaultLog, Entry(r), newer[r]) /\ newer[r] \subseteq newer'[r]
  BY HasOrIsThat, NewerGrows
<1>2. CASE vaultLog' = vaultLog
  BY <1>1, <1>2, HasOrIsThat, MoreCameLater
<1>3. ASSUME NEW q \in Request, PushAudit(q), open # NoVault
      PROVE  HasOrOutgrew(vaultLog, r)'
  <2>1. /\ Entry(q) \in Entries /\ Entry(q).request = q
        /\ Entry(r) \in Entries /\ Entry(r).request = r
    BY DEF TypeOK, Entry, Entries, Allow, Served, NoGrant
  <2>2. q \in newer'[r] /\ vaultLog' = Recording(vaultLog, Entry(q))
    BY <1>3 DEF PushAudit, TypeOK
  <2>3. \A i, j \in DOMAIN vaultLog :
          vaultLog[i] = Entry(r) /\ i < j => vaultLog[j].request \in newer[r]
    BY <2>1 DEF LogsInOrder, InOrder
  <2>4. vaultLog \in Seq(Entries) /\ Len(vaultLog) <= AuditCapacity
    BY DEF TypeOK, LogIsAhead, LogsFit
  <2>5. HasOr(vaultLog', Entry(r), newer'[r])
    BY <1>1, <2>1, <2>2, <2>3, <2>4, PushKeepsOrder
  <2> QED BY <2>5, HasOrIsThat
<1> QED BY <1>2, <1>3 DEF PushAudit

\* And in a file, once it is in one.
LEMMA StillRecorded ==
  ASSUME TypeOK, LogIsAhead, LogsInOrder, [Next]_vars, NEW r \in Request, Pushed(r),
         Entry(r)' = Entry(r), Recorded(r)
  PROVE  Recorded(r)'
<1>1. PICK v \in Vault :
        HasOrOutgrew(diskLog[v], r) /\ (open = v => HasOrOutgrew(vaultLog, r))
  BY DEF Recorded
<1>2. newer[r] \subseteq newer'[r]
  BY NewerGrows
<1>3. diskLog'[v] = diskLog[v] => HasOrOutgrew(diskLog[v], r)'
  BY <1>1, <1>2, HasOrIsThat, MoreCameLater
<1>4. CASE LogKept
  BY <1>1, <1>3, <1>4, StillHas DEF LogKept, Recorded
<1>5. CASE LogSaved
  <2>1. vaultLog' = vaultLog /\ open' = open
    BY <1>5 DEF LogSaved
  <2>2. open = v => HasOrOutgrew(vaultLog, r)'
    BY <1>1, <2>1, StillHas
  <2>3. diskLog'[v] = diskLog[v] \/ (open = v /\ diskLog'[v] = vaultLog)
    BY <1>5 DEF LogSaved, Save, TypeOK
  <2>4. HasOrOutgrew(diskLog[v], r)'
    BY <1>3, <2>1, <2>2, <2>3, HasOrIsThat
  <2> QED BY <2>1, <2>2, <2>4 DEF Recorded
<1>6. ASSUME NEW q \in Request, PushAudit(q) PROVE Recorded(r)'
  <2>1. diskLog' = diskLog /\ open' = open
    BY <1>6 DEF PushAudit, appVars
  <2>2. open = v => HasOrOutgrew(vaultLog, r)'
    BY <1>1, <1>6, StillHas
  <2> QED BY <1>3, <2>1, <2>2 DEF Recorded
<1>7. ASSUME NEW w \in Vault, Unlock(w) PROVE Recorded(r)'
  <2>1. diskLog' = diskLog /\ open' = w /\ vaultLog' = diskLog[w]
    BY <1>7 DEF Unlock
  <2>2. HasOrOutgrew(diskLog[v], r)'
    BY <1>3, <2>1
  <2>3. w = v => HasOrOutgrew(vaultLog, r)'
    BY <2>1, <2>2, HasOrIsThat
  <2> QED BY <2>1, <2>2, <2>3 DEF Recorded
<1>8. CASE Lock
  <2>1. diskLog' = diskLog /\ open' = NoVault
    BY <1>8 DEF Lock
  <2> QED BY <1>3, <2>1, VaultAssumption DEF Recorded
<1> QED BY LoggingSteps, <1>4, <1>5, <1>6, <1>7, <1>8

\* A request that a step does not move, while vaults stay as they are.
LEMMA StillDue ==
  ASSUME TypeOK, LogIsAhead, LogsInOrder, [Next]_vars, NEW r \in Request, RecordIsDue(r),
         reply'[r] = reply[r], pc'[r] = pc[r],
         interrupted \subseteq interrupted',
         open # NoVault /\ r \notin interrupted'
             /\ pc[r] \in {"running", "record", "save"}
           => open' # NoVault /\ (vaultLog' = vaultLog \/ \E q \in Request : PushAudit(q))
  PROVE  RecordIsDue(r)'
<1>1. reply[r] \in Served => Entry(r)' = Entry(r)
  BY EntryStays DEF RecordIsDue
<1>2. reply[r] \in Served /\ r \notin interrupted /\ pc[r] \in {"log", "done"} => Recorded(r)'
  BY <1>1, StillRecorded DEF RecordIsDue, Pushed
<1>3. reply[r] \in Served /\ r \notin interrupted' /\ pc[r] = "save"
        => open' # NoVault /\ HasOrOutgrew(vaultLog, r)'
  BY <1>1, StillHas DEF RecordIsDue, Pushed
<1> QED BY <1>2, <1>3 DEF RecordIsDue

\* A task's step, between the lock's.
LEMMA TaskDue ==
  ASSUME ~DiskFails, TypeOK, LogIsAhead, LogsInOrder, NEW r \in Request,
         RecordIsDue(r), [Next]_vars,
         \/ List(r) \/ Receive(r) \/ Resolve(r) \/ Redeem(r) \/ Ask(r) \/ Timeout(r)
         \/ Denied(r) \/ Mint(r) \/ CheckUnlocked(r) \/ RevokeOwn(r) \/ Fetch(r)
         \/ CommandEnds(r) \/ PushAudit(r) \/ SaveAudit(r) \/ LogAudit(r)
  PROVE  RecordIsDue(r)'
<1>1. CASE List(r) \/ Receive(r) \/ Resolve(r)
  BY <1>1 DEF RecordIsDue, List, Receive, Resolve, Goto, Answered, TypeOK, Served
<1>2. CASE Redeem(r) \/ Ask(r) \/ Timeout(r) \/ Denied(r) \/ Mint(r)
  BY <1>2 DEF RecordIsDue, Redeem, Ask, Timeout, Denied, Mint, Goto, Answered, TypeOK,
              Served
<1>3. CASE CheckUnlocked(r) \/ RevokeOwn(r)
  BY <1>3 DEF RecordIsDue, CheckUnlocked, RevokeOwn, Goto, Answered, TypeOK, Served
<1>4. CASE Fetch(r)
  BY <1>4 DEF RecordIsDue, Fetch, HasValue, Goto, Answered, TypeOK, Served, appVars
<1>5. CASE CommandEnds(r)
  BY <1>5 DEF RecordIsDue, CommandEnds, Goto, Answered, TypeOK, Served, appVars
<1>6. CASE PushAudit(r)
  <2>1. reply' = reply /\ pc[r] = "record" /\ pc'[r] = "save" /\ UNCHANGED appVars
        /\ (open # NoVault => vaultLog' = Recording(vaultLog, Entry(r)))
    BY <1>6 DEF PushAudit, Goto, TypeOK
  <2>2. Entry(r)' = Entry(r)
    BY <2>1, EntryStays
  <2>3. /\ Entry(r) \in Entries
        /\ vaultLog \in Seq(Entries) /\ Len(vaultLog) <= AuditCapacity
    BY DEF TypeOK, LogIsAhead, LogsFit, Entry, Entries, Allow, Served, NoGrant
  <2>4. open # NoVault => HasOrOutgrew(vaultLog, r)'
    BY <2>1, <2>2, <2>3, PushHas, HasOrIsThat
  <2> QED BY <2>1, <2>4 DEF RecordIsDue, appVars
<1>7. CASE SaveAudit(r)
  <2>1. reply' = reply /\ pc[r] = "save" /\ pc'[r] = "log" /\ UNCHANGED appVars /\ Save
    BY <1>7 DEF SaveAudit, Goto, TypeOK
  <2>2. Entry(r)' = Entry(r)
    BY <2>1, EntryStays
  <2>3. open # NoVault => open \in Vault /\ diskLog'[open] = vaultLog
    BY <2>1 DEF Save, TypeOK
  <2>4. vaultLog' = vaultLog /\ open' = open
    BY <1>7 DEF SaveAudit, appVars
  <2>5. HasOrOutgrew(vaultLog, r) => HasOrOutgrew(vaultLog, r)'
    BY <2>1, <2>2, <2>4, StillHas DEF Pushed
  <2>6. open # NoVault /\ HasOrOutgrew(vaultLog, r) => Recorded(r)'
    BY <2>3, <2>4, <2>5, HasOrIsThat DEF Recorded
  <2> QED BY <2>1, <2>6 DEF RecordIsDue, appVars
<1>8. CASE LogAudit(r)
  <2>1. reply' = reply /\ pc[r] = "log" /\ pc'[r] = "done" /\ UNCHANGED <<appVars, diskLog>>
    BY <1>8 DEF LogAudit, Goto, TypeOK
  <2>2. Entry(r)' = Entry(r)
    BY <2>1, EntryStays
  <2>3. Recorded(r) => Recorded(r)'
    BY <2>1, <2>2, StillRecorded DEF Pushed
  <2> QED BY <2>1, <2>3 DEF RecordIsDue, appVars
<1> QED BY <1>1, <1>2, <1>3, <1>4, <1>5, <1>6, <1>7, <1>8

LEMMA DueStep ==
  ASSUME ~DiskFails, TypeOK, LogIsAhead, LogsInOrder, RecordsAreDue, [Next]_vars
  PROVE  RecordsAreDue'
<1> USE DEF RecordsAreDue
<1>1. ASSUME NEW q \in Request,
             \/ List(q) \/ Receive(q) \/ Resolve(q) \/ Redeem(q) \/ Ask(q) \/ Timeout(q)
             \/ Denied(q) \/ Mint(q) \/ CheckUnlocked(q) \/ RevokeOwn(q) \/ Fetch(q)
             \/ CommandEnds(q) \/ PushAudit(q) \/ SaveAudit(q) \/ LogAudit(q)
      PROVE  RecordsAreDue'
  <2> SUFFICES ASSUME NEW r \in Request PROVE RecordIsDue(r)'
    OBVIOUS
  <2>1. CASE r = q
    BY <1>1, <2>1, TaskDue
  <2>2. CASE r # q
    <3>1. /\ reply'[r] = reply[r] /\ pc'[r] = pc[r] /\ UNCHANGED <<open, interrupted>>
          /\ vaultLog' = vaultLog \/ PushAudit(q)
      BY <1>1, <2>2
      DEF List, Receive, Resolve, Redeem, Ask, Timeout, Denied, Mint, CheckUnlocked,
          RevokeOwn, Fetch, CommandEnds, PushAudit, SaveAudit, LogAudit, Goto, Answered,
          TypeOK, appVars, logVars
    <3> QED BY <3>1, StillDue
  <2> QED BY <2>1, <2>2
<1>2. CASE Lock
  <2> SUFFICES ASSUME NEW r \in Request PROVE RecordIsDue(r)'
    OBVIOUS
  <2>1. /\ UNCHANGED <<reply, pc>> /\ interrupted \subseteq interrupted'
        /\ pc[r] \in {"running", "record", "save"} => r \in interrupted'
    BY <1>2 DEF Lock
  <2> QED BY <2>1, StillDue
<1>3. CASE \E v \in Vault : Unlock(v)
  <2> SUFFICES ASSUME NEW r \in Request PROVE RecordIsDue(r)'
    OBVIOUS
  <2>1. UNCHANGED <<reply, pc, interrupted>> /\ open = NoVault
    BY <1>3 DEF Unlock
  <2> QED BY <2>1, StillDue
<1>4. CASE \/ RestoreAudit \/ AbandonAll \/ ForgetGrants \/ ForgetLog \/ Tick
           \/ \E r \in Request, choice \in {"deny"} \cup Allow : Answer(r, choice)
           \/ \E r \in Request : AnswerTooLate(r)
           \/ \E g \in grants : RevokeGrant(g)
           \/ \E t \in Target : Edit(t)
           \/ UNCHANGED vars
  <2> SUFFICES ASSUME NEW r \in Request PROVE RecordIsDue(r)'
    OBVIOUS
  <2>1. UNCHANGED <<reply, pc, interrupted, open, vaultLog>>
    BY <1>4 DEF RestoreAudit, AbandonAll, ForgetGrants, ForgetLog, Tick, Answer,
                AnswerTooLate, RevokeGrant, Edit, vars, appVars, logVars
  <2> QED BY <2>1, StillDue
<1> QED BY NextCases, <1>1, <1>2, <1>3, <1>4

\* On a disk that takes what is written, a request that was given its secret,
\* or had its command run with it, is on record in a vault's file by the time
\* it is answered: only a lock that falls in between can prevent it.
THEOREM ServedIsRecorded ==
  ASSUME ~DiskFails PROVE Spec => []AuditedUnlessInterrupted
<1> DEFINE LogInv == LogIsAhead /\ LogsInOrder /\ RecordsAreDue
<1>1. Init => LogInv
  BY NumberAssumption
  DEF Init, LogIsAhead, LogsFit, LogsInOrder, InOrder, RecordsAreDue, RecordIsDue, Served
<1>2. TypeOK /\ LogInv /\ [Next]_vars => LogInv'
  BY LogStep, OrderStep, DueStep
<1>3. LogInv => AuditedUnlessInterrupted
  BY DEF RecordsAreDue, RecordIsDue, Recorded, AuditedUnlessInterrupted
<1> QED BY <1>1, <1>2, <1>3, TypeCorrect, PTL DEF Spec

-----------------------------------------------------------------------------
(* The refinement: Broker implements Consent.  Every use an answer bought   *)
(* is one of the store's, or was taken by a request that was let through:   *)
(* the counts of the mapping move together.                                 *)

\* The uses a grant still has, told apart by the grant and the use; and whose
\* they are: what one program may do with one target under one scope.
UseOf(g) == {g.id} \X ((g.uses + 1) .. g.max)
KeyOf(g) == [client |-> g.client, target |-> g.target, scope |-> g.scope]

\* The uses of a key that are left in a store.
LeftIn(store, k) == UNION {UseOf(g) : g \in {h \in store : KeyOf(h) = k}}

\* Requests let through, and uses answered for.
LetThrough(k) == {r \in Request : want[r] = k /\ allowed[r] # NoGrant}
BoughtFor(k) == UNION {Bought(r) : r \in {q \in Request : want[q] = k}}

\* Nobody gets an answer before asking.
NoAnswerUnasked == \A r \in Request : pc[r] \in Unasked => decision[r] = "none"

LEMMA UnaskedStep ==
  ASSUME TypeOK, NoAnswerUnasked, [Next]_vars
  PROVE  NoAnswerUnasked'
<1>1. CASE Quiet
  BY <1>1 DEF Quiet, NoAnswerUnasked, Unasked
<1>2. ASSUME NEW r \in Request, NEW g \in grants, Reuses(r, g)
      PROVE  NoAnswerUnasked'
  BY <1>2 DEF Reuses, NoAnswerUnasked, Goto, TypeOK, Unasked
<1>3. ASSUME NEW r \in Request, Mint(r) PROVE NoAnswerUnasked'
  BY <1>3 DEF Mint, NoAnswerUnasked, Goto, TypeOK, Unasked, promptVars
<1> QED BY AuthorisingSteps, <1>1, <1>2, <1>3

\* Grants are told apart by their ids.
Numbered(store) ==
  /\ store \in SUBSET Grant
  /\ \A g \in store : g.id <= issued
  /\ \A g, h \in store : g.id = h.id => g = h

\* Taking a use takes it from its key, and from no other.
LEMMA ChargeTakesOne ==
  ASSUME NEW store \in SUBSET Grant, \A g, h \in store : g.id = h.id => g = h,
         NEW g \in store, g.uses < g.max
  PROVE  /\ Charge(store, g) \in SUBSET Grant
         /\ \A h, j \in Charge(store, g) : h.id = j.id => h = j
         /\ \A h \in Charge(store, g) : \E j \in store : h.id = j.id
         /\ \A k : LeftIn(Charge(store, g), k) \subseteq LeftIn(store, k)
         /\ <<g.id, g.uses + 1>> \in LeftIn(store, KeyOf(g))
         /\ <<g.id, g.uses + 1>> \notin LeftIn(Charge(store, g), KeyOf(g))
<1> DEFINE c == [g EXCEPT !.uses = @ + 1]
<1>1. /\ c \in Grant /\ c.id = g.id /\ c.uses = g.uses + 1 /\ c.max = g.max
      /\ KeyOf(c) = KeyOf(g) /\ g \in Grant
  BY DEF Grant, KeyOf
<1>2. Charge(store, g) = (store \ {g}) \cup {c}
  BY DEF Charge
<1>3. /\ Charge(store, g) \in SUBSET Grant
      /\ \A h, j \in Charge(store, g) : h.id = j.id => h = j
      /\ \A h \in Charge(store, g) : \E j \in store : h.id = j.id
  BY <1>1, <1>2
<1>4. g.uses \in Nat /\ g.max \in Nat /\ UseOf(c) \subseteq UseOf(g)
      /\ <<g.id, g.uses + 1>> \in UseOf(g) /\ <<g.id, g.uses + 1>> \notin UseOf(c)
  BY <1>1 DEF Grant, UseOf
<1>5. \A k : LeftIn(Charge(store, g), k) \subseteq LeftIn(store, k)
  BY <1>1, <1>2, <1>4 DEF LeftIn
<1>6. <<g.id, g.uses + 1>> \in LeftIn(store, KeyOf(g))
  BY <1>4 DEF LeftIn
<1>7. ASSUME <<g.id, g.uses + 1>> \in LeftIn(Charge(store, g), KeyOf(g)) PROVE FALSE
  <2>1. PICK h \in Charge(store, g) : <<g.id, g.uses + 1>> \in UseOf(h)
    BY <1>7 DEF LeftIn
  <2>2. h.id = g.id
    BY <2>1 DEF UseOf
  <2>3. h = c
    BY <1>1, <1>3, <1>2, <2>2
  <2> QED BY <1>4, <2>1, <2>3
<1> QED BY <1>3, <1>5, <1>6, <1>7

LEMMA LessIsWellFounded == IsWellFoundedOn({ss \in Nat \X Nat : ss[1] < ss[2]}, Nat)
BY NatLessThanWellFounded DEF OpToRel

LEMMA LeastId ==
  ASSUME NEW store \in SUBSET Grant, NEW w, NEW t, Matching(store, w, t) # {}
  PROVE  Redeemable(store, w, t) # {}
<1> DEFINE ids == {g.id : g \in Matching(store, w, t)}
<1>1. ids \subseteq Nat /\ ids # {}
  BY DEF Matching, Grant
<1>2. PICK i \in ids : \A j \in ids : ~ (<<j, i>> \in {ss \in Nat \X Nat : ss[1] < ss[2]})
  BY <1>1, LessIsWellFounded, WFMin
<1>3. ASSUME NEW j \in ids PROVE i <= j
  <2>1. i \in Nat /\ j \in Nat
    BY <1>1
  <2>2. j < i => <<j, i>> \in {ss \in Nat \X Nat : ss[1] < ss[2]}
    BY <2>1
  <2> QED BY <1>2, <2>1, <2>2
<1>4. PICK g \in Matching(store, w, t) : g.id = i
  OBVIOUS
<1> QED BY <1>3, <1>4 DEF Redeemable

LEMMA LeftShrinks ==
  ASSUME NEW store, NEW smaller \in SUBSET store, NEW k
  PROVE  LeftIn(smaller, k) \subseteq LeftIn(store, k)
BY DEF LeftIn

\* A finite set that loses an element.
LEMMA LosesOne ==
  ASSUME NEW S, IsFiniteSet(S), NEW x \in S, NEW T \in SUBSET S, x \notin T
  PROVE  IsFiniteSet(T) /\ Cardinality(T) + 1 <= Cardinality(S)
<1>1. IsFiniteSet(S \ {x}) /\ Cardinality(S \ {x}) = Cardinality(S) - 1
  BY FS_RemoveElement
<1>2. T \in SUBSET (S \ {x})
  OBVIOUS
<1>3. IsFiniteSet(T) /\ Cardinality(T) <= Cardinality(S \ {x})
  BY <1>1, <1>2, FS_Subset
<1>4. Cardinality(T) \in Nat /\ Cardinality(S) \in Nat
  BY <1>3, FS_CardinalityType
<1> QED BY <1>1, <1>3, <1>4

LEMMA CountPairs ==
  ASSUME NEW a, NEW n \in Nat
  PROVE  IsFiniteSet({a} \X (1 .. n)) /\ Cardinality({a} \X (1 .. n)) = n
<1>1. IsFiniteSet(1 .. n) /\ Cardinality(1 .. n) = n
  BY FS_Interval
<1>2. IsFiniteSet({a}) /\ Cardinality({a}) = 1
  BY FS_Singleton
<1>3. /\ IsFiniteSet({a} \X (1 .. n))
      /\ Cardinality({a} \X (1 .. n)) = Cardinality({a}) * Cardinality(1 .. n)
  BY <1>1, <1>2, FS_Product, Zenon
<1>4. 1 * n = n
  OBVIOUS
<1> QED BY <1>1, <1>2, <1>3, <1>4

-----------------------------------------------------------------------------
\* What is left in the store of an identified program was answered for, and
\* has not been used.
Backed(k) ==
  /\ IsFiniteSet(LeftIn(grants, k))
  /\ Cardinality(LeftIn(grants, k)) + Cardinality(LetThrough(k))
       <= Cardinality(BoughtFor(k))

ConsentInv ==
  /\ TypeOK
  /\ NoGrantUnanswered
  /\ NoAnswerUnasked
  /\ Numbered(grants)
  /\ \A k \in Access : k.client \in Program => Backed(k)

LEMMA FiniteCounts ==
  ASSUME NEW k
  PROVE  /\ IsFiniteSet(LetThrough(k)) /\ Cardinality(LetThrough(k)) \in Nat
         /\ IsFiniteSet(BoughtFor(k)) /\ Cardinality(BoughtFor(k)) \in Nat
<1>1. IsFiniteSet(LetThrough(k))
  <2>1. LetThrough(k) \in SUBSET Request
    BY DEF LetThrough
  <2> QED BY <2>1, RequestAssumption, FS_Subset
<1>2. IsFiniteSet(BoughtFor(k))
  <2>1. BoughtFor(k) \in SUBSET (Request \X (1 .. WindowUses))
    BY NumberAssumption DEF BoughtFor, Bought
  <2>2. IsFiniteSet(1 .. WindowUses)
    BY NumberAssumption, FS_Interval
  <2>3. IsFiniteSet(Request \X (1 .. WindowUses))
    BY <2>2, RequestAssumption, FS_Product
  <2> QED BY <2>1, <2>3, FS_Subset
<1> QED BY <1>1, <1>2, FS_CardinalityType

\* A step about no key's consent.
LEMMA QuietConsent ==
  ASSUME ConsentInv, Quiet
  PROVE  /\ \A k : LetThrough(k)' = LetThrough(k) /\ BoughtFor(k)' = BoughtFor(k)
         /\ \A k : LeftIn(grants', k) \subseteq LeftIn(grants, k)
         /\ Numbered(grants)'
<1>1. \A r \in Request : Bought(r)' = Bought(r)
  BY DEF Quiet, ConsentInv, NoGrantUnanswered, Unanswered, Bought
<1>2. \A k : LetThrough(k)' = LetThrough(k)
  BY DEF Quiet, LetThrough
<1>3. \A k : BoughtFor(k)' = BoughtFor(k)
  BY <1>1 DEF Quiet, BoughtFor
<1>4. \A k : LeftIn(grants', k) \subseteq LeftIn(grants, k)
  BY LeftShrinks DEF Quiet
<1>5. Numbered(grants)'
  BY DEF Quiet, ConsentInv, Numbered
<1> QED BY <1>2, <1>3, <1>4, <1>5

\* A request that is let through joins those of its key.
LEMMA OneMoreThrough ==
  ASSUME ConsentInv, NEW r \in Request, NEW id \in Nat \ {0}, allowed[r] = NoGrant,
         allowed' = [allowed EXCEPT ![r] = id], UNCHANGED want
  PROVE  /\ \A k : k # want[r] => LetThrough(k)' = LetThrough(k)
         /\ LetThrough(want[r])' = LetThrough(want[r]) \cup {r}
         /\ Cardinality(LetThrough(want[r])') = Cardinality(LetThrough(want[r])) + 1
<1>1. /\ \A k : k # want[r] => LetThrough(k)' = LetThrough(k)
      /\ LetThrough(want[r])' = LetThrough(want[r]) \cup {r}
      /\ r \notin LetThrough(want[r])
  BY DEF LetThrough, ConsentInv, TypeOK, NoGrant
<1>2. IsFiniteSet(LetThrough(want[r]))
  BY FiniteCounts
<1>3. Cardinality(LetThrough(want[r]) \cup {r}) = Cardinality(LetThrough(want[r])) + 1
  BY <1>1, <1>2, FS_AddElement
<1> QED BY <1>1, <1>3

LEMMA ReuseConsent ==
  ASSUME ConsentInv, NEW r \in Request, NEW g \in grants, Reuses(r, g)
  PROVE  /\ want[r] \in Access /\ want[r].client \in Program
         /\ \A k : k # want[r] => LetThrough(k)' = LetThrough(k)
         /\ Cardinality(LetThrough(want[r])') = Cardinality(LetThrough(want[r])) + 1
         /\ \A k : BoughtFor(k)' = BoughtFor(k)
         /\ Numbered(grants)'
         /\ \A k : LeftIn(grants', k) \subseteq LeftIn(grants, k)
         /\ \E u \in LeftIn(grants, want[r]) : u \notin LeftIn(grants', want[r])
<1> DEFINE live == Prune(grants, now[r])
<1>1. /\ g \in live /\ g.uses < g.max
      /\ g.target = want[r].target /\ g.scope = want[r].scope
      /\ g.client = want[r].client /\ want[r].client \in Program
  BY RedeemableIsMatching DEF Reuses, Prune, IsLive
<1>2. want[r] \in Access /\ KeyOf(g) = want[r] /\ g.id \in Nat \ {0}
  BY <1>1 DEF ConsentInv, TypeOK, Access, KeyOf, Grant
<1>3. allowed[r] = NoGrant /\ decision[r] = "none"
  BY DEF Reuses, Goto, ConsentInv, NoGrantUnanswered, NoAnswerUnasked, Unanswered, Unasked
<1>4. /\ allowed' = [allowed EXCEPT ![r] = g.id]
      /\ UNCHANGED <<want, decision, issued>>
      /\ grants' = Charge(live, g)
  BY DEF Reuses
<1>5. /\ \A k : k # want[r] => LetThrough(k)' = LetThrough(k)
      /\ Cardinality(LetThrough(want[r])') = Cardinality(LetThrough(want[r])) + 1
  BY <1>2, <1>3, <1>4, OneMoreThrough
<1>6. \A k : BoughtFor(k)' = BoughtFor(k)
  <2>1. \A q \in Request : Bought(q)' = Bought(q)
    BY <1>3, <1>4 DEF Bought, ConsentInv, TypeOK, Allow
  <2> QED BY <1>4, <2>1 DEF BoughtFor
<1>7. live \in SUBSET Grant /\ live \in SUBSET grants
      /\ \A h, j \in live : h.id = j.id => h = j
  BY PruneSubset DEF ConsentInv, Numbered
<1>8. /\ Charge(live, g) \in SUBSET Grant
      /\ \A h, j \in Charge(live, g) : h.id = j.id => h = j
      /\ \A h \in Charge(live, g) : \E j \in live : h.id = j.id
      /\ \A k : LeftIn(Charge(live, g), k) \subseteq LeftIn(live, k)
      /\ <<g.id, g.uses + 1>> \in LeftIn(live, KeyOf(g))
      /\ <<g.id, g.uses + 1>> \notin LeftIn(Charge(live, g), KeyOf(g))
  BY <1>1, <1>7, ChargeTakesOne
<1>9. \A k : LeftIn(live, k) \subseteq LeftIn(grants, k)
  BY <1>7, LeftShrinks
<1>10. Numbered(grants)'
  BY <1>4, <1>7, <1>8 DEF Numbered, ConsentInv
<1> QED BY <1>1, <1>2, <1>4, <1>5, <1>6, <1>8, <1>9, <1>10

\* The uses an answer buys.
UsesBought(r) ==
  IF decision[r] = "window" /\ want[r].scope \notin Disclosing THEN WindowUses ELSE 1

LEMMA MintBuys ==
  ASSUME ConsentInv, NEW r \in Request, Mint(r)
  PROVE  /\ UsesBought(r) \in 1 .. WindowUses
         /\ \A k : k # want[r] => BoughtFor(k)' = BoughtFor(k)
         /\ Cardinality(BoughtFor(want[r])') =
              Cardinality(BoughtFor(want[r])) + UsesBought(r)
<1> DEFINE n == UsesBought(r)
<1>1. n \in 1 .. WindowUses /\ n \in Nat
  BY NumberAssumption DEF UsesBought
<1>2. allowed[r] = NoGrant /\ decision[r] \in Allow
  BY DEF Mint, Goto, ConsentInv, NoGrantUnanswered, Unanswered
<1>3. UNCHANGED <<want, decision>> /\ allowed' = [allowed EXCEPT ![r] = issued + 1]
  BY DEF Mint, promptVars
<1>4. /\ Bought(r) = {} /\ Bought(r)' = {r} \X (1 .. n)
      /\ \A q \in Request \ {r} : Bought(q)' = Bought(q)
  <2>1. allowed'[r] = issued + 1 /\ allowed'[r] # NoGrant
        /\ \A q \in Request \ {r} : allowed'[q] = allowed[q]
    BY <1>3 DEF ConsentInv, TypeOK, NoGrant
  <2>2. 1 .. 1 = {1}
    OBVIOUS
  <2> QED BY <1>2, <1>3, <2>1, <2>2 DEF Bought, UsesBought
<1>5. \A k : k # want[r] => BoughtFor(k)' = BoughtFor(k)
  BY <1>3, <1>4 DEF BoughtFor
<1>6. BoughtFor(want[r])' = BoughtFor(want[r]) \cup ({r} \X (1 .. n))
  BY <1>3, <1>4 DEF BoughtFor
<1>7. BoughtFor(want[r]) \cap ({r} \X (1 .. n)) = {}
  BY <1>4 DEF BoughtFor, Bought
<1>8. IsFiniteSet({r} \X (1 .. n)) /\ Cardinality({r} \X (1 .. n)) = n
  BY <1>1, CountPairs
<1>9. Cardinality(BoughtFor(want[r]) \cup ({r} \X (1 .. n))) =
        Cardinality(BoughtFor(want[r])) + n - Cardinality({})
  BY <1>7, <1>8, FiniteCounts, FS_Union
<1> QED BY <1>1, <1>5, <1>6, <1>9, FiniteCounts, FS_EmptySet

\* What an identified program's answer leaves of its key is one use less than
\* it buys: the redemption that follows finds something, if not what the
\* answer has just bought.
LEMMA MintLeaves ==
  ASSUME ConsentInv, NEW r \in Request, Mint(r)
  PROVE  /\ Numbered(grants)'
         /\ \A k : k # want[r] => LeftIn(grants', k) \subseteq LeftIn(grants, k)
         /\ want[r].client \in Program =>
              \E S : /\ LeftIn(grants', want[r]) \subseteq S
                     /\ S = LeftIn(grants, want[r])
                              \cup ({issued + 1} \X (1 .. UsesBought(r)))
                     /\ \E u \in S : u \notin LeftIn(grants', want[r])
<1> DEFINE new == GrantFor(r)
           store == Issue(grants, new)
           found == Redeemable(store, want[r], now[r])
<1>1. /\ new \in Grant /\ new.id = issued + 1 /\ KeyOf(new) = want[r]
      /\ new.uses = 0 /\ new.max = UsesBought(r) /\ now[r] < new.expires
      /\ UsesBought(r) > 0
  <2>1. want[r] \in Access /\ now[r] \in Nat /\ issued \in Nat
    BY DEF ConsentInv, TypeOK
  <2>2. new \in Grant /\ new.id = issued + 1 /\ KeyOf(new) = want[r]
    BY <2>1, GrantForType DEF ConsentInv, KeyOf, Access
  <2> QED BY <2>1, <2>2, NumberAssumption DEF GrantFor, NewGrant, UsesBought
<1>2. issued \in Nat /\ issued' = issued + 1
  BY DEF ConsentInv, TypeOK, Mint
<1>3. /\ store \in SUBSET Grant
      /\ \A h, j \in store : h.id = j.id => h = j
      /\ \A h \in store : h.id <= issued + 1
  BY <1>1, <1>2 DEF ConsentInv, Numbered, Issue, Grant
<1>4. /\ UseOf(new) = {issued + 1} \X (1 .. UsesBought(r))
      /\ LeftIn(store, want[r]) = LeftIn(grants, want[r]) \cup UseOf(new)
      /\ \A k : k # want[r] => LeftIn(store, k) = LeftIn(grants, k)
  <2>1. UseOf(new) = {issued + 1} \X (1 .. UsesBought(r))
    BY <1>1 DEF UseOf
  <2> QED BY <1>1, <2>1 DEF LeftIn, Issue
<1>5. ASSUME NEW f \in found
      PROVE  /\ f \in store /\ f.uses < f.max /\ KeyOf(f) = want[r]
  <2>1. want[r] \in Access
    BY DEF ConsentInv, TypeOK
  <2> QED BY <2>1 DEF Redeemable, Matching, Authorises, IsLive, SameProgram, KeyOf, Access
<1>6. ASSUME NEW f \in found, grants' = Prune(Charge(store, f), now[r])
      PROVE  /\ Numbered(grants)'
             /\ \A k : LeftIn(grants', k) \subseteq LeftIn(store, k)
             /\ \E u \in LeftIn(store, want[r]) : u \notin LeftIn(grants', want[r])
  <2>1. /\ Charge(store, f) \in SUBSET Grant
        /\ \A h, j \in Charge(store, f) : h.id = j.id => h = j
        /\ \A h \in Charge(store, f) : \E j \in store : h.id = j.id
        /\ \A k : LeftIn(Charge(store, f), k) \subseteq LeftIn(store, k)
        /\ <<f.id, f.uses + 1>> \in LeftIn(store, want[r])
        /\ <<f.id, f.uses + 1>> \notin LeftIn(Charge(store, f), want[r])
    <3>1. f \in store /\ f.uses < f.max /\ KeyOf(f) = want[r]
      BY <1>5
    <3> HIDE DEF store, found
    <3> QED BY <1>3, <3>1, ChargeTakesOne
  <2>2. grants' \in SUBSET Charge(store, f)
    BY <1>6, PruneSubset
  <2>3. \A k : LeftIn(grants', k) \subseteq LeftIn(Charge(store, f), k)
    BY <2>2, LeftShrinks
  <2>4. Numbered(grants)'
    BY <1>2, <1>3, <2>1, <2>2 DEF Numbered
  <2> QED BY <2>1, <2>3, <2>4
<1>7. CASE found = {}
  <2>1. grants' = Prune(store, now[r])
    BY <1>7 DEF Mint
  <2>2. grants' \in SUBSET store
    BY <2>1, PruneSubset
  <2>3. Numbered(grants)'
    BY <1>2, <1>3, <2>2 DEF Numbered
  <2>4. \A k : LeftIn(grants', k) \subseteq LeftIn(store, k)
    BY <2>2, LeftShrinks
  <2>5. want[r].client \notin Program
    <3>1. want[r].client \in Program => Authorises(new, want[r], now[r])
      BY <1>1 DEF Authorises, IsLive, SameProgram, KeyOf, Grant
    <3>2. new \in store
      BY DEF Issue
    <3>3. Matching(store, want[r], now[r]) = {}
      <4> HIDE DEF store
      <4> QED BY <1>3, <1>7, LeastId
    <3> QED BY <3>1, <3>2, <3>3 DEF Matching
  <2> QED BY <1>4, <2>3, <2>4, <2>5
<1>8. CASE found # {}
  <2>1. PICK f \in found : grants' = Prune(Charge(store, f), now[r])
    BY <1>8 DEF Mint
  <2> QED BY <1>4, <1>6, <2>1
<1> QED BY <1>7, <1>8

LEMMA MintConsent ==
  ASSUME ConsentInv, NEW r \in Request, Mint(r)
  PROVE  /\ want[r] \in Access
         /\ \A k : k # want[r] => LetThrough(k)' = LetThrough(k)
         /\ Cardinality(LetThrough(want[r])') = Cardinality(LetThrough(want[r])) + 1
<1>1. want[r] \in Access /\ issued + 1 \in Nat \ {0} /\ allowed[r] = NoGrant
  BY DEF Mint, Goto, ConsentInv, TypeOK, NoGrantUnanswered, Unanswered
<1>2. allowed' = [allowed EXCEPT ![r] = issued + 1] /\ UNCHANGED want
  BY DEF Mint
<1> QED BY <1>1, <1>2, OneMoreThrough

\* Backed, step by step.
LEMMA StaysBacked ==
  ASSUME NEW k, Backed(k), LetThrough(k)' = LetThrough(k),
         BoughtFor(k)' = BoughtFor(k), LeftIn(grants', k) \subseteq LeftIn(grants, k)
  PROVE  Backed(k)'
<1>1. IsFiniteSet(LeftIn(grants', k))
      /\ Cardinality(LeftIn(grants', k)) <= Cardinality(LeftIn(grants, k))
  BY FS_Subset DEF Backed
<1>2. Cardinality(LeftIn(grants', k)) \in Nat /\ Cardinality(LeftIn(grants, k)) \in Nat
  BY <1>1, FS_CardinalityType DEF Backed
<1>3. /\ Cardinality(LetThrough(k)') = Cardinality(LetThrough(k))
      /\ Cardinality(BoughtFor(k)') = Cardinality(BoughtFor(k))
  OBVIOUS
<1> QED BY <1>1, <1>2, <1>3, FiniteCounts DEF Backed

LEMMA ConsentInvStep ==
  ASSUME ConsentInv, TypeOK', [Next]_vars
  PROVE  ConsentInv'
<1>1. NoGrantUnanswered' /\ NoAnswerUnasked'
  BY UnansweredStep, UnaskedStep DEF ConsentInv
<1>2. ASSUME NEW k \in Access, k.client \in Program
      PROVE  Backed(k)
  BY <1>2 DEF ConsentInv
<1>3. CASE Quiet
  <2>1. \A k \in Access : k.client \in Program => Backed(k)'
    BY <1>2, <1>3, QuietConsent, StaysBacked
  <2> QED BY <1>1, <1>3, <2>1, QuietConsent DEF ConsentInv
<1>4. ASSUME NEW r \in Request, NEW g \in grants, Reuses(r, g)
      PROVE  ConsentInv'
  <2>1. ASSUME NEW k \in Access, k.client \in Program, k # want[r] PROVE Backed(k)'
    BY <1>2, <1>4, <2>1, ReuseConsent, StaysBacked
  <2>2. Backed(want[r])'
    <3> DEFINE k == want[r]
    <3>1. Backed(k)
      BY <1>2, <1>4, ReuseConsent
    <3>2. PICK u \in LeftIn(grants, k) : u \notin LeftIn(grants', k)
      BY <1>4, ReuseConsent
    <3>3. LeftIn(grants', k) \in SUBSET LeftIn(grants, k)
      BY <1>4, ReuseConsent
    <3>4. IsFiniteSet(LeftIn(grants', k))
          /\ Cardinality(LeftIn(grants', k)) + 1 <= Cardinality(LeftIn(grants, k))
      BY <3>1, <3>2, <3>3, LosesOne DEF Backed
    <3>5. /\ Cardinality(LeftIn(grants', k)) \in Nat
          /\ Cardinality(LeftIn(grants, k)) \in Nat
      BY <3>1, <3>4, FS_CardinalityType DEF Backed
    <3>6. want' = want
      BY <1>4 DEF Reuses
    <3>7. /\ Cardinality(LetThrough(k)') = Cardinality(LetThrough(k)) + 1
          /\ BoughtFor(k)' = BoughtFor(k)
      BY <1>4, <3>6, ReuseConsent
    <3>8. Cardinality(LeftIn(grants', k)) + Cardinality(LetThrough(k)')
            <= Cardinality(BoughtFor(k)')
      BY <3>1, <3>4, <3>5, <3>7, FiniteCounts DEF Backed
    <3> QED BY <3>4, <3>6, <3>8 DEF Backed, LetThrough, BoughtFor
  <2> QED BY <1>1, <1>4, <2>1, <2>2, ReuseConsent DEF ConsentInv, Reuses
<1>5. ASSUME NEW r \in Request, Mint(r) PROVE ConsentInv'
  <2>0. want' = want
    BY <1>5 DEF Mint
  <2>1. ASSUME NEW k \in Access, k.client \in Program, k # want[r] PROVE Backed(k)'
    BY <1>2, <1>5, <2>1, MintConsent, MintBuys, MintLeaves, StaysBacked
  <2>2. ASSUME want[r].client \in Program PROVE Backed(want[r])'
    <3> DEFINE k == want[r]
               n == UsesBought(r)
               more == {issued + 1} \X (1 .. n)
    <3>1. Backed(k)
      BY <1>2, <1>5, <2>2, MintConsent
    <3>2. n \in Nat
      BY <1>5, MintBuys, NumberAssumption DEF UsesBought
    <3>3. IsFiniteSet(more) /\ Cardinality(more) = n
      BY <3>2, CountPairs
    <3>4. PICK S : /\ LeftIn(grants', k) \subseteq S
                   /\ S = LeftIn(grants, k) \cup more
                   /\ \E u \in S : u \notin LeftIn(grants', k)
      BY <1>5, <2>2, MintLeaves
    <3>5. /\ IsFiniteSet(S)
          /\ Cardinality(S) = Cardinality(LeftIn(grants, k)) + n
                                - Cardinality(LeftIn(grants, k) \cap more)
      BY <3>1, <3>3, <3>4, FS_Union DEF Backed
    <3>6. /\ Cardinality(LeftIn(grants, k)) \in Nat /\ Cardinality(S) \in Nat
          /\ Cardinality(LeftIn(grants, k) \cap more) \in Nat
      <4>1. IsFiniteSet(LeftIn(grants, k) \cap more)
        BY <3>3, FS_Intersection
      <4> QED BY <3>1, <3>5, <4>1, FS_CardinalityType DEF Backed
    <3>7. PICK u \in S : u \notin LeftIn(grants', k)
      BY <3>4
    <3>8. IsFiniteSet(LeftIn(grants', k))
          /\ Cardinality(LeftIn(grants', k)) + 1 <= Cardinality(S)
      BY <3>4, <3>5, <3>7, LosesOne
    <3>9. Cardinality(LeftIn(grants', k)) \in Nat
      BY <3>8, FS_CardinalityType
    <3>10. /\ Cardinality(LetThrough(k)') = Cardinality(LetThrough(k)) + 1
           /\ Cardinality(BoughtFor(k)') = Cardinality(BoughtFor(k)) + n
      BY <1>5, MintConsent, MintBuys
    <3>11. Cardinality(LeftIn(grants', k)) + Cardinality(LetThrough(k)')
             <= Cardinality(BoughtFor(k)')
      BY <3>1, <3>2, <3>5, <3>6, <3>8, <3>9, <3>10, FiniteCounts DEF Backed
    <3> QED BY <2>0, <3>8, <3>11 DEF Backed, LetThrough, BoughtFor
  <2> QED BY <1>1, <1>5, <2>0, <2>1, <2>2, MintLeaves DEF ConsentInv
<1> QED BY AuthorisingSteps, <1>3, <1>4, <1>5 DEF ConsentInv

-----------------------------------------------------------------------------
\* The mapping, in the words of the invariant.
LEMMA MappedCounts ==
  /\ GrantedUses = [k \in Access |-> Cardinality(BoughtFor(k))]
  /\ RequestsLetThrough = [k \in Access |-> Cardinality(LetThrough(k))]
BY DEF GrantedUses, RequestsLetThrough, BoughtFor, LetThrough

LEMMA MappedStep ==
  ASSUME ConsentInv, ConsentInv', [Next]_vars
  PROVE  [C!Next]_(C!vars)
<1>0. /\ GrantedUses' = [k \in Access |-> Cardinality(BoughtFor(k)')]
      /\ RequestsLetThrough' = [k \in Access |-> Cardinality(LetThrough(k)')]
  BY DEF GrantedUses, RequestsLetThrough, BoughtFor, LetThrough
<1>1. CASE Quiet
  <2>1. GrantedUses' = GrantedUses /\ RequestsLetThrough' = RequestsLetThrough
    BY <1>0, <1>1, QuietConsent, MappedCounts
  <2> QED BY <2>1 DEF C!vars
<1>2. ASSUME NEW r \in Request, NEW g \in grants, Reuses(r, g)
      PROVE  C!Next
  <2> DEFINE k0 == want[r]
  <2>0. want' = want
    BY <1>2 DEF Reuses
  <2>1. k0 \in Access /\ k0.client \in Program /\ k0.client # Unidentified
    BY <1>2, ReuseConsent, ClientAssumption
  <2>2. GrantedUses' = GrantedUses
    BY <1>0, <1>2, ReuseConsent, MappedCounts
  <2>3. RequestsLetThrough' = [RequestsLetThrough EXCEPT ![k0] = @ + 1]
    <3>1. \A k \in Access : Cardinality(LetThrough(k)') =
            IF k = k0 THEN Cardinality(LetThrough(k)) + 1 ELSE Cardinality(LetThrough(k))
      BY <1>2, <2>0, ReuseConsent
    <3> QED BY <1>0, <2>1, <3>1, MappedCounts
  <2>4. RequestsLetThrough[k0] < GrantedUses[k0]
    <3>1. Backed(k0)'
      BY <1>2, <2>0, <2>1 DEF ConsentInv
    <3>2. Cardinality(LeftIn(grants', k0)) \in Nat
      BY <2>0, <3>1, FS_CardinalityType DEF Backed
    <3>3. Cardinality(LeftIn(grants', k0)) + Cardinality(LetThrough(k0)')
            <= Cardinality(BoughtFor(k0)')
      BY <2>0, <3>1 DEF Backed
    <3>4. /\ Cardinality(LetThrough(k0)') = Cardinality(LetThrough(k0)) + 1
          /\ BoughtFor(k0)' = BoughtFor(k0)
      BY <1>2, <2>0, ReuseConsent
    <3>5. Cardinality(LetThrough(k0)) < Cardinality(BoughtFor(k0))
      BY <3>2, <3>3, <3>4, FiniteCounts
    <3> QED BY <2>1, <3>5, MappedCounts
  <2>5. C!Reuse(k0)
    BY <2>1, <2>2, <2>3, <2>4 DEF C!Reuse
  <2> QED BY <2>1, <2>5 DEF C!Next
<1>3. ASSUME NEW r \in Request, Mint(r)
      PROVE  C!Next
  <2> DEFINE k0 == want[r]
             n == UsesBought(r)
  <2>0. want' = want
    BY <1>3 DEF Mint
  <2>1. k0 \in Access /\ n \in 1 .. WindowUses
    BY <1>3, MintConsent, MintBuys
  <2>2. GrantedUses' = [GrantedUses EXCEPT ![k0] = @ + n]
    <3>1. \A k \in Access : Cardinality(BoughtFor(k)') =
            IF k = k0 THEN Cardinality(BoughtFor(k)) + n ELSE Cardinality(BoughtFor(k))
      BY <1>3, <2>0, MintBuys
    <3> QED BY <1>0, <2>1, <3>1, MappedCounts
  <2>3. RequestsLetThrough' = [RequestsLetThrough EXCEPT ![k0] = @ + 1]
    <3>1. \A k \in Access : Cardinality(LetThrough(k)') =
            IF k = k0 THEN Cardinality(LetThrough(k)) + 1 ELSE Cardinality(LetThrough(k))
      BY <1>3, <2>0, MintConsent
    <3> QED BY <1>0, <2>1, <3>1, MappedCounts
  <2>4. k0.scope \in Disclosing => n = 1
    BY DEF UsesBought
  <2>5. C!Approve(k0, n)
    BY <2>1, <2>2, <2>3, <2>4 DEF C!Approve
  <2> QED BY <2>1, <2>5 DEF C!Next
<1> QED BY AuthorisingSteps, <1>1, <1>2, <1>3 DEF ConsentInv

LEMMA MappedInit == Init => ConsentInv /\ C!Init
<1> SUFFICES ASSUME Init PROVE ConsentInv /\ C!Init
  OBVIOUS
<1>1. \A r \in Request : Bought(r) = {}
  BY DEF Init, Bought, NoGrant
<1>2. \A k : LetThrough(k) = {} /\ BoughtFor(k) = {} /\ LeftIn(grants, k) = {}
  BY <1>1 DEF Init, LetThrough, BoughtFor, LeftIn, NoGrant
<1>3. C!Init
  BY <1>2, MappedCounts, FS_EmptySet DEF C!Init
<1>4. TypeOK
  BY DEF Init, TypeOK, Phases, Replies, Entries, NoGrant, Allow, Grant
<1>5. NoGrantUnanswered /\ NoAnswerUnasked /\ Numbered(grants)
  BY DEF Init, NoGrantUnanswered, NoAnswerUnasked, Numbered
<1>6. \A k : Backed(k)
  BY <1>2, FS_EmptySet DEF Backed
<1> QED BY <1>3, <1>4, <1>5, <1>6 DEF ConsentInv

\* Whatever order grants are issued, charged, pruned, revoked and forgotten in,
\* no target is used under a scope by a program more often than the user
\* answered for: an answer about a disclosing scope buys one use, and nobody
\* but an identified program lives on an earlier answer (grant.rs, GrantStore;
\* transport.rs, seek_approval).
THEOREM NoUseWithoutAnswer == Spec => ImplementsConsent
<1>1. Init => ConsentInv /\ C!Init
  BY MappedInit
<1>2. ConsentInv /\ TypeOK' /\ [Next]_vars => ConsentInv'
  BY ConsentInvStep
<1>3. ConsentInv /\ ConsentInv' /\ [Next]_vars => [C!Next]_(C!vars)
  BY MappedStep
<1> QED BY <1>1, <1>2, <1>3, TypeCorrect, PTL DEF Spec, ImplementsConsent, C!Spec

=============================================================================

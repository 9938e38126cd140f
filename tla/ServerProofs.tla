---------------------------- MODULE ServerProofs ----------------------------
(***************************************************************************)
(* Theorems of the two machines of the sync server, which share no state:  *)
(* its accounts, for any accounts, devices, invitations, messages and      *)
(* requests served at once, and the icon proxy, for any callers, domains,  *)
(* ceilings and budgets.                                                   *)
(***************************************************************************)
EXTENDS Accounts, Icons, FiniteSetTheorems, TLAPS

-----------------------------------------------------------------------------
(* Accounts.                                                                *)

Kinds == {"enrol", "claim", "register", "revoke", "push"}
Attaching == {"enrol", "claim", "register"}
SentNonces == {n \in Nonce : sent[n] # NoMessage}
Sending == SendEnrol \/ SendClaim \/ SendRegister \/ SendRevoke \/ SendPush
Operating == CreateInvite \/ RevokeDevice \/ DeleteAccount

LEMMA NextCases ==
  ASSUME [Next]_vars
  PROVE  \/ Sending \/ Receive \/ Operating \/ Restart \/ Tick \/ UNCHANGED vars
         \/ \E h \in Handler : \/ FindKey(h) \/ Verify(h) \/ Enrol(h) \/ Claim(h)
                               \/ Register(h) \/ Revoke(h) \/ Push(h)
  BY DEF Next, Handle, Sending, Operating

-----------------------------------------------------------------------------
(* Types.                                                                  *)

LEMMA RequestType ==
  ASSUME TypeOK, NEW h \in Handler, ~At(h, "idle")
  PROVE  /\ handler[h].nonce \in SentNonces
         /\ Request(h) \in Message
         /\ Request(h).account \in Account /\ Request(h).device \in Device
         /\ Request(h).kind \in Kinds
         /\ Request(h).time \in Nat /\ Request(h).expected \in Nat
         /\ Request(h).invite \in Invite \cup {NoInvite}
         /\ handler[h].now \in Nat
  BY DEF TypeOK, Request, Message, SentNonces, Kinds

\* What sending does: a new message, about a new device unless it is for an
\* old one, about a new account when it enrols.
SentNow(n, m) ==
  /\ sent[n] = NoMessage /\ sent' = [sent EXCEPT ![n] = m]
  /\ m.kind \in {"enrol", "claim"} => m.invite \in Invite
  /\ m.kind \in Attaching => DeviceIsNew(m.device)
  /\ m.kind = "enrol" => m.account \notin Legacy /\ \A k \in Messages : k.account # m.account
  /\ UNCHANGED <<clock, server, seen, handler, history>>

LEMMA SendMessage ==
  ASSUME TypeOK, NEW n \in Nonce, NEW kind \in Kinds, NEW a \in Account, NEW d \in Device,
         NEW i \in Invite \cup {NoInvite}, NEW expected \in Nat,
         NEW time \in Nat, Send(n, kind, a, d, i, expected, time),
         kind \in {"enrol", "claim"} => i \in Invite,
         kind \in Attaching => DeviceIsNew(d),
         kind = "enrol" => a \notin Legacy /\ \A k \in Messages : k.account # a
  PROVE  \E m \in Message : SentNow(n, m)
<1> DEFINE m == [kind |-> kind, account |-> a, device |-> d,
                 invite |-> i, expected |-> expected, time |-> time]
<1>1. m \in Message
  BY DEF Message, TypeOK, Kinds
<1>2. SentNow(n, m)
  BY DEF SentNow, Send
<1>. QED
  BY <1>1, <1>2

LEMMA SendEffect ==
  ASSUME TypeOK, Sending
  PROVE  \E n \in Nonce : \E m \in Message : SentNow(n, m)
<1>0. clock \in Nat /\ Stamps \subseteq Nat
  BY WindowAssumption DEF TypeOK, Stamps
<1>1. CASE SendEnrol
  <2>1. PICK n \in Nonce, a \in Account \ Legacy, d \in Device, i \in Invite :
          /\ DeviceIsNew(d) /\ Send(n, "enrol", a, d, i, 0, clock)
          /\ \A m \in Messages : m.account # a
    BY <1>1 DEF SendEnrol
  <2>. QED
    BY <1>0, <2>1, SendMessage DEF Kinds
<1>2. CASE SendClaim
  <2>1. PICK n \in Nonce, a \in Legacy, d \in Device, i \in Invite :
          DeviceIsNew(d) /\ Send(n, "claim", a, d, i, 0, clock)
    BY <1>2 DEF SendClaim
  <2>. QED
    BY <1>0, <2>1, SendMessage, AccountAssumption DEF Kinds
<1>3. CASE SendRegister
  <2>1. PICK n \in Nonce, a \in Account, d \in Device, time \in Stamps :
          DeviceIsNew(d) /\ Send(n, "register", a, d, NoInvite, 0, time)
    BY <1>3 DEF SendRegister
  <2>. QED
    BY <1>0, <2>1, SendMessage DEF Kinds
<1>4. CASE SendRevoke
  <2>1. PICK n \in Nonce, a \in Account, d \in Device, time \in Stamps :
          Send(n, "revoke", a, d, NoInvite, 0, time)
    BY <1>4 DEF SendRevoke
  <2>. QED
    BY <1>0, <2>1, SendMessage DEF Kinds, Attaching
<1>5. CASE SendPush
  <2>1. PICK n \in Nonce, a \in Account, d \in Device, time \in Stamps :
          Send(n, "push", a, d, NoInvite, revision[a], time)
    BY <1>5 DEF SendPush
  <2>2. revision[a] \in Nat
    BY DEF TypeOK
  <2>. QED
    BY <1>0, <2>1, <2>2, SendMessage DEF Kinds, Attaching
<1>. QED
  BY <1>1, <1>2, <1>3, <1>4, <1>5 DEF Sending

LEMMA AddDeviceType ==
  ASSUME TypeOK, NEW h \in Handler, NEW d \in Device, NEW a \in Account, AddDevice(h, d, a)
  PROVE  /\ owner' \in [Device -> Account \cup {NoAccount}]
         /\ added' \in [Device -> 0..2]
         /\ handler' \in [Handler -> [at : Steps \cup {"idle"}, nonce : Nonce \cup {NoMessage}, now : Nat]]
         /\ member' \subseteq Handler
         /\ \A g \in Handler : handler'[g] = handler[g] \/ handler'[g].at = "idle"
<1>1. owner' \in [Device -> Account \cup {NoAccount}]
  BY DEF TypeOK, AddDevice
<1>2. added' \in [Device -> 0..2]
  BY DEF TypeOK, AddDevice, Once
<1>3. /\ handler' \in [Handler -> [at : Steps \cup {"idle"}, nonce : Nonce \cup {NoMessage}, now : Nat]]
      /\ \A g \in Handler : handler'[g] = handler[g] \/ handler'[g].at = "idle"
  BY DEF TypeOK, AddDevice, Idle
<1>4. member' \subseteq Handler
  BY DEF TypeOK, AddDevice
<1>. QED
  BY <1>1, <1>2, <1>3, <1>4

LEMMA SpendType ==
  ASSUME TypeOK, NEW i, NEW a \in Account, Spend(i, a)
  PROVE  bought' \in [Invite -> 0..2] /\ usedBy' \in [Invite -> Account \cup {NoAccount}]
<1>1. bought' \in [Invite -> 0..2]
  <2>1. bought' = [bought EXCEPT ![i] = IF bought[i] = 0 THEN 1 ELSE 2]
    BY DEF Spend, Once
  <2>2. bought \in [Invite -> 0..2] /\ 1 \in 0..2 /\ 2 \in 0..2
    BY DEF TypeOK
  <2>. QED
    BY <2>1, <2>2
<1>2. usedBy' \in [Invite -> Account \cup {NoAccount}]
  BY DEF TypeOK, Spend
<1>. QED
  BY <1>1, <1>2

LEMMA TypeInit == Init => TypeOK
  BY AccountAssumption, WindowAssumption
  DEF Init, TypeOK, Idle, Steps, At, Request

LEMMA TypeStep ==
  ASSUME TypeOK, [Next]_vars
  PROVE  TypeOK'
<1>1. CASE Sending
  <2>1. PICK n \in Nonce, m \in Message : SentNow(n, m)
    BY <1>1, SendEffect
  <2>2. m # NoMessage
    BY MessageAssumption
  <2>. QED
    BY <2>1, <2>2 DEF SentNow, TypeOK, server, history, checks, At, Request
<1>2. CASE Receive
  BY <1>2 DEF Receive, TypeOK, server, checks, At, Request, Idle, Steps
<1>3. CASE Operating
  <2>1. CASE CreateInvite
    BY <1>3, <2>1, WindowAssumption DEF CreateInvite, TypeOK, history, checks, At, Request
  <2>2. CASE RevokeDevice
    BY <1>3, <2>2 DEF RevokeDevice, Drop, TypeOK, history, checks, At, Request
  <2>3. CASE DeleteAccount
    BY <1>3, <2>3 DEF DeleteAccount, checks, TypeOK, At, Request
  <2>. QED
    BY <1>3, <2>1, <2>2, <2>3 DEF Operating
<1>4. CASE Restart
  BY <1>4 DEF Restart, TypeOK, server, At, Request, Idle
<1>5. CASE Tick \/ UNCHANGED vars
  BY <1>5, WindowAssumption DEF Tick, TypeOK, vars, server, history, checks, At, Request
<1>6. ASSUME NEW h \in Handler, FindKey(h) \/ Verify(h) PROVE TypeOK'
  <2>1. CASE FindKey(h)
    <3>1. CASE Answer(h)
      BY <2>1, <3>1 DEF FindKey, Answer, Idle, TypeOK, server, checks, At, Request
    <3>2. CASE GoTo(h, "verify") /\ UNCHANGED member
      BY <2>1, <3>2 DEF FindKey, GoTo, Steps, TypeOK, server, checks, At, Request
    <3>. QED
      BY <2>1, <3>1, <3>2 DEF FindKey
  <2>2. CASE Verify(h)
    <3>1. ~At(h, "idle")
      BY <2>2 DEF Verify, At
    <3>2. handler[h].nonce \in Nonce /\ Request(h).kind \in Steps /\ Request(h) # NoMessage
          /\ handler[h].now \in Nat
      BY <3>1, RequestType, MessageAssumption DEF Kinds, Steps, SentNonces
    <3>3. Pruned(handler[h].now) \in [Nonce -> Nat] /\ handler[h].now + 1 \in Nat
      BY <3>2 DEF Pruned, TypeOK
    <3>4. seen' \in [Nonce -> Nat] /\ pruned' \in Nat /\ loose' \subseteq Nonce
      BY <2>2, <3>2, <3>3 DEF Verify, checks, TypeOK
    <3>5. UNCHANGED <<clock, server, sent, added, applied, bought, deleted, stale>>
      BY <2>2 DEF Verify
    <3>6. CASE Answer(h)
      BY <3>4, <3>5, <3>6 DEF Answer, Idle, TypeOK, server, At, Request
    <3>7. CASE GoTo(h, Request(h).kind) /\ UNCHANGED member
      BY <3>1, <3>2, <3>4, <3>5, <3>7 DEF GoTo, TypeOK, server, At, Request
    <3>. QED
      BY <2>2, <3>6, <3>7 DEF Verify
  <2>. QED
    BY <1>6, <2>1, <2>2
<1>7. ASSUME NEW h \in Handler, Enrol(h) \/ Claim(h) \/ Register(h) \/ Revoke(h) \/ Push(h)
      PROVE  TypeOK'
  <2>0. /\ Request(h).account \in Account /\ Request(h).device \in Device
    BY <1>7, RequestType DEF Enrol, Claim, Register, Revoke, Push, At
  <2>1. CASE Enrol(h)
    <3>1. CASE Refuse(h)
      BY <2>1, <3>1 DEF Enrol, Refuse, Answer, Idle, Steps, TypeOK, server, checks, At, Request
    <3>2. CASE ~Refuse(h)
      <4>1. AddDevice(h, Request(h).device, Request(h).account)
        BY <2>1, <3>2 DEF Enrol
      <4>2. bought' \in [Invite -> 0..2] /\ usedBy' \in [Invite -> Account \cup {NoAccount}]
        BY <2>0, <2>1, <3>2, SpendType DEF Enrol
      <4>3. /\ key' \in [Account -> {"none", "legacy", "keyed"}]
            /\ revision' \in [Account -> Nat]
        <5>1. /\ key' = [key EXCEPT ![Request(h).account] = "keyed"]
              /\ revision' = [revision EXCEPT ![Request(h).account] = 0]
          BY <2>1, <3>2 DEF Enrol
        <5>2. key \in [Account -> {"none", "legacy", "keyed"}] /\ revision \in [Account -> Nat]
          BY DEF TypeOK
        <5>. QED
          BY <5>1, <5>2
      <4>4. UNCHANGED <<clock, expires, applied, seen, sent, deleted, stale, pruned, loose>>
        BY <2>1, <3>2 DEF Enrol, checks
      <4>. QED
        BY <2>0, <4>1, <4>2, <4>3, <4>4, AddDeviceType DEF TypeOK, At, Request
    <3>. QED
      BY <3>1, <3>2
  <2>2. CASE Claim(h)
    <3>1. CASE Refuse(h)
      BY <2>2, <3>1 DEF Claim, Refuse, Answer, Idle, Steps, TypeOK, server, checks, At, Request
    <3>2. CASE ~Refuse(h)
      <4>1. AddDevice(h, Request(h).device, Request(h).account)
        BY <2>2, <3>2 DEF Claim
      <4>2. bought' \in [Invite -> 0..2] /\ usedBy' \in [Invite -> Account \cup {NoAccount}]
        BY <2>0, <2>2, <3>2, SpendType DEF Claim
      <4>. QED
        BY <2>0, <2>2, <3>2, <4>1, <4>2, AddDeviceType DEF Claim, checks, TypeOK, At, Request
    <3>. QED
      BY <3>1, <3>2
  <2>3. CASE Register(h)
    <3>1. CASE Refuse(h)
      BY <2>3, <3>1 DEF Register, Refuse, Answer, Idle, Steps, TypeOK, server, checks, At, Request
    <3>2. CASE ~Refuse(h)
      <4>1. AddDevice(h, Request(h).device, Request(h).account)
        BY <2>3, <3>2 DEF Register
      <4>. QED
        BY <2>0, <2>3, <3>2, <4>1, AddDeviceType DEF Register, checks, TypeOK, At, Request
    <3>. QED
      BY <3>1, <3>2
  <2>4. CASE Revoke(h)
    BY <2>0, <2>4, SMTT(30) DEF Revoke, Drop, Answer, Idle, Steps, checks, TypeOK, At, Request
  <2>5. CASE Push(h)
    BY <2>0, <2>5 DEF Push, Answer, Once, Idle, Steps, checks, TypeOK, At, Request
  <2>. QED
    BY <1>7, <2>1, <2>2, <2>3, <2>4, <2>5
<1>. QED
  BY <1>1, <1>2, <1>3, <1>4, <1>5, <1>6, <1>7, NextCases

(* Rows, handlers, messages and nonces keep their types (store.rs:131).    *)
THEOREM TypeCorrect == Spec => []TypeOK
  BY TypeInit, TypeStep, PTL DEF Spec

-----------------------------------------------------------------------------
(* What the messages under way are, and what is done with each.            *)

WellSent ==
  /\ \A n \in SentNonces : /\ sent[n].kind \in {"enrol", "claim"} => sent[n].invite \in Invite
                           /\ sent[n].kind = "enrol" => sent[n].account \notin Legacy
  /\ \A n, m \in SentNonces :
       /\ sent[n].kind \in Attaching /\ sent[m].kind \in Attaching
       /\ sent[n].device = sent[m].device
       => n = m
  /\ stale \subseteq SentNonces
  /\ \A h \in Handler : handler[h].at \in Kinds => Request(h).kind = handler[h].at

LEMMA OthersSendNothing ==
  ASSUME [Next]_vars, ~Sending
  PROVE  sent' = sent
  BY DEF Next, Sending, Handle, Receive, CreateInvite, RevokeDevice, DeleteAccount, Restart,
         Tick, vars, FindKey, Verify, Enrol, Claim, Register, Revoke, Push

LEMMA WellSentStep ==
  ASSUME TypeOK, WellSent, [Next]_vars
  PROVE  WellSent'
<1>0. TypeOK' /\ clock \in Nat
  BY TypeStep DEF TypeOK
<1>1. CASE Sending
  <2>1. PICK n \in Nonce, m \in Message : SentNow(n, m)
    BY <1>1, SendEffect
  <2>2. m # NoMessage /\ SentNonces' = SentNonces \cup {n} /\ n \notin SentNonces
    BY <2>1, MessageAssumption DEF SentNow, SentNonces, TypeOK
  <2>3. \A k \in SentNonces : sent'[k] = sent[k]
    BY <2>1, <2>2 DEF SentNow, SentNonces, TypeOK
  <2>4. sent'[n] = m
    BY <2>1 DEF SentNow, TypeOK
  <2>5. m.kind \in Attaching => \A k \in SentNonces : sent[k].device # m.device
    BY <2>1 DEF SentNow, DeviceIsNew, Messages, SentNonces
  <2>6. \A h \in Handler : handler'[h].at \in Kinds => Request(h)' = Request(h)
    <3>. SUFFICES ASSUME NEW h \in Handler, handler'[h].at \in Kinds PROVE Request(h)' = Request(h)
      OBVIOUS
    <3>1. handler' = handler /\ ~At(h, "idle")
      BY <2>1 DEF SentNow, Kinds, At
    <3>. QED
      BY <3>1, <2>3, RequestType DEF Request
  <2>7. UNCHANGED <<clock, handler, stale>>
    BY <2>1 DEF SentNow, history
  <2>. QED
    BY <1>0, <2>1, <2>2, <2>3, <2>4, <2>5, <2>6, <2>7 DEF WellSent, SentNow
<1>2. CASE ~Sending
  <2>0. sent' = sent
    BY <1>2, OthersSendNothing
  <2>1. CASE Receive
    BY <2>0, <2>1 DEF WellSent, Receive, SentNonces, Kinds, Request, TypeOK
  <2>2. CASE Restart
    BY <2>0, <2>2 DEF WellSent, Restart, SentNonces, Kinds, Request, Idle
  <2>3. CASE Operating
    BY <2>0, <2>3 DEF WellSent, Operating, CreateInvite, RevokeDevice, DeleteAccount,
                      SentNonces, Request, history
  <2>4. CASE Tick \/ UNCHANGED vars
    BY <1>0, <2>0, <2>4 DEF WellSent, Tick, vars, SentNonces, Request, history, TypeOK, Message
  <2>5. ASSUME NEW h \in Handler, FindKey(h) \/ Verify(h) PROVE WellSent'
    BY <2>0, <2>5 DEF WellSent, FindKey, Verify, GoTo, Answer, Idle, SentNonces, Kinds,
                      Request, TypeOK
  <2>6. ASSUME NEW h \in Handler, Enrol(h) \/ Claim(h) \/ Register(h) \/ Revoke(h) \/ Push(h)
        PROVE  WellSent'
    <3>1. handler' = [handler EXCEPT ![h] = Idle] /\ UNCHANGED <<clock, stale>>
      BY <2>6 DEF Enrol, Claim, Register, Revoke, Push, AddDevice, Refuse, Answer
    <3>. QED
      BY <2>0, <3>1 DEF WellSent, Idle, SentNonces, Kinds, Request, TypeOK
  <2>. QED
    BY <1>2, <2>1, <2>2, <2>3, <2>4, <2>5, <2>6, NextCases
<1>. QED
  BY <1>1, <1>2

-----------------------------------------------------------------------------
(* Rows and invitations.                                                   *)

\* Every account with a key was enrolled by a message whose invitation is
\* spent, and that is all that can enrol it.
EnrolledOnce ==
  \A a \in Account \ Legacy : key[a] # "none" \/ a \in deleted =>
    \E n \in SentNonces : /\ sent[n].kind = "enrol" /\ sent[n].account = a
                         /\ usedBy[sent[n].invite] # NoAccount

EnrolsDiffer ==
  \A n, m \in SentNonces :
    sent[n].kind = "enrol" /\ sent[m].kind = "enrol" /\ sent[n].account = sent[m].account
    => n = m

RowInv == NoOrphans /\ InvitesBuyOnce /\ DeletedStaysDeleted /\ EnrolledOnce /\ EnrolsDiffer

LEMMA SpendOnce ==
  ASSUME TypeOK, InvitesBuyOnce, NEW i \in Invite, NEW a \in Account, NEW now,
         Usable(i, now), Spend(i, a)
  PROVE  /\ \A j \in Invite : bought'[j] = IF usedBy'[j] = NoAccount THEN 0 ELSE 1
         /\ usedBy'[i] = a
         /\ \A j \in Invite : usedBy[j] # NoAccount => usedBy'[j] = usedBy[j]
<1>1. usedBy[i] = NoAccount /\ bought[i] = 0 /\ a # NoAccount
  BY AccountAssumption DEF Usable, InvitesBuyOnce
<1>2. bought'[i] = 1 /\ \A j \in Invite \ {i} : bought'[j] = bought[j]
  BY <1>1 DEF Spend, Once, TypeOK
<1>3. usedBy'[i] = a /\ \A j \in Invite \ {i} : usedBy'[j] = usedBy[j]
  BY DEF Spend, TypeOK
<1>. QED
  BY <1>1, <1>2, <1>3 DEF InvitesBuyOnce

\* A handler that enrols or claims: whose message it has.
LEMMA PaidRequest ==
  ASSUME TypeOK, WellSent, NEW h \in Handler, Enrol(h) \/ Claim(h)
  PROVE  /\ handler[h].nonce \in SentNonces
         /\ Request(h).account \in Account /\ Request(h).device \in Device
         /\ Request(h).invite \in Invite
         /\ Request(h).kind = handler[h].at
         /\ Enrol(h) => Request(h).account \notin Legacy
<1>1. handler[h].at \in {"enrol", "claim"} /\ (Enrol(h) => handler[h].at = "enrol")
  BY DEF Enrol, Claim, At
<1>2. Request(h).kind = handler[h].at
  BY <1>1 DEF WellSent, Kinds
<1>. QED
  BY <1>1, <1>2, RequestType DEF WellSent, At, Request

LEMMA RowStep ==
  ASSUME TypeOK, WellSent, RowInv, [Next]_vars
  PROVE  RowInv'
<1>1. CASE Sending
  <2>1. PICK n \in Nonce, m \in Message : SentNow(n, m)
    BY <1>1, SendEffect
  <2>2. SentNonces' = SentNonces \cup {n} /\ n \notin SentNonces
    BY <2>1, MessageAssumption DEF SentNow, SentNonces, TypeOK
  <2>3. (\A k \in SentNonces : sent'[k] = sent[k]) /\ sent'[n] = m
    BY <2>1, <2>2 DEF SentNow, SentNonces, TypeOK
  <2>4. m.kind = "enrol" => \A k \in SentNonces : sent[k].account # m.account
    BY <2>1 DEF SentNow, Messages, SentNonces
  <2>5. UNCHANGED <<key, owner, usedBy, bought, deleted>>
    BY <2>1 DEF SentNow, server, history
  <2>6. EnrolsDiffer'
    BY <2>2, <2>3, <2>4 DEF EnrolsDiffer, RowInv
  <2>7. EnrolledOnce'
    BY <2>2, <2>3, <2>5 DEF EnrolledOnce, RowInv
  <2>. QED
    BY <2>5, <2>6, <2>7 DEF RowInv, NoOrphans, InvitesBuyOnce, DeletedStaysDeleted, HasKey
<1>2. CASE ~Sending
  <2>0. sent' = sent /\ SentNonces' = SentNonces /\ EnrolsDiffer'
    BY <1>2, OthersSendNothing DEF SentNonces, RowInv, EnrolsDiffer
  <2>1. CASE UNCHANGED <<key, owner, usedBy, bought, deleted>>
    BY <2>0, <2>1 DEF RowInv, NoOrphans, InvitesBuyOnce, DeletedStaysDeleted, HasKey, EnrolledOnce
  <2>2. CASE Receive \/ Restart \/ Tick \/ CreateInvite \/ UNCHANGED vars
    BY <2>1, <2>2 DEF Receive, Restart, Tick, CreateInvite, vars, server, history
  <2>3. ASSUME NEW h \in Handler, FindKey(h) \/ Verify(h) \/ Push(h) \/ Refuse(h),
               UNCHANGED deleted
        PROVE  RowInv'
    BY <2>1, <2>3 DEF FindKey, Verify, Push, Refuse, server
  <2>4. ASSUME NEW h \in Handler, Enrol(h), ~Refuse(h) PROVE RowInv'
    <3> DEFINE a == Request(h).account
               i == Request(h).invite
               n == handler[h].nonce
    <3>1. /\ n \in SentNonces /\ a \in Account \ Legacy /\ i \in Invite
          /\ sent[n].kind = "enrol" /\ sent[n].account = a /\ sent[n].invite = i
          /\ Request(h).device \in Device
      BY <2>4, PaidRequest DEF Enrol, At, Request
    <3>2. /\ Usable(i, handler[h].now) /\ Spend(i, a) /\ key' = [key EXCEPT ![a] = "keyed"]
          /\ owner' = [owner EXCEPT ![Request(h).device] = a] /\ deleted' = deleted
      BY <2>4 DEF Enrol, AddDevice
    <3>3. a \notin deleted
      BY <3>1, <3>2 DEF RowInv, EnrolledOnce, EnrolsDiffer, Usable
    <3>4. /\ \A j \in Invite : bought'[j] = IF usedBy'[j] = NoAccount THEN 0 ELSE 1
          /\ usedBy'[i] = a /\ a # NoAccount
          /\ \A j \in Invite : usedBy[j] # NoAccount => usedBy'[j] = usedBy[j]
      BY <3>1, <3>2, SpendOnce, AccountAssumption DEF RowInv
    <3>5. key'[a] = "keyed" /\ \A b \in Account \ {a} : key'[b] = key[b]
      BY <3>1, <3>2 DEF TypeOK
    <3>6. NoOrphans' /\ DeletedStaysDeleted'
      BY <3>1, <3>2, <3>3, <3>5 DEF RowInv, NoOrphans, DeletedStaysDeleted, TypeOK
    <3>7. InvitesBuyOnce'
      <4>. SUFFICES ASSUME NEW b \in Account, key'[b] = "keyed" PROVE \E j \in Invite : usedBy'[j] = b
        BY <3>4 DEF InvitesBuyOnce, HasKey
      <4>1. CASE b = a
        BY <3>1, <3>4, <4>1
      <4>2. CASE b # a
        <5>1. PICK j \in Invite : usedBy[j] = b
          BY <3>5, <4>2 DEF RowInv, InvitesBuyOnce, HasKey
        <5>. QED
          BY <3>4, <5>1, AccountAssumption
      <4>. QED
        BY <4>1, <4>2
    <3>8. EnrolledOnce'
      <4>. SUFFICES ASSUME NEW b \in Account \ Legacy, key'[b] # "none" \/ b \in deleted'
                    PROVE  \E k \in SentNonces : /\ sent[k].kind = "enrol" /\ sent[k].account = b
                                                /\ usedBy'[sent[k].invite] # NoAccount
        BY <2>0 DEF EnrolledOnce
      <4>1. CASE b = a
        BY <3>1, <3>4, <4>1
      <4>2. CASE b # a
        <5>1. PICK k \in SentNonces : /\ sent[k].kind = "enrol" /\ sent[k].account = b
                                      /\ usedBy[sent[k].invite] # NoAccount
          BY <3>2, <3>5, <4>2 DEF RowInv, EnrolledOnce
        <5>2. sent[k].invite \in Invite
          BY <5>1 DEF WellSent
        <5>. QED
          BY <3>4, <5>1, <5>2
      <4>. QED
        BY <4>1, <4>2
    <3>. QED
      BY <2>0, <3>6, <3>7, <3>8 DEF RowInv
  <2>5. ASSUME NEW h \in Handler, Claim(h), ~Refuse(h) PROVE RowInv'
    <3> DEFINE a == Request(h).account
               i == Request(h).invite
    <3>1. a \in Account /\ i \in Invite /\ Request(h).device \in Device
      BY <2>5, PaidRequest
    <3>2. /\ Usable(i, handler[h].now) /\ Spend(i, a) /\ key[a] = "legacy"
          /\ owner' = [owner EXCEPT ![Request(h).device] = a] /\ UNCHANGED <<key, deleted>>
      BY <2>5 DEF Claim, AddDevice
    <3>4. /\ \A j \in Invite : bought'[j] = IF usedBy'[j] = NoAccount THEN 0 ELSE 1
          /\ \A j \in Invite : usedBy[j] # NoAccount => usedBy'[j] = usedBy[j]
      BY <3>1, <3>2, SpendOnce DEF RowInv
    <3>6. NoOrphans' /\ DeletedStaysDeleted'
      BY <3>1, <3>2 DEF RowInv, NoOrphans, DeletedStaysDeleted, TypeOK
    <3>7. InvitesBuyOnce'
      <4>. SUFFICES ASSUME NEW b \in Account, key[b] = "keyed" PROVE \E j \in Invite : usedBy'[j] = b
        BY <3>2, <3>4 DEF InvitesBuyOnce, HasKey
      <4>1. PICK j \in Invite : usedBy[j] = b
        BY DEF RowInv, InvitesBuyOnce, HasKey
      <4>. QED
        BY <3>4, <4>1, AccountAssumption
    <3>8. EnrolledOnce'
      <4>. SUFFICES ASSUME NEW b \in Account \ Legacy, key[b] # "none" \/ b \in deleted
                    PROVE  \E k \in SentNonces : /\ sent[k].kind = "enrol" /\ sent[k].account = b
                                                /\ usedBy'[sent[k].invite] # NoAccount
        BY <2>0, <3>2 DEF EnrolledOnce
      <4>1. PICK k \in SentNonces : /\ sent[k].kind = "enrol" /\ sent[k].account = b
                                    /\ usedBy[sent[k].invite] # NoAccount
        BY DEF RowInv, EnrolledOnce
      <4>2. sent[k].invite \in Invite
        BY <4>1 DEF WellSent
      <4>. QED
        BY <3>4, <4>1, <4>2
    <3>. QED
      BY <2>0, <3>6, <3>7, <3>8 DEF RowInv
  <2>6. ASSUME NEW h \in Handler, Register(h), ~Refuse(h) PROVE RowInv'
    <3>1. Request(h).account \in Account /\ Request(h).device \in Device
      BY <2>6, RequestType DEF Register, At
    <3>2. /\ key[Request(h).account] # "none"
          /\ owner' = [owner EXCEPT ![Request(h).device] = Request(h).account]
          /\ UNCHANGED <<key, usedBy, bought, deleted>>
      BY <2>6 DEF Register, AddDevice
    <3>. QED
      BY <2>0, <3>1, <3>2 DEF RowInv, NoOrphans, InvitesBuyOnce, DeletedStaysDeleted, HasKey,
                              EnrolledOnce, TypeOK
  <2>7. ASSUME NEW d \in Device, NEW a \in Account, Drop(d, a),
               UNCHANGED <<key, usedBy, bought, deleted>>
        PROVE  RowInv'
    BY <2>0, <2>7 DEF Drop, RowInv, NoOrphans, InvitesBuyOnce, DeletedStaysDeleted, HasKey,
                      EnrolledOnce, TypeOK
  <2>8. CASE DeleteAccount
    <3>1. PICK a \in Account : /\ key[a] # "none" /\ key' = [key EXCEPT ![a] = "none"]
                               /\ owner' = [d \in Device |-> IF owner[d] = a THEN NoAccount
                                                              ELSE owner[d]]
                               /\ deleted' = deleted \cup {a} /\ UNCHANGED <<usedBy, bought>>
      BY <2>8 DEF DeleteAccount
    <3>2. key'[a] = "none" /\ \A b \in Account \ {a} : key'[b] = key[b]
      BY <3>1 DEF TypeOK
    <3>3. NoOrphans'
      BY <3>1, <3>2 DEF RowInv, NoOrphans, TypeOK
    <3>4. InvitesBuyOnce' /\ DeletedStaysDeleted'
      BY <3>1, <3>2 DEF RowInv, InvitesBuyOnce, HasKey, DeletedStaysDeleted
    <3>5. EnrolledOnce'
      BY <2>0, <3>1, <3>2 DEF RowInv, EnrolledOnce
    <3>. QED
      BY <2>0, <3>3, <3>4, <3>5 DEF RowInv
  <2>9. ASSUME NEW h \in Handler, \/ FindKey(h) \/ Verify(h) \/ Enrol(h) \/ Claim(h)
                                  \/ Register(h) \/ Revoke(h) \/ Push(h)
        PROVE  RowInv'
    <3>1. CASE Revoke(h)
      <4>1. Request(h).account \in Account /\ Request(h).device \in Device
        BY <3>1, RequestType DEF Revoke, At
      <4>. QED
        BY <2>7, <3>1, <4>1 DEF Revoke
    <3>2. deleted' = deleted
      BY <2>9, <3>1 DEF FindKey, Verify, Enrol, Claim, Register, Revoke, Push, server, history
    <3>. QED
      BY <2>3, <2>4, <2>5, <2>6, <2>9, <3>1, <3>2
  <2>10. CASE Operating
    <3>1. CASE RevokeDevice
      BY <2>7, <3>1 DEF RevokeDevice, history
    <3>. QED
      BY <2>2, <2>8, <2>10, <3>1 DEF Operating
  <2>. QED
    BY <1>2, <2>2, <2>9, <2>10, NextCases
<1>. QED
  BY <1>1, <1>2

-----------------------------------------------------------------------------
(* Pushes: what was applied no longer follows on the account's revision.   *)

Superseded(n) ==
  LET a == sent[n].account
  IN a \in deleted \/ (key[a] # "none" /\ revision[a] > sent[n].expected)

AppliedInv ==
  \A n \in Nonce : /\ applied[n] > 0 => n \in SentNonces /\ Superseded(n)
                   /\ applied[n] <= 1

LEMMA AppliedStep ==
  ASSUME TypeOK, WellSent, RowInv, AppliedInv, [Next]_vars
  PROVE  AppliedInv'
<1>0. \A n \in SentNonces : sent[n] \in Message /\ sent[n].account \in Account
                            /\ sent[n].expected \in Nat
  BY DEF TypeOK, SentNonces, Message
<1>1. CASE Sending
  <2>1. PICK n \in Nonce, m \in Message : SentNow(n, m)
    BY <1>1, SendEffect
  <2>2. n \notin SentNonces /\ SentNonces' = SentNonces \cup {n}
    BY <2>1, MessageAssumption DEF SentNow, SentNonces, TypeOK
  <2>3. \A k \in SentNonces : sent'[k] = sent[k]
    BY <2>1, <2>2 DEF SentNow, SentNonces, TypeOK
  <2>4. UNCHANGED <<key, revision, deleted, applied>>
    BY <2>1 DEF SentNow, server, history
  <2>. QED
    BY <2>2, <2>3, <2>4 DEF AppliedInv, Superseded
<1>2. ASSUME sent' = sent, UNCHANGED <<key, revision, deleted, applied>> PROVE AppliedInv'
  BY <1>2 DEF AppliedInv, Superseded, SentNonces
<1>3. CASE Receive \/ Restart \/ Tick \/ CreateInvite \/ RevokeDevice \/ UNCHANGED vars
  BY <1>2, <1>3 DEF Receive, Restart, Tick, CreateInvite, RevokeDevice, vars, server, history
<1>4. CASE DeleteAccount
  BY <1>0, <1>4 DEF DeleteAccount, AppliedInv, Superseded, SentNonces, TypeOK
<1>5. ASSUME NEW h \in Handler, FindKey(h) \/ Verify(h) \/ Claim(h) \/ Register(h) \/ Revoke(h)
      PROVE  AppliedInv'
  BY <1>2, <1>5 DEF FindKey, Verify, Claim, Register, Revoke, Refuse, server
<1>6. ASSUME NEW h \in Handler, Enrol(h) PROVE AppliedInv'
  <2>1. CASE Refuse(h)
    BY <1>2, <1>6, <2>1 DEF Enrol, Refuse, server
  <2>2. CASE ~Refuse(h)
    <3>1. Request(h).account \in Account
      BY <1>6, PaidRequest
    <3>2. /\ key[Request(h).account] = "none"
          /\ key' = [key EXCEPT ![Request(h).account] = "keyed"]
          /\ revision' = [revision EXCEPT ![Request(h).account] = 0]
          /\ UNCHANGED <<sent, deleted, applied>>
      BY <1>6, <2>2 DEF Enrol
    <3>. QED
      BY <1>0, <3>1, <3>2 DEF AppliedInv, Superseded, SentNonces, TypeOK
  <2>. QED
    BY <2>1, <2>2
<1>7. ASSUME NEW h \in Handler, Push(h) PROVE AppliedInv'
  <2> DEFINE a == Request(h).account
             n == handler[h].nonce
  <2>1. n \in SentNonces /\ n \in Nonce /\ a \in Account /\ Request(h) = sent[n]
    BY <1>7, RequestType DEF Push, At, Request, SentNonces
  <2>2. CASE ~(key[a] # "none" /\ revision[a] = Request(h).expected)
    BY <1>2, <1>7, <2>2 DEF Push
  <2>3. CASE key[a] # "none" /\ revision[a] = Request(h).expected
    <3>1. /\ revision' = [revision EXCEPT ![a] = @ + 1] /\ applied' = Once(applied, n)
          /\ UNCHANGED <<key, sent, deleted>>
      BY <1>7, <2>3 DEF Push
    <3>2. a \notin deleted
      BY <2>1, <2>3 DEF RowInv, DeletedStaysDeleted
    <3>3. applied[n] = 0
      <4>. SUFFICES ASSUME applied[n] > 0 PROVE FALSE
        BY <2>1 DEF TypeOK
      <4>1. Superseded(n)
        BY <2>1 DEF AppliedInv
      <4>2. revision[a] \in Nat
        BY <2>1 DEF TypeOK
      <4>. QED
        BY <2>1, <2>3, <3>2, <4>1, <4>2 DEF Superseded
    <3>4. applied'[n] = 1 /\ \A k \in Nonce \ {n} : applied'[k] = applied[k]
      BY <2>1, <3>1, <3>3 DEF Once, TypeOK
    <3>5. \A b \in Account : revision[b] \in Nat /\ revision'[b] = IF b = a THEN revision[b] + 1
                                                                         ELSE revision[b]
      BY <2>1, <3>1 DEF TypeOK
    <3>6. \A k \in SentNonces : k = n \/ Superseded(k) => Superseded(k)'
      BY <1>0, <2>1, <2>3, <3>1, <3>5 DEF Superseded
    <3>. QED
      BY <2>1, <3>1, <3>4, <3>6 DEF AppliedInv, SentNonces
  <2>. QED
    BY <2>2, <2>3
<1>. QED
  BY <1>1, <1>3, <1>4, <1>5, <1>6, <1>7, NextCases DEF Operating

-----------------------------------------------------------------------------
(* Attaching: a spent invitation, or a nonce that is remembered as long as *)
(* its message could be accepted, keeps the same message from attaching    *)
(* its device again.                                                       *)

Remembered(n) == seen[n] > sent[n].time \/ pruned > sent[n].time + Skew

Registering(h, n) == At(h, "register") /\ handler[h].nonce = n

PaidInv ==
  \A n \in SentNonces : sent[n].kind \in {"enrol", "claim"} =>
    /\ added[sent[n].device] > 0 => usedBy[sent[n].invite] # NoAccount
    /\ added[sent[n].device] <= 1

RegisterInv ==
  \A n \in SentNonces \ (stale \cup loose) : sent[n].kind = "register" =>
    /\ added[sent[n].device] > 0 => Remembered(n)
    /\ added[sent[n].device] <= 1
    /\ \A h \in Handler : Registering(h, n) =>
         /\ Remembered(n) /\ added[sent[n].device] = 0
         /\ \A g \in Handler : Registering(g, n) => g = h

AttachInv ==
  /\ \A d \in Device : added[d] > 0 => \E n \in SentNonces : sent[n].device = d
  /\ PaidInv
  /\ RegisterInv

LEMMA SentStays ==
  ASSUME TypeOK, [Next]_vars, NEW n \in SentNonces
  PROVE  sent'[n] = sent[n] /\ n \in SentNonces'
<1>1. CASE Sending
  BY <1>1, SendEffect DEF SentNow, SentNonces, TypeOK
<1>2. CASE ~Sending
  BY <1>2, OthersSendNothing DEF SentNonces
<1>. QED
  BY <1>1, <1>2

LEMMA UsedStays ==
  ASSUME TypeOK, [Next]_vars, NEW i \in Invite, usedBy[i] # NoAccount
  PROVE  usedBy'[i] = usedBy[i]
<1>1. ASSUME NEW j, NEW a, NEW now, Usable(j, now), Spend(j, a) PROVE usedBy'[i] = usedBy[i]
  BY <1>1 DEF Usable, Spend, TypeOK
<1>2. CASE Sending
  BY <1>2, SendEffect DEF SentNow, server
<1>3. CASE Receive \/ Operating \/ Restart \/ Tick \/ UNCHANGED vars
  BY <1>3 DEF Receive, Operating, CreateInvite, RevokeDevice, DeleteAccount, Restart, Tick, vars,
              server
<1>4. ASSUME NEW h \in Handler, Enrol(h) \/ Claim(h) PROVE usedBy'[i] = usedBy[i]
  BY <1>1, <1>4 DEF Enrol, Claim, Refuse, server
<1>5. ASSUME NEW h \in Handler, FindKey(h) \/ Verify(h) \/ Register(h) \/ Revoke(h) \/ Push(h)
      PROVE  usedBy'[i] = usedBy[i]
  BY <1>5 DEF FindKey, Verify, Register, Revoke, Push, Refuse, server
<1>. QED
  BY <1>2, <1>3, <1>4, <1>5, NextCases

LEMMA LooseStays ==
  ASSUME [Next]_vars
  PROVE  loose \subseteq loose'
<1>1. CASE Sending
  BY <1>1
  DEF Sending, SendEnrol, SendClaim, SendRegister, SendRevoke, SendPush, Send, history, checks
<1>2. CASE Receive \/ Operating \/ Restart \/ Tick \/ UNCHANGED vars
  BY <1>2 DEF Receive, Operating, CreateInvite, RevokeDevice, DeleteAccount, Restart, Tick, vars,
              history, checks
<1>3. ASSUME NEW h \in Handler, \/ FindKey(h) \/ Verify(h) \/ Enrol(h) \/ Claim(h)
                                \/ Register(h) \/ Revoke(h) \/ Push(h)
      PROVE  loose \subseteq loose'
  BY <1>3 DEF FindKey, Verify, Enrol, Claim, Register, Revoke, Push, checks
<1>. QED
  BY <1>1, <1>2, <1>3, NextCases

LEMMA RememberedStays ==
  ASSUME TypeOK, WellSent, [Next]_vars, NEW n \in SentNonces, Remembered(n),
         n \notin stale' \cup loose'
  PROVE  Remembered(n)'
<1>0. /\ sent'[n] = sent[n] /\ sent[n].time \in Nat /\ n \in Nonce
      /\ pruned \in Nat /\ seen[n] \in Nat /\ Skew \in Nat
  BY SentStays, WindowAssumption DEF TypeOK, Message, SentNonces
<1>1. CASE UNCHANGED <<pruned, seen>>
  BY <1>0, <1>1 DEF Remembered
<1>2. CASE Sending
  BY <1>1, <1>2, SendEffect DEF SentNow, history, checks
<1>3. CASE Restart
  BY <1>3 DEF Restart, SentNonces
<1>4. ASSUME NEW h \in Handler, Verify(h) PROVE Remembered(n)'
  <2> DEFINE now == handler[h].now
  <2>1. CASE UNCHANGED <<seen, checks>>
    BY <1>1, <2>1 DEF checks
  <2>2. CASE /\ seen' = [Pruned(now) EXCEPT ![handler[h].nonce] = now + 1]
             /\ pruned' = (IF now > pruned THEN now ELSE pruned)
             /\ loose' = (IF now < Request(h).time \/ now < pruned
                            THEN loose \cup {handler[h].nonce} ELSE loose)
    <3>1. now \in Nat
      BY <1>4, RequestType DEF Verify, At
    <3>2. seen'[n] = IF n = handler[h].nonce THEN now + 1 ELSE Pruned(now)[n]
      BY <1>0, <2>2 DEF Pruned
    <3>3. Pruned(now)[n] = IF now + 1 <= seen[n] + Skew THEN seen[n] ELSE 0
      BY <1>0 DEF Pruned
    <3>4. n = handler[h].nonce => now >= sent[n].time
      BY <1>0, <2>2, <3>1 DEF Request
    <3>5. pruned' >= pruned /\ pruned' >= now
      BY <1>0, <2>2, <3>1
    <3>6. CASE n = handler[h].nonce
      BY <1>0, <3>1, <3>2, <3>4, <3>6 DEF Remembered
    <3>7. CASE n # handler[h].nonce
      BY <1>0, <2>2, <3>1, <3>2, <3>3, <3>5, <3>7 DEF Remembered
    <3>. QED
      BY <3>6, <3>7
  <2>. QED
    BY <1>4, <2>1, <2>2 DEF Verify
<1>5. CASE Receive \/ Operating \/ Tick \/ UNCHANGED vars
  BY <1>1, <1>5 DEF Receive, Operating, CreateInvite, RevokeDevice, DeleteAccount, Tick, vars,
                    history, checks
<1>6. ASSUME NEW h \in Handler, \/ FindKey(h) \/ Enrol(h) \/ Claim(h) \/ Register(h)
                                \/ Revoke(h) \/ Push(h)
      PROVE  Remembered(n)'
  BY <1>1, <1>6 DEF FindKey, Enrol, Claim, Register, Revoke, Push, checks
<1>. QED
  BY <1>2, <1>3, <1>4, <1>5, <1>6, NextCases

\* A step that attaches nothing and brings no request to "register".
LEMMA AttachNothing ==
  ASSUME TypeOK, WellSent, AttachInv, [Next]_vars, sent' = sent, added' = added,
         stale \subseteq stale',
         \A h \in Handler, n \in SentNonces \ (stale' \cup loose') :
           Registering(h, n)' => Registering(h, n)
  PROVE  AttachInv'
<1>0. SentNonces' = SentNonces
  BY DEF SentNonces
<1>1. PaidInv'
  <2>. SUFFICES ASSUME NEW n \in SentNonces, sent[n].kind \in {"enrol", "claim"}
                PROVE  /\ added[sent[n].device] > 0 => usedBy'[sent[n].invite] # NoAccount
                       /\ added[sent[n].device] <= 1
    BY <1>0 DEF PaidInv
  <2>. QED
    BY UsedStays DEF AttachInv, PaidInv, WellSent
<1>2. RegisterInv'
  BY <1>0, RememberedStays, LooseStays DEF AttachInv, RegisterInv
<1>. QED
  BY <1>0, <1>1, <1>2 DEF AttachInv

\* A step that attaches the device of message n, which h was served.
LEMMA AttachStep ==
  ASSUME TypeOK, WellSent, AttachInv, [Next]_vars, UNCHANGED <<sent, stale>>,
         NEW h \in Handler, NEW n \in SentNonces, handler[h].nonce = n,
         sent[n].kind \in Attaching, AddDevice(h, sent[n].device, sent[n].account),
         sent[n].kind \in {"enrol", "claim"} =>
           usedBy[sent[n].invite] = NoAccount /\ usedBy'[sent[n].invite] # NoAccount,
         sent[n].kind = "register" => Registering(h, n)
  PROVE  AttachInv'
<1> DEFINE d == sent[n].device
<1>0. SentNonces' = SentNonces /\ d \in Device /\ \A k \in SentNonces : sent[k].device \in Device
  BY DEF SentNonces, TypeOK, Message
<1>1. \A k \in SentNonces : sent[k].kind \in Attaching /\ sent[k].device = d => k = n
  BY DEF WellSent
<1>2. /\ \A e \in Device : e # d => added'[e] = added[e]
      /\ added'[d] = IF added[d] = 0 THEN 1 ELSE 2
  BY <1>0 DEF AddDevice, Once, TypeOK
<1>3. \A g \in Handler, k \in SentNonces : Registering(g, k)' => g # h /\ Registering(g, k)
  BY DEF AddDevice, Registering, At, Idle, TypeOK
<1>4. PaidInv'
  <2>. SUFFICES ASSUME NEW k \in SentNonces, sent[k].kind \in {"enrol", "claim"}
                PROVE  /\ added'[sent[k].device] > 0 => usedBy'[sent[k].invite] # NoAccount
                       /\ added'[sent[k].device] <= 1
    BY <1>0 DEF PaidInv
  <2>1. CASE k = n
    <3>1. added[d] > 0 => usedBy[sent[n].invite] # NoAccount
      BY <2>1 DEF AttachInv, PaidInv
    <3>2. added[d] \in 0..2
      BY <1>0 DEF TypeOK
    <3>3. added[d] = 0
      BY <2>1, <3>1, <3>2
    <3>. QED
      BY <1>2, <2>1, <3>3
  <2>2. CASE k # n
    <3>1. added'[sent[k].device] = added[sent[k].device]
      BY <1>0, <1>1, <1>2, <2>2 DEF Attaching
    <3>. QED
      BY <3>1, UsedStays DEF AttachInv, PaidInv, WellSent
  <2>. QED
    BY <2>1, <2>2
<1>5. RegisterInv'
  <2>. SUFFICES ASSUME NEW k \in SentNonces, k \notin stale \cup loose', sent[k].kind = "register"
                PROVE  /\ added'[sent[k].device] > 0 => Remembered(k)'
                       /\ added'[sent[k].device] <= 1
                       /\ \A f \in Handler : Registering(f, k)' =>
                            /\ Remembered(k)' /\ added'[sent[k].device] = 0
                            /\ \A g \in Handler : Registering(g, k)' => g = f
    BY <1>0 DEF RegisterInv
  <2>1. CASE k = n
    <3>1. /\ added[d] = 0 /\ Remembered(k)
          /\ \A g \in Handler : Registering(g, n) => g = h
      BY <2>1, LooseStays DEF AttachInv, RegisterInv
    <3>2. Remembered(k)'
      BY <3>1, RememberedStays
    <3>. QED
      BY <1>2, <1>3, <2>1, <3>1, <3>2
  <2>2. CASE k # n
    <3>1. added'[sent[k].device] = added[sent[k].device]
      BY <1>0, <1>1, <1>2, <2>2 DEF Attaching
    <3>. QED
      BY <1>3, <3>1, RememberedStays, LooseStays DEF AttachInv, RegisterInv
  <2>. QED
    BY <2>1, <2>2
<1>6. \A e \in Device : added'[e] > 0 => \E k \in SentNonces : sent[k].device = e
  BY <1>2 DEF AttachInv
<1>. QED
  BY <1>0, <1>4, <1>5, <1>6 DEF AttachInv

LEMMA AttachInvStep ==
  ASSUME TypeOK, WellSent, AttachInv, [Next]_vars
  PROVE  AttachInv'
<1>1. CASE Sending
  <2>1. PICK n \in Nonce, m \in Message : SentNow(n, m)
    BY <1>1, SendEffect
  <2>2. n \notin SentNonces /\ SentNonces' = SentNonces \cup {n} /\ sent'[n] = m
    BY <2>1, MessageAssumption DEF SentNow, SentNonces, TypeOK
  <2>3. \A k \in SentNonces : sent'[k] = sent[k]
    BY SentStays
  <2>4. UNCHANGED <<usedBy, seen, handler, added, stale, pruned, loose>>
    BY <2>1 DEF SentNow, server, history, checks
  <2>5. m.kind \in Attaching => added[m.device] = 0
    <3>1. m.kind \in Attaching => \A k \in SentNonces : sent[k].device # m.device
      BY <2>1 DEF SentNow, DeviceIsNew, Messages, SentNonces
    <3>2. m.device \in Device
      BY DEF Message
    <3>. QED
      BY <3>1, <3>2 DEF AttachInv, TypeOK
  <2>6. \A h \in Handler : ~Registering(h, n)'
    <3>. SUFFICES ASSUME NEW h \in Handler, Registering(h, n)' PROVE FALSE
      OBVIOUS
    <3>1. At(h, "register") /\ handler[h].nonce = n
      BY <2>4 DEF Registering, At
    <3>. QED
      BY <2>2, <3>1, RequestType DEF At
  <2>7. \A k \in SentNonces : Remembered(k)' <=> Remembered(k)
    BY <2>3, <2>4 DEF Remembered
  <2>8. \A k \in SentNonces, h \in Handler : Registering(h, k)' <=> Registering(h, k)
    BY <2>4 DEF Registering, At
  <2>9. PaidInv'
    BY <2>2, <2>3, <2>4, <2>5 DEF AttachInv, PaidInv, Attaching
  <2>10. RegisterInv'
    <3>. SUFFICES ASSUME NEW k \in SentNonces', k \notin stale \cup loose, sent'[k].kind = "register"
                  PROVE  /\ added[sent'[k].device] > 0 => Remembered(k)'
                         /\ added[sent'[k].device] <= 1
                         /\ \A f \in Handler : Registering(f, k)' =>
                              /\ Remembered(k)' /\ added[sent'[k].device] = 0
                              /\ \A g \in Handler : Registering(g, k)' => g = f
      BY <2>4 DEF RegisterInv
    <3>1. CASE k = n
      BY <2>2, <2>5, <2>6, <3>1 DEF Attaching
    <3>2. CASE k \in SentNonces
      BY <2>3, <2>7, <2>8, <3>2 DEF AttachInv, RegisterInv
    <3>. QED
      BY <2>2, <3>1, <3>2
  <2>11. \A d \in Device : added[d] > 0 => \E k \in SentNonces' : sent'[k].device = d
    BY <2>2, <2>3 DEF AttachInv
  <2>. QED
    BY <2>4, <2>9, <2>10, <2>11 DEF AttachInv
<1>2. CASE Receive \/ Operating \/ Restart \/ Tick \/ UNCHANGED vars
  <2>1. sent' = sent /\ added' = added /\ stale \subseteq stale'
    BY <1>2 DEF Receive, Operating, CreateInvite, RevokeDevice, DeleteAccount, Restart, Tick, vars,
                history, WellSent, SentNonces
  <2>2. \A h \in Handler, n \in SentNonces : Registering(h, n)' => Registering(h, n)
    BY <1>2 DEF Receive, Operating, CreateInvite, RevokeDevice, DeleteAccount, Restart, Tick, vars,
                Registering, At, Idle, TypeOK
  <2>. QED
    BY <2>1, <2>2, AttachNothing
<1>3. ASSUME NEW h \in Handler, FindKey(h) \/ Revoke(h) \/ Push(h) \/ (Refuse(h) /\ UNCHANGED <<sent, stale>>)
      PROVE  AttachInv'
  <2>1. UNCHANGED <<sent, added, stale>>
    BY <1>3 DEF FindKey, Revoke, Push, Refuse
  <2>2. \A g \in Handler, n \in SentNonces : Registering(g, n)' => Registering(g, n)
    BY <1>3 DEF FindKey, Revoke, Push, Refuse, GoTo, Answer, Registering, At, Idle, TypeOK
  <2>. QED
    BY <2>1, <2>2, AttachNothing
<1>4. ASSUME NEW h \in Handler, Enrol(h) \/ Claim(h) PROVE AttachInv'
  <2>1. CASE Refuse(h)
    BY <1>3, <1>4, <2>1 DEF Enrol, Claim
  <2>2. CASE ~Refuse(h)
    <3>1. PICK n \in SentNonces : n = handler[h].nonce /\ Request(h) = sent[n]
      BY <1>4, PaidRequest DEF Request
    <3>2. /\ sent[n].kind \in {"enrol", "claim"} /\ sent[n].invite \in Invite
          /\ sent[n].account \in Account
      BY <1>4, <3>1, PaidRequest DEF Enrol, Claim, At
    <3>3. /\ Usable(sent[n].invite, handler[h].now) /\ Spend(sent[n].invite, sent[n].account)
          /\ AddDevice(h, sent[n].device, sent[n].account) /\ UNCHANGED <<sent, stale>>
      BY <1>4, <2>2, <3>1 DEF Enrol, Claim
    <3>4. usedBy[sent[n].invite] = NoAccount /\ usedBy'[sent[n].invite] # NoAccount
      BY <3>2, <3>3, AccountAssumption DEF Usable, Spend, TypeOK
    <3>. QED
      BY <3>1, <3>2, <3>3, <3>4, AttachStep DEF Attaching
  <2>. QED
    BY <2>1, <2>2
<1>5. ASSUME NEW h \in Handler, Register(h) PROVE AttachInv'
  <2>1. CASE Refuse(h)
    BY <1>3, <1>5, <2>1 DEF Register
  <2>2. CASE ~Refuse(h)
    <3>1. PICK n \in SentNonces : n = handler[h].nonce /\ Request(h) = sent[n]
      BY <1>5, RequestType DEF Register, At, Request
    <3>2. sent[n].kind = "register" /\ Registering(h, n)
      BY <1>5, <3>1 DEF Register, At, Registering, WellSent, Kinds
    <3>3. AddDevice(h, sent[n].device, sent[n].account) /\ UNCHANGED <<sent, stale>>
      BY <1>5, <2>2, <3>1 DEF Register
    <3>. QED
      BY <3>1, <3>2, <3>3, AttachStep DEF Attaching
  <2>. QED
    BY <2>1, <2>2
<1>6. ASSUME NEW h \in Handler, Verify(h) PROVE AttachInv'
  <2> DEFINE now == handler[h].now
  <2>1. PICK n \in SentNonces : n = handler[h].nonce /\ Request(h) = sent[n]
    BY <1>6, RequestType DEF Verify, At, Request
  <2>2. n \in Nonce /\ sent[n] \in Message /\ UNCHANGED <<sent, added, stale>>
    BY <1>6, <2>1 DEF Verify, TypeOK, SentNonces
  <2>3. CASE ~(At(h, "register"))' \/ n \in stale \cup loose'
    <3>1. \A g \in Handler, k \in SentNonces \ (stale \cup loose') :
            Registering(g, k)' => Registering(g, k)
      BY <1>6, <2>1, <2>3 DEF Verify, GoTo, Answer, Registering, At, Idle, TypeOK
    <3>. QED
      BY <2>2, <3>1, AttachNothing
  <2>4. CASE At(h, "register")' /\ n \notin stale \cup loose'
    <3>1. /\ Near(sent[n].time, now) /\ Pruned(now)[n] = 0 /\ sent[n].kind = "register"
          /\ seen' = [Pruned(now) EXCEPT ![n] = now + 1]
          /\ now >= sent[n].time /\ now >= pruned
          /\ handler' = [handler EXCEPT ![h].at = "register"]
      <4>1. ~Answer(h)
        BY <2>4 DEF Answer, At, Idle, TypeOK
      <4>2. /\ Near(sent[n].time, now) /\ Pruned(now)[n] = 0 /\ GoTo(h, sent[n].kind)
            /\ seen' = [Pruned(now) EXCEPT ![n] = now + 1]
            /\ ~(now < sent[n].time) /\ ~(now < pruned)
        BY <1>6, <2>1, <2>4, <4>1 DEF Verify
      <4>3. sent[n].kind = "register" /\ handler' = [handler EXCEPT ![h].at = "register"]
        BY <2>4, <4>2 DEF GoTo, At, TypeOK
      <4>4. now \in Nat /\ sent[n].time \in Nat /\ pruned \in Nat
        BY <1>6, <2>2, RequestType DEF Verify, At, Message, TypeOK
      <4>. QED
        BY <4>2, <4>3, <4>4
    <3>2. ~Remembered(n)
      <4>1. /\ seen[n] \in Nat /\ now \in Nat /\ Skew \in Nat /\ sent[n].time \in Nat
            /\ pruned \in Nat
            /\ Pruned(now)[n] = IF now + 1 <= seen[n] + Skew THEN seen[n] ELSE 0
        BY <1>6, <2>2, RequestType, WindowAssumption DEF Verify, At, TypeOK, Message, Pruned
      <4>. QED
        BY <3>1, <4>1 DEF Remembered, Near
    <3>3. added[sent[n].device] = 0 /\ \A g \in Handler : ~Registering(g, n)
      <4>1. sent[n].device \in Device
        BY <2>2 DEF Message
      <4>2. /\ added[sent[n].device] > 0 => Remembered(n)
            /\ \A g \in Handler : Registering(g, n) => Remembered(n)
        BY <2>4, <3>1, LooseStays DEF AttachInv, RegisterInv
      <4>3. added[sent[n].device] \in Nat
        BY <4>1 DEF TypeOK
      <4>. QED
        BY <3>2, <4>2, <4>3
    <3>4. Remembered(n)'
      <4>1. seen'[n] = now + 1
        BY <2>2, <3>1 DEF Pruned
      <4>2. now \in Nat /\ sent[n].time \in Nat
        BY <1>6, <2>2, RequestType DEF Verify, At, Message
      <4>. QED
        BY <2>2, <3>1, <4>1, <4>2 DEF Remembered
    <3>5. \A g \in Handler, k \in SentNonces :
            Registering(g, k)' => Registering(g, k) \/ (g = h /\ k = n)
      BY <2>1, <3>1 DEF Registering, At, TypeOK
    <3>6. SentNonces' = SentNonces
      BY <2>2 DEF SentNonces
    <3>7. PaidInv'
      <4>. SUFFICES ASSUME NEW k \in SentNonces, sent[k].kind \in {"enrol", "claim"}
                    PROVE  /\ added[sent[k].device] > 0 => usedBy'[sent[k].invite] # NoAccount
                           /\ added[sent[k].device] <= 1
        BY <2>2, <3>6 DEF PaidInv
      <4>. QED
        BY UsedStays DEF AttachInv, PaidInv, WellSent
    <3>8. RegisterInv'
      <4>. SUFFICES ASSUME NEW k \in SentNonces, k \notin stale \cup loose', sent[k].kind = "register"
                    PROVE  /\ added[sent[k].device] > 0 => Remembered(k)'
                           /\ added[sent[k].device] <= 1
                           /\ \A f \in Handler : Registering(f, k)' =>
                                /\ Remembered(k)' /\ added[sent[k].device] = 0
                                /\ \A g \in Handler : Registering(g, k)' => g = f
        BY <2>2, <3>6 DEF RegisterInv
      <4>1. CASE k = n
        BY <3>3, <3>4, <3>5, <4>1
      <4>2. CASE k # n
        BY <2>2, <3>5, <4>2, RememberedStays, LooseStays DEF AttachInv, RegisterInv
      <4>. QED
        BY <4>1, <4>2
    <3>. QED
      BY <2>2, <3>6, <3>7, <3>8 DEF AttachInv
  <2>. QED
    BY <2>3, <2>4
<1>. QED
  BY <1>1, <1>2, <1>3, <1>4, <1>5, <1>6, NextCases

-----------------------------------------------------------------------------
(* Whoever pushes was a member while it was served.                        *)

MemberInv ==
  \A h \in Handler : ~At(h, "idle") =>
    /\ owner[Request(h).device] = Request(h).account => h \in member
    /\ At(h, "verify") /\ Request(h).kind = "push" => h \in member
    /\ At(h, "push") => h \in member

LEMMA RequestStays ==
  ASSUME TypeOK, [Next]_vars, NEW h \in Handler, ~At(h, "idle"), handler'[h].nonce = handler[h].nonce
  PROVE  Request(h)' = Request(h)
  BY RequestType, SentStays DEF Request

LEMMA MemberStep ==
  ASSUME TypeOK, WellSent, MemberInv, [Next]_vars
  PROVE  MemberInv'
<1>1. ASSUME UNCHANGED <<handler, owner, member>> PROVE MemberInv'
  BY <1>1, RequestStays DEF MemberInv, At
<1>2. CASE Sending
  BY <1>1, <1>2, SendEffect DEF SentNow, server, history
<1>3. CASE Tick \/ CreateInvite \/ UNCHANGED vars
  BY <1>1, <1>3 DEF Tick, CreateInvite, vars, server, history
<1>4. CASE Restart
  BY <1>4 DEF Restart, MemberInv, At, Idle
<1>5. ASSUME UNCHANGED <<handler, member>>,
             \A d \in Device : owner'[d] = owner[d] \/ owner'[d] = NoAccount
      PROVE  MemberInv'
  <2>. SUFFICES ASSUME NEW h \in Handler, ~At(h, "idle")
                PROVE  /\ owner'[Request(h).device] = Request(h).account => h \in member
                       /\ At(h, "verify") /\ Request(h).kind = "push" => h \in member
                       /\ At(h, "push") => h \in member
    BY <1>5, RequestStays DEF MemberInv, At
  <2>. QED
    BY <1>5, RequestType, AccountAssumption DEF MemberInv
<1>6. CASE RevokeDevice \/ DeleteAccount
  <2>1. UNCHANGED <<handler, member>>
    BY <1>6 DEF RevokeDevice, DeleteAccount, history
  <2>2. \A d \in Device : owner'[d] = owner[d] \/ owner'[d] = NoAccount
    BY <1>6 DEF RevokeDevice, Drop, DeleteAccount, TypeOK
  <2>. QED
    BY <1>5, <2>1, <2>2
<1>7. CASE Receive
  <2>1. PICK h \in Handler, n \in Nonce :
          /\ At(h, "idle") /\ sent[n] # NoMessage
          /\ handler' = [handler EXCEPT ![h] =
               [at |-> IF sent[n].kind \in {"enrol", "claim"} THEN sent[n].kind ELSE "key",
                nonce |-> n, now |-> clock]]
          /\ member' = IF owner[sent[n].device] = sent[n].account THEN member \cup {h} ELSE member
          /\ UNCHANGED <<owner, sent>>
    BY <1>7 DEF Receive, server
  <2>2. \A g \in Handler : ~At(g, "idle")' =>
          \/ g # h /\ ~At(g, "idle") /\ handler'[g] = handler[g]
          \/ g = h /\ handler'[g].nonce = n /\ ~At(g, "push")' /\ ~At(g, "verify")'
    BY <2>1 DEF At, TypeOK
  <2>. QED
    BY <2>1, <2>2 DEF MemberInv, Request, At
<1>8. ASSUME NEW h \in Handler, handler' = [handler EXCEPT ![h] = Idle],
             member' = member \ {h}, \A d \in Device : owner'[d] = owner[d] \/ owner'[d] = NoAccount
      PROVE  MemberInv'
  <2>. SUFFICES ASSUME NEW g \in Handler, ~At(g, "idle")'
                PROVE  /\ owner'[Request(g)'.device] = Request(g)'.account => g \in member'
                       /\ At(g, "verify")' /\ Request(g)'.kind = "push" => g \in member'
                       /\ At(g, "push")' => g \in member'
    BY DEF MemberInv
  <2>1. g # h /\ handler'[g] = handler[g] /\ ~At(g, "idle")
    BY <1>8 DEF At, Idle, TypeOK
  <2>2. Request(g)' = Request(g)
    BY <2>1, RequestStays
  <2>. QED
    BY <1>8, <2>1, <2>2, RequestType, AccountAssumption DEF MemberInv, At
<1>9. ASSUME NEW h \in Handler, Revoke(h) \/ Push(h) \/ Refuse(h) PROVE MemberInv'
  <2>1. handler' = [handler EXCEPT ![h] = Idle] /\ member' = member \ {h}
    BY <1>9 DEF Revoke, Push, Refuse, Answer
  <2>2. \A d \in Device : owner'[d] = owner[d] \/ owner'[d] = NoAccount
    BY <1>9 DEF Revoke, Drop, Push, Refuse, server, TypeOK
  <2>. QED
    BY <1>8, <2>1, <2>2
<1>10. ASSUME NEW h \in Handler, FindKey(h) \/ Verify(h) PROVE MemberInv'
  <2>1. UNCHANGED owner
    BY <1>10 DEF FindKey, Verify, server
  <2>2. CASE Answer(h)
    BY <1>8, <2>1, <2>2 DEF Answer
  <2>3. CASE ~Answer(h)
    <3>1. PICK step \in {"verify", Request(h).kind} :
            /\ handler' = [handler EXCEPT ![h].at = step] /\ UNCHANGED member
            /\ ~At(h, "idle")
            /\ step = "verify" /\ Request(h).kind = "push"
                 => owner[Request(h).device] = Request(h).account
            /\ step = "push" => Request(h).kind = "push" /\ At(h, "verify")
      BY <1>10, <2>3 DEF FindKey, Verify, GoTo, At
    <3>2. \A g \in Handler : ~At(g, "idle")' =>
            /\ ~At(g, "idle") /\ handler'[g].nonce = handler[g].nonce
            /\ At(g, "verify")' => At(g, "verify") \/ (g = h /\ step = "verify")
            /\ At(g, "push")' => At(g, "push") \/ (g = h /\ step = "push")
      BY <3>1 DEF At, TypeOK
    <3>. QED
      BY <2>1, <3>1, <3>2, RequestStays DEF MemberInv
  <2>. QED
    BY <2>2, <2>3
<1>11. ASSUME NEW h \in Handler, AddDevice(h, Request(h).device, Request(h).account), ~At(h, "idle")
       PROVE  MemberInv'
  <2>. SUFFICES ASSUME NEW g \in Handler, ~At(g, "idle")'
                PROVE  /\ owner'[Request(g)'.device] = Request(g)'.account => g \in member'
                       /\ At(g, "verify")' /\ Request(g)'.kind = "push" => g \in member'
                       /\ At(g, "push")' => g \in member'
    BY DEF MemberInv
  <2>1. g # h /\ handler'[g] = handler[g] /\ ~At(g, "idle")
    BY <1>11 DEF AddDevice, At, Idle, TypeOK
  <2>2. Request(g)' = Request(g)
    BY <2>1, RequestStays
  <2>3. g \in member => g \in member'
    BY <1>11, <2>1 DEF AddDevice
  <2>4. owner'[Request(g).device] = Request(g).account => g \in member'
    <3>1. Request(g).device \in Device /\ Request(h).device \in Device
      BY <1>11, <2>1, RequestType
    <3>. QED
      BY <1>11, <2>1, <2>3, <3>1 DEF AddDevice, MemberInv, TypeOK
  <2>. QED
    BY <2>1, <2>2, <2>3, <2>4 DEF MemberInv, At
<1>12. ASSUME NEW h \in Handler, Enrol(h) \/ Claim(h) \/ Register(h) PROVE MemberInv'
  BY <1>9, <1>11, <1>12 DEF Enrol, Claim, Register, At
<1>. QED
  BY <1>2, <1>3, <1>4, <1>6, <1>7, <1>9, <1>10, <1>12, NextCases DEF Operating

LEMMA MembersPush ==
  ASSUME TypeOK, MemberInv, [Next]_vars, NEW n \in Nonce, applied'[n] # applied[n]
  PROVE  \E h \in member : At(h, "push") /\ handler[h].nonce = n
<1>1. PICK h \in Handler : Push(h)
  BY SendEffect, NextCases
  DEF SentNow, Receive, Operating, CreateInvite, RevokeDevice, DeleteAccount, Restart, Tick, vars,
      history, FindKey, Verify, Enrol, Claim, Register, Revoke, Refuse
<1>2. handler[h].nonce = n
  BY <1>1 DEF Push, Once, TypeOK
<1>3. h \in member
  BY <1>1 DEF Push, MemberInv, At
<1>. QED
  BY <1>1, <1>2, <1>3 DEF Push

-----------------------------------------------------------------------------
Inv == TypeOK /\ WellSent /\ RowInv /\ AppliedInv /\ AttachInv /\ MemberInv

\* The messages, the rows, what is remembered of each message and who is
\* served agree with each other, whatever order things happen in.
THEOREM AccountsInvariant == Spec => []Inv
<1>1. Init => Inv
  <2>. SUFFICES ASSUME Init PROVE Inv
    OBVIOUS
  <2>1. TypeOK
    BY TypeInit
  <2>2. SentNonces = {}
    BY DEF Init, SentNonces
  <2>3. \A h \in Handler : handler[h].at = "idle"
    BY DEF Init, Idle
  <2>4. WellSent
    BY <2>2, <2>3 DEF Init, WellSent, Kinds
  <2>5. RowInv
    BY <2>2 DEF Init, RowInv, NoOrphans, InvitesBuyOnce, DeletedStaysDeleted, EnrolledOnce,
                EnrolsDiffer, HasKey
  <2>6. AppliedInv /\ AttachInv
    BY <2>2 DEF Init, AppliedInv, AttachInv, PaidInv, RegisterInv
  <2>7. MemberInv
    BY <2>3 DEF MemberInv, At
  <2>. QED
    BY <2>1, <2>4, <2>5, <2>6, <2>7 DEF Inv
<1>2. Inv /\ [Next]_vars => Inv'
  BY TypeStep, WellSentStep, RowStep, AppliedStep, AttachInvStep, MemberStep DEF Inv
<1>. QED
  BY <1>1, <1>2, PTL DEF Spec

\* An invitation is spent once, and every account with a key spent one.
THEOREM InvitationsBuyOnce == Spec => []InvitesBuyOnce
<1>1. Inv => InvitesBuyOnce
  BY DEF Inv, RowInv
<1>. QED
  BY <1>1, AccountsInvariant, PTL

\* A deleted account does not come back, nor does a device of it.
THEOREM DeletionIsFinal == Spec => []DeletedForGood
<1>1. Inv => DeletedForGood
  BY DEF Inv, RowInv, DeletedForGood
<1>. QED
  BY <1>1, AccountsInvariant, PTL

\* A device that was removed stays out, unless the server restarted, or checked
\* the message for an earlier time than the message says or than nonces had
\* been pruned for.
THEOREM RemovalIsFinal == Spec => []RemovedStaysOut
<1>1. Inv => RemovedStaysOut
  BY DEF Inv, AttachInv, PaidInv, RegisterInv, RemovedStaysOut, SentNonces, TypeOK, Message
<1>. QED
  BY <1>1, AccountsInvariant, PTL

\* A push is applied once.
THEOREM PushesApplyOnce == Spec => []PushedOnce
<1>1. Inv => PushedOnce
  BY DEF Inv, AppliedInv, PushedOnce
<1>. QED
  BY <1>1, AccountsInvariant, PTL

\* Only a member changes an account.
THEOREM OnlyMembersPush == Spec => PushesAreMembers
<1>1. Inv /\ [Next]_vars =>
        [\A n \in Nonce : applied'[n] # applied[n] =>
           \E h \in member : At(h, "push") /\ handler[h].nonce = n]_vars
  BY MembersPush DEF Inv
<1>. QED
  BY <1>1, AccountsInvariant, PTL DEF Spec, PushesAreMembers

-----------------------------------------------------------------------------
(* The icon proxy.                                                          *)

(* What a request holds in each of its phases.                              *)
Holds(r) ==
  /\ r.at = "limit" => r.address \in Address /\ r.now \in 0..LastWindow
                       /\ r.domain \in Domain \cup {NotADomain}
  /\ r.at \in {"look", "fetch"} => r.domain \in Domain
  /\ r.at \in {"create", "fill"} => r.path \in Path
  /\ r.at = "sweep" => /\ DOMAIN r.ours \subseteq Path
                       /\ \A p \in DOMAIN r.ours : r.ours[p].size \in {0, 1}
                       /\ r.total \in Int /\ r.count \in Int

IconTypeOK ==
  /\ window \in 0..LastWindow
  /\ limiter \in [window : 0..LastWindow, hits : [Address -> 0..PerWindow + 1]]
  /\ file \in [Path -> [written : Nat, size : {0, 1}]]
  /\ \A p \in Path : file[p].written = 0 => file[p].size = 0
  /\ IsFiniteSet(Files)
  /\ DOMAIN serving = Serving /\ \A h \in Serving : Holds(serving[h])
  /\ let \in [Address -> [0..LastWindow -> Nat]]
  /\ late \in Nat /\ spoiled \in Nat /\ kept \subseteq Path

(* What a window can have let through: a whole budget, and one for each     *)
(* time the limiter was taken back; in the window it counts, what it has    *)
(* counted; in a later one, it must have been taken back from there.        *)
Allowance(a, w) ==
  IF w < limiter.window THEN PerWindow
  ELSE IF w > limiter.window THEN 0
  ELSE IF limiter.hits[a] > PerWindow THEN PerWindow ELSE limiter.hits[a]

BudgetSpent ==
  \A a \in Address, w \in 0..LastWindow : let[a][w] <= PerWindow * late + Allowance(a, w)

Requests(phases) == {h \in Serving : serving[h].at \in phases}
Sweeps == Requests({"sweep"})
Unlisted == Requests({"fill", "list"})
Unswept == Requests({"list"})
Counted == Files \ kept
Sizable == {p \in Counted : file[p].size > 0}

(* What a sweep has still before it, and what of that had a size.           *)
Ahead(h) == DOMAIN serving[h].ours
SizableAhead(h) == {p \in Ahead(h) : serving[h].ours[p].size > 0}

(* Take the listing of the request that was the last to list, of those that *)
(* are done; `open` are the sweeps with later listings, and `later` those   *)
(* with a later listing than a given one.  What is in the cache and not in  *)
(* a listing was written by requests that have not listed, or that did      *)
(* later, or that failed; and the listings of those done left no more than  *)
(* the ceilings.                                                            *)
Nested(open, later) ==
  /\ open \subseteq Sweeps
  /\ \A h \in open : /\ later[h] \subseteq open /\ h \notin later[h]
                     /\ \A k \in later[h] : later[k] \subseteq later[h]

Accounted(open, later) ==
  /\ \A h \in open :
       /\ Cardinality(Counted \ Ahead(h)) <= Cardinality(Unlisted) + Cardinality(later[h]) + spoiled
       /\ Cardinality(Sizable \ SizableAhead(h)) <= Cardinality(Unswept) + Cardinality(later[h]) + spoiled
  /\ Cardinality(Counted) <=
       MaxCacheEntries + Cardinality(Unlisted) + Cardinality(open) + spoiled
  /\ Cardinality(Sizable) <=
       MaxCacheBytes + Cardinality(Unswept) + Cardinality(open) + spoiled

CacheAccounted ==
  \E open \in SUBSET Serving : \E later \in [Serving -> SUBSET Serving] :
    Nested(open, later) /\ Accounted(open, later)

(* No sweep believes that less is ahead of it than there is.                *)
Believed ==
  \A h \in Sweeps :
    /\ IsFiniteSet(Ahead(h))
    /\ Cardinality(Ahead(h)) <= serving[h].count
    /\ Cardinality(SizableAhead(h)) <= serving[h].total

(* Types, and the limiter.                                                  *)

LEMMA ServingSets ==
  ASSUME IconTypeOK
  PROVE  /\ \A S \in SUBSET Serving : IsFiniteSet(S) /\ Cardinality(S) \in Nat
         /\ \A S \in SUBSET Files : IsFiniteSet(S) /\ Cardinality(S) \in Nat
         /\ Sizable \subseteq Counted /\ Counted \subseteq Files
<1>1. IsFiniteSet(Serving) /\ IsFiniteSet(Files)
  BY LimitAssumption DEF IconTypeOK
<1>2. Sizable \subseteq Counted /\ Counted \subseteq Files
  BY DEF Sizable, Counted
<1>. QED
  BY <1>1, <1>2, FS_Subset, FS_CardinalityType

(* Counting what is in one set and not in another.                          *)
LEMMA AddedTo ==
  ASSUME NEW S, NEW X, NEW T, NEW A, IsFiniteSet(S), IsFiniteSet(X), T \subseteq S \cup X
  PROVE  /\ IsFiniteSet(T) /\ IsFiniteSet(T \ A) /\ IsFiniteSet(S \ A)
         /\ Cardinality(T \ A) \in Nat /\ Cardinality(S \ A) \in Nat /\ Cardinality(X) \in Nat
         /\ Cardinality(T \ A) <= Cardinality(S \ A) + Cardinality(X)
<1>1. IsFiniteSet(S \ A) /\ Cardinality(S \ A) \in Nat /\ Cardinality(X) \in Nat
  BY FS_Subset, FS_CardinalityType
<1>2. /\ IsFiniteSet((S \ A) \cup X)
      /\ Cardinality((S \ A) \cup X) =
           Cardinality(S \ A) + Cardinality(X) - Cardinality((S \ A) \cap X)
  BY <1>1, FS_Union
<1>3. IsFiniteSet((S \ A) \cap X) /\ Cardinality((S \ A) \cap X) \in Nat
  BY <1>1, FS_Subset, FS_CardinalityType
<1>4. T \ A \subseteq (S \ A) \cup X
  OBVIOUS
<1>5. IsFiniteSet(T \ A) /\ Cardinality(T \ A) \in Nat
      /\ Cardinality(T \ A) <= Cardinality((S \ A) \cup X)
  BY <1>2, <1>4, FS_Subset, FS_CardinalityType
<1>6. IsFiniteSet(T)
  BY FS_Union, FS_Subset
<1>. QED
  BY <1>1, <1>2, <1>3, <1>5, <1>6

LEMMA AddedToAll ==
  ASSUME NEW S, NEW X, NEW T, IsFiniteSet(S), IsFiniteSet(X), T \subseteq S \cup X
  PROVE  Cardinality(T) \in Nat /\ Cardinality(T) <= Cardinality(S) + Cardinality(X)
<1>1. T \ {} = T /\ S \ {} = S
  OBVIOUS
<1>. QED
  BY <1>1, AddedTo

LEMMA HoldsOne ==
  ASSUME IconTypeOK, NEW h \in Serving, NEW new, serving' = [serving EXCEPT ![h] = new], Holds(new)
  PROVE  /\ DOMAIN serving' = Serving /\ serving'[h] = new
         /\ \A k \in Serving \ {h} : serving'[k] = serving[k]
         /\ \A k \in Serving : Holds(serving'[k])
BY DEF IconTypeOK

(* The hits that a request of a window is counted with.                     *)
HitsAt(now) == IF now = limiter.window THEN limiter.hits ELSE [b \in Address |-> 0]

LEMMA AllowIs ==
  ASSUME IconTypeOK, NEW a \in Address, NEW now \in 0..LastWindow
  PROVE  /\ Allow(a, now).next.window = now
         /\ Allow(a, now).next \in [window : 0..LastWindow, hits : [Address -> 0..PerWindow + 1]]
         /\ HitsAt(now) \in [Address -> 0..PerWindow + 1]
         /\ \A b \in Address \ {a} : Allow(a, now).next.hits[b] = HitsAt(now)[b]
         /\ Allow(a, now).next.hits[a] >= HitsAt(now)[a]
         /\ Allow(a, now).allowed => HitsAt(now)[a] < PerWindow
                                     /\ Allow(a, now).next.hits[a] = HitsAt(now)[a] + 1
<1>. DEFINE hits  == HitsAt(now)
            full  == ~(hits[a] > 0) /\ Cardinality(Tracked(hits)) >= MaxTracked
            count == IF hits[a] > PerWindow THEN hits[a] ELSE hits[a] + 1
            after == IF full THEN hits ELSE [hits EXCEPT ![a] = count]
<1>1. hits \in [Address -> 0..PerWindow + 1]
  <2>1. limiter.hits \in [Address -> 0..PerWindow + 1]
    BY DEF IconTypeOK
  <2>2. [b \in Address |-> 0] \in [Address -> 0..PerWindow + 1]
    BY LimitAssumption
  <2>. QED
    BY <2>1, <2>2 DEF HitsAt
<1>2. /\ Allow(a, now).allowed = (~full /\ count <= PerWindow)
      /\ Allow(a, now).next = [window |-> now, hits |-> after]
  BY DEF Allow, HitsAt
<1>. HIDE DEF hits
<1>3. count \in 0..PerWindow + 1 /\ count >= hits[a] /\ (count <= PerWindow => count = hits[a] + 1)
  BY <1>1, LimitAssumption
<1>4. full \in BOOLEAN
  OBVIOUS
<1>. HIDE DEF count, full
<1>5. /\ after \in [Address -> 0..PerWindow + 1]
      /\ \A b \in Address \ {a} : after[b] = hits[b]
      /\ after[a] = IF full THEN hits[a] ELSE count
  BY <1>1, <1>3, <1>4
<1>. HIDE DEF after
<1>6. after[a] >= hits[a] /\ (~full /\ count <= PerWindow => hits[a] < PerWindow /\ after[a] = hits[a] + 1)
  BY <1>1, <1>3, <1>5, LimitAssumption
<1>7. /\ Allow(a, now).next.window = now /\ Allow(a, now).next.hits = after
      /\ Allow(a, now).next \in [window : 0..LastWindow, hits : [Address -> 0..PerWindow + 1]]
  BY <1>2, <1>5
<1>8. Allow(a, now).allowed => ~full /\ count <= PerWindow
  BY <1>2
<1>. QED
  BY <1>1, <1>5, <1>6, <1>7, <1>8 DEF hits

(* The limiter counts another request: whatever window it is of.            *)
LEMMA LimitSpends ==
  ASSUME IconTypeOK, BudgetSpent, NEW h \in Serving, Limit(h)
  PROVE  /\ limiter' \in [window : 0..LastWindow, hits : [Address -> 0..PerWindow + 1]]
         /\ let' \in [Address -> [0..LastWindow -> Nat]] /\ late' \in Nat
         /\ BudgetSpent'
<1>. DEFINE b == serving[h].address
            now == serving[h].now
<1>1. b \in Address /\ now \in 0..LastWindow
  BY DEF Limit, Where, IconTypeOK, Holds
<1>2. /\ limiter' = Allow(b, now).next
      /\ late' = IF now < limiter.window THEN late + 1 ELSE late
      /\ let' = IF Allow(b, now).allowed THEN [let EXCEPT ![b][now] = @ + 1] ELSE let
  BY DEF Limit
<1>. HIDE DEF b, now
<1>3. /\ limiter' \in [window : 0..LastWindow, hits : [Address -> 0..PerWindow + 1]]
      /\ limiter'.window = now
  BY <1>1, <1>2, AllowIs
<1>4. let' \in [Address -> [0..LastWindow -> Nat]] /\ late' \in Nat
  <2>1. let \in [Address -> [0..LastWindow -> Nat]] /\ late \in Nat /\ let[b][now] \in Nat
    BY <1>1 DEF IconTypeOK
  <2>2. late' \in Nat
    BY <1>2, <2>1
  <2>3. [let[b] EXCEPT ![now] = @ + 1] \in [0..LastWindow -> Nat]
    BY <1>1, <2>1
  <2>4. [let EXCEPT ![b][now] = @ + 1] \in [Address -> [0..LastWindow -> Nat]]
    BY <1>1, <2>1, <2>3
  <2>. QED
    BY <1>2, <2>1, <2>2, <2>4
<1>5. ASSUME NEW a \in Address, NEW w \in 0..LastWindow
      PROVE  let'[a][w] <= PerWindow * late' + Allowance(a, w)'
  <2>1. /\ limiter.window \in Nat /\ limiter.hits[a] \in Nat /\ let[a][w] \in Nat /\ late \in Nat
        /\ PerWindow \in Nat \ {0} /\ w \in Nat /\ now \in Nat /\ limiter'.hits[a] \in Nat
    <3>1. limiter.window \in 0..LastWindow /\ limiter.hits[a] \in 0..PerWindow + 1
          /\ limiter'.hits[a] \in 0..PerWindow + 1
      BY <1>3 DEF IconTypeOK
    <3>2. let[a][w] \in Nat /\ late \in Nat
      BY DEF IconTypeOK
    <3>. QED
      BY <1>1, <3>1, <3>2, LimitAssumption
  <2>2. PerWindow * late \in Nat /\ PerWindow * (late + 1) = PerWindow * late + PerWindow
    BY <2>1
  <2>3. let[a][w] <= PerWindow * late + Allowance(a, w)
    BY DEF BudgetSpent
  <2>. DEFINE before == PerWindow * late
              lent == PerWindow * late'
  <2>4. before \in Nat /\ lent = IF now < limiter.window THEN before + PerWindow ELSE before
    BY <1>2, <2>1, <2>2
  <2>. HIDE DEF before, lent
  <2>5. let[a][w] <= before + Allowance(a, w)
    BY <2>3 DEF before
  <2>6. /\ limiter'.hits[a] >= HitsAt(now)[a] /\ HitsAt(now)[a] \in Nat
        /\ HitsAt(now)[a] = IF now = limiter.window THEN limiter.hits[a] ELSE 0
    BY <1>1, <1>2, <2>1, AllowIs DEF HitsAt
  <2>7. let'[a][w] <= lent + Allowance(a, w)'
    <3>1. CASE let'[a][w] = let[a][w]
      BY <1>3, <2>1, <2>4, <2>5, <2>6, <3>1 DEF Allowance
    <3>2. CASE let'[a][w] # let[a][w]
      <4>1. Allow(b, now).allowed /\ a = b /\ w = now /\ let'[a][w] = let[a][w] + 1
        BY <1>1, <1>2, <3>2 DEF IconTypeOK
      <4>2. HitsAt(now)[a] < PerWindow /\ limiter'.hits[a] = HitsAt(now)[a] + 1
        BY <1>1, <1>2, <4>1, AllowIs
      <4>. QED
        BY <1>3, <2>1, <2>4, <2>5, <2>6, <4>1, <4>2 DEF Allowance
    <3>. QED
      BY <3>1, <3>2
  <2>. QED
    BY <2>7 DEF lent
<1>. QED
  BY <1>3, <1>4, <1>5 DEF BudgetSpent

IconInv == IconTypeOK /\ BudgetSpent /\ CacheAccounted /\ Believed

(* What the steps that only move a request on leave alone.                  *)
LEMMA MovedOn ==
  ASSUME IconTypeOK, NEW h \in Serving, NEW new, serving' = [serving EXCEPT ![h] = new], Holds(new),
         UNCHANGED <<window, limiter, file, let, late>>,
         spoiled' \in Nat, kept' \subseteq Path
  PROVE  IconTypeOK' /\ (BudgetSpent => BudgetSpent')
<1>1. DOMAIN serving' = Serving /\ \A k \in Serving : Holds(serving'[k])
  BY HoldsOne
<1>2. IconTypeOK'
  <2>1. (\A p \in Path : file[p].written = 0 => file[p].size = 0)' /\ IsFiniteSet(Files')
    BY DEF IconTypeOK, Files
  <2>2. /\ window' \in 0..LastWindow
        /\ limiter' \in [window : 0..LastWindow, hits : [Address -> 0..PerWindow + 1]]
        /\ file' \in [Path -> [written : Nat, size : {0, 1}]]
        /\ let' \in [Address -> [0..LastWindow -> Nat]]
        /\ late' \in Nat
    BY DEF IconTypeOK
  <2>3. (\A k \in Serving : Holds(serving[k]))'
    BY <1>1 DEF Holds
  <2>. QED
    BY <1>1, <2>1, <2>2, <2>3 DEF IconTypeOK
<1>. QED
  BY <1>2 DEF BudgetSpent, Allowance

(* And those that write or remove one file.                                 *)
LEMMA WrittenTo ==
  ASSUME IconTypeOK, NEW h \in Serving, NEW new, serving' = [serving EXCEPT ![h] = new], Holds(new),
         NEW p \in Path, NEW f \in [written : Nat, size : {0, 1}], file' = [file EXCEPT ![p] = f],
         f.written = 0 => f.size = 0,
         UNCHANGED <<window, limiter, let, late>>,
         spoiled' \in Nat, kept' \subseteq Path
  PROVE  IconTypeOK' /\ (BudgetSpent => BudgetSpent')
<1>1. DOMAIN serving' = Serving /\ \A k \in Serving : Holds(serving'[k])
  BY HoldsOne
<1>2. IconTypeOK'
  <2>1. file' \in [Path -> [written : Nat, size : {0, 1}]]
    BY DEF IconTypeOK
  <2>2. \A q \in Path : file'[q] = IF q = p THEN f ELSE file[q]
    BY DEF IconTypeOK
  <2>3. (\A q \in Path : file[q].written = 0 => file[q].size = 0)'
    BY <2>2 DEF IconTypeOK
  <2>4. Files' \subseteq Files \cup {p}
    BY <2>2 DEF Files
  <2>5. IsFiniteSet(Files')
    BY <2>4, FS_AddElement, FS_Subset DEF IconTypeOK
  <2>6. /\ window' \in 0..LastWindow
        /\ limiter' \in [window : 0..LastWindow, hits : [Address -> 0..PerWindow + 1]]
        /\ let' \in [Address -> [0..LastWindow -> Nat]]
        /\ late' \in Nat
    BY DEF IconTypeOK
  <2>7. (\A k \in Serving : Holds(serving[k]))'
    BY <1>1 DEF Holds
  <2>. QED
    BY <1>1, <2>1, <2>3, <2>5, <2>6, <2>7 DEF IconTypeOK
<1>. QED
  BY <1>2 DEF BudgetSpent, Allowance

(* A sweep's next step: the next of its listing, whether it is removed, and *)
(* what the sweep believes of the rest.                                     *)
SweepsNext(h, p, removed, rest, total, count) ==
  LET s == serving[h] IN
  /\ p \in DOMAIN s.ours /\ removed \in BOOLEAN
  /\ rest = [q \in DOMAIN s.ours \ {p} |-> s.ours[q]]
  /\ total = IF removed THEN s.total - s.ours[p].size ELSE s.total
  /\ count = IF removed THEN s.count - 1 ELSE s.count
  /\ file' = IF removed THEN [file EXCEPT ![p] = Missing] ELSE file
  /\ kept' = IF removed THEN kept \ {p} ELSE kept \cup ({p} \cap Files)
  /\ serving' = [serving EXCEPT ![h] =
       IF Within(total, count) \/ DOMAIN rest = {} THEN Free
       ELSE [at |-> "sweep", ours |-> rest, total |-> total, count |-> count]]

LEMMA SweepIs ==
  ASSUME NEW h \in Serving, Sweep(h)
  PROVE  \E p, removed, rest, total, count : SweepsNext(h, p, removed, rest, total, count)
<1>. DEFINE s == serving[h]
            rest(p) == [q \in DOMAIN s.ours \ {p} |-> s.ours[q]]
            total(p, removed) == IF removed THEN s.total - s.ours[p].size ELSE s.total
            count(removed) == IF removed THEN s.count - 1 ELSE s.count
<1>1. PICK p \in DOMAIN s.ours, removed \in BOOLEAN :
        /\ file' = IF removed THEN [file EXCEPT ![p] = Missing] ELSE file
        /\ kept' = IF removed THEN kept \ {p} ELSE kept \cup ({p} \cap Files)
        /\ serving' = [serving EXCEPT ![h] =
             IF Within(total(p, removed), count(removed)) \/ DOMAIN rest(p) = {} THEN Free
             ELSE [at |-> "sweep", ours |-> rest(p), total |-> total(p, removed),
                   count |-> count(removed)]]
  BY DEF Sweep
<1>2. SweepsNext(h, p, removed, rest(p), total(p, removed), count(removed))
  BY <1>1 DEF SweepsNext
<1>. QED
  BY <1>2

LEMMA IconTypeStep ==
  ASSUME IconTypeOK, BudgetSpent, [NextIcons]_iconVars
  PROVE  IconTypeOK' /\ BudgetSpent'
<1>. USE DEF Where, Holds, Free
<1>1. CASE UNCHANGED iconVars
  BY <1>1 DEF iconVars, IconTypeOK, Files, BudgetSpent, Allowance
<1>2. CASE Ask
  <2>1. PICK h \in Serving, a \in Address, d \in Domain \cup {NotADomain} :
          serving' = [serving EXCEPT ![h] =
            [at |-> "limit", address |-> a, domain |-> d, now |-> window]]
    BY <1>2 DEF Ask
  <2>2. UNCHANGED <<window, limiter, file, let, late>> /\ spoiled' \in Nat /\ kept' \subseteq Path
    BY <1>2 DEF Ask, IconTypeOK
  <2>3. Holds([at |-> "limit", address |-> a, domain |-> d, now |-> window])
    BY DEF IconTypeOK
  <2>. QED
    BY <2>1, <2>2, <2>3, MovedOn
<1>3. CASE NextWindow
  <2>1. window' \in 0..LastWindow
    BY <1>3, LimitAssumption DEF NextWindow, IconTypeOK
  <2>2. UNCHANGED <<limiter, file, serving, let, late, spoiled, kept>>
    BY <1>3 DEF NextWindow
  <2>. QED
    BY <2>1, <2>2 DEF IconTypeOK, Files, BudgetSpent, Allowance
<1>4. ASSUME NEW h \in Serving, Limit(h) PROVE IconTypeOK' /\ BudgetSpent'
  <2>1. /\ limiter' \in [window : 0..LastWindow, hits : [Address -> 0..PerWindow + 1]]
        /\ let' \in [Address -> [0..LastWindow -> Nat]] /\ late' \in Nat
        /\ BudgetSpent'
    BY <1>4, LimitSpends
  <2>2. PICK new \in {Free, [at |-> "look", domain |-> serving[h].domain]} :
          /\ serving' = [serving EXCEPT ![h] = new]
          /\ new # Free => serving[h].domain # NotADomain
    BY <1>4 DEF Limit
  <2>3. serving[h].domain \in Domain \cup {NotADomain}
    BY <1>4 DEF Limit, IconTypeOK
  <2>4. Holds(new)
    BY <2>2, <2>3
  <2>5. DOMAIN serving' = Serving /\ \A k \in Serving : Holds(serving'[k])
    BY <2>2, <2>4, HoldsOne
  <2>6. UNCHANGED <<window, file, spoiled, kept>>
    BY <1>4 DEF Limit
  <2>7. (\A k \in Serving : Holds(serving[k]))'
    BY <2>5
  <2>8. file' \in [Path -> [written : Nat, size : {0, 1}]] /\ IsFiniteSet(Files')
        /\ window' \in 0..LastWindow /\ spoiled' \in Nat /\ kept' \subseteq Path
        /\ (\A p \in Path : file[p].written = 0 => file[p].size = 0)'
    BY <2>6 DEF IconTypeOK, Files
  <2>. QED
    BY <2>1, <2>5, <2>7, <2>8 DEF IconTypeOK
<1>5. ASSUME NEW h \in Serving, Look(h) \/ Fetch(h) PROVE IconTypeOK' /\ BudgetSpent'
  <2>1. serving[h].domain \in Domain
    BY <1>5 DEF Look, Fetch, IconTypeOK
  <2>2. PICK new \in {Free, [at |-> "fetch", domain |-> serving[h].domain],
                      [at |-> "create", path |-> <<serving[h].domain, "ico">>],
                      [at |-> "create", path |-> <<serving[h].domain, "none">>]} :
          serving' = [serving EXCEPT ![h] = new]
    BY <1>5 DEF Look, Fetch
  <2>3. Holds(new)
    BY <2>1, <2>2 DEF Path
  <2>4. UNCHANGED <<window, limiter, file, let, late>> /\ spoiled' \in Nat /\ kept' \subseteq Path
    BY <1>5 DEF Look, Fetch, IconTypeOK
  <2>. QED
    BY <2>2, <2>3, <2>4, MovedOn
<1>6. ASSUME NEW h \in Serving, Create(h) PROVE IconTypeOK' /\ BudgetSpent'
  <2>. DEFINE p == serving[h].path
              f == [written |-> window + 1, size |-> 0]
  <2>1. p \in Path /\ window \in Nat
    BY <1>6, LimitAssumption DEF Create, IconTypeOK
  <2>2. f \in [written : Nat, size : {0, 1}] /\ f.written # 0
    BY <2>1
  <2>3. UNCHANGED <<window, limiter, let, late>> /\ spoiled' \in Nat /\ kept' \subseteq Path
    BY <1>6 DEF Create, IconTypeOK
  <2>4. CASE /\ file' = [file EXCEPT ![p] = f]
             /\ serving' = [serving EXCEPT ![h] = [at |-> "fill", path |-> p]]
    BY <2>1, <2>2, <2>3, <2>4, WrittenTo
  <2>5. CASE UNCHANGED file /\ serving' = [serving EXCEPT ![h] = Free]
    BY <2>3, <2>5, MovedOn
  <2>. QED
    BY <1>6, <2>4, <2>5 DEF Create
<1>7. ASSUME NEW h \in Serving, Fill(h) PROVE IconTypeOK' /\ BudgetSpent'
  <2>. DEFINE p == serving[h].path
  <2>1. p \in Path /\ window \in Nat
    BY <1>7, LimitAssumption DEF Fill, IconTypeOK
  <2>2. PICK size \in {0, 1}, new \in {Free, [at |-> "list"]} :
          file' = Filled(p, size) /\ serving' = [serving EXCEPT ![h] = new]
    BY <1>7 DEF Fill, Size
  <2>. DEFINE f == IF file[p].written = 0 THEN file[p] ELSE [written |-> window + 1, size |-> size]
  <2>3. f \in [written : Nat, size : {0, 1}] /\ (f.written = 0 => f.size = 0)
    BY <2>1 DEF IconTypeOK
  <2>4. UNCHANGED <<window, limiter, let, late>> /\ spoiled' \in Nat /\ kept' \subseteq Path
    BY <1>7 DEF Fill, IconTypeOK
  <2>5. file' = [file EXCEPT ![p] = f]
    BY <2>1, <2>2 DEF Filled, IconTypeOK
  <2>6. Holds(new)
    BY <2>2
  <2>. QED
    BY <2>1, <2>2, <2>3, <2>4, <2>5, <2>6, WrittenTo
<1>8. ASSUME NEW h \in Serving, List(h) PROVE IconTypeOK' /\ BudgetSpent'
  <2>1. PICK paths \in SUBSET Files :
          serving' \in {[serving EXCEPT ![h] = Free], [serving EXCEPT ![h] = Listed(paths)]}
    BY <1>8 DEF List
  <2>. DEFINE new == IF serving' = [serving EXCEPT ![h] = Free] THEN Free ELSE Listed(paths)
  <2>2. Cardinality(paths) \in Nat /\ Bytes(paths) \in Nat
    BY ServingSets DEF Bytes
  <2>3. Holds(new)
    <3>1. CASE new = Free
      BY <3>1
    <3>2. CASE new = [at |-> "sweep", ours |-> [p \in paths |-> file[p]],
                      total |-> Bytes(paths), count |-> Cardinality(paths)]
      BY <2>2, <3>2 DEF IconTypeOK, Files
    <3>. QED
      BY <3>1, <3>2 DEF Listed
  <2>4. UNCHANGED <<window, limiter, file, let, late>> /\ spoiled' \in Nat /\ kept' \subseteq Path
    BY <1>8 DEF List, IconTypeOK, Files
  <2>. QED
    BY <2>1, <2>3, <2>4, MovedOn
<1>9. ASSUME NEW h \in Serving, Sweep(h) PROVE IconTypeOK' /\ BudgetSpent'
  <2>1. PICK p, removed, rest, total, count : SweepsNext(h, p, removed, rest, total, count)
    BY <1>9, SweepIs
  <2>. DEFINE s == [at |-> "sweep", ours |-> rest, total |-> total, count |-> count]
  <2>2. /\ DOMAIN serving[h].ours \subseteq Path
        /\ \A q \in DOMAIN serving[h].ours : serving[h].ours[q].size \in {0, 1}
        /\ serving[h].total \in Int /\ serving[h].count \in Int
    BY <1>9 DEF Sweep, IconTypeOK
  <2>3. /\ p \in Path /\ DOMAIN rest \subseteq Path
        /\ \A q \in DOMAIN rest : rest[q].size \in {0, 1}
        /\ total \in Int /\ count \in Int
    BY <2>1, <2>2 DEF SweepsNext
  <2>4. Holds(s)
    BY <2>3
  <2>5. PICK new \in {Free, s} : serving' = [serving EXCEPT ![h] = new]
    BY <2>1 DEF SweepsNext
  <2>6. Holds(new)
    BY <2>4, <2>5
  <2>7. UNCHANGED <<window, limiter, let, late>> /\ spoiled' \in Nat /\ kept' \subseteq Path
    BY <1>9, <2>1, <2>3 DEF Sweep, SweepsNext, IconTypeOK
  <2>8. CASE removed
    <3>1. Missing \in [written : Nat, size : {0, 1}] /\ Missing.size = 0
      BY DEF Missing
    <3>2. file' = [file EXCEPT ![p] = Missing]
      BY <2>1, <2>8 DEF SweepsNext
    <3>. QED
      BY <2>3, <2>5, <2>6, <2>7, <3>1, <3>2, WrittenTo
  <2>9. CASE ~removed
    <3>1. file' = file
      BY <2>1, <2>9 DEF SweepsNext
    <3>. QED
      BY <2>5, <2>6, <2>7, <3>1, MovedOn
  <2>. QED
    BY <2>1, <2>8, <2>9 DEF SweepsNext
<1>. QED
  BY <1>1, <1>2, <1>3, <1>4, <1>5, <1>6, <1>7, <1>8, <1>9 DEF NextIcons, Serve

-----------------------------------------------------------------------------
(* The cache: steps that leave the sweeps as they are.  What they write is  *)
(* theirs to account for.                                                   *)
LEMMA SameSweeps ==
  ASSUME IconInv, IconTypeOK', NEW X, NEW Y, IsFiniteSet(X), IsFiniteSet(Y),
         Sweeps' = Sweeps, \A k \in Sweeps : serving'[k] = serving[k],
         Counted' \subseteq Counted \cup X, Sizable' \subseteq Sizable \cup Y,
         Cardinality(Unlisted) + spoiled + Cardinality(X) <= Cardinality(Unlisted') + spoiled',
         Cardinality(Unswept) + spoiled + Cardinality(Y) <= Cardinality(Unswept') + spoiled'
  PROVE  CacheAccounted' /\ Believed'
<1>1. PICK open \in SUBSET Serving, later \in [Serving -> SUBSET Serving] :
        Nested(open, later) /\ Accounted(open, later)
  BY DEF IconInv, CacheAccounted
<1>2. Nested(open, later)'
  BY <1>1 DEF Nested
<1>3. IsFiniteSet(Counted) /\ IsFiniteSet(Sizable)
  BY ServingSets DEF IconInv
<1>4. /\ \A A : /\ Cardinality(Counted' \ A) \in Nat /\ Cardinality(Counted \ A) \in Nat
                /\ Cardinality(Counted' \ A) <= Cardinality(Counted \ A) + Cardinality(X)
                /\ Cardinality(Sizable' \ A) \in Nat /\ Cardinality(Sizable \ A) \in Nat
                /\ Cardinality(Sizable' \ A) <= Cardinality(Sizable \ A) + Cardinality(Y)
      /\ Cardinality(X) \in Nat /\ Cardinality(Y) \in Nat
  BY <1>3, AddedTo
<1>5. Counted' \ {} = Counted' /\ Counted \ {} = Counted /\ Sizable' \ {} = Sizable' /\ Sizable \ {} = Sizable
  OBVIOUS
<1>6. /\ Cardinality(Unlisted) \in Nat /\ Cardinality(Unswept) \in Nat
      /\ Cardinality(Unlisted') \in Nat /\ Cardinality(Unswept') \in Nat
      /\ spoiled \in Nat /\ spoiled' \in Nat
      /\ Cardinality(open) \in Nat /\ \A h \in Serving : Cardinality(later[h]) \in Nat
  <2>1. \A S \in SUBSET Serving : Cardinality(S) \in Nat
    BY ServingSets DEF IconInv
  <2>2. Unlisted \subseteq Serving /\ Unswept \subseteq Serving
        /\ Unlisted' \subseteq Serving /\ Unswept' \subseteq Serving
    BY DEF Unlisted, Unswept, Requests
  <2>. QED
    BY <2>1, <2>2 DEF IconInv, IconTypeOK
<1>7. /\ Cardinality(Counted') <= MaxCacheEntries + Cardinality(Unlisted') + Cardinality(open) + spoiled'
      /\ Cardinality(Sizable') <= MaxCacheBytes + Cardinality(Unswept') + Cardinality(open) + spoiled'
  <2>1. /\ Cardinality(Counted) <= MaxCacheEntries + Cardinality(Unlisted) + Cardinality(open) + spoiled
        /\ Cardinality(Sizable) <= MaxCacheBytes + Cardinality(Unswept) + Cardinality(open) + spoiled
    BY <1>1 DEF Accounted
  <2>2. /\ Cardinality(Counted') <= Cardinality(Counted) + Cardinality(X)
        /\ Cardinality(Sizable') <= Cardinality(Sizable) + Cardinality(Y)
        /\ Cardinality(Counted) \in Nat /\ Cardinality(Counted') \in Nat
        /\ Cardinality(Sizable) \in Nat /\ Cardinality(Sizable') \in Nat
    BY <1>4, <1>5
  <2>. QED
    BY <1>4, <1>6, <2>1, <2>2, LimitAssumption
<1>8. ASSUME NEW h \in open
      PROVE  /\ Ahead(h)' = Ahead(h) /\ SizableAhead(h)' = SizableAhead(h)
             /\ Cardinality(Counted' \ Ahead(h)) <=
                  Cardinality(Unlisted') + Cardinality(later[h]) + spoiled'
             /\ Cardinality(Sizable' \ SizableAhead(h)) <=
                  Cardinality(Unswept') + Cardinality(later[h]) + spoiled'
  <2>1. h \in Sweeps /\ h \in Serving
    BY <1>1 DEF Nested
  <2>2. Ahead(h)' = Ahead(h) /\ SizableAhead(h)' = SizableAhead(h)
    BY <2>1 DEF Ahead, SizableAhead
  <2>3. /\ Cardinality(Counted \ Ahead(h)) <= Cardinality(Unlisted) + Cardinality(later[h]) + spoiled
        /\ Cardinality(Sizable \ SizableAhead(h)) <= Cardinality(Unswept) + Cardinality(later[h]) + spoiled
    BY <1>1 DEF Accounted
  <2>4. /\ Cardinality(Counted' \ Ahead(h)) \in Nat /\ Cardinality(Counted \ Ahead(h)) \in Nat
        /\ Cardinality(Counted' \ Ahead(h)) <= Cardinality(Counted \ Ahead(h)) + Cardinality(X)
    BY <1>4
  <2>5. /\ Cardinality(Sizable' \ SizableAhead(h)) \in Nat
        /\ Cardinality(Sizable \ SizableAhead(h)) \in Nat
        /\ Cardinality(Sizable' \ SizableAhead(h)) <=
             Cardinality(Sizable \ SizableAhead(h)) + Cardinality(Y)
    BY <1>4
  <2>6. Cardinality(X) \in Nat /\ Cardinality(Y) \in Nat /\ Cardinality(later[h]) \in Nat
    BY <1>4, <1>6, <2>1
  <2>7. Cardinality(Counted' \ Ahead(h)) <= Cardinality(Unlisted') + Cardinality(later[h]) + spoiled'
    BY <1>6, <2>3, <2>4, <2>6
  <2>8. Cardinality(Sizable' \ SizableAhead(h)) <= Cardinality(Unswept') + Cardinality(later[h]) + spoiled'
    BY <1>6, <2>3, <2>5, <2>6
  <2>. QED
    BY <2>2, <2>7, <2>8
<1>9. Accounted(open, later)'
  BY <1>7, <1>8 DEF Accounted
<1>10. Believed'
  <2>1. \A h \in Sweeps : Ahead(h)' = Ahead(h) /\ SizableAhead(h)' = SizableAhead(h)
    BY DEF Ahead, SizableAhead
  <2>. QED
    BY <2>1 DEF IconInv, Believed
<1>. QED
  BY <1>2, <1>9, <1>10 DEF CacheAccounted

(* A request that moves from one phase to another.                          *)
LEMMA PhasesAre ==
  ASSUME IconTypeOK, NEW h \in Serving, NEW new, serving' = [serving EXCEPT ![h] = new], NEW P
  PROVE  /\ h \in Requests(P) <=> serving[h].at \in P
         /\ Requests(P) \subseteq Serving /\ Cardinality(Requests(P)) \in Nat
         /\ serving[h].at \in P /\ new.at \in P => Requests(P)' = Requests(P)
         /\ serving[h].at \notin P /\ new.at \notin P => Requests(P)' = Requests(P)
         /\ serving[h].at \notin P /\ new.at \in P =>
              /\ Requests(P)' = Requests(P) \cup {h}
              /\ Cardinality(Requests(P)') = Cardinality(Requests(P)) + 1
         /\ serving[h].at \in P /\ new.at \notin P =>
              /\ Requests(P)' = Requests(P) \ {h}
              /\ Cardinality(Requests(P)') = Cardinality(Requests(P)) - 1
<1>1. serving'[h] = new /\ \A k \in Serving \ {h} : serving'[k] = serving[k]
  BY DEF IconTypeOK
<1>2. Requests(P)' = IF new.at \in P THEN Requests(P) \cup {h} ELSE Requests(P) \ {h}
  BY <1>1 DEF Requests
<1>3. h \in Requests(P) <=> serving[h].at \in P
  BY DEF Requests
<1>4. Requests(P) \subseteq Serving /\ IsFiniteSet(Requests(P)) /\ Cardinality(Requests(P)) \in Nat
  BY ServingSets DEF Requests
<1>5. /\ Cardinality(Requests(P) \cup {h}) =
           IF h \in Requests(P) THEN Cardinality(Requests(P)) ELSE Cardinality(Requests(P)) + 1
      /\ Cardinality(Requests(P) \ {h}) =
           IF h \in Requests(P) THEN Cardinality(Requests(P)) - 1 ELSE Cardinality(Requests(P))
  BY <1>4, FS_AddElement, FS_RemoveElement
<1>. QED
  BY <1>2, <1>3, <1>4, <1>5

LEMMA MovesAre ==
  ASSUME IconTypeOK, NEW h \in Serving, NEW new, serving' = [serving EXCEPT ![h] = new]
  PROVE  LET old == serving[h].at IN
         /\ serving'[h] = new /\ \A k \in Serving \ {h} : serving'[k] = serving[k]
         /\ h \in Sweeps <=> old = "sweep"
         /\ Sweeps \subseteq Serving
         /\ Cardinality(Unlisted) \in Nat /\ Cardinality(Unswept) \in Nat
         /\ old = "create" /\ new.at = "fill" =>
              /\ Sweeps' = Sweeps /\ Unswept' = Unswept
              /\ Cardinality(Unlisted') = Cardinality(Unlisted) + 1
         /\ old = "fill" /\ new.at = "list" =>
              /\ Sweeps' = Sweeps /\ Unlisted' = Unlisted
              /\ Cardinality(Unswept') = Cardinality(Unswept) + 1
         /\ old = "fill" /\ new.at = "free" =>
              /\ Sweeps' = Sweeps /\ Unswept' = Unswept
              /\ Cardinality(Unlisted') = Cardinality(Unlisted) - 1
         /\ old = "list" /\ new.at \in {"free", "sweep"} =>
              /\ Sweeps' = IF new.at = "free" THEN Sweeps ELSE Sweeps \cup {h}
              /\ Cardinality(Unlisted') = Cardinality(Unlisted) - 1
              /\ Cardinality(Unswept') = Cardinality(Unswept) - 1
         /\ old = "sweep" /\ new.at \in {"free", "sweep"} =>
              /\ Sweeps' = IF new.at = "free" THEN Sweeps \ {h} ELSE Sweeps
              /\ Unlisted' = Unlisted /\ Unswept' = Unswept
         /\ old \notin {"fill", "list", "sweep"} /\ new.at \notin {"fill", "list", "sweep"} =>
              /\ Sweeps' = Sweeps /\ Unlisted' = Unlisted /\ Unswept' = Unswept
<1>. DEFINE old == serving[h].at
<1>1. serving'[h] = new /\ \A k \in Serving \ {h} : serving'[k] = serving[k]
  BY DEF IconTypeOK
<1>2. /\ h \in Sweeps <=> old = "sweep"
      /\ Sweeps \subseteq Serving
      /\ (old = "sweep" <=> new.at = "sweep") => Sweeps' = Sweeps
      /\ old # "sweep" /\ new.at = "sweep" => Sweeps' = Sweeps \cup {h}
      /\ old = "sweep" /\ new.at # "sweep" => Sweeps' = Sweeps \ {h}
  <2>. DEFINE P == {"sweep"}
  <2>1. /\ h \in Requests(P) <=> old \in P
        /\ Requests(P) \subseteq Serving
        /\ old \in P /\ new.at \in P => Requests(P)' = Requests(P)
        /\ old \notin P /\ new.at \notin P => Requests(P)' = Requests(P)
        /\ old \notin P /\ new.at \in P => Requests(P)' = Requests(P) \cup {h}
        /\ old \in P /\ new.at \notin P => Requests(P)' = Requests(P) \ {h}
    <3>. HIDE DEF P
    <3>. QED
      BY PhasesAre
  <2>. QED
    BY <2>1 DEF Sweeps
<1>3. /\ Cardinality(Unlisted) \in Nat
      /\ old \in {"fill", "list"} /\ new.at \in {"fill", "list"} => Unlisted' = Unlisted
      /\ old \notin {"fill", "list"} /\ new.at \notin {"fill", "list"} => Unlisted' = Unlisted
      /\ old \notin {"fill", "list"} /\ new.at \in {"fill", "list"} =>
           Cardinality(Unlisted') = Cardinality(Unlisted) + 1
      /\ old \in {"fill", "list"} /\ new.at \notin {"fill", "list"} =>
           Cardinality(Unlisted') = Cardinality(Unlisted) - 1
  <2>. DEFINE P == {"fill", "list"}
  <2>1. /\ Cardinality(Requests(P)) \in Nat
        /\ old \in P /\ new.at \in P => Requests(P)' = Requests(P)
        /\ old \notin P /\ new.at \notin P => Requests(P)' = Requests(P)
        /\ old \notin P /\ new.at \in P =>
             Cardinality(Requests(P)') = Cardinality(Requests(P)) + 1
        /\ old \in P /\ new.at \notin P =>
             Cardinality(Requests(P)') = Cardinality(Requests(P)) - 1
    <3>. HIDE DEF P
    <3>. QED
      BY PhasesAre
  <2>. QED
    BY <2>1 DEF Unlisted
<1>4. /\ Cardinality(Unswept) \in Nat
      /\ old # "list" /\ new.at # "list" => Unswept' = Unswept
      /\ old # "list" /\ new.at = "list" => Cardinality(Unswept') = Cardinality(Unswept) + 1
      /\ old = "list" /\ new.at # "list" => Cardinality(Unswept') = Cardinality(Unswept) - 1
  <2>. DEFINE P == {"list"}
  <2>1. /\ Cardinality(Requests(P)) \in Nat
        /\ old \notin P /\ new.at \notin P => Requests(P)' = Requests(P)
        /\ old \notin P /\ new.at \in P =>
             Cardinality(Requests(P)') = Cardinality(Requests(P)) + 1
        /\ old \in P /\ new.at \notin P =>
             Cardinality(Requests(P)') = Cardinality(Requests(P)) - 1
    <3>. HIDE DEF P
    <3>. QED
      BY PhasesAre
  <2>. QED
    BY <2>1 DEF Unswept
<1>. QED
  BY <1>1, <1>2, <1>3, <1>4

(* Steps of requests that write nothing and do not sweep.                   *)
LEMMA QuietHolds ==
  ASSUME IconInv, IconTypeOK', NEW h \in Serving, NEW new, serving' = [serving EXCEPT ![h] = new],
         serving[h].at \notin {"fill", "list", "sweep"}, new.at \notin {"fill", "list", "sweep"},
         file' = file, spoiled' = spoiled, kept' = kept
  PROVE  CacheAccounted' /\ Believed'
<1>1. IconTypeOK
  BY DEF IconInv
<1>2. /\ Sweeps' = Sweeps /\ Unlisted' = Unlisted /\ Unswept' = Unswept
      /\ Cardinality(Unlisted) \in Nat /\ Cardinality(Unswept) \in Nat
      /\ h \notin Sweeps /\ Sweeps \subseteq Serving
      /\ \A k \in Serving \ {h} : serving'[k] = serving[k]
  BY <1>1, MovesAre
<1>3. \A k \in Sweeps : serving'[k] = serving[k]
  BY <1>2
<1>4. Counted' \subseteq Counted \cup {} /\ Sizable' \subseteq Sizable \cup {}
  BY DEF Counted, Files, Sizable
<1>5. spoiled \in Nat /\ IsFiniteSet({}) /\ Cardinality({}) = 0
  BY <1>1, FS_EmptySet DEF IconTypeOK
<1>6. /\ Cardinality(Unlisted) + spoiled + Cardinality({}) <= Cardinality(Unlisted') + spoiled'
      /\ Cardinality(Unswept) + spoiled + Cardinality({}) <= Cardinality(Unswept') + spoiled'
  BY <1>2, <1>5
<1>. QED
  BY <1>2, <1>3, <1>4, <1>5, <1>6, SameSweeps

(* A file that is made is its maker's to account for until it lists, and    *)
(* one that could not be filled stays accounted for.                        *)
LEMMA WritingHolds ==
  ASSUME IconInv, IconTypeOK', NEW h \in Serving, Create(h) \/ Fill(h)
  PROVE  CacheAccounted' /\ Believed'
<1>0. IconTypeOK /\ serving[h].path \in Path /\ spoiled \in Nat /\ kept' = kept
  BY DEF IconInv, IconTypeOK, Holds, Create, Fill, Where
<1>1. /\ Cardinality(Unlisted) \in Nat /\ Cardinality(Unswept) \in Nat
      /\ IsFiniteSet({}) /\ Cardinality({}) = 0
      /\ \A x : IsFiniteSet({x}) /\ Cardinality({x}) = 1
  BY <1>0, FS_EmptySet, FS_Singleton, PhasesAre, ServingSets DEF Unlisted, Unswept, Requests
<1>2. ASSUME NEW new, serving' = [serving EXCEPT ![h] = new], Sweeps' = Sweeps,
             serving[h].at # "sweep"
      PROVE  \A k \in Sweeps : serving'[k] = serving[k]
  BY <1>0, <1>2 DEF IconTypeOK, Sweeps, Requests
<1>3. CASE Create(h)
  <2>. DEFINE p == serving[h].path
  <2>1. serving[h].at = "create" /\ spoiled' = spoiled
    BY <1>3 DEF Create, Where
  <2>2. CASE /\ file' = [file EXCEPT ![p] = [written |-> window + 1, size |-> 0]]
             /\ serving' = [serving EXCEPT ![h] = [at |-> "fill", path |-> p]]
    <3>1. \A q \in Path : file'[q] = IF q = p THEN [written |-> window + 1, size |-> 0] ELSE file[q]
      BY <1>0, <2>2 DEF IconTypeOK
    <3>2. Counted' \subseteq Counted \cup {p} /\ Sizable' \subseteq Sizable \cup {}
      BY <1>0, <3>1 DEF Counted, Files, Sizable
    <3>3. [at |-> "fill", path |-> p].at = "fill"
      OBVIOUS
    <3>4. /\ Sweeps' = Sweeps /\ \A k \in Sweeps : serving'[k] = serving[k]
          /\ Cardinality(Unlisted') = Cardinality(Unlisted) + 1
          /\ Cardinality(Unswept') = Cardinality(Unswept)
      BY <1>0, <1>2, <2>1, <2>2, <3>3, MovesAre
    <3>5. /\ Cardinality(Unlisted) + spoiled + Cardinality({p}) <= Cardinality(Unlisted') + spoiled'
          /\ Cardinality(Unswept) + spoiled + Cardinality({}) <= Cardinality(Unswept') + spoiled'
      <4>1. Cardinality({p}) = 1
        BY <1>1
      <4>. QED
        BY <1>0, <1>1, <2>1, <3>4, <4>1
    <3>. QED
      BY <1>1, <3>2, <3>4, <3>5, SameSweeps
  <2>3. CASE UNCHANGED file /\ serving' = [serving EXCEPT ![h] = Free]
    BY <1>0, <2>1, <2>3, QuietHolds DEF Free
  <2>. QED
    BY <1>3, <2>2, <2>3 DEF Create
<1>4. CASE Fill(h)
  <2>. DEFINE p == serving[h].path
  <2>1. serving[h].at = "fill"
    BY <1>4 DEF Fill, Where
  <2>2. CASE /\ file' = Filled(p, Size(p))
             /\ serving' = [serving EXCEPT ![h] = [at |-> "list"]]
             /\ spoiled' = spoiled
    <3>1. \A q \in Path : \/ file'[q] = file[q]
                          \/ q = p /\ file[q].written # 0
      BY <1>0, <2>2 DEF IconTypeOK, Filled
    <3>2. Counted' \subseteq Counted \cup {} /\ Sizable' \subseteq Sizable \cup {p}
      BY <1>0, <3>1 DEF Counted, Files, Sizable, IconTypeOK
    <3>3. [at |-> "list"].at = "list"
      OBVIOUS
    <3>4. /\ Sweeps' = Sweeps /\ \A k \in Sweeps : serving'[k] = serving[k]
          /\ Cardinality(Unlisted') = Cardinality(Unlisted)
          /\ Cardinality(Unswept') = Cardinality(Unswept) + 1
      BY <1>0, <1>2, <2>1, <2>2, <3>3, MovesAre
    <3>5. /\ Cardinality(Unlisted) + spoiled + Cardinality({}) <= Cardinality(Unlisted') + spoiled'
          /\ Cardinality(Unswept) + spoiled + Cardinality({p}) <= Cardinality(Unswept') + spoiled'
      <4>1. Cardinality({p}) = 1
        BY <1>1
      <4>. QED
        BY <1>0, <1>1, <2>2, <3>4, <4>1
    <3>. QED
      BY <1>1, <3>2, <3>4, <3>5, SameSweeps
  <2>3. CASE /\ \E size \in 0..Size(p) : file' = Filled(p, size)
             /\ spoiled' = spoiled + 1 /\ serving' = [serving EXCEPT ![h] = Free]
    <3>1. \A q \in Path : \/ file'[q] = file[q]
                          \/ q = p /\ file[q].written # 0
      BY <1>0, <2>3 DEF IconTypeOK, Filled
    <3>2. Counted' \subseteq Counted \cup {} /\ Sizable' \subseteq Sizable \cup {p}
      BY <1>0, <3>1 DEF Counted, Files, Sizable, IconTypeOK
    <3>3. Free.at = "free"
      BY DEF Free
    <3>4. /\ Sweeps' = Sweeps /\ \A k \in Sweeps : serving'[k] = serving[k]
          /\ Cardinality(Unlisted') = Cardinality(Unlisted) - 1
          /\ Cardinality(Unswept') = Cardinality(Unswept)
      BY <1>0, <1>2, <2>1, <2>3, <3>3, MovesAre
    <3>5. /\ Cardinality(Unlisted) + spoiled + Cardinality({}) <= Cardinality(Unlisted') + spoiled'
          /\ Cardinality(Unswept) + spoiled + Cardinality({p}) <= Cardinality(Unswept') + spoiled'
      <4>1. Cardinality({p}) = 1
        BY <1>1
      <4>. QED
        BY <1>0, <1>1, <2>3, <3>4, <4>1
    <3>. QED
      BY <1>1, <3>2, <3>4, <3>5, SameSweeps
  <2>. QED
    BY <1>4, <2>2, <2>3 DEF Fill
<1>. QED
  BY <1>3, <1>4

(* A directory that cannot be listed leaves to account for what its request *)
(* wrote.  A listing within the ceilings accounts for all there is, but for *)
(* what it passed over, and one that is not starts a sweep that is later    *)
(* than all others.                                                         *)
LEMMA ListHolds ==
  ASSUME IconInv, IconTypeOK', NEW h \in Serving, List(h)
  PROVE  CacheAccounted' /\ Believed'
<1>0. IconTypeOK /\ serving[h].at = "list" /\ file' = file /\ spoiled \in Nat
  BY DEF IconInv, IconTypeOK, List, Where
<1>3. /\ \A S \in SUBSET Serving : IsFiniteSet(S) /\ Cardinality(S) \in Nat
      /\ Cardinality(Unlisted) \in Nat /\ Cardinality(Unswept) \in Nat
      /\ Cardinality(Unlisted') \in Nat /\ Cardinality(Unswept') \in Nat
  <2>1. \A S \in SUBSET Serving : IsFiniteSet(S) /\ Cardinality(S) \in Nat
    BY <1>0, ServingSets
  <2>2. Unlisted \subseteq Serving /\ Unswept \subseteq Serving
        /\ Unlisted' \subseteq Serving /\ Unswept' \subseteq Serving
    BY DEF Unlisted, Unswept, Requests
  <2>. QED
    BY <2>1, <2>2
<1>4. CASE spoiled' = spoiled + 1 /\ kept' = kept /\ serving' = [serving EXCEPT ![h] = Free]
  <2>1. Counted' = Counted /\ Sizable' = Sizable /\ Free.at = "free"
    BY <1>0, <1>4 DEF Counted, Files, Sizable, Free
  <2>2. /\ Sweeps' = Sweeps /\ h \notin Sweeps
        /\ Cardinality(Unlisted') = Cardinality(Unlisted) - 1
        /\ Cardinality(Unswept') = Cardinality(Unswept) - 1
    BY <1>0, <1>4, <2>1, MovesAre
  <2>3. \A k \in Sweeps : serving'[k] = serving[k]
    BY <1>0, <1>4, <2>2 DEF IconTypeOK, Sweeps, Requests
  <2>4. IsFiniteSet({}) /\ Cardinality({}) = 0
    BY FS_EmptySet
  <2>5. /\ Cardinality(Unlisted) + spoiled + Cardinality({}) <= Cardinality(Unlisted') + spoiled'
        /\ Cardinality(Unswept) + spoiled + Cardinality({}) <= Cardinality(Unswept') + spoiled'
    BY <1>0, <1>3, <1>4, <2>2, <2>4
  <2>6. Counted' \subseteq Counted \cup {} /\ Sizable' \subseteq Sizable \cup {}
    BY <2>1
  <2>. QED
    BY <2>2, <2>3, <2>4, <2>5, <2>6, SameSweeps
<1>5. ASSUME NEW paths \in SUBSET Files, spoiled' = spoiled, kept' = kept \cup (Files \ paths),
             serving' = [serving EXCEPT ![h] = Listed(paths)]
      PROVE  CacheAccounted' /\ Believed'
  <2>. DEFINE sized == {p \in paths : file[p].size > 0}
  <2>1. /\ Counted' \subseteq paths /\ Counted' \subseteq Counted
        /\ Sizable' \subseteq sized /\ Sizable' \subseteq Sizable
    BY <1>0, <1>5 DEF Counted, Files, Sizable
  <2>2. /\ IsFiniteSet(paths) /\ IsFiniteSet(sized) /\ Bytes(paths) = Cardinality(sized)
        /\ Cardinality(paths) \in Nat /\ Cardinality(sized) \in Nat
        /\ IsFiniteSet(Counted) /\ IsFiniteSet(Sizable)
        /\ Cardinality(Counted) \in Nat /\ Cardinality(Sizable) \in Nat
        /\ Cardinality(Counted') \in Nat /\ Cardinality(Sizable') \in Nat
        /\ Cardinality(Counted') <= Cardinality(paths) /\ Cardinality(Counted') <= Cardinality(Counted)
        /\ Cardinality(Sizable') <= Cardinality(sized) /\ Cardinality(Sizable') <= Cardinality(Sizable)
    <3>1. IsFiniteSet(paths) /\ IsFiniteSet(sized) /\ IsFiniteSet(Counted) /\ IsFiniteSet(Sizable)
      BY <1>0, ServingSets
    <3>. QED
      BY <2>1, <3>1, FS_Subset, FS_CardinalityType DEF Bytes
  <2>3. CASE Within(Bytes(paths), Cardinality(paths))
    <3>1. serving' = [serving EXCEPT ![h] = Free] /\ Free.at = "free"
      BY <1>5, <2>3 DEF Listed, Free
    <3>2. Sweeps' = Sweeps /\ h \notin Sweeps
      BY <1>0, <3>1, MovesAre
    <3>3. \A k \in Sweeps : serving'[k] = serving[k]
      BY <1>0, <3>1, <3>2 DEF IconTypeOK, Sweeps, Requests
    <3>4. Believed'
      BY <3>2, <3>3 DEF IconInv, Believed, Ahead, SizableAhead
    <3>5. Cardinality(paths) <= MaxCacheEntries /\ Cardinality(sized) <= MaxCacheBytes
      BY <2>2, <2>3 DEF Within
    <3>6. /\ Cardinality(Counted') <=
               MaxCacheEntries + Cardinality(Unlisted') + Cardinality({}) + spoiled'
          /\ Cardinality(Sizable') <= MaxCacheBytes + Cardinality(Unswept') + Cardinality({}) + spoiled'
      BY <1>0, <1>3, <1>5, <2>2, <3>5, FS_EmptySet, LimitAssumption
    <3>. DEFINE none == [k \in Serving |-> {}]
    <3>7. Nested({}, none)' /\ Accounted({}, none)'
      BY <3>6 DEF Nested, Accounted
    <3>8. none \in [Serving -> SUBSET Serving] /\ {} \in SUBSET Serving
      OBVIOUS
    <3>. QED
      BY <3>4, <3>7, <3>8 DEF CacheAccounted
  <2>4. CASE ~Within(Bytes(paths), Cardinality(paths))
    <3>. DEFINE s == [at |-> "sweep", ours |-> [p \in paths |-> file[p]],
                      total |-> Bytes(paths), count |-> Cardinality(paths)]
    <3>1. serving' = [serving EXCEPT ![h] = s] /\ s.at = "sweep"
      BY <1>5, <2>4 DEF Listed
    <3>2. /\ serving'[h] = s
          /\ \A k \in Serving \ {h} : serving'[k] = serving[k]
      BY <1>0, <3>1 DEF IconTypeOK
    <3>3. /\ Sweeps' = Sweeps \cup {h} /\ h \notin Sweeps /\ Sweeps \subseteq Serving
          /\ Cardinality(Unlisted') = Cardinality(Unlisted) - 1
          /\ Cardinality(Unswept') = Cardinality(Unswept) - 1
      BY <1>0, <3>1, MovesAre
    <3>4. /\ Ahead(h)' = paths /\ SizableAhead(h)' = sized
          /\ serving'[h].count = Cardinality(paths) /\ serving'[h].total = Cardinality(sized)
      <4>1. serving'[h].ours = [p \in paths |-> file[p]]
        BY <3>2
      <4>2. Ahead(h)' = paths
        BY <4>1 DEF Ahead
      <4>3. SizableAhead(h)' = sized
        BY <4>1, <4>2 DEF SizableAhead
      <4>. QED
        BY <2>2, <3>2, <4>2, <4>3
    <3>5. \A k \in Sweeps : Ahead(k)' = Ahead(k) /\ SizableAhead(k)' = SizableAhead(k)
                            /\ serving'[k] = serving[k]
      BY <3>2, <3>3 DEF Ahead, SizableAhead
    <3>6. Believed'
      <4>. HIDE DEF sized, s
      <4>1. /\ IsFiniteSet(Ahead(h)') /\ Cardinality(Ahead(h)') <= serving'[h].count
            /\ Cardinality(SizableAhead(h)') <= serving'[h].total
        BY <2>2, <3>4
      <4>. QED
        BY <3>3, <3>5, <4>1 DEF IconInv, Believed
    <3>7. PICK open \in SUBSET Serving, later \in [Serving -> SUBSET Serving] :
            Nested(open, later) /\ Accounted(open, later)
      BY DEF IconInv, CacheAccounted
    <3>. DEFINE open2 == open \cup {h}
                later2 == [k \in Serving |-> IF k = h THEN {} ELSE later[k] \cup {h}]
    <3>8. h \notin open /\ open \subseteq Sweeps /\ \A k \in open : h \notin later[k]
      BY <3>3, <3>7 DEF Nested
    <3>9. open2 \in SUBSET Serving /\ later2 \in [Serving -> SUBSET Serving]
      OBVIOUS
    <3>10. later2[h] = {} /\ \A k \in open : later2[k] = later[k] \cup {h}
      BY <3>8
    <3>. HIDE DEF later2
    <3>11. Nested(open2, later2)'
      <4>1. open2 \subseteq Sweeps'
        BY <3>3, <3>8
      <4>2. ASSUME NEW k \in open2
            PROVE  /\ later2[k] \subseteq open2 /\ k \notin later2[k]
                   /\ \A j \in later2[k] : later2[j] \subseteq later2[k]
        <5>1. CASE k = h
          BY <3>10, <5>1
        <5>2. CASE k \in open
          <6>1. /\ later[k] \subseteq open /\ k \notin later[k]
                /\ \A j \in later[k] : later[j] \subseteq later[k]
            BY <3>7, <5>2 DEF Nested
          <6>. QED
            BY <3>8, <3>10, <5>2, <6>1
        <5>. QED
          BY <5>1, <5>2
      <4>. QED
        BY <4>1, <4>2 DEF Nested
    <3>12. /\ Cardinality(open2) = Cardinality(open) + 1 /\ Cardinality(open) \in Nat
           /\ \A k \in open : /\ Cardinality(later2[k]) = Cardinality(later[k]) + 1
                              /\ Cardinality(later[k]) \in Nat
      BY <1>3, <3>8, <3>10, FS_AddElement
    <3>13. ASSUME NEW k \in open2
           PROVE  /\ Cardinality(Counted' \ Ahead(k)') <=
                       Cardinality(Unlisted') + Cardinality(later2[k]) + spoiled'
                  /\ Cardinality(Sizable' \ SizableAhead(k)') <=
                       Cardinality(Unswept') + Cardinality(later2[k]) + spoiled'
      <4>1. CASE k = h
        <5>1. Counted' \ Ahead(k)' = {} /\ Sizable' \ SizableAhead(k)' = {}
          BY <2>1, <3>4, <4>1
        <5>. QED
          BY <1>0, <1>3, <1>5, <3>10, <4>1, <5>1, FS_EmptySet
      <4>2. CASE k \in open
        <5>1. /\ Counted' \ Ahead(k)' \subseteq Counted \ Ahead(k)
              /\ Sizable' \ SizableAhead(k)' \subseteq Sizable \ SizableAhead(k)
          BY <2>1, <3>5, <3>8, <4>2
        <5>2. /\ Cardinality(Counted \ Ahead(k)) <= Cardinality(Unlisted) + Cardinality(later[k]) + spoiled
              /\ Cardinality(Sizable \ SizableAhead(k)) <= Cardinality(Unswept) + Cardinality(later[k]) + spoiled
          BY <3>7, <4>2 DEF Accounted
        <5>3. /\ IsFiniteSet(Counted \ Ahead(k)) /\ Cardinality(Counted \ Ahead(k)) \in Nat
              /\ IsFiniteSet(Sizable \ SizableAhead(k)) /\ Cardinality(Sizable \ SizableAhead(k)) \in Nat
          BY <2>2, FS_Subset, FS_CardinalityType
        <5>4. Cardinality(later2[k]) = Cardinality(later[k]) + 1 /\ Cardinality(later[k]) \in Nat
          BY <3>12, <4>2
        <5>5. /\ Cardinality(Counted' \ Ahead(k)') <= Cardinality(Counted \ Ahead(k))
              /\ Cardinality(Sizable' \ SizableAhead(k)') <= Cardinality(Sizable \ SizableAhead(k))
              /\ Cardinality(Counted' \ Ahead(k)') \in Nat
              /\ Cardinality(Sizable' \ SizableAhead(k)') \in Nat
          BY <5>1, <5>3, FS_Subset, FS_CardinalityType
        <5>. QED
          BY <1>0, <1>3, <1>5, <3>3, <5>2, <5>3, <5>4, <5>5
      <4>. QED
        BY <4>1, <4>2
    <3>14. /\ Cardinality(Counted') <=
                MaxCacheEntries + Cardinality(Unlisted') + Cardinality(open2) + spoiled'
           /\ Cardinality(Sizable') <= MaxCacheBytes + Cardinality(Unswept') + Cardinality(open2) + spoiled'
      <4>1. /\ Cardinality(Counted) <= MaxCacheEntries + Cardinality(Unlisted) + Cardinality(open) + spoiled
            /\ Cardinality(Sizable) <= MaxCacheBytes + Cardinality(Unswept) + Cardinality(open) + spoiled
        BY <3>7 DEF Accounted
      <4>. QED
        BY <1>0, <1>3, <1>5, <2>2, <3>3, <3>12, <4>1, LimitAssumption
    <3>15. Accounted(open2, later2)'
      BY <3>13, <3>14 DEF Accounted
    <3>. QED
      BY <3>6, <3>9, <3>11, <3>15 DEF CacheAccounted
  <2>. QED
    BY <2>3, <2>4
<1>. QED
  BY <1>0, <1>4, <1>5 DEF List

(* What a sweep believes of the rest of its listing.                        *)
LEMMA RestIs ==
  ASSUME IconInv, NEW h \in Sweeps, NEW p, NEW removed, NEW rest, NEW total, NEW count,
         SweepsNext(h, p, removed, rest, total, count)
  PROVE  /\ p \in Ahead(h) /\ DOMAIN rest = Ahead(h) \ {p}
         /\ {q \in DOMAIN rest : rest[q].size > 0} = SizableAhead(h) \ {p}
         /\ IsFiniteSet(Ahead(h) \ {p}) /\ IsFiniteSet(SizableAhead(h) \ {p})
         /\ total \in Int /\ count \in Int
         /\ Cardinality(Ahead(h) \ {p}) \in Nat /\ Cardinality(SizableAhead(h) \ {p}) \in Nat
         /\ Cardinality(Ahead(h) \ {p}) <= count
         /\ Cardinality(SizableAhead(h) \ {p}) <= total
<1>1. /\ Ahead(h) \subseteq Path /\ \A q \in Ahead(h) : serving[h].ours[q].size \in {0, 1}
      /\ serving[h].total \in Int /\ serving[h].count \in Int
  BY DEF IconInv, IconTypeOK, Holds, Sweeps, Requests, Ahead
<1>2. /\ p \in Ahead(h) /\ rest = [q \in Ahead(h) \ {p} |-> serving[h].ours[q]]
      /\ total = IF removed THEN serving[h].total - serving[h].ours[p].size ELSE serving[h].total
      /\ count = IF removed THEN serving[h].count - 1 ELSE serving[h].count
  BY DEF SweepsNext, Ahead
<1>3. /\ DOMAIN rest = Ahead(h) \ {p}
      /\ {q \in DOMAIN rest : rest[q].size > 0} = SizableAhead(h) \ {p}
  BY <1>2 DEF SizableAhead
<1>4. /\ IsFiniteSet(Ahead(h))
      /\ Cardinality(Ahead(h)) <= serving[h].count
      /\ Cardinality(SizableAhead(h)) <= serving[h].total
  BY DEF IconInv, Believed
<1>5. IsFiniteSet(SizableAhead(h))
  BY <1>4, FS_Subset DEF SizableAhead
<1>6. /\ IsFiniteSet(Ahead(h) \ {p}) /\ Cardinality(Ahead(h) \ {p}) = Cardinality(Ahead(h)) - 1
      /\ Cardinality(Ahead(h)) \in Nat /\ Cardinality(Ahead(h) \ {p}) \in Nat
  BY <1>2, <1>4, FS_RemoveElement, FS_CardinalityType
<1>7. /\ IsFiniteSet(SizableAhead(h) \ {p})
      /\ Cardinality(SizableAhead(h)) \in Nat /\ Cardinality(SizableAhead(h) \ {p}) \in Nat
      /\ Cardinality(SizableAhead(h) \ {p}) =
           IF p \in SizableAhead(h) THEN Cardinality(SizableAhead(h)) - 1
           ELSE Cardinality(SizableAhead(h))
  BY <1>5, FS_RemoveElement, FS_CardinalityType
<1>8. serving[h].ours[p].size = IF p \in SizableAhead(h) THEN 1 ELSE 0
  BY <1>1, <1>2 DEF SizableAhead
<1>9. total \in Int /\ count \in Int
  BY <1>1, <1>2, <1>8
<1>10. Cardinality(Ahead(h) \ {p}) <= count
  BY <1>1, <1>2, <1>4, <1>6
<1>11. Cardinality(SizableAhead(h) \ {p}) <= total
  BY <1>1, <1>2, <1>4, <1>7, <1>8
<1>. QED
  BY <1>2, <1>3, <1>6, <1>7, <1>9, <1>10, <1>11

(* A sweep that goes on takes from its listing what it takes from the       *)
(* cache.  One that ends leaves what it believes to be ahead, and what has  *)
(* come since: what is accounted for by the sweeps later than it.           *)
LEMMA SweepHolds ==
  ASSUME IconInv, IconTypeOK', NEW h \in Serving, Sweep(h)
  PROVE  CacheAccounted' /\ Believed'
<1>0. /\ IconTypeOK /\ h \in Sweeps /\ serving[h].at = "sweep"
      /\ spoiled' = spoiled /\ spoiled \in Nat
  BY DEF IconInv, IconTypeOK, Sweep, Where, Sweeps, Requests
<1>1. PICK p, removed, rest, total, count : SweepsNext(h, p, removed, rest, total, count)
  BY SweepIs
<1>2. /\ p \in Ahead(h) /\ DOMAIN rest = Ahead(h) \ {p}
      /\ {q \in DOMAIN rest : rest[q].size > 0} = SizableAhead(h) \ {p}
      /\ IsFiniteSet(Ahead(h) \ {p}) /\ IsFiniteSet(SizableAhead(h) \ {p})
      /\ total \in Int /\ count \in Int
      /\ Cardinality(Ahead(h) \ {p}) \in Nat /\ Cardinality(SizableAhead(h) \ {p}) \in Nat
      /\ Cardinality(Ahead(h) \ {p}) <= count
      /\ Cardinality(SizableAhead(h) \ {p}) <= total
  BY <1>0, <1>1, RestIs
<1>. DEFINE s == [at |-> "sweep", ours |-> rest, total |-> total, count |-> count]
            ends == Within(total, count) \/ DOMAIN rest = {}
<1>3. /\ file' = IF removed THEN [file EXCEPT ![p] = Missing] ELSE file
      /\ kept' = IF removed THEN kept \ {p} ELSE kept \cup ({p} \cap Files)
      /\ serving' = [serving EXCEPT ![h] = IF ends THEN Free ELSE s]
  BY <1>1 DEF SweepsNext
<1>4. p \in Path
  BY <1>0, <1>2 DEF IconTypeOK, Holds, Ahead
<1>5. Counted' = Counted \ {p} /\ Sizable' = Sizable \ {p}
  <2>1. CASE removed
    <3>1. \A q \in Path : file'[q] = IF q = p THEN Missing ELSE file[q]
      BY <1>0, <1>3, <2>1 DEF IconTypeOK
    <3>2. kept' = kept \ {p}
      BY <1>3, <2>1
    <3>. QED
      BY <3>1, <3>2 DEF Counted, Files, Sizable, Missing
  <2>2. CASE ~removed
    <3>1. file' = file /\ kept' = kept \cup ({p} \cap Files)
      BY <1>3, <2>2
    <3>. QED
      BY <3>1 DEF Counted, Files, Sizable
  <2>. QED
    BY <2>1, <2>2
<1>6. /\ IsFiniteSet(Counted) /\ IsFiniteSet(Sizable)
      /\ \A S \in SUBSET Serving : IsFiniteSet(S) /\ Cardinality(S) \in Nat
  BY <1>0, ServingSets
<1>7. \A A : /\ Cardinality(Counted \ A) \in Nat /\ IsFiniteSet(Counted \ A)
             /\ Cardinality(Sizable \ A) \in Nat /\ IsFiniteSet(Sizable \ A)
  BY <1>6, FS_Subset, FS_CardinalityType
<1>8. /\ Cardinality(Counted \ {p}) <= Cardinality(Counted)
      /\ Cardinality(Sizable \ {p}) <= Cardinality(Sizable)
      /\ Cardinality(Counted) \in Nat /\ Cardinality(Sizable) \in Nat
  BY <1>6, FS_Subset, FS_CardinalityType
<1>9. PICK open \in SUBSET Serving, later \in [Serving -> SUBSET Serving] :
        Nested(open, later) /\ Accounted(open, later)
  BY DEF IconInv, CacheAccounted
<1>10. /\ Sweeps' = IF ends THEN Sweeps \ {h} ELSE Sweeps
       /\ Unlisted' = Unlisted /\ Unswept' = Unswept
       /\ Cardinality(Unlisted) \in Nat /\ Cardinality(Unswept) \in Nat
       /\ Sweeps \subseteq Serving
       /\ serving'[h] = IF ends THEN Free ELSE s
       /\ \A k \in Serving \ {h} : serving'[k] = serving[k]
  <2>1. CASE ends
    <3>1. serving' = [serving EXCEPT ![h] = Free] /\ Free.at = "free"
      BY <1>3, <2>1 DEF Free
    <3>. HIDE DEF ends
    <3>. QED
      BY <1>0, <2>1, <3>1, MovesAre
  <2>2. CASE ~ends
    <3>1. serving' = [serving EXCEPT ![h] = s] /\ s.at = "sweep"
      BY <1>3, <2>2
    <3>. HIDE DEF ends, s
    <3>. QED
      BY <1>0, <2>2, <3>1, MovesAre
  <2>. QED
    BY <2>1, <2>2
<1>11. \A k \in Sweeps \ {h} : /\ Ahead(k)' = Ahead(k) /\ SizableAhead(k)' = SizableAhead(k)
                               /\ serving'[k] = serving[k]
  BY <1>10 DEF Ahead, SizableAhead
\* The sweeps that are not this one, in any of the cases
<1>12. ASSUME NEW k \in open \ {h}
       PROVE  /\ Cardinality(Counted' \ Ahead(k)') <=
                   Cardinality(Unlisted') + Cardinality(later[k]) + spoiled'
              /\ Cardinality(Sizable' \ SizableAhead(k)') <=
                   Cardinality(Unswept') + Cardinality(later[k]) + spoiled'
  <2>1. Ahead(k)' = Ahead(k) /\ SizableAhead(k)' = SizableAhead(k) /\ later[k] \in SUBSET Serving
    BY <1>9, <1>11 DEF Nested
  <2>2. /\ Counted' \ Ahead(k)' \subseteq Counted \ Ahead(k)
        /\ Sizable' \ SizableAhead(k)' \subseteq Sizable \ SizableAhead(k)
    BY <1>5, <2>1
  <2>3. /\ Cardinality(Counted' \ Ahead(k)') <= Cardinality(Counted \ Ahead(k))
        /\ Cardinality(Sizable' \ SizableAhead(k)') <= Cardinality(Sizable \ SizableAhead(k))
        /\ Cardinality(Counted' \ Ahead(k)') \in Nat /\ Cardinality(Sizable' \ SizableAhead(k)') \in Nat
    BY <1>7, <2>2, FS_Subset, FS_CardinalityType
  <2>4. /\ Cardinality(Counted \ Ahead(k)) <= Cardinality(Unlisted) + Cardinality(later[k]) + spoiled
        /\ Cardinality(Sizable \ SizableAhead(k)) <= Cardinality(Unswept) + Cardinality(later[k]) + spoiled
    BY <1>9 DEF Accounted
  <2>5. /\ Cardinality(Counted \ Ahead(k)) \in Nat /\ Cardinality(Sizable \ SizableAhead(k)) \in Nat
        /\ Cardinality(later[k]) \in Nat
    BY <1>6, <1>7, <2>1
  <2>. DEFINE files == Cardinality(Counted \ Ahead(k))
              files2 == Cardinality(Counted' \ Ahead(k)')
              sizable == Cardinality(Sizable \ SizableAhead(k))
              sizable2 == Cardinality(Sizable' \ SizableAhead(k)')
              unlisted == Cardinality(Unlisted) unswept == Cardinality(Unswept)
              since == Cardinality(later[k])
  <2>6. /\ files2 <= files /\ files <= unlisted + since + spoiled
        /\ sizable2 <= sizable /\ sizable <= unswept + since + spoiled
    BY <2>3, <2>4
  <2>7. /\ files \in Nat /\ files2 \in Nat /\ sizable \in Nat /\ sizable2 \in Nat
        /\ unlisted \in Nat /\ unswept \in Nat /\ since \in Nat /\ spoiled \in Nat
    BY <1>0, <1>10, <2>3, <2>5
  <2>8. files2 <= unlisted + since + spoiled /\ sizable2 <= unswept + since + spoiled
    <3>. HIDE DEF files, files2, sizable, sizable2, unlisted, unswept, since
    <3>. QED
      BY <2>6, <2>7
  <2>9. Unlisted' = Unlisted /\ Unswept' = Unswept /\ spoiled' = spoiled
    BY <1>0, <1>10
  <2>. QED
    BY <2>8, <2>9
<1>13. /\ Cardinality(Counted') <=
            MaxCacheEntries + Cardinality(Unlisted') + Cardinality(open) + spoiled'
       /\ Cardinality(Sizable') <= MaxCacheBytes + Cardinality(Unswept') + Cardinality(open) + spoiled'
  <2>1. /\ Cardinality(Counted) <= MaxCacheEntries + Cardinality(Unlisted) + Cardinality(open) + spoiled
        /\ Cardinality(Sizable) <= MaxCacheBytes + Cardinality(Unswept) + Cardinality(open) + spoiled
        /\ Cardinality(open) \in Nat
    BY <1>6, <1>9 DEF Accounted
  <2>2. /\ Cardinality(Counted') <= Cardinality(Counted) /\ Cardinality(Counted') \in Nat
        /\ Cardinality(Sizable') <= Cardinality(Sizable) /\ Cardinality(Sizable') \in Nat
    BY <1>5, <1>7, <1>8
  <2>3. Unlisted' = Unlisted /\ Unswept' = Unswept /\ spoiled' = spoiled
    BY <1>0, <1>10
  <2>4. /\ MaxCacheEntries \in Nat /\ MaxCacheBytes \in Nat /\ spoiled \in Nat
        /\ Cardinality(Unlisted) \in Nat /\ Cardinality(Unswept) \in Nat
    BY <1>0, <1>10, LimitAssumption DEF IconTypeOK
  <2>. DEFINE files == Cardinality(Counted)   sizable == Cardinality(Sizable)
              files2 == Cardinality(Counted') sizable2 == Cardinality(Sizable')
              unlisted == Cardinality(Unlisted) unswept == Cardinality(Unswept)
              opened == Cardinality(open)
  <2>5. /\ files <= MaxCacheEntries + unlisted + opened + spoiled /\ files2 <= files
        /\ sizable <= MaxCacheBytes + unswept + opened + spoiled /\ sizable2 <= sizable
    BY <2>1, <2>2
  <2>7. /\ files \in Nat /\ sizable \in Nat /\ files2 \in Nat /\ sizable2 \in Nat
        /\ unlisted \in Nat /\ unswept \in Nat /\ opened \in Nat
    BY <1>8, <2>1, <2>2, <2>4
  <2>6. /\ files2 <= MaxCacheEntries + unlisted + opened + spoiled
        /\ sizable2 <= MaxCacheBytes + unswept + opened + spoiled
    <3>. HIDE DEF files, sizable, files2, sizable2, unlisted, unswept, opened
    <3>. QED
      BY <2>4, <2>5, <2>7
  <2>. QED
    BY <2>3, <2>6
<1>14. CASE ~ends
  <2>1. serving'[h] = s /\ Sweeps' = Sweeps
    BY <1>10, <1>14
  <2>2. /\ Ahead(h)' = Ahead(h) \ {p} /\ SizableAhead(h)' = SizableAhead(h) \ {p}
        /\ serving'[h].count = count /\ serving'[h].total = total
    BY <1>2, <2>1 DEF Ahead, SizableAhead
  <2>3. Believed'
    BY <1>2, <1>11, <2>1, <2>2 DEF IconInv, Believed
  <2>4. Nested(open, later)'
    BY <1>9, <2>1 DEF Nested
  <2>5. ASSUME h \in open
        PROVE  /\ Cardinality(Counted' \ Ahead(h)') <=
                    Cardinality(Unlisted') + Cardinality(later[h]) + spoiled'
               /\ Cardinality(Sizable' \ SizableAhead(h)') <=
                    Cardinality(Unswept') + Cardinality(later[h]) + spoiled'
    <3>1. Counted' \ Ahead(h)' = Counted \ Ahead(h)
      BY <1>2, <1>5, <2>2
    <3>2. Sizable' \ SizableAhead(h)' \subseteq Sizable \ SizableAhead(h)
      BY <1>5, <2>2
    <3>3. /\ Cardinality(Sizable' \ SizableAhead(h)') <= Cardinality(Sizable \ SizableAhead(h))
          /\ Cardinality(Sizable' \ SizableAhead(h)') \in Nat
      BY <1>7, <3>2, FS_Subset, FS_CardinalityType
    <3>4. /\ Cardinality(Counted \ Ahead(h)) <= Cardinality(Unlisted) + Cardinality(later[h]) + spoiled
          /\ Cardinality(Sizable \ SizableAhead(h)) <= Cardinality(Unswept) + Cardinality(later[h]) + spoiled
      BY <1>9, <2>5 DEF Accounted
    <3>5. Cardinality(Sizable \ SizableAhead(h)) \in Nat /\ Cardinality(later[h]) \in Nat
          /\ Cardinality(Counted' \ Ahead(h)') = Cardinality(Counted \ Ahead(h))
      BY <1>6, <1>7, <3>1
    <3>. QED
      BY <1>0, <1>10, <3>3, <3>4, <3>5
  <2>6. Accounted(open, later)'
    BY <1>12, <1>13, <2>5 DEF Accounted
  <2>. QED
    BY <2>3, <2>4, <2>6 DEF CacheAccounted
<1>15. CASE ends
  <2>1. Sweeps' = Sweeps \ {h}
    BY <1>10, <1>15
  <2>2. Believed'
    BY <1>11, <2>1 DEF IconInv, Believed
  <2>3. CASE h \notin open
    <3>1. Nested(open, later)'
      BY <1>9, <2>1, <2>3 DEF Nested
    <3>2. Accounted(open, later)'
      BY <1>12, <1>13, <2>3 DEF Accounted
    <3>. QED
      BY <2>2, <3>1, <3>2 DEF CacheAccounted
  <2>4. CASE h \in open
    <3>. DEFINE open2 == later[h]
    <3>1. /\ open2 \subseteq open /\ h \notin open2 /\ open \subseteq Sweeps
          /\ open2 \in SUBSET Serving
          /\ \A k \in open2 : later[k] \subseteq open2 /\ k \notin later[k]
                              /\ \A j \in later[k] : later[j] \subseteq later[k]
      BY <1>9, <2>4 DEF Nested
    <3>2. Nested(open2, later)'
      BY <2>1, <3>1 DEF Nested
    <3>3. Cardinality(Ahead(h) \ {p}) <= MaxCacheEntries
          /\ Cardinality(SizableAhead(h) \ {p}) <= MaxCacheBytes
      <4>1. CASE Within(total, count)
        BY <1>2, <4>1, LimitAssumption DEF Within
      <4>2. CASE DOMAIN rest = {}
        <5>1. Ahead(h) \ {p} = {} /\ SizableAhead(h) \ {p} = {}
          BY <1>2, <4>2
        <5>. QED
          BY <5>1, FS_EmptySet, LimitAssumption
      <4>. QED
        BY <1>15, <4>1, <4>2
    <3>4. /\ Cardinality(Counted \ Ahead(h)) <= Cardinality(Unlisted) + Cardinality(open2) + spoiled
          /\ Cardinality(Sizable \ SizableAhead(h)) <= Cardinality(Unswept) + Cardinality(open2) + spoiled
      BY <1>9, <2>4 DEF Accounted
    <3>5. /\ Cardinality(Counted') \in Nat
          /\ Cardinality(Counted') <= Cardinality(Counted \ Ahead(h)) + Cardinality(Ahead(h) \ {p})
      <4>1. Counted' \subseteq (Counted \ Ahead(h)) \cup (Ahead(h) \ {p})
        BY <1>5
      <4>. QED
        BY <1>2, <1>7, <4>1, AddedToAll
    <3>6. /\ Cardinality(Sizable') \in Nat
          /\ Cardinality(Sizable') <=
               Cardinality(Sizable \ SizableAhead(h)) + Cardinality(SizableAhead(h) \ {p})
      <4>1. Sizable' \subseteq (Sizable \ SizableAhead(h)) \cup (SizableAhead(h) \ {p})
        BY <1>5
      <4>. QED
        BY <1>2, <1>7, <4>1, AddedToAll
    <3>7. /\ Cardinality(Counted') <=
               MaxCacheEntries + Cardinality(Unlisted') + Cardinality(open2) + spoiled'
          /\ Cardinality(Sizable') <= MaxCacheBytes + Cardinality(Unswept') + Cardinality(open2) + spoiled'
      <4>1. /\ Cardinality(open2) \in Nat
            /\ Cardinality(Counted \ Ahead(h)) \in Nat /\ Cardinality(Sizable \ SizableAhead(h)) \in Nat
        BY <1>6, <1>7, <3>1
      <4>2. Unlisted' = Unlisted /\ Unswept' = Unswept /\ spoiled' = spoiled
        BY <1>0, <1>10
      <4>3. /\ MaxCacheEntries \in Nat /\ MaxCacheBytes \in Nat /\ spoiled \in Nat
            /\ Cardinality(Unlisted) \in Nat /\ Cardinality(Unswept) \in Nat
        BY <1>0, <1>10, LimitAssumption DEF IconTypeOK
      <4>. DEFINE files == Cardinality(Counted \ Ahead(h))   files2 == Cardinality(Counted')
                  sizable == Cardinality(Sizable \ SizableAhead(h))
                  sizable2 == Cardinality(Sizable')
                  rest1 == Cardinality(Ahead(h) \ {p})
                  rest2 == Cardinality(SizableAhead(h) \ {p})
                  unlisted == Cardinality(Unlisted) unswept == Cardinality(Unswept)
                  opened == Cardinality(open2)
      <4>4. /\ files <= unlisted + opened + spoiled /\ files2 <= files + rest1
            /\ sizable <= unswept + opened + spoiled /\ sizable2 <= sizable + rest2
            /\ rest1 <= MaxCacheEntries /\ rest2 <= MaxCacheBytes
        BY <3>3, <3>4, <3>5, <3>6
      <4>5. /\ files \in Nat /\ sizable \in Nat /\ files2 \in Nat /\ sizable2 \in Nat
            /\ rest1 \in Nat /\ rest2 \in Nat
            /\ unlisted \in Nat /\ unswept \in Nat /\ opened \in Nat
        BY <1>2, <3>5, <3>6, <4>1, <4>3
      <4>6. /\ files2 <= MaxCacheEntries + unlisted + opened + spoiled
            /\ sizable2 <= MaxCacheBytes + unswept + opened + spoiled
        <5>. HIDE DEF files, sizable, files2, sizable2, rest1, rest2, unlisted, unswept, opened
        <5>. QED
          BY <4>3, <4>4, <4>5
      <4>. QED
        BY <4>2, <4>6
    <3>8. Accounted(open2, later)'
      BY <1>12, <3>1, <3>7 DEF Accounted
    <3>. QED
      BY <2>2, <3>1, <3>2, <3>8 DEF CacheAccounted
  <2>. QED
    BY <2>3, <2>4
<1>. QED
  BY <1>14, <1>15

LEMMA IconsStep == IconInv /\ [NextIcons]_iconVars => IconInv'
<1>. SUFFICES ASSUME IconInv, [NextIcons]_iconVars PROVE IconInv'
  OBVIOUS
<1>1. IconTypeOK' /\ BudgetSpent'
  BY IconTypeStep DEF IconInv
<1>2. CASE UNCHANGED iconVars \/ NextWindow
  <2>1. UNCHANGED <<file, serving, spoiled, kept>>
    BY <1>2 DEF iconVars, NextWindow
  <2>2. /\ Counted' = Counted /\ Sizable' = Sizable /\ Sweeps' = Sweeps /\ Unlisted' = Unlisted
        /\ Unswept' = Unswept
        /\ \A h : Ahead(h)' = Ahead(h) /\ SizableAhead(h)' = SizableAhead(h)
    BY <2>1 DEF Counted, Files, Sizable, Sweeps, Unlisted, Unswept, Requests, Ahead, SizableAhead
  <2>3. CacheAccounted'
    BY <2>1, <2>2 DEF IconInv, CacheAccounted, Nested, Accounted
  <2>4. Believed'
    BY <2>1, <2>2 DEF IconInv, Believed
  <2>. QED
    BY <1>1, <2>3, <2>4 DEF IconInv
<1>3. CASE Ask
  <2>1. PICK h \in Serving, a \in Address, d \in Domain \cup {NotADomain} :
          /\ serving[h].at = "free"
          /\ serving' = [serving EXCEPT ![h] =
               [at |-> "limit", address |-> a, domain |-> d, now |-> window]]
    BY <1>3 DEF Ask, Where
  <2>2. file' = file /\ spoiled' = spoiled /\ kept' = kept
    BY <1>3 DEF Ask
  <2>. QED
    BY <1>1, <2>1, <2>2, QuietHolds DEF IconInv
<1>4. ASSUME NEW h \in Serving, Limit(h) \/ Look(h) \/ Fetch(h) PROVE IconInv'
  <2>1. serving[h].at \in {"limit", "look", "fetch"} /\ file' = file /\ spoiled' = spoiled /\ kept' = kept
    BY <1>4 DEF Limit, Look, Fetch, Where
  <2>2. PICK new \in {Free, [at |-> "look", domain |-> serving[h].domain],
                      [at |-> "fetch", domain |-> serving[h].domain],
                      [at |-> "create", path |-> <<serving[h].domain, "ico">>],
                      [at |-> "create", path |-> <<serving[h].domain, "none">>]} :
          serving' = [serving EXCEPT ![h] = new]
    BY <1>4 DEF Limit, Look, Fetch
  <2>3. new.at \in {"free", "look", "fetch", "create"}
    BY <2>2 DEF Free
  <2>. QED
    BY <1>1, <2>1, <2>2, <2>3, QuietHolds DEF IconInv
<1>5. ASSUME NEW h \in Serving, Create(h) \/ Fill(h) PROVE IconInv'
  BY <1>1, <1>5, WritingHolds DEF IconInv
<1>6. ASSUME NEW h \in Serving, List(h) PROVE IconInv'
  BY <1>1, <1>6, ListHolds DEF IconInv
<1>7. ASSUME NEW h \in Serving, Sweep(h) PROVE IconInv'
  BY <1>1, <1>7, SweepHolds DEF IconInv
<1>. QED
  BY <1>2, <1>3, <1>4, <1>5, <1>6, <1>7 DEF NextIcons, Serve

LEMMA IconsInit == InitIcons => IconInv
<1>. SUFFICES ASSUME InitIcons PROVE IconInv
  OBVIOUS
<1>. USE LimitAssumption
<1>1. Files = {} /\ Counted = {} /\ Sizable = {}
  BY DEF InitIcons, Files, Counted, Sizable, Missing
<1>2. IconTypeOK
  BY <1>1, FS_EmptySet DEF InitIcons, IconTypeOK, Holds, Free, Missing
<1>3. BudgetSpent
  BY DEF InitIcons, BudgetSpent, Allowance
<1>4. Sweeps = {} /\ Unlisted = {} /\ Unswept = {}
  BY DEF InitIcons, Sweeps, Unlisted, Unswept, Requests, Free
<1>5. Believed
  BY <1>4 DEF Believed
<1>. DEFINE none == [k \in Serving |-> {}]
<1>6. Nested({}, none)
  BY DEF Nested
<1>7. Accounted({}, none)
  BY <1>1, <1>4, FS_EmptySet DEF InitIcons, Accounted
<1>8. none \in [Serving -> SUBSET Serving] /\ {} \in SUBSET Serving
  OBVIOUS
<1>9. CacheAccounted
  BY <1>6, <1>7, <1>8 DEF CacheAccounted
<1>. QED
  BY <1>2, <1>3, <1>5, <1>9 DEF IconInv

LEMMA IconsAlways == SpecIcons => []IconInv
BY IconsInit, IconsStep, PTL DEF SpecIcons

(* However many requests write, list and sweep over each other, the cache   *)
(* holds no more than its ceilings, what those that have not finished       *)
(* wrote, what was left where a file could not be filled or the directory   *)
(* not listed, and the files that could not be read or removed              *)
(* (icons.rs:176).                                                          *)
THEOREM CacheStaysBounded == SpecIcons => []CacheBounded
<1>1. IconInv => CacheBounded
  <2>. SUFFICES ASSUME IconInv PROVE CacheBounded
    OBVIOUS
  <2>. DEFINE W == {h \in Serving : serving[h].at \in {"fill", "list", "sweep"}}
  <2>1. PICK open \in SUBSET Serving, later \in [Serving -> SUBSET Serving] :
          Nested(open, later) /\ Accounted(open, later)
    BY DEF IconInv, CacheAccounted
  <2>2. /\ \A S \in SUBSET Serving : IsFiniteSet(S) /\ Cardinality(S) \in Nat
        /\ Cardinality(Counted) \in Nat /\ Cardinality(Sizable) \in Nat
    BY ServingSets DEF IconInv
  <2>3. /\ open \subseteq Sweeps /\ W \in SUBSET Serving
        /\ Unlisted \in SUBSET Serving /\ Unswept \in SUBSET Serving
        /\ Unlisted \cup open \subseteq W /\ Unlisted \cap open = {}
        /\ Unswept \cup open \subseteq W /\ Unswept \cap open = {}
    BY <2>1 DEF Nested, Sweeps, Unlisted, Unswept, Requests
  <2>. HIDE DEF W
  <2>4. Cardinality(Unlisted) + Cardinality(open) <= Cardinality(W)
    <3>1. Cardinality(Unlisted \cup open) = Cardinality(Unlisted) + Cardinality(open) - Cardinality({})
      BY <2>2, <2>3, FS_Union
    <3>. QED
      BY <2>2, <2>3, <3>1, FS_EmptySet, FS_Subset
  <2>5. Cardinality(Unswept) + Cardinality(open) <= Cardinality(W)
    <3>1. Cardinality(Unswept \cup open) = Cardinality(Unswept) + Cardinality(open) - Cardinality({})
      BY <2>2, <2>3, FS_Union
    <3>. QED
      BY <2>2, <2>3, <3>1, FS_EmptySet, FS_Subset
  <2>6. /\ Cardinality(Counted) <= MaxCacheEntries + Cardinality(Unlisted) + Cardinality(open) + spoiled
        /\ Cardinality(Sizable) <= MaxCacheBytes + Cardinality(Unswept) + Cardinality(open) + spoiled
    BY <2>1 DEF Accounted
  <2>7. Bytes(Path \ kept) = Cardinality(Sizable)
    <3>1. {p \in Path \ kept : file[p].size > 0} = Sizable
      BY DEF IconInv, IconTypeOK, Sizable, Counted, Files
    <3>. QED
      BY <3>1 DEF Bytes
  <2>8. spoiled \in Nat /\ Cardinality(W) \in Nat
        /\ Cardinality(Unlisted) \in Nat /\ Cardinality(Unswept) \in Nat /\ Cardinality(open) \in Nat
    BY <2>2, <2>3 DEF IconInv, IconTypeOK
  <2>9. /\ Cardinality(Counted) <= MaxCacheEntries + Cardinality(W) + spoiled
        /\ Bytes(Path \ kept) <= MaxCacheBytes + Cardinality(W) + spoiled
    BY <2>2, <2>4, <2>5, <2>6, <2>7, <2>8, LimitAssumption
  <2>. QED
    BY <2>9 DEF CacheBounded, Counted, W
<1>. QED
  BY <1>1, IconsAlways, PTL

(* No address is let through more often in a window than its budget, and    *)
(* once more for each request that came to the lock with an earlier window  *)
(* than the one it counted (api.rs:96).                                     *)
THEOREM BudgetsHold == SpecIcons => []BudgetPerWindow
<1>1. IconInv => BudgetPerWindow
  <2>. SUFFICES ASSUME IconInv, NEW a \in Address, NEW w \in 0..LastWindow
                PROVE  let[a][w] <= PerWindow * (1 + late)
    BY DEF BudgetPerWindow
  <2>1. /\ PerWindow \in Nat /\ late \in Nat /\ let[a][w] \in Nat
        /\ limiter.hits[a] \in 0..PerWindow + 1 /\ limiter.window \in 0..LastWindow
    BY LimitAssumption DEF IconInv, IconTypeOK
  <2>2. Allowance(a, w) \in Nat /\ Allowance(a, w) <= PerWindow
    BY <2>1, LimitAssumption DEF Allowance
  <2>3. PerWindow * (1 + late) = PerWindow * late + PerWindow /\ PerWindow * late \in Nat
    BY <2>1
  <2>4. let[a][w] <= PerWindow * late + Allowance(a, w)
    BY DEF IconInv, BudgetSpent
  <2>. DEFINE spent == PerWindow * late
  <2>5. spent \in Nat /\ let[a][w] <= spent + Allowance(a, w)
        /\ PerWindow * (1 + late) = spent + PerWindow
    BY <2>3, <2>4
  <2>. HIDE DEF spent
  <2>. QED
    BY <2>1, <2>2, <2>5
<1>. QED
  BY <1>1, IconsAlways, PTL
=============================================================================

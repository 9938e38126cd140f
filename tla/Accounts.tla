------------------------------ MODULE Accounts ------------------------------
(***************************************************************************)
(* Who may write to the sync server: accounts and their first devices,     *)
(* bought with invitations, devices added and removed by the account key,  *)
(* pushes signed by a device, and what the operator does by hand.          *)
(*                                                                         *)
(* A message may be late, overtaken, delivered twice or never.  A handler  *)
(* takes the store's mutex for each statement or transaction, and other    *)
(* handlers and the operator come in between; each goes by the time at     *)
(* which it began.  The clock of a client may be ahead of the server's or  *)
(* behind it.  What is pulled and pushed is the business of module Sync; a *)
(* refusal of the limiter (RateLimiter) is a message that is never         *)
(* delivered.                                                              *)
(***************************************************************************)
EXTENDS Naturals, FiniteSets

CONSTANTS
  Account, NoAccount,
  Legacy,       \* the accounts written before there was an account key
  Device, Invite, NoInvite,
  Nonce,        \* one for each message: the bound on messages
  NoMessage,
  Handler,      \* the bound on requests handled at once
  Skew,         \* CLOCK_SKEW_SECS
  Drift,        \* how far the clock of a client may be ahead
  InviteLife,   \* INVITE_HOURS
  MaxClock

ASSUME AccountAssumption ==
  /\ Legacy \subseteq Account
  /\ NoAccount \notin Account
  /\ NoInvite \notin Invite
  /\ NoMessage \notin Nonce

ASSUME WindowAssumption ==
  /\ {Skew, Drift} \subseteq Nat
  /\ InviteLife \in Nat \ {0}
  /\ MaxClock \in Nat

VARIABLES
  clock,
  key,          \* accounts: there is none, one without a key, one with its key
  revision,     \* accounts.revision
  owner,        \* devices.account_id
  expires,      \* invites.expires_at; 0: no such invitation
  usedBy,       \* invites.used_by
  seen,         \* NonceCache: 0, or one more than the time it was last seen
  handler,      \* the requests being handled, the step each is at, and when it began
  sent,         \* what clients have sent
  added,        \* history: how often a device was attached (up to 2)
  applied,      \* history: how often a push was applied (up to 2)
  bought,       \* history: how often an invitation was spent (up to 2)
  deleted,      \* history: the accounts the operator deleted
  member,       \* history: handlers whose device was its account's at some time
  stale,        \* history: messages older than the last restart
  pruned,       \* history: the latest time that nonces were pruned for
  loose         \* history: messages checked for a time before their own, or before pruned

server == <<key, revision, owner, expires, usedBy>>
checks == <<pruned, loose>>
history == <<added, applied, bought, deleted, member, stale, checks>>
vars == <<clock, server, seen, handler, sent, history>>

Message == [kind : {"enrol", "claim", "register", "revoke", "push"},
            account : Account, device : Device, invite : Invite \cup {NoInvite},
            expected : Nat, time : Nat]
Idle == [at |-> "idle", nonce |-> NoMessage, now |-> 0]
Steps == {"key", "verify", "enrol", "claim", "register", "revoke", "push"}

ASSUME MessageAssumption == NoMessage \notin Message

HasKey(a) == key[a] = "keyed"
At(h, step) == handler[h].at = step
Request(h) == sent[handler[h].nonce]

Init ==
  /\ clock = 0
  /\ key = [a \in Account |-> IF a \in Legacy THEN "legacy" ELSE "none"]
  /\ revision = [a \in Account |-> 0]
  /\ owner = [d \in Device |-> NoAccount]
  /\ expires = [i \in Invite |-> 0]
  /\ usedBy = [i \in Invite |-> NoAccount]
  /\ seen = [n \in Nonce |-> 0]
  /\ handler = [h \in Handler |-> Idle]
  /\ sent = [n \in Nonce |-> NoMessage]
  /\ added = [d \in Device |-> 0]
  /\ applied = [n \in Nonce |-> 0]
  /\ bought = [i \in Invite |-> 0]
  /\ deleted = {} /\ member = {} /\ stale = {}
  /\ pruned = 0 /\ loose = {}

-----------------------------------------------------------------------------
(* Clients.  Every call makes a nonce of its own; a device makes its id when *)
(* it first asks to be attached.                                             *)

Messages == {sent[n] : n \in Nonce} \ {NoMessage}
DeviceIsNew(d) == \A m \in Messages : m.device # d
Home(d, a) == added[d] > 0 /\ \E m \in Messages : m.device = d /\ m.account = a

Send(n, kind, a, d, i, expected, time) ==
  /\ sent[n] = NoMessage
  /\ sent' = [sent EXCEPT ![n] = [kind |-> kind, account |-> a, device |-> d,
                                  invite |-> i, expected |-> expected, time |-> time]]
  /\ UNCHANGED <<clock, server, seen, handler, history>>

(* What the clock of a client may say.  That of one that is behind is as    *)
(* good as a message that is late.                                          *)
Stamps == clock..(clock + Drift)

SendEnrol == \E n \in Nonce, a \in Account \ Legacy, d \in Device, i \in Invite :
  /\ DeviceIsNew(d)
  /\ \A m \in Messages : m.account # a
  /\ Send(n, "enrol", a, d, i, 0, clock)

SendClaim == \E n \in Nonce, a \in Legacy, d \in Device, i \in Invite :
  DeviceIsNew(d) /\ Send(n, "claim", a, d, i, 0, clock)

SendRegister == \E n \in Nonce, a \in Account, d \in Device, time \in Stamps :
  HasKey(a) /\ DeviceIsNew(d) /\ Send(n, "register", a, d, NoInvite, 0, time)

SendRevoke == \E n \in Nonce, a \in Account, d \in Device, time \in Stamps :
  HasKey(a) /\ Home(d, a) /\ Send(n, "revoke", a, d, NoInvite, 0, time)

SendPush == \E n \in Nonce, a \in Account, d \in Device, time \in Stamps :
  Home(d, a) /\ Send(n, "push", a, d, NoInvite, revision[a], time)

-----------------------------------------------------------------------------
(* Handlers *)

GoTo(h, step) == handler' = [handler EXCEPT ![h].at = step]
Answer(h) == /\ handler' = [handler EXCEPT ![h] = Idle]
             /\ member' = member \ {h}
Once(count, x) == [count EXCEPT ![x] = IF @ = 0 THEN 1 ELSE 2]

(* The unsigned requests go straight to their transaction. *)
Receive == \E h \in Handler, n \in Nonce :
  /\ At(h, "idle") /\ sent[n] # NoMessage
  /\ handler' = [handler EXCEPT ![h] =
       [at |-> IF sent[n].kind \in {"enrol", "claim"} THEN sent[n].kind ELSE "key",
        nonce |-> n, now |-> clock]]
  /\ member' = IF owner[sent[n].device] = sent[n].account THEN member \cup {h} ELSE member
  /\ UNCHANGED <<clock, server, seen, sent, added, applied, bought, deleted, stale, checks>>

(* Mutation of FindKey: the key of the account will do for any device.      *)
FindKeyOfAccount(h) ==
  /\ At(h, "key")
  /\ IF HasKey(Request(h).account)
       THEN GoTo(h, "verify") /\ UNCHANGED member
       ELSE Answer(h)
  /\ UNCHANGED <<clock, server, seen, sent, added, applied, bought, deleted, stale, checks>>

(* The key to check against: of the device, if it is this account's, or of  *)
(* the account.                                                             *)
FindKey(h) ==
  /\ At(h, "key")
  /\ IF \/ Request(h).kind = "push" /\ owner[Request(h).device] = Request(h).account
        \/ Request(h).kind # "push" /\ HasKey(Request(h).account)
       THEN GoTo(h, "verify") /\ UNCHANGED member
       ELSE Answer(h)
  /\ UNCHANGED <<clock, server, seen, sent, added, applied, bought, deleted, stale, checks>>

Near(time, now) == now <= time + Skew /\ time <= now + Skew

(* Mutation of Pruned: a nonce goes while its timestamp is still near.      *)
PrunedEarly(now) == [n \in Nonce |-> IF now + 1 < seen[n] + Skew THEN seen[n] ELSE 0]
Pruned(now) == [n \in Nonce |-> IF now + 1 <= seen[n] + Skew THEN seen[n] ELSE 0]

(* A message whose timestamp is far from now is refused before the nonces   *)
(* are looked at; one that was seen before counts as seen now.              *)
Verify(h) == LET m == Request(h)
                 n == handler[h].nonce
                 now == handler[h].now IN
  /\ At(h, "verify")
  /\ IF Near(m.time, now)
       THEN /\ seen' = [Pruned(now) EXCEPT ![n] = now + 1]
            /\ pruned' = IF now > pruned THEN now ELSE pruned
            /\ loose' = IF now < m.time \/ now < pruned THEN loose \cup {n} ELSE loose
            /\ IF Pruned(now)[n] = 0
                 THEN GoTo(h, m.kind) /\ UNCHANGED member
                 ELSE Answer(h)
       ELSE Answer(h) /\ UNCHANGED <<seen, checks>>
  /\ UNCHANGED <<clock, server, sent, added, applied, bought, deleted, stale>>

(* Mutation of Usable: what an invitation was used for is not looked at.    *)
UsableTwice(i, now) == now < expires[i]
Usable(i, now) == usedBy[i] = NoAccount /\ now < expires[i]

Spend(i, a) == /\ usedBy' = [usedBy EXCEPT ![i] = a]
               /\ bought' = Once(bought, i)

(* The row of a new device.  Whoever is being served for it, h aside, has   *)
(* been served while it was the account's.                                  *)
AddDevice(h, d, a) ==
  /\ owner' = [owner EXCEPT ![d] = a]
  /\ added' = Once(added, d)
  /\ handler' = [handler EXCEPT ![h] = Idle]
  /\ member' = (member \cup {g \in Handler : /\ ~At(g, "idle")
                                             /\ Request(g).device = d
                                             /\ Request(g).account = a}) \ {h}

Refuse(h) == Answer(h) /\ UNCHANGED <<server, added, applied, bought>>

Enrol(h) == LET m == Request(h) IN
  /\ At(h, "enrol")
  /\ IF Usable(m.invite, handler[h].now) /\ key[m.account] = "none" /\ owner[m.device] = NoAccount
       THEN /\ Spend(m.invite, m.account)
            /\ key' = [key EXCEPT ![m.account] = "keyed"]
            /\ revision' = [revision EXCEPT ![m.account] = 0]
            /\ AddDevice(h, m.device, m.account)
            /\ UNCHANGED <<expires, applied>>
       ELSE Refuse(h)
  /\ UNCHANGED <<clock, seen, sent, deleted, stale, checks>>

(* The first device of an account that has no key. *)
Claim(h) == LET m == Request(h) IN
  /\ At(h, "claim")
  /\ IF /\ key[m.account] = "legacy"
        /\ \A d \in Device : owner[d] # m.account
        /\ Usable(m.invite, handler[h].now)
        /\ owner[m.device] = NoAccount
       THEN /\ Spend(m.invite, m.account)
            /\ AddDevice(h, m.device, m.account)
            /\ UNCHANGED <<key, revision, expires, applied>>
       ELSE Refuse(h)
  /\ UNCHANGED <<clock, seen, sent, deleted, stale, checks>>

(* Mutation of Register: the account may be gone by now.                    *)
RegisterUnchecked(h) == LET m == Request(h) IN
  /\ At(h, "register")
  /\ IF owner[m.device] = NoAccount
       THEN /\ AddDevice(h, m.device, m.account)
            /\ UNCHANGED <<key, revision, expires, usedBy, applied, bought>>
       ELSE Refuse(h)
  /\ UNCHANGED <<clock, seen, sent, deleted, stale, checks>>

(* That the account exists is a foreign key, and that the device does not a *)
(* primary key: either refuses the insert.                                  *)
Register(h) == LET m == Request(h) IN
  /\ At(h, "register")
  /\ IF key[m.account] # "none" /\ owner[m.device] = NoAccount
       THEN /\ AddDevice(h, m.device, m.account)
            /\ UNCHANGED <<key, revision, expires, usedBy, applied, bought>>
       ELSE Refuse(h)
  /\ UNCHANGED <<clock, seen, sent, deleted, stale, checks>>

Drop(d, a) == owner' = [owner EXCEPT ![d] = IF @ = a THEN NoAccount ELSE @]

Revoke(h) == LET m == Request(h) IN
  /\ At(h, "revoke")
  /\ Drop(m.device, m.account)
  /\ Answer(h)
  /\ UNCHANGED <<clock, key, revision, expires, usedBy, seen, sent,
                 added, applied, bought, deleted, stale, checks>>

(* Mutation of Push: the revision the client expects is not looked at.      *)
PushBlindly(h) == LET m == Request(h) IN
  /\ At(h, "push")
  /\ Answer(h)
  /\ IF key[m.account] # "none"
       THEN /\ revision' = [revision EXCEPT ![m.account] = @ + 1]
            /\ applied' = Once(applied, handler[h].nonce)
       ELSE UNCHANGED <<revision, applied>>
  /\ UNCHANGED <<clock, key, owner, expires, usedBy, seen, sent,
                 added, bought, deleted, stale, checks>>

Push(h) == LET m == Request(h) IN
  /\ At(h, "push")
  /\ Answer(h)
  /\ IF key[m.account] # "none" /\ revision[m.account] = m.expected
       THEN /\ revision' = [revision EXCEPT ![m.account] = @ + 1]
            /\ applied' = Once(applied, handler[h].nonce)
       ELSE UNCHANGED <<revision, applied>>
  /\ UNCHANGED <<clock, key, owner, expires, usedBy, seen, sent,
                 added, bought, deleted, stale, checks>>

Handle(h) == \/ FindKey(h) \/ Verify(h) \/ Enrol(h) \/ Claim(h)
             \/ Register(h) \/ Revoke(h) \/ Push(h)

-----------------------------------------------------------------------------
(* The operator, who works on the same database from another process *)

CreateInvite == \E i \in Invite :
  /\ expires[i] = 0
  /\ expires' = [expires EXCEPT ![i] = clock + InviteLife]
  /\ UNCHANGED <<clock, key, revision, owner, usedBy, seen, handler, sent, history>>

RevokeDevice == \E d \in Device, a \in Account :
  /\ owner[d] = a
  /\ Drop(d, a)
  /\ UNCHANGED <<clock, key, revision, expires, usedBy, seen, handler, sent, history>>

(* Its items, its devices and its row, in one transaction; the invitation   *)
(* that bought it stays spent.                                              *)
DeleteAccount == \E a \in Account :
  /\ key[a] # "none"
  /\ key' = [key EXCEPT ![a] = "none"]
  /\ revision' = [revision EXCEPT ![a] = 0]
  /\ owner' = [d \in Device |-> IF owner[d] = a THEN NoAccount ELSE owner[d]]
  /\ deleted' = deleted \cup {a}
  /\ UNCHANGED <<clock, expires, usedBy, seen, handler, sent,
                 added, applied, bought, member, stale, checks>>

(* The nonces are in memory only. *)
Restart ==
  /\ seen' = [n \in Nonce |-> 0]
  /\ handler' = [h \in Handler |-> Idle]
  /\ member' = {}
  /\ stale' = {n \in Nonce : sent[n] # NoMessage}
  /\ pruned' = 0
  /\ UNCHANGED <<clock, server, sent, added, applied, bought, deleted, loose>>

Tick ==
  /\ clock < MaxClock
  /\ clock' = clock + 1
  /\ UNCHANGED <<server, seen, handler, sent, history>>

Next ==
  \/ SendEnrol \/ SendClaim \/ SendRegister \/ SendRevoke \/ SendPush
  \/ Receive \/ \E h \in Handler : Handle(h)
  \/ CreateInvite \/ RevokeDevice \/ DeleteAccount \/ Restart \/ Tick

Spec == Init /\ [][Next]_vars

-----------------------------------------------------------------------------
(* Every variable keeps its type: rows name rows that may exist, and a      *)
(* handler is at a step of the message it has.                              *)
TypeOK ==
  /\ clock \in Nat
  /\ key \in [Account -> {"none", "legacy", "keyed"}]
  /\ revision \in [Account -> Nat]
  /\ owner \in [Device -> Account \cup {NoAccount}]
  /\ expires \in [Invite -> Nat]
  /\ usedBy \in [Invite -> Account \cup {NoAccount}]
  /\ seen \in [Nonce -> Nat]
  /\ sent \in [Nonce -> Message \cup {NoMessage}]
  /\ handler \in [Handler -> [at : Steps \cup {"idle"}, nonce : Nonce \cup {NoMessage}, now : Nat]]
  /\ \A h \in Handler : ~At(h, "idle") =>
       handler[h].nonce \in Nonce /\ Request(h) # NoMessage
  /\ added \in [Device -> 0..2] /\ applied \in [Nonce -> 0..2] /\ bought \in [Invite -> 0..2]
  /\ deleted \subseteq Account /\ member \subseteq Handler /\ stale \subseteq Nonce
  /\ pruned \in Nat /\ loose \subseteq Nonce

(* No device belongs to an account that is not there: a registration that   *)
(* was authorised before its account was deleted attaches nothing after     *)
(* (store.rs:131).                                                          *)
NoOrphans == \A d \in Device : owner[d] # NoAccount => key[owner[d]] # "none"

(* An invitation pays for one thing, ever, whatever is delivered twice or   *)
(* deleted (store.rs:252), and an account with a key was paid for.          *)
InvitesBuyOnce ==
  /\ \A i \in Invite : bought[i] = IF usedBy[i] = NoAccount THEN 0 ELSE 1
  /\ \A a \in Account : HasKey(a) => \E i \in Invite : usedBy[i] = a

(* A deleted account is gone for good, with every message about it still    *)
(* under way (store.rs:350, docs/hosting.md).                               *)
DeletedStaysDeleted == \A a \in deleted : key[a] = "none"

(* A deletion holds against whatever was authorised before it and is served *)
(* after: neither the account nor a device of it is there (store.rs:131).   *)
DeletedForGood == DeletedStaysDeleted /\ NoOrphans

(* A device that was removed is not attached again by a copy of the message *)
(* that attached it (auth.rs:103), unless the server has restarted since, or *)
(* checked the message for a time that is before its timestamp, or before   *)
(* one that nonces had been pruned for: a nonce is forgotten Skew after it  *)
(* was seen, and its message accepted until Skew after its timestamp.       *)
RemovedStaysOut ==
  \A n \in Nonce : /\ sent[n] # NoMessage
                   /\ sent[n].kind \in {"enrol", "claim", "register"}
                   /\ added[sent[n].device] > 1
                   => n \in stale \cup loose

(* What the comment on the nonces says (auth.rs:106): one that is forgotten *)
(* belongs to a message that the timestamp alone refuses, so that no copy   *)
(* attaches a device again while the server runs.                           *)
ForgottenIsRefused ==
  \A n \in Nonce : /\ sent[n] # NoMessage
                   /\ sent[n].kind = "register"
                   /\ added[sent[n].device] > 1
                   => n \in stale

(* A push is applied once, copies of it and restarts notwithstanding: what  *)
(* no longer follows on the account's revision is refused (store.rs:529).   *)
PushedOnce == \A n \in Nonce : applied[n] <= 1

(* Only a device that was the account's while its push was being served     *)
(* changes the account (api.rs:298).                                        *)
PushesAreMembers ==
  [][\A n \in Nonce : applied'[n] # applied[n] =>
       \E h \in member : At(h, "push") /\ handler[h].nonce = n]_vars
=============================================================================

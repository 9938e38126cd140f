----------------------------- MODULE SyncProofs -----------------------------
(***************************************************************************)
(* Theorems of Sync, for any number of machines, any clocks, any retention *)
(* and any bounds.  Users change what they like while a sync is under way, *)
(* and lock a vault before what a sync did to it is saved.  Left out are a *)
(* push between the two halves of a pull (the run sync_torn shows that it  *)
(* must be) and a sync that goes on in a vault that was closed and opened  *)
(* again without what the sync had brought.  What a machine has seen it has *)
(* (SeenInv); that no write is lost, and that machines agree, is proved of *)
(* all ids but those put at risk (IInv).                                   *)
(***************************************************************************)
EXTENDS Sync, WellFoundedInduction, TLAPS

-----------------------------------------------------------------------------
(* The invariant.                                                          *)

\* Vaults and syncs, by name.
Vault == [items : SUBSET Item, graves : SUBSET Grave, rev : Nat, synced : Nat]

Step == [pc : {"idle", "items", "revision", "decide", "apply", "push", "end"},
        since : Nat, synced : Nat, page : SUBSET Record, rev : Nat,
        doing : SUBSET Record, choice : Resolution, out : SUBSET Record]

\* A version is a body under an id; no body, 0, is a deletion.  VersionsAt(m) is
\* what m's vault, its file and its sync hold, Versions what is held anywhere.
Version(id, body) == [id |-> id, body |-> body]
VersionsOf(v) ==
  {Version(i.id, i.body) : i \in v.items} \cup {Version(g.id, 0) : g \in v.graves}
VersionsAt(m) ==
  VersionsOf(vault[m]) \cup VersionsOf(disk[m])
    \cup {Version(r.id, r.body) : r \in sync[m].page \cup sync[m].doing \cup sync[m].out}
Versions ==
  {Version(r.id, r.body) : r \in server.recs} \cup UNION {VersionsAt(m) : m \in Machine}

\* Ids and bodies are numbered as they are used, and only users bury.
SoundVersions ==
  /\ \A x \in Versions : x.id <= ids /\ x.body <= bodies /\ (x.body = 0 => x.id \in buried)
  /\ \A w \in current : w.id <= ids /\ w.body <= bodies /\ w.body # 0
  /\ \A id \in buried : id <= ids

DeadIsEmpty ==
  /\ \A r \in server.recs : r.dead <=> r.body = 0
  /\ \A m \in Machine :
       /\ \A i \in vault[m].items : i.body # 0
       /\ \A i \in disk[m].items : i.body # 0
       /\ \A r \in sync[m].page \cup sync[m].doing \cup sync[m].out : r.dead <=> r.body = 0

\* Where what a user wrote goes under another id than the one it was written
\* under, a conflict made a copy of it.  Nothing else ever goes by that id: no
\* sync can put another body, or a deletion, in the copy's place.
CopiesStay ==
  \A w \in current, x, y \in Versions :
    x.body = w.body /\ x.id # w.id /\ y.id = x.id => y.body = x.body

\* No two have one id.
OnePer(S) == \A x, y \in S : x.id = y.id => x = y

OneRecordEach ==
  /\ OnePer(server.recs)
  /\ \A r \in server.recs : r.rev <= server.rev

\* What m has pulled and not dealt with; the stages of a sync that has pulled.
Pulling(m) == sync[m].page \cup sync[m].doing

Working == {"decide", "apply", "push"}

\* The vault of a machine, and what its sync works on: a sync begins from what
\* the vault remembers, and nothing changes that meanwhile.
SyncShape(m) ==
  LET v == vault[m]
      s == sync[m]
  IN /\ OnePer(v.items) /\ OnePer(v.graves)
     /\ \A i \in v.items, g \in v.graves : i.id # g.id
     /\ v.rev <= server.rev /\ disk[m].rev <= server.rev
     /\ s.pc # "idle" => s.since = v.rev /\ s.synced = v.synced
     /\ s.pc \notin {"revision", "decide", "apply"} => s.page = {}
     /\ s.pc = "apply" => \E p \in s.doing : s.doing = {p}
     /\ s.pc # "apply" => s.doing = {}
     /\ s.pc # "push" => s.out = {}
     /\ OnePer(s.out)
     /\ OnePer(Pulling(m)) /\ s.page \cap s.doing = {}
     /\ \A p \in Pulling(m) : p.rev > s.since
     /\ s.pc \in Working \cup {"end"} => s.since <= s.rev /\ s.rev <= server.rev

\* A page is complete for the revision it will be given, and stays current but
\* for what was pushed since.
Pages(m) ==
  LET s == sync[m]
  IN /\ s.pc = "revision" => \A r \in server.recs :
          /\ r.rev > s.since => r \in s.page
          /\ \A p \in s.page : p.id = r.id => p = r
     /\ s.pc \in {"decide", "apply"} =>
          \A r \in server.recs, p \in Pulling(m) : p.id = r.id => p = r \/ r.rev > s.rev

\* What is decided of a record fits it, whatever the user does before it is
\* acted on: a live one is dropped only where its item was deleted.
Resolved(m) ==
  sync[m].pc = "apply" => \A r \in sync[m].doing :
    /\ sync[m].choice \in {"ApplyRemote", "RemoteWins", "LocalWins"} => ~r.dead
    /\ sync[m].choice = "ApplyDelete" => r.dead
    /\ sync[m].choice = "KeepLocal" => r.dead \/ r.id \in buried

\* A record of what some user wrote and nobody moved on from.
Standing(r) == ~r.dead /\ r.id \notin buried /\ [id |-> r.id, body |-> r.body] \in current

\* The vault has what the record says, under its id or as a copy.
Shown(v, r) == \E i \in v.items : i.body = r.body

\* Such a record is in the vault and in its file, when it is at or below the
\* revision they remember; or that they will remember, once the page is dealt
\* with.  So is what is pushed.
Seen(m) ==
  /\ \A r \in server.recs : Standing(r) =>
       /\ \A v \in {vault[m], disk[m]} : r.rev <= v.rev => Shown(v, r)
       /\ sync[m].pc \in Working \cup {"end"} /\ r.rev <= sync[m].rev =>
            r \in Pulling(m) \/ Shown(vault[m], r)
  /\ \A o \in sync[m].out : Standing(o) => Shown(vault[m], o)

\* A vault that is opened from its file is in order, and remembers no later sync.
Filed(m) ==
  LET v == vault[m]
      d == disk[m]
  IN /\ OnePer(d.items) /\ OnePer(d.graves)
     /\ \A i \in d.items, g \in d.graves : i.id # g.id
     /\ d.synced <= v.synced /\ v.synced <= Now(m)

Versioned == TypeOK /\ SoundVersions /\ DeadIsEmpty /\ CopiesStay /\ OneRecordEach
Local(m) == SyncShape(m) /\ Pages(m) /\ Resolved(m) /\ Seen(m)

\* What holds of every id.
SeenInv == Versioned /\ \A m \in Machine : Local(m) /\ Filed(m)

-----------------------------------------------------------------------------
(* The rest of the invariant, for what was not put at risk.                *)

\* What was decided of a record is what would be decided now, and what is
\* pushed is what there is to push.
Decision(v, r, synced) ==
  IF Of(v.items, r.id) # {} THEN Reconcile(Of(v.items, r.id), FALSE, r, synced)
  ELSE Reconcile(Of(v.graves, r.id), TRUE, r, synced)

Decided(m) ==
  /\ sync[m].pc = "apply" =>
       \A r \in sync[m].doing : r.id \notin risked =>
         sync[m].choice = Decision(vault[m], r, sync[m].synced)
  /\ sync[m].pc = "push" =>
       LET due == ToPush(vault[m], sync[m].synced)
       IN \A o \in sync[m].out \cup due : o.id \notin risked => o \in sync[m].out \cap due

\* The vault is as the record says; or something changed here, later.
Has(v, r) == IF r.dead THEN Of(v.items, r.id) = {}
             ELSE \E i \in v.items : i.id = r.id /\ i.body = r.body

Agrees(v, r, synced) ==
  \/ \E i \in v.items : i.id = r.id /\ i.at > synced
  \/ \E g \in v.graves : g.id = r.id /\ g.at > synced
  \/ Has(v, r)

\* What the server had at the revision the vault remembers, the vault agrees
\* with; what it had at the revision of the page, once it is dealt with.  After
\* a push that went through nothing is left to disagree.
Agreement(m) ==
  LET v == vault[m]
      s == sync[m]
  IN \A r \in server.recs : r.id \notin risked =>
       /\ r.rev <= v.rev => Agrees(v, r, v.synced)
       /\ s.pc \in Working /\ r.rev <= s.rev => r \in Pulling(m) \/ Agrees(v, r, s.synced)
       /\ s.pc = "end" /\ r.rev <= s.rev => Has(v, r)

Alone(m) == Decided(m) /\ Agreement(m)

\* The file agrees with what the server had at the revision that the file has.
Saved(m) ==
  \A r \in server.recs : r.id \notin risked /\ r.rev <= disk[m].rev =>
    Agrees(disk[m], r, disk[m].synced)

CopyIn(v, r) == \E i \in v.items : i.id # r.id /\ i.body = r.body

\* Where a write is: as a copy on a machine or the server; as the server's
\* record; or on a machine that changed it and has not sent it.
Kept(w) ==
  \/ \E m \in Machine : CopyIn(vault[m], w)
  \/ \E r \in server.recs : ~r.dead /\ r.id # w.id /\ r.body = w.body
  \/ \E r \in server.recs : ~r.dead /\ r.id = w.id /\ r.body = w.body
  \/ \E m \in Machine : sync[m].pc # "end" /\
       \E i \in vault[m].items : i.id = w.id /\ i.body = w.body /\ i.at > vault[m].synced

AllKept == \A w \in current : w.id \notin buried \cup risked => Kept(w)

IInv == SeenInv /\ (\A m \in Machine : Alone(m) /\ Saved(m)) /\ AllKept

-----------------------------------------------------------------------------
(* Types.                                                                  *)

\* The first record of a page is one of it: pages are ordered by two numbers.
LEMMA LessIsWellFounded == IsWellFoundedOn({ss \in Nat \X Nat : ss[1] < ss[2]}, Nat)
BY NatLessThanWellFounded DEF OpToRel

LEMMA LeastOf ==
  ASSUME NEW S \in SUBSET Nat, S # {}
  PROVE  \E n \in S : \A k \in S : n <= k
<1>1. PICK n \in S : \A k \in S : ~ (<<k, n>> \in {ss \in Nat \X Nat : ss[1] < ss[2]})
  BY LessIsWellFounded, WFMin
<1>2. ASSUME NEW k \in S PROVE n <= k
  <2>1. k < n => <<k, n>> \in {ss \in Nat \X Nat : ss[1] < ss[2]}
    OBVIOUS
  <2> QED BY <1>1, <2>1
<1> QED BY <1>2

LEMMA FirstIsOfThePage ==
  ASSUME NEW page \in SUBSET Record, page # {}
  PROVE  First(page) \in page
<1>1. PICK n \in {r.rev : r \in page} : \A k \in {r.rev : r \in page} : n <= k
  <2>1. {r.rev : r \in page} \in SUBSET Nat /\ {r.rev : r \in page} # {}
    BY DEF Record
  <2> QED BY <2>1, LeastOf
<1> DEFINE early == {r \in page : r.rev = n}
<1>2. PICK k \in {r.id : r \in early} : \A j \in {r.id : r \in early} : k <= j
  <2>1. {r.id : r \in early} \in SUBSET Nat /\ {r.id : r \in early} # {}
    BY <1>1 DEF Record, Id
  <2> QED BY <2>1, LeastOf
<1>3. PICK r \in early : r.id = k
  BY <1>2
<1>4. ASSUME NEW q \in page PROVE r.rev < q.rev \/ (r.rev = q.rev /\ r.id <= q.id)
  <2>1. r.rev <= q.rev /\ r.rev \in Nat /\ q.rev \in Nat
    BY <1>1, <1>3 DEF Record
  <2>2. CASE q.rev = n
    BY <1>2, <1>3, <2>2
  <2> QED BY <1>3, <2>1, <2>2
<1> QED BY <1>3, <1>4 DEF First

-----------------------------------------------------------------------------
LEMMA UpsertIs ==
  ASSUME NEW v \in Vault, NEW item \in Item
  PROVE  /\ Upsert(v, item) \in Vault
         /\ Upsert(v, item).items = But(v.items, item.id) \cup {item}
         /\ Upsert(v, item).graves = But(v.graves, item.id)
         /\ Upsert(v, item).rev = v.rev /\ Upsert(v, item).synced = v.synced
BY DEF Upsert, Vault, But

LEMMA RemoveIs ==
  ASSUME NEW v \in Vault, NEW id \in Id, NEW now \in Nat
  PROVE  /\ Remove(v, id, now) \in Vault
         /\ Remove(v, id, now).items = But(v.items, id)
         /\ Of(v.items, id) = {} => Remove(v, id, now).graves = v.graves
         /\ Of(v.items, id) # {} =>
              Remove(v, id, now).graves = But(v.graves, id) \cup {[id |-> id, at |-> now]}
         /\ Remove(v, id, now).rev = v.rev /\ Remove(v, id, now).synced = v.synced
<1>1. CASE Of(v.items, id) = {}
  BY <1>1 DEF Remove, But, Of, Vault
<1>2. CASE Of(v.items, id) # {}
  <2>1. [id |-> id, at |-> now] \in Grave
    BY DEF Grave
  <2> QED BY <1>2, <2>1 DEF Remove, But, Vault
<1> QED BY <1>1, <1>2

\* What deleting an item that is there does to the vault.
LEMMA Removed ==
  ASSUME NEW v \in Vault, NEW id \in Id, NEW now \in Nat, Of(v.items, id) # {}
  PROVE  /\ Remove(v, id, now).items = But(v.items, id)
         /\ Remove(v, id, now).graves = But(v.graves, id) \cup {[id |-> id, at |-> now]}
         /\ Remove(v, id, now).rev = v.rev /\ Remove(v, id, now).synced = v.synced
  BY RemoveIs

LEMMA NowIs == ASSUME TypeOK, NEW m \in Machine PROVE Now(m) \in Nat
BY SkewAssumption DEF TypeOK, Now

\* The steps at one machine.
At(m) == SyncStep(m) \/ Add(m) \/ Edit(m) \/ Delete(m) \/ Relock(m)

\* What a machine has makes what it pushes.
LEMMA ToPushIs ==
  ASSUME NEW v \in Vault, NEW synced \in Nat
  PROVE  ToPush(v, synced) \in SUBSET Record
<1>1. ASSUME NEW i \in v.items PROVE Live(i) \in Record
  <2>1. i \in Item
    BY DEF Vault
  <2> QED BY <2>1 DEF Item, Live, Record
<1>2. ASSUME NEW g \in v.graves PROVE Dead(g) \in Record
  <2>1. g \in Grave
    BY DEF Vault
  <2> QED BY <2>1 DEF Grave, Dead, Record
<1> QED BY <1>1, <1>2 DEF ToPush

LEMMA ReconcileIs ==
  ASSUME NEW local, NEW here, NEW r, NEW synced
  PROVE  Reconcile(local, here, r, synced) \in Resolution
BY DEF Reconcile, Resolution

LEMMA IdleIs == Idle \in Step
BY DEF Idle, Step, Resolution

LEMMA PushedIs ==
  ASSUME TypeOK, NEW m \in Machine
  PROVE  {[r EXCEPT !.rev = server.rev + 1, !.written = clock] : r \in sync[m].out}
           \in SUBSET Record
<1>1. sync[m].out \in SUBSET Record /\ server.rev + 1 \in Nat /\ clock \in Nat
  BY DEF TypeOK
<1>2. ASSUME NEW r \in Record, NEW rev \in Nat, NEW time \in Nat
      PROVE  [r EXCEPT !.rev = rev, !.written = time] \in Record
  BY DEF Record
<1>3. ASSUME NEW r \in sync[m].out
      PROVE  [r EXCEPT !.rev = server.rev + 1, !.written = clock] \in Record
  BY <1>1, <1>2
<1> QED BY <1>3

\* The vault of a machine after a record is acted on.
LEMMA AppliedType ==
  ASSUME TypeOK, NEW m \in Machine, Apply(m)
  PROVE  vault'[m] \in Vault /\ ids' \in 0 .. MaxId
<1> DEFINE v == vault[m]
           Take(r) == [id |-> r.id, body |-> r.body, at |-> r.at]
<1>1. v \in Vault /\ sync[m].doing \in SUBSET Record
  BY DEF TypeOK, Vault
<1>2. PICK r \in sync[m].doing :
          \/ /\ vault' = [vault EXCEPT ![m] = Upsert(v, Take(r))]
             /\ UNCHANGED ids
          \/ /\ vault' = [vault EXCEPT ![m] = Remove(v, r.id, Now(m))]
             /\ UNCHANGED ids
          \/ UNCHANGED <<vault, ids>>
          \/ /\ ids < MaxId /\ ids' = ids + 1
             /\ vault' = [vault EXCEPT ![m] =
                  Upsert([v EXCEPT !.items =
                            @ \cup {Copy(i) : i \in Of(v.items, r.id)}], Take(r))]
          \/ /\ ids < MaxId /\ ids' = ids + 1
             /\ vault' = [vault EXCEPT ![m] = Upsert(v, Copy(Take(r)))]
  BY DEF Apply
<1>3. Take(r) \in Item /\ r.id \in Id
  BY <1>1 DEF Record, Item
<1>4. ids \in 0 .. MaxId /\ MaxId \in Nat
  BY BoundAssumption DEF TypeOK
<1>5. CASE vault' = [vault EXCEPT ![m] = Upsert(v, Take(r))] /\ UNCHANGED ids
  BY <1>1, <1>3, <1>4, <1>5, UpsertIs DEF TypeOK
<1>6. CASE vault' = [vault EXCEPT ![m] = Remove(v, r.id, Now(m))] /\ UNCHANGED ids
  BY <1>1, <1>3, <1>4, <1>6, RemoveIs, NowIs DEF TypeOK
<1>7. CASE ids < MaxId /\ ids' = ids + 1 /\ vault' = [vault EXCEPT ![m] =
                  Upsert([v EXCEPT !.items =
                            @ \cup {Copy(i) : i \in Of(v.items, r.id)}], Take(r))]
  <2>1. [v EXCEPT !.items = @ \cup {Copy(i) : i \in Of(v.items, r.id)}] \in Vault
    BY <1>1, <1>4, <1>7 DEF Vault, Copy, Item, Id, Of
  <2> QED BY <1>3, <1>4, <1>7, <2>1, UpsertIs DEF TypeOK
<1>8. CASE ids < MaxId /\ ids' = ids + 1 /\ vault' = [vault EXCEPT ![m] = Upsert(v, Copy(Take(r)))]
  <2>1. Copy(Take(r)) \in Item
    BY <1>3, <1>4, <1>8 DEF Copy, Item, Id
  <2> QED BY <1>1, <1>4, <1>8, <2>1, UpsertIs DEF TypeOK
<1>9. CASE UNCHANGED <<vault, ids>>
  BY <1>1, <1>4, <1>9
<1> QED BY <1>2, <1>5, <1>6, <1>7, <1>8, <1>9

LEMMA TypeStep == TypeOK /\ [Next]_vars => TypeOK'
<1> SUFFICES ASSUME TypeOK, [Next]_vars PROVE TypeOK'
  OBVIOUS
<1> USE BoundAssumption
<1>0. vault \in [Machine -> Vault] /\ disk \in [Machine -> Vault] /\ sync \in [Machine -> Step]
  BY DEF TypeOK, Vault, Step
<1>1. ASSUME NEW m \in Machine, Begin(m) \/ PullRevision(m) \/ Lost(m) PROVE TypeOK'
  <2>1. \E s \in Step : Do(m, s)
    BY <1>0, <1>1, IdleIs DEF Begin, PullRevision, Lost, TypeOK, Step, Idle, Vault
  <2>2. UNCHANGED <<clock, server, vault, disk, ids, historyVars>>
    BY <1>1 DEF Begin, PullRevision, Lost
  <2> QED BY <2>1, <2>2 DEF TypeOK, Step, Do, historyVars
<1>2. ASSUME NEW m \in Machine, PullItems(m) \/ Decide(m) \/ Collect(m) PROVE TypeOK'
  <2>1. \E s \in Step : Do(m, s)
    <3>1. CASE PullItems(m)
      <4> DEFINE page == {r \in server.recs : r.rev > sync[m].since}
                 s == [sync[m] EXCEPT !.pc = "revision", !.page = page]
      <4>1. Do(m, s)
        BY <3>1 DEF PullItems
      <4>2. sync[m] \in Step /\ page \in SUBSET Record
        BY <1>0 DEF Step, TypeOK
      <4> HIDE DEF page
      <4>3. s \in Step
        BY <4>2 DEF Step
      <4> QED BY <4>1, <4>3
    <3>2. CASE Decide(m)
      <4> DEFINE r == First(sync[m].page)
                 item == Of(vault[m].items, r.id)
                 grave == Of(vault[m].graves, r.id)
                 choice == IF item # {} THEN Reconcile(item, FALSE, r, sync[m].synced)
                                        ELSE Reconcile(grave, TRUE, r, sync[m].synced)
                 s == [sync[m] EXCEPT !.pc = "apply", !.page = @ \ {r}, !.doing = {r},
                                      !.choice = choice]
      <4>1. sync[m].page # {} /\ Do(m, s)
        BY <3>2 DEF Decide
      <4>2. sync[m] \in Step /\ sync[m].page \in SUBSET Record
        BY <1>0 DEF Step
      <4>3. r \in Record
        BY <4>1, <4>2, FirstIsOfThePage
      <4>4. choice \in Resolution
        BY ReconcileIs
      <4> HIDE DEF r, choice
      <4>5. s \in Step
        BY <4>2, <4>3, <4>4 DEF Step
      <4> QED BY <4>1, <4>5
    <3>3. CASE Collect(m)
      BY <1>0, <3>3, ToPushIs DEF Collect, Step
    <3> QED BY <1>2, <3>1, <3>2, <3>3
  <2>2. UNCHANGED <<clock, server, vault, disk, ids, historyVars>>
    BY <1>2 DEF PullItems, Decide, Collect
  <2> QED BY <2>1, <2>2 DEF TypeOK, Step, Do, historyVars
<1>3. ASSUME NEW m \in Machine, Apply(m) PROVE TypeOK'
  <2>1. vault' = [vault EXCEPT ![m] = vault'[m]]
    BY <1>0, <1>3 DEF Apply
  <2>2. vault' \in [Machine -> Vault] /\ ids' \in 0 .. MaxId
    BY <1>0, <1>3, <2>1, AppliedType
  <2>3. sync' \in [Machine -> Step]
    <3>1. [sync[m] EXCEPT !.pc = "decide", !.doing = {}, !.choice = "none"] \in Step
      BY <1>0 DEF Step, Resolution
    <3> QED BY <1>0, <1>3, <3>1 DEF Apply, Do
  <2>4. UNCHANGED <<clock, server, disk, historyVars>>
    BY <1>3 DEF Apply
  <2> QED BY <2>2, <2>3, <2>4 DEF TypeOK, Vault, Step, historyVars
<1>4. ASSUME NEW m \in Machine, Push(m) PROVE TypeOK'
  <2>1. server' \in [rev : Nat, recs : SUBSET Record]
    <3> DEFINE more == {[r EXCEPT !.rev = server.rev + 1, !.written = clock] :
                          r \in sync[m].out}
    <3>1. more \in SUBSET Record
      BY PushedIs
    <3>2. server.recs \in SUBSET Record /\ server.rev \in Nat
      BY DEF TypeOK
    <3>3. \/ UNCHANGED server
          \/ server' = [rev |-> server.rev + 1,
                        recs |-> {r \in server.recs : Of(sync[m].out, r.id) = {}} \cup more]
      BY <1>4 DEF Push
    <3> HIDE DEF more
    <3> QED BY <3>1, <3>2, <3>3 DEF TypeOK
  <2>2. sync' \in [Machine -> Step]
    <3>1. [sync[m] EXCEPT !.pc = "end", !.rev = @ + 1, !.out = {}] \in Step
      <4>1. sync[m] \in Step /\ sync[m].rev + 1 \in Nat
        BY <1>0 DEF Step
      <4> QED BY <4>1 DEF Step
    <3> QED BY <1>0, <1>4, <3>1, IdleIs DEF Push, Do
  <2>3. UNCHANGED <<clock, vault, disk, ids, historyVars>>
    BY <1>4 DEF Push
  <2> QED BY <2>1, <2>2, <2>3 DEF TypeOK, Step, historyVars
<1>5. ASSUME NEW m \in Machine, End(m) PROVE TypeOK'
  <2>1. [vault[m] EXCEPT !.rev = sync[m].rev, !.synced = Now(m)] \in Vault
    BY <1>0, NowIs DEF Vault, Step
  <2>2. vault' \in [Machine -> Vault] /\ disk' \in [Machine -> Vault]
    BY <1>0, <1>5, <2>1 DEF End
  <2>3. sync' \in [Machine -> Step]
    BY <1>0, <1>5, IdleIs DEF End, Do
  <2>4. UNCHANGED <<clock, server, ids, historyVars>>
    BY <1>5 DEF End
  <2> QED BY <2>2, <2>3, <2>4 DEF TypeOK, Vault, Step, historyVars
<1>6. ASSUME NEW m \in Machine, Add(m) PROVE TypeOK'
  <2>1. ids' \in 1 .. MaxId /\ bodies' \in 1 .. MaxBody
    BY <1>6 DEF Add, TypeOK
  <2>2. [id |-> ids', body |-> bodies', at |-> Now(m)] \in Item
        /\ [id |-> ids', body |-> bodies'] \in [id : Id, body : Nat]
    BY <2>1, NowIs DEF Item, Id
  <2>3. vault' \in [Machine -> Vault] /\ disk' \in [Machine -> Vault]
    BY <1>0, <1>6, <2>2, UpsertIs DEF Add, Save
  <2>4. current' \in SUBSET [id : Id, body : Nat]
    BY <1>6, <2>2 DEF Add, TypeOK
  <2>5. UNCHANGED <<clock, server, sync, buried>>
    BY <1>6 DEF Add
  <2>6. risked' \in SUBSET Id
    BY <1>6, <2>2 DEF Add, Risk, Item, TypeOK
  <2> QED BY <2>1, <2>3, <2>4, <2>5, <2>6 DEF TypeOK, Vault
<1>7. ASSUME NEW m \in Machine, Edit(m) PROVE TypeOK'
  <2>1. bodies' \in 1 .. MaxBody
    BY <1>7 DEF Edit, TypeOK
  <2>2. PICK i \in vault[m].items :
       /\ Save(m, Upsert(vault[m], [i EXCEPT !.body = bodies', !.at = Now(m)]))
       /\ current' = {w \in current : w.body # i.body}
                       \cup {[id |-> i.id, body |-> bodies']}
       /\ Risk(m, i.id)
    BY <1>7 DEF Edit
  <2>3. i \in Item /\ [i EXCEPT !.body = bodies', !.at = Now(m)] \in Item
    <3>1. i \in Item
      BY <1>0 DEF Vault
    <3>2. bodies' \in Nat /\ Now(m) \in Nat
      BY <2>1, NowIs
    <3> QED BY <3>1, <3>2 DEF Item
  <2>4. vault' \in [Machine -> Vault] /\ disk' \in [Machine -> Vault]
    BY <1>0, <2>2, <2>3, UpsertIs DEF Save
  <2>5. current' \in SUBSET [id : Id, body : Nat]
    BY <2>1, <2>2, <2>3 DEF TypeOK, Item
  <2>6. UNCHANGED <<clock, server, sync, ids, buried>>
    BY <1>7 DEF Edit
  <2>7. risked' \in SUBSET Id
    BY <2>2, <2>3 DEF Risk, Item, TypeOK
  <2> QED BY <2>1, <2>4, <2>5, <2>6, <2>7 DEF TypeOK, Vault
<1>8. ASSUME NEW m \in Machine, Delete(m) PROVE TypeOK'
  <2>1. PICK i \in vault[m].items :
       /\ Save(m, Remove(vault[m], i.id, Now(m)))
       /\ current' = {w \in current : w.body # i.body}
       /\ buried' = buried \cup {i.id}
       /\ Risk(m, i.id)
    BY <1>8 DEF Delete
  <2>2. i.id \in Id
    BY <1>0 DEF Item, Vault
  <2>3. vault' \in [Machine -> Vault] /\ disk' \in [Machine -> Vault]
    BY <1>0, <2>1, <2>2, RemoveIs, NowIs DEF Save
  <2>4. current' \in SUBSET [id : Id, body : Nat] /\ {buried', risked'} \subseteq SUBSET Id
    BY <2>1, <2>2 DEF Risk, TypeOK
  <2>5. UNCHANGED <<clock, server, sync, ids, bodies>>
    BY <1>8 DEF Delete
  <2> QED BY <2>3, <2>4, <2>5 DEF TypeOK, Vault
<1>9. ASSUME NEW m \in Machine, Relock(m) PROVE TypeOK'
  <2>1. vault' \in [Machine -> Vault] /\ sync' \in [Machine -> Step]
    BY <1>0, <1>9, IdleIs DEF Relock, Do
  <2>2. risked' \in SUBSET Id
    BY <1>9 DEF Relock, TypeOK
  <2> QED BY <1>9, <2>1, <2>2 DEF Relock, TypeOK, Vault, Step
<1>10. CASE Purge
  BY <1>10 DEF Purge, TypeOK, historyVars
<1>11. CASE Tick
  BY <1>11 DEF Tick, TypeOK, historyVars
<1>12. CASE UNCHANGED vars
  BY <1>12 DEF vars, TypeOK, historyVars
<1> QED BY <1>1, <1>2, <1>3, <1>4, <1>5, <1>6, <1>7, <1>8, <1>9, <1>10, <1>11, <1>12
        DEF Next, SyncStep

LEMMA InitType == Init => TypeOK
<1> USE BoundAssumption, SkewAssumption
<1>1. [id |-> 1, body |-> 1, at |-> 0] \in Item
  BY DEF Item, Id
<1>2. [Live([id |-> 1, body |-> 1, at |-> 0]) EXCEPT !.rev = 1] \in Record
  <2>1. Live([id |-> 1, body |-> 1, at |-> 0]) \in Record
    BY DEF Live, Record, Id
  <2> QED BY <2>1 DEF Record
<1>3. Fresh \in Vault /\ Shared \in Vault
      /\ \A m \in Machine : [Shared EXCEPT !.synced = @ + Skew[m]] \in Vault
  BY <1>1 DEF Fresh, Shared, Vault
<1> SUFFICES ASSUME Init PROVE TypeOK
  OBVIOUS
<1>4. vault \in [Machine -> Vault] /\ disk \in [Machine -> Vault] /\ sync \in [Machine -> Step]
  BY <1>3, IdleIs DEF Init
<1>5. server \in [rev : Nat, recs : SUBSET Record]
  BY <1>2 DEF Init, Shared
<1> QED BY <1>4, <1>5 DEF Init, TypeOK, Vault, Step, Id

-----------------------------------------------------------------------------
(* What steps leave alone.                                                 *)

\* What a step at one machine is to the others.
LEMMA Elsewhere ==
  ASSUME TypeOK, NEW m \in Machine, At(m), NEW q \in Machine, q # m
  PROVE  vault'[q] = vault[q] /\ disk'[q] = disk[q] /\ sync'[q] = sync[q]
<1> USE DEF TypeOK, Do
<1>1. CASE Begin(m) \/ PullItems(m) \/ PullRevision(m) \/ Decide(m) \/ Collect(m) \/ Lost(m)
  BY <1>1 DEF Begin, PullItems, PullRevision, Decide, Collect, Lost
<1>2. CASE Apply(m)
  BY <1>2 DEF Apply
<1>3. CASE Push(m)
  BY <1>3 DEF Push
<1>4. CASE End(m) \/ Relock(m)
  BY <1>4 DEF End, Relock
<1>5. CASE Add(m) \/ Edit(m) \/ Delete(m)
  BY <1>5 DEF Add, Edit, Delete, Save
<1> QED BY <1>1, <1>2, <1>3, <1>4, <1>5 DEF At, SyncStep

\* What a step makes of a machine's file, and of the time its vault remembers.
LEMMA FileIs ==
  ASSUME TypeOK, NEW m \in Machine, At(m)
  PROVE  /\ disk'[m] \in {disk[m], vault'[m]}
         /\ \/ vault'[m] = disk[m] /\ disk'[m] = disk[m]
            \/ vault'[m].synced \in {vault[m].synced, Now(m)}
         /\ clock' = clock
<1>0. vault \in [Machine -> Vault] /\ disk \in [Machine -> Vault] /\ Now(m) \in Nat
  BY NowIs DEF TypeOK, Vault
<1>1. CASE Begin(m) \/ PullItems(m) \/ PullRevision(m) \/ Decide(m) \/ Collect(m) \/ Lost(m) \/ Push(m)
  BY <1>1 DEF Begin, PullItems, PullRevision, Decide, Collect, Lost, Push
<1>2. CASE Apply(m)
  <2> DEFINE v == vault[m]
             Apart(r) == [v EXCEPT !.items = @ \cup {Copy(i) : i \in Of(v.items, r.id)}]
  <2>1. disk' = disk /\ clock' = clock
    BY <1>2 DEF Apply
  <2>2. \E r, item :
          vault'[m] \in {v, Upsert(v, item), Remove(v, r.id, Now(m)), Upsert(Apart(r), item)}
    <3>1. \E r, item :
            \/ vault' = [vault EXCEPT ![m] = Upsert(v, item)]
            \/ vault' = [vault EXCEPT ![m] = Remove(v, r.id, Now(m))]
            \/ vault' = vault
            \/ vault' = [vault EXCEPT ![m] = Upsert(Apart(r), item)]
      BY <1>2, Zenon DEF Apply
    <3> HIDE DEF v, Apart
    <3> QED BY <1>0, <3>1 DEF v
  <2>3. \A r, item : /\ Upsert(v, item).synced = v.synced
                     /\ Remove(v, r.id, Now(m)).synced = v.synced
                     /\ Upsert(Apart(r), item).synced = v.synced
    <3>1. v \in Vault
      BY <1>0
    <3> HIDE DEF v
    <3> QED BY <3>1 DEF Upsert, Remove, Vault
  <2> QED BY <2>1, <2>2, <2>3
<1>3. CASE End(m)
  BY <1>0, <1>3 DEF End, Vault
<1>4. CASE Relock(m)
  BY <1>0, <1>4 DEF Relock
<1>5. CASE Add(m) \/ Edit(m) \/ Delete(m)
  <2>1. /\ clock' = clock
        /\ \/ \E item : Save(m, Upsert(vault[m], item))
           \/ \E id : Save(m, Remove(vault[m], id, Now(m)))
    BY <1>5 DEF Add, Edit, Delete
  <2>2. disk'[m] = vault'[m]
    BY <1>0, <2>1 DEF Save
  <2>3. /\ \A item : Upsert(vault[m], item).synced = vault[m].synced
        /\ \A id : Remove(vault[m], id, Now(m)).synced = vault[m].synced
    BY <1>0 DEF Upsert, Remove, Vault
  <2>4. vault'[m].synced = vault[m].synced
    BY <1>0, <2>1, <2>3 DEF Save
  <2> QED BY <2>1, <2>2, <2>4
<1> QED BY <1>1, <1>2, <1>3, <1>4, <1>5 DEF At, SyncStep

LEMMA FileMoves ==
  ASSUME Versioned, [Next]_vars, NEW m \in Machine
  PROVE  disk'[m] \in {disk[m], vault'[m]}
<1>1. CASE At(m)
  BY <1>1, FileIs DEF Versioned
<1>2. CASE \E q \in Machine : At(q) /\ q # m
  BY <1>2, Elsewhere DEF Versioned
<1>3. CASE Purge \/ Tick \/ UNCHANGED vars
  BY <1>3 DEF Purge, Tick, vars
<1> QED BY <1>1, <1>2, <1>3 DEF Next, At

LEMMA SyncIs == ASSUME TypeOK PROVE sync \in [Machine -> Step]
BY DEF TypeOK, Step

\* Where the two reads of a pull leave the sync.
LEMMA PullStep ==
  ASSUME TypeOK, NEW m \in Machine
  PROVE  /\ PullItems(m) => sync'[m].pc = "revision"
         /\ PullRevision(m) => sync'[m].pc = "decide"
<1>1. sync \in [Machine -> Step]
  BY SyncIs
<1>2. ASSUME PullItems(m) PROVE sync'[m].pc = "revision"
  <2>1. sync'[m] = [sync[m] EXCEPT !.pc = "revision",
                      !.page = {r \in server.recs : r.rev > sync[m].since}]
    BY <1>1, <1>2 DEF PullItems, Do
  <2> QED BY <1>1, <2>1 DEF Step
<1>3. ASSUME PullRevision(m) PROVE sync'[m].pc = "decide"
  <2>1. sync'[m] = [sync[m] EXCEPT !.pc = "decide", !.rev = server.rev]
    BY <1>1, <1>3 DEF PullRevision, Do
  <2> QED BY <1>1, <2>1 DEF Step
<1> QED BY <1>2, <1>3

\* The records a push leaves and brings.
Brought(m) == {[r EXCEPT !.rev = server.rev + 1, !.written = clock] : r \in sync[m].out}

LEMMA PushIs ==
  ASSUME TypeOK, NEW m \in Machine, Push(m)
  PROVE  \/ UNCHANGED server /\ sync' = [sync EXCEPT ![m] = Idle]
         \/ /\ server.rev = sync[m].rev
            /\ server'.rev = server.rev + 1
            /\ server'.recs = {r \in server.recs : Of(sync[m].out, r.id) = {}} \cup Brought(m)
            /\ \/ sync' = [sync EXCEPT ![m] =
                             [sync[m] EXCEPT !.pc = "end", !.rev = @ + 1, !.out = {}]]
               \/ sync' = [sync EXCEPT ![m] = Idle]
<1>1. CASE server.rev = sync[m].rev
  <2>1. /\ server' = [rev |-> server.rev + 1,
                      recs |-> {r \in server.recs : Of(sync[m].out, r.id) = {}} \cup Brought(m)]
        /\ \/ Do(m, [sync[m] EXCEPT !.pc = "end", !.rev = @ + 1, !.out = {}])
           \/ Do(m, Idle)
    BY <1>1 DEF Push, Brought
  <2> QED BY <1>1, <2>1 DEF Do
<1>2. CASE server.rev # sync[m].rev
  BY <1>2 DEF Push, Do
<1> QED BY <1>1, <1>2

LEMMA BroughtIs ==
  ASSUME TypeOK, NEW m \in Machine, NEW r \in Brought(m)
  PROVE  \E o \in sync[m].out :
           /\ o \in Record /\ r \in Record
           /\ r.id = o.id /\ r.dead = o.dead /\ r.body = o.body /\ r.rev = server.rev + 1
<1>1. PICK o \in sync[m].out : r = [o EXCEPT !.rev = server.rev + 1, !.written = clock]
  BY DEF Brought
<1>2. o \in Record /\ server.rev + 1 \in Nat /\ clock \in Nat
  BY DEF TypeOK
<1>3. /\ r \in Record
      /\ r.id = o.id /\ r.dead = o.dead /\ r.body = o.body /\ r.rev = server.rev + 1
  BY <1>1, <1>2 DEF Record
<1> QED BY <1>2, <1>3

\* What no step takes back.
Growing ==
  /\ server.rev <= server'.rev
  /\ \A r \in server'.recs : r \in server.recs \/ r.rev > server.rev
  /\ (\E m \in Machine : sync[m].pc = "revision") => server'.recs \subseteq server.recs
  /\ \A w \in current' : w \in current \/ w.body > bodies
  /\ buried \subseteq buried' /\ risked \subseteq risked'
  /\ ids <= ids' /\ bodies <= bodies'

LEMMA StepGrows ==
  ASSUME Perils = {}, TypeOK, [Next]_vars
  PROVE  Growing
<1>0. server.rev \in Nat /\ ids \in Nat /\ bodies \in Nat
  BY BoundAssumption DEF TypeOK
<1>1. CASE Purge
  BY <1>0, <1>1 DEF Purge, Growing, historyVars, TypeOK
<1>2. CASE Tick \/ UNCHANGED vars
  BY <1>0, <1>2 DEF Tick, vars, Growing, historyVars
<1>3. ASSUME NEW m \in Machine, Push(m) PROVE Growing
  <2>1. UNCHANGED <<ids, bodies, current, buried, risked>>
    BY <1>3 DEF Push, historyVars
  <2>2. \A q \in Machine : sync[q].pc # "revision"
    BY <1>3 DEF Push
  <2>3. \A r \in Brought(m) : r.rev > server.rev
    <3> TAKE r \in Brought(m)
    <3>1. r.rev = server.rev + 1
      BY <1>3, BroughtIs
    <3> QED BY <1>0, <3>1
  <2>4. /\ server.rev <= server'.rev
        /\ \A r \in server'.recs : r \in server.recs \/ r.rev > server.rev
    <3>1. CASE UNCHANGED server
      BY <1>0, <3>1
    <3>2. CASE /\ server'.rev = server.rev + 1
               /\ server'.recs = {r \in server.recs : Of(sync[m].out, r.id) = {}} \cup Brought(m)
      BY <1>0, <2>3, <3>2
    <3> QED BY <1>3, <3>1, <3>2, PushIs
  <2> QED BY <1>0, <2>1, <2>2, <2>4 DEF Growing
<1>4. ASSUME NEW m \in Machine,
             Begin(m) \/ PullItems(m) \/ PullRevision(m) \/ Decide(m) \/ Collect(m) \/ Lost(m)
               \/ End(m) \/ Relock(m)
      PROVE  Growing
  <2>1. UNCHANGED <<server, ids, bodies, current, buried>> /\ risked \subseteq risked'
    BY <1>4 DEF Begin, PullItems, PullRevision, Decide, Collect, Lost, End, Relock, historyVars
  <2> QED BY <1>0, <2>1 DEF Growing
<1>5. ASSUME NEW m \in Machine, Apply(m) PROVE Growing
  BY <1>0, <1>5 DEF Apply, Growing, historyVars
<1>6. ASSUME NEW m \in Machine, Add(m) \/ Edit(m) \/ Delete(m) PROVE Growing
  <2>1. UNCHANGED server /\ buried \subseteq buried' /\ risked \subseteq risked'
    BY <1>6 DEF Add, Edit, Delete, Risk
  <2>2. ids' \in {ids, ids + 1} /\ bodies' \in {bodies, bodies + 1}
    BY <1>6 DEF Add, Edit, Delete
  <2>3. ASSUME NEW w \in current' PROVE w \in current \/ w.body > bodies
    <3>1. CASE Add(m)
      BY <1>0, <2>3, <3>1 DEF Add
    <3>2. CASE Edit(m)
      <4>1. PICK i \in vault[m].items :
              current' = {x \in current : x.body # i.body} \cup {[id |-> i.id, body |-> bodies']}
        BY <3>2 DEF Edit
      <4>2. bodies' = bodies + 1
        BY <3>2 DEF Edit
      <4> QED BY <1>0, <2>3, <4>1, <4>2
    <3>3. CASE Delete(m)
      BY <2>3, <3>3 DEF Delete
    <3> QED BY <1>6, <3>1, <3>2, <3>3
  <2> QED BY <1>0, <2>1, <2>2, <2>3 DEF Growing
<1> QED BY <1>1, <1>2, <1>3, <1>4, <1>5, <1>6 DEF Next, SyncStep

-----------------------------------------------------------------------------
\* Deciding, and acting on what was decided.

LEMMA DecisionIs ==
  ASSUME NEW v \in Vault, OnePer(v.items), NEW r, NEW synced,
         NEW choice, choice = Decision(v, r, synced)
  PROVE  /\ choice \in {"ApplyRemote", "ApplyDelete"} =>
              \A i \in v.items : i.id = r.id => ~(i.at > synced)
         /\ choice \in {"ApplyRemote", "RemoteWins", "LocalWins"} => ~r.dead
         /\ choice = "ApplyDelete" => r.dead
         /\ choice = "KeepLocal" =>
              \/ r.dead /\ \E i \in v.items : i.id = r.id /\ i.at > synced
              \/ /\ Of(v.items, r.id) = {}
                 /\ \E g \in v.graves : g.id = r.id /\ (r.dead \/ g.at > synced)
         /\ choice \in {"RemoteWins", "LocalWins"} =>
              \E i \in v.items : i.id = r.id /\ i.at > synced
<1>1. CASE Of(v.items, r.id) # {}
  <2>1. choice = Reconcile(Of(v.items, r.id), FALSE, r, synced)
    BY <1>1 DEF Decision
  <2>2. \A i, j \in v.items : i.id = r.id /\ j.id = r.id => i = j
    BY DEF OnePer
  <2> QED BY <1>1, <2>1, <2>2 DEF Reconcile, Of
<1>2. CASE Of(v.items, r.id) = {}
  <2>1. choice = Reconcile(Of(v.graves, r.id), TRUE, r, synced)
    BY <1>2 DEF Decision
  <2> QED BY <1>2, <2>1 DEF Reconcile, Of
<1> QED BY <1>1, <1>2

\* What a vault is like that a record was acted on in.  n is the id of the copy,
\* if one is made.
Applied(v, w, r, n) ==
  /\ w \in Vault /\ w.rev = v.rev /\ w.synced = v.synced
  /\ OnePer(w.items) /\ OnePer(w.graves)
  /\ \A i \in w.items, g \in w.graves : i.id # g.id
  \* Nothing but what has the record's id is touched ...
  /\ \A i \in v.items : i.id # r.id => i \in w.items
  /\ \A g \in v.graves : g.id # r.id => g \in w.graves
  /\ \A i \in w.items : i.id # r.id => i \in v.items \/ i.id = n
  /\ \A g \in w.graves : g.id # r.id => g \in v.graves
  /\ \A i \in w.items : i.id = r.id => i \in v.items \/ (~r.dead /\ i.body = r.body)
  /\ \A g \in w.graves : g.id = r.id => g \in v.graves \/ r.dead
  /\ \A i \in w.items : i.id = n =>
       (~r.dead /\ i.body = r.body) \/ \E j \in v.items : j.id = r.id /\ i.body = j.body
  \* ... and the record is taken, or copied, or its item was deleted here.
  /\ ~r.dead => \/ Has(w, r)
                \/ \E i \in w.items : i.id = n /\ i.body = r.body
                \/ w = v /\ r.id \in buried

\* And if what was decided is what would be decided now: what changed here stays
\* here, and nothing else disagrees.
Settles(v, w, r, synced, n) ==
  /\ Agrees(w, r, synced)
  /\ \A i \in v.items : i.id = r.id /\ i.at > synced =>
       i \in w.items \/ \E c \in w.items : c.id = n /\ c.body = i.body

Unchanged(v, r, synced) == \A i \in v.items : i.id = r.id => ~(i.at > synced)

LEMMA TakenIs ==
  ASSUME NEW v \in Vault, NEW r \in Record, NEW synced \in Nat, NEW n \in Nat,
         OnePer(v.items), OnePer(v.graves), \A i \in v.items, g \in v.graves : i.id # g.id,
         r.id # n, \A i \in v.items : i.id # n, \A g \in v.graves : g.id # n,
         ~r.dead, NEW w, w = Upsert(v, [id |-> r.id, body |-> r.body, at |-> r.at])
  PROVE  Applied(v, w, r, n) /\ (Unchanged(v, r, synced) => Settles(v, w, r, synced, n))
<1> DEFINE item == [id |-> r.id, body |-> r.body, at |-> r.at]
<1>1. item \in Item /\ item.id = r.id /\ item.body = r.body
  BY DEF Item, Record
<1>2. /\ w \in Vault /\ w.items = But(v.items, r.id) \cup {item}
      /\ w.graves = But(v.graves, r.id) /\ w.rev = v.rev /\ w.synced = v.synced
  BY <1>1, UpsertIs
<1> HIDE DEF item
<1>3. Has(w, r)
  BY <1>1, <1>2 DEF Has
<1>4. Applied(v, w, r, n)
  BY <1>1, <1>2, <1>3 DEF Applied, OnePer, But
<1> QED BY <1>3, <1>4 DEF Agrees, Settles, Unchanged

LEMMA DeletedIs ==
  ASSUME NEW v \in Vault, NEW r \in Record, NEW synced \in Nat, NEW n \in Nat, NEW now \in Nat,
         OnePer(v.items), OnePer(v.graves), \A i \in v.items, g \in v.graves : i.id # g.id,
         r.id # n, \A i \in v.items : i.id # n, \A g \in v.graves : g.id # n,
         r.dead, NEW w, w = Remove(v, r.id, now)
  PROVE  Applied(v, w, r, n) /\ (Unchanged(v, r, synced) => Settles(v, w, r, synced, n))
<1>1. r.id \in Id
  BY DEF Record
<1>2. /\ w \in Vault /\ w.items = But(v.items, r.id)
      /\ w.rev = v.rev /\ w.synced = v.synced
      /\ \/ w.graves = v.graves
         \/ w.graves = But(v.graves, r.id) \cup {[id |-> r.id, at |-> now]}
  <2>1. CASE Of(v.items, r.id) = {}
    BY <1>1, <2>1, RemoveIs
  <2>2. CASE Of(v.items, r.id) # {}
    <3>1. Remove(v, r.id, now) \in Vault
      BY <1>1, RemoveIs
    <3> QED BY <1>1, <2>2, <3>1, Removed
  <2> QED BY <2>1, <2>2
<1>3. Has(w, r)
  BY <1>2 DEF Has, Of, But
<1>4. Applied(v, w, r, n)
  BY <1>1, <1>2, <1>3 DEF Applied, OnePer, But
<1> QED BY <1>3, <1>4 DEF Agrees, Settles, Unchanged

LEMMA KeptIs ==
  ASSUME NEW v \in Vault, NEW r \in Record, NEW synced \in Nat, NEW n \in Nat,
         OnePer(v.items), OnePer(v.graves), \A i \in v.items, g \in v.graves : i.id # g.id,
         r.id # n, \A i \in v.items : i.id # n, \A g \in v.graves : g.id # n,
         r.dead \/ r.id \in buried
  PROVE  /\ Applied(v, v, r, n)
         /\ (\/ r.dead /\ \E i \in v.items : i.id = r.id /\ i.at > synced
             \/ /\ Of(v.items, r.id) = {}
                /\ \E g \in v.graves : g.id = r.id /\ (r.dead \/ g.at > synced))
              => Settles(v, v, r, synced, n)
<1>1. Applied(v, v, r, n)
  BY DEF Applied
<1> QED BY <1>1 DEF Settles, Agrees, Has

LEMMA RemoteWinsIs ==
  ASSUME NEW v \in Vault, NEW r \in Record, NEW synced \in Nat, NEW n \in Id,
         OnePer(v.items), OnePer(v.graves), \A i \in v.items, g \in v.graves : i.id # g.id,
         r.id # n, \A i \in v.items : i.id # n, \A g \in v.graves : g.id # n, ~r.dead, NEW w,
         w = Upsert([v EXCEPT !.items =
                       @ \cup {[i EXCEPT !.id = n] : i \in Of(v.items, r.id)}],
                    [id |-> r.id, body |-> r.body, at |-> r.at])
  PROVE  Applied(v, w, r, n) /\ Settles(v, w, r, synced, n)
<1> DEFINE item == [id |-> r.id, body |-> r.body, at |-> r.at]
           copies == {[i EXCEPT !.id = n] : i \in Of(v.items, r.id)}
           u == [v EXCEPT !.items = @ \cup copies]
<1>1. item \in Item /\ item.id = r.id /\ item.body = r.body
  BY DEF Item, Record
<1>2. ASSUME NEW i \in v.items
      PROVE  /\ [i EXCEPT !.id = n] \in Item
             /\ [i EXCEPT !.id = n].id = n /\ [i EXCEPT !.id = n].body = i.body
  <2>1. i \in Item
    BY DEF Vault
  <2> QED BY <2>1 DEF Item
<1>3. /\ copies \in SUBSET Item
      /\ \A c \in copies : c.id = n /\ \E j \in v.items : j.id = r.id /\ c.body = j.body
      /\ \A i \in v.items : i.id = r.id => \E c \in copies : c.id = n /\ c.body = i.body
      /\ OnePer(copies)
  <2>1. \A c \in copies : \E j \in v.items : j.id = r.id /\ c = [j EXCEPT !.id = n]
    BY DEF Of
  <2>2. \A i \in v.items : i.id = r.id => [i EXCEPT !.id = n] \in copies
    BY DEF Of
  <2> HIDE DEF copies
  <2>3. \A i, j \in v.items : i.id = r.id /\ j.id = r.id => i = j
    BY DEF OnePer
  <2>4. OnePer(copies)
    BY <2>1, <2>3 DEF OnePer
  <2>5. copies \in SUBSET Item
    BY <1>2, <2>1
  <2>6. ASSUME NEW c \in copies
        PROVE  c.id = n /\ \E j \in v.items : j.id = r.id /\ c.body = j.body
    <3>1. PICK j \in v.items : j.id = r.id /\ c = [j EXCEPT !.id = n]
      BY <2>1
    <3>2. c.id = n /\ c.body = j.body
      BY <1>2, <3>1
    <3> QED BY <3>1, <3>2
  <2>7. \A i \in v.items : i.id = r.id => \E c \in copies : c.id = n /\ c.body = i.body
    BY <1>2, <2>2
  <2> QED BY <2>4, <2>5, <2>6, <2>7
<1> HIDE DEF copies
<1>4. /\ u \in Vault /\ u.items = v.items \cup copies /\ u.graves = v.graves
      /\ u.rev = v.rev /\ u.synced = v.synced
  BY <1>3 DEF Vault
<1> HIDE DEF u
<1>5. /\ w \in Vault /\ w.items = But(u.items, r.id) \cup {item}
      /\ w.graves = But(u.graves, r.id) /\ w.rev = v.rev /\ w.synced = v.synced
  <2>1. w = Upsert(u, item)
    BY DEF u, copies
  <2>2. item \in Item /\ item.id = r.id
    BY <1>1
  <2> HIDE DEF item
  <2>3. /\ Upsert(u, item) \in Vault
        /\ Upsert(u, item).items = But(u.items, item.id) \cup {item}
        /\ Upsert(u, item).graves = But(u.graves, item.id)
        /\ Upsert(u, item).rev = u.rev /\ Upsert(u, item).synced = u.synced
    BY <1>4, <2>2, UpsertIs
  <2> QED BY <1>4, <2>1, <2>2, <2>3
<1> HIDE DEF item
<1>6. Has(w, r)
  BY <1>1, <1>5 DEF Has
<1>7. /\ OnePer(w.items) /\ OnePer(w.graves)
      /\ \A i \in w.items, g \in w.graves : i.id # g.id
  <2>1. \A i \in w.items : \/ i = item
                           \/ i.id # r.id /\ i \in v.items
                           \/ i.id = n /\ i \in copies
    BY <1>3, <1>4, <1>5 DEF But
  <2>2. \A g \in w.graves : g \in v.graves /\ g.id # r.id
    BY <1>4, <1>5 DEF But
  <2>3. OnePer(w.items)
    BY <1>1, <1>3, <2>1 DEF OnePer
  <2>4. OnePer(w.graves)
    BY <2>2 DEF OnePer
  <2>5. ASSUME NEW i \in w.items, NEW g \in w.graves PROVE i.id # g.id
    BY <1>1, <2>1, <2>2
  <2> QED BY <2>3, <2>4, <2>5
<1>8. Applied(v, w, r, n)
  BY <1>1, <1>3, <1>4, <1>5, <1>6, <1>7 DEF Applied, But
<1>9. Settles(v, w, r, synced, n)
  BY <1>3, <1>4, <1>5, <1>6 DEF Settles, Agrees, But
<1> QED BY <1>8, <1>9

LEMMA LocalWinsIs ==
  ASSUME NEW v \in Vault, NEW r \in Record, NEW synced \in Nat, NEW n \in Id,
         OnePer(v.items), OnePer(v.graves), \A i \in v.items, g \in v.graves : i.id # g.id,
         r.id # n, \A i \in v.items : i.id # n, \A g \in v.graves : g.id # n, ~r.dead,
         NEW item \in Item, item.id = n, item.body = r.body, NEW w, w = Upsert(v, item)
  PROVE  Applied(v, w, r, n) /\ (~Unchanged(v, r, synced) => Settles(v, w, r, synced, n))
<1>1. /\ w \in Vault /\ w.items = But(v.items, n) \cup {item}
      /\ w.graves = But(v.graves, n) /\ w.rev = v.rev /\ w.synced = v.synced
  BY UpsertIs
<1>2. w.items = v.items \cup {item} /\ w.graves = v.graves
  BY <1>1 DEF But
<1>3. Applied(v, w, r, n)
  BY <1>1, <1>2 DEF Applied, OnePer
<1> QED BY <1>2, <1>3 DEF Settles, Agrees, Unchanged

-----------------------------------------------------------------------------
(* Each machine's part of the invariant, step by step.                     *)

\* Where the versions are.
LEMMA VersionsAre ==
  /\ \A r \in server.recs : Version(r.id, r.body) \in Versions
  /\ \A m \in Machine :
       /\ \A i \in vault[m].items : Version(i.id, i.body) \in Versions
       /\ \A g \in vault[m].graves : Version(g.id, 0) \in Versions
       /\ \A i \in disk[m].items : Version(i.id, i.body) \in Versions
       /\ \A g \in disk[m].graves : Version(g.id, 0) \in Versions
       /\ \A r \in sync[m].page \cup sync[m].doing \cup sync[m].out :
            Version(r.id, r.body) \in Versions
BY DEF Versions, VersionsAt, VersionsOf

LEMMA SoundIs ==
  ASSUME Versioned
  PROVE  /\ \A r \in server.recs :
              r.id <= ids /\ r.body <= bodies /\ (r.dead => r.id \in buried)
         /\ \A m \in Machine :
              /\ \A i \in vault[m].items : i.id <= ids /\ i.body <= bodies
              /\ \A g \in vault[m].graves : g.id <= ids /\ g.id \in buried
              /\ \A r \in sync[m].page \cup sync[m].doing \cup sync[m].out :
                   r.id <= ids /\ r.body <= bodies /\ (r.dead => r.id \in buried)
BY VersionsAre DEF Versioned, SoundVersions, DeadIsEmpty, Version

\* What stands after a step and was there before it stood before.
LEMMA StoodBefore ==
  ASSUME Versioned, Growing, NEW r \in Record, r.body <= bodies, Standing(r)'
  PROVE  Standing(r)
<1>1. r.body \in Nat /\ bodies \in Nat
  BY BoundAssumption DEF Record, Versioned, TypeOK
<1>2. [id |-> r.id, body |-> r.body] \in current
  BY <1>1 DEF Growing, Standing
<1> QED BY <1>2 DEF Growing, Standing

LEMMA Bystander ==
  ASSUME Versioned, TypeOK', Growing, NEW m \in Machine, Local(m),
         vault'[m] = vault[m], disk'[m] = disk[m], sync'[m] = sync[m]
  PROVE  Local(m)'
<1> DEFINE v == vault[m]
           s == sync[m]
<1>1. /\ v.rev \in Nat /\ disk[m].rev \in Nat /\ s.rev \in Nat /\ s.since \in Nat
      /\ server.rev \in Nat /\ server'.rev \in Nat
      /\ \A r \in server.recs : r.rev \in Nat
      /\ \A r \in server'.recs : r.rev \in Nat
      /\ \A r \in server.recs \cup s.out : r \in Record
  BY DEF Versioned, TypeOK, Record
<1>2. /\ server.rev <= server'.rev
      /\ \A r \in server'.recs : r \in server.recs \/ r.rev > server.rev
      /\ s.pc = "revision" => server'.recs \subseteq server.recs
      /\ buried \subseteq buried'
  BY DEF Growing
<1>3. SyncShape(m)
  BY DEF Local
<1>4. SyncShape(m)'
  BY <1>1, <1>2, <1>3 DEF SyncShape, Pulling, Working
<1>5. /\ v.rev <= server.rev /\ disk[m].rev <= server.rev
      /\ s.pc \in Working \cup {"end"} => s.rev <= server.rev
  BY <1>3 DEF SyncShape
<1>6. Pages(m)'
  <2>1. Pages(m)
    BY DEF Local
  <2>2. s.pc \in {"decide", "apply"} => s.rev <= server.rev
    BY <1>5 DEF Working
  <2> QED BY <1>1, <1>2, <2>1, <2>2 DEF Pages, Pulling
<1>7. Resolved(m)'
  BY <1>2 DEF Local, Resolved
<1>8. Seen(m)'
  <2>1. Seen(m)
    BY DEF Local
  <2>2. \A r \in server.recs \cup s.out : Standing(r)' => Standing(r)
    <3>1. \A r \in server.recs \cup s.out : r.body <= bodies
      BY SoundIs
    <3> QED BY <1>1, <3>1, StoodBefore
  <2>3. \A r \in server'.recs, d \in {v, disk[m]} : r.rev <= d.rev => r \in server.recs
    BY <1>1, <1>2, <1>5
  <2>4. \A r \in server'.recs : s.pc \in Working \cup {"end"} /\ r.rev <= s.rev => r \in server.recs
    BY <1>1, <1>2, <1>5
  <2> QED BY <2>1, <2>2, <2>3, <2>4 DEF Seen, Pulling
<1> QED BY <1>4, <1>6, <1>7, <1>8 DEF Local

-----------------------------------------------------------------------------
\* The steps at a machine that leave the server and the vault alone.
LEMMA ReadingSteps ==
  ASSUME Versioned, TypeOK', NEW m \in Machine, Local(m),
         vault'[m] = vault[m], disk'[m] = disk[m],
         UNCHANGED <<server, current, buried>>, sync'[m] = Idle
  PROVE  Local(m)'
<1>1. SyncShape(m)'
  BY DEF Local, SyncShape, Idle, Pulling, OnePer, Working
<1>2. Pages(m)' /\ Resolved(m)'
  BY DEF Pages, Resolved, Idle
<1>3. Seen(m)'
  BY DEF Local, Seen, Standing, Idle, Working
<1> QED BY <1>1, <1>2, <1>3 DEF Local

LEMMA BeginStep ==
  ASSUME Versioned, NEW m \in Machine, Local(m), Begin(m)
  PROVE  Local(m)'
<1>1. /\ UNCHANGED <<server, vault, disk, current, buried>>
      /\ sync'[m] = [Idle EXCEPT !.pc = "items",
                        !.since = vault[m].rev, !.synced = vault[m].synced]
  BY DEF Begin, Do, historyVars, Versioned, TypeOK
<1>2. SyncShape(m)'
  BY <1>1 DEF Local, SyncShape, Idle, Pulling, OnePer, Working
<1>3. Pages(m)' /\ Resolved(m)'
  BY <1>1 DEF Pages, Resolved, Idle
<1>4. Seen(m)'
  BY <1>1 DEF Local, Seen, Standing, Idle, Working
<1> QED BY <1>2, <1>3, <1>4 DEF Local

LEMMA PullItemsStep ==
  ASSUME Versioned, NEW m \in Machine, Local(m), PullItems(m)
  PROVE  Local(m)'
<1> DEFINE s == sync[m]
           new == {r \in server.recs : r.rev > s.since}
<1>1. /\ UNCHANGED <<server, vault, disk, current, buried>>
      /\ s.pc = "items"
      /\ sync'[m] = [s EXCEPT !.pc = "revision", !.page = new]
  BY DEF PullItems, Do, historyVars, Versioned, TypeOK
<1>2. /\ sync'[m].pc = "revision" /\ sync'[m].page = new /\ sync'[m].doing = s.doing
      /\ sync'[m].out = s.out /\ sync'[m].since = s.since /\ sync'[m].synced = s.synced
  BY <1>1 DEF Versioned, TypeOK
<1>3. SyncShape(m) /\ OnePer(server.recs)
  BY DEF Local, Versioned, OneRecordEach
<1>4. s.doing = {} /\ s.out = {}
  BY <1>1, <1>3 DEF SyncShape
<1>5. OnePer(Pulling(m))' /\ \A p \in Pulling(m)' : p \in server.recs /\ p.rev > s.since
  BY <1>2, <1>3, <1>4 DEF Pulling, OnePer
<1> HIDE DEF new
<1>6. SyncShape(m)'
  BY <1>1, <1>2, <1>3, <1>4, <1>5 DEF SyncShape, Working
<1>7. Pages(m)' /\ Resolved(m)'
  BY <1>1, <1>2, <1>3 DEF Pages, Resolved, OnePer, new
<1>8. Seen(m)'
  BY <1>1, <1>2 DEF Local, Seen, Standing, Working
<1> QED BY <1>6, <1>7, <1>8 DEF Local

\* What a sync's page comes with is the revision of all that it does not hold.
LEMMA PullRevisionStep ==
  ASSUME Versioned, NEW m \in Machine, Local(m), PullRevision(m)
  PROVE  /\ Local(m)'
         /\ \A r \in server.recs : r.rev <= vault[m].rev \/ r \in Pulling(m)'
<1> DEFINE s == sync[m]
           v == vault[m]
<1>1. /\ UNCHANGED <<server, vault, disk, current, buried>>
      /\ s.pc = "revision"
      /\ sync'[m] = [s EXCEPT !.pc = "decide", !.rev = server.rev]
  BY DEF PullRevision, Do, historyVars, Versioned, TypeOK
<1>2. /\ sync'[m].pc = "decide" /\ sync'[m].page = s.page /\ sync'[m].doing = s.doing
      /\ sync'[m].out = s.out /\ sync'[m].since = s.since /\ sync'[m].synced = s.synced
      /\ sync'[m].rev = server.rev
  BY <1>1 DEF Versioned, TypeOK
<1>3. SyncShape(m) /\ Pages(m) /\ Seen(m)
  BY DEF Local
<1>4. s.since = v.rev /\ s.synced = v.synced /\ s.doing = {} /\ s.out = {} /\ v.rev <= server.rev
  BY <1>1, <1>3 DEF SyncShape
<1>5. server.rev \in Nat /\ v.rev \in Nat /\ \A r \in server.recs : r.rev \in Nat
  BY DEF Versioned, TypeOK, Record
<1>6. SyncShape(m)'
  <2>1. Pulling(m)' = Pulling(m)
    BY <1>2 DEF Pulling
  <2>2. OnePer(s.out) /\ OnePer(sync'[m].out)
    BY <1>2, <1>3 DEF SyncShape
  <2>3. v.rev = vault'[m].rev /\ disk'[m].rev = disk[m].rev /\ server'.rev = server.rev
    BY <1>1
  <2> QED BY <1>1, <1>2, <1>3, <1>4, <1>5, <2>1, <2>2, <2>3 DEF SyncShape, Working
<1>7. Pages(m)' /\ Resolved(m)'
  BY <1>1, <1>2, <1>3, <1>4 DEF Pages, Resolved, Pulling
<1>8. \A r \in server.recs : r.rev <= v.rev \/ r \in Pulling(m)'
  BY <1>1, <1>2, <1>3, <1>4, <1>5 DEF Pages, Pulling
<1>9. Seen(m)'
  BY <1>1, <1>2, <1>3, <1>8 DEF Seen, Standing, Pulling
<1> QED BY <1>6, <1>7, <1>8, <1>9 DEF Local

LEMMA DecidedOn ==
  ASSUME Versioned, NEW m \in Machine, SyncShape(m), Decide(m)
  PROVE  \E r \in sync[m].page :
           /\ UNCHANGED <<server, vault, disk, current, buried>>
           /\ sync[m].pc = "decide"
           /\ sync'[m].pc = "apply" /\ sync'[m].page = sync[m].page \ {r} /\ sync'[m].doing = {r}
           /\ sync'[m].out = sync[m].out /\ sync'[m].since = sync[m].since
           /\ sync'[m].synced = sync[m].synced /\ sync'[m].rev = sync[m].rev
           /\ sync'[m].choice = Decision(vault[m], r, sync[m].synced)
           /\ sync[m].doing = {} /\ Pulling(m)' = Pulling(m)
<1> DEFINE s == sync[m]
           v == vault[m]
<1>1. PICK r \in s.page :
        /\ UNCHANGED <<server, vault, disk, current, buried>>
        /\ s.pc = "decide"
        /\ sync'[m] = [s EXCEPT !.pc = "apply", !.page = @ \ {r}, !.doing = {r},
                                !.choice = Decision(v, r, s.synced)]
  <2>1. s.page \in SUBSET Record /\ s.page # {}
    BY DEF Decide, Versioned, TypeOK
  <2>2. First(s.page) \in s.page
    BY <2>1, FirstIsOfThePage
  <2> QED BY <2>2 DEF Decide, Decision, Do, historyVars, Versioned, TypeOK
<1>2. /\ sync'[m].pc = "apply" /\ sync'[m].page = s.page \ {r} /\ sync'[m].doing = {r}
      /\ sync'[m].out = s.out /\ sync'[m].since = s.since /\ sync'[m].synced = s.synced
      /\ sync'[m].rev = s.rev /\ sync'[m].choice = Decision(v, r, s.synced)
  BY <1>1 DEF Versioned, TypeOK
<1>3. s.doing = {} /\ Pulling(m)' = Pulling(m)
  BY <1>1, <1>2 DEF SyncShape, Pulling
<1> QED BY <1>1, <1>2, <1>3

LEMMA DecideStep ==
  ASSUME Versioned, NEW m \in Machine, Local(m), Decide(m)
  PROVE  Local(m)'
<1> DEFINE s == sync[m]
           v == vault[m]
<1>1. SyncShape(m) /\ Pages(m) /\ Seen(m)
  BY DEF Local
<1>2. PICK r \in s.page :
           /\ UNCHANGED <<server, vault, disk, current, buried>>
           /\ s.pc = "decide"
           /\ sync'[m].pc = "apply" /\ sync'[m].page = s.page \ {r} /\ sync'[m].doing = {r}
           /\ sync'[m].out = s.out /\ sync'[m].since = s.since
           /\ sync'[m].synced = s.synced /\ sync'[m].rev = s.rev
           /\ sync'[m].choice = Decision(v, r, s.synced)
           /\ s.doing = {} /\ Pulling(m)' = Pulling(m)
  BY <1>1, DecidedOn
<1>3. SyncShape(m)'
  BY <1>1, <1>2 DEF SyncShape, Working
<1>4. Pages(m)'
  BY <1>1, <1>2 DEF Pages
<1>5. Resolved(m)'
  <2> DEFINE choice == sync'[m].choice
  <2>1. v \in Vault /\ OnePer(v.items)
    BY <1>1 DEF Versioned, TypeOK, Vault, SyncShape
  <2>2. choice = Decision(v, r, s.synced)
    BY <1>2
  <2>3. /\ choice \in {"ApplyRemote", "RemoteWins", "LocalWins"} => ~r.dead
        /\ choice = "ApplyDelete" => r.dead
        /\ choice = "KeepLocal" => r.dead \/ \E g \in v.graves : g.id = r.id
    <3> HIDE DEF choice, v, s
    <3> QED BY <2>1, <2>2, DecisionIs
  <2>4. \A g \in v.graves : g.id \in buried
    BY SoundIs
  <2> QED BY <1>2, <2>3, <2>4 DEF Resolved
<1>6. Seen(m)'
  BY <1>1, <1>2 DEF Seen, Standing, Working
<1> QED BY <1>3, <1>4, <1>5, <1>6 DEF Local

LEMMA ApplyIs ==
  ASSUME Versioned, NEW m \in Machine, Local(m), Apply(m)
  PROVE  \E p \in Record :
           /\ sync[m].doing = {p}
           /\ Applied(vault[m], vault'[m], p, ids + 1)
           /\ Decided(m) /\ p.id \notin risked =>
                Settles(vault[m], vault'[m], p, sync[m].synced, ids + 1)
           /\ ids' = ids => \A i \in vault'[m].items : i.id # ids + 1
           /\ ids' \in {ids, ids + 1}
<1> DEFINE v == vault[m]
           w == vault'[m]
           s == sync[m]
<1>1. /\ v \in Vault /\ s \in Step /\ ids \in 0 .. MaxId /\ MaxId \in Nat /\ Now(m) \in Nat
  BY BoundAssumption, NowIs DEF Versioned, TypeOK, Vault, Step
<1>2. SyncShape(m) /\ Resolved(m) /\ s.pc = "apply"
  BY DEF Local, Apply
<1>3. PICK p : s.doing = {p}
  BY <1>2 DEF SyncShape
<1>4. p \in Record /\ s.synced \in Nat /\ ids + 1 \in Nat
  BY <1>1, <1>3 DEF Step
<1>5. /\ OnePer(v.items) /\ OnePer(v.graves) /\ \A i \in v.items, g \in v.graves : i.id # g.id
  BY <1>2 DEF SyncShape
<1>6. p.id # ids + 1 /\ (\A i \in v.items : i.id # ids + 1) /\ \A g \in v.graves : g.id # ids + 1
  <2>1. p.id <= ids /\ (\A i \in v.items : i.id <= ids) /\ \A g \in v.graves : g.id <= ids
    BY <1>3, SoundIs
  <2> QED BY <1>1, <2>1
<1> DEFINE choice == s.choice
           item == [id |-> p.id, body |-> p.body, at |-> p.at]
<1>7. ASSUME Decided(m), p.id \notin risked
      PROVE  /\ choice \in {"ApplyRemote", "ApplyDelete"} => Unchanged(v, p, s.synced)
             /\ choice = "KeepLocal" =>
                  \/ p.dead /\ \E i \in v.items : i.id = p.id /\ i.at > s.synced
                  \/ /\ Of(v.items, p.id) = {}
                     /\ \E g \in v.graves : g.id = p.id /\ (p.dead \/ g.at > s.synced)
             /\ choice \in {"RemoteWins", "LocalWins"} => ~Unchanged(v, p, s.synced)
  <2>1. choice = Decision(v, p, s.synced)
    BY <1>2, <1>3, <1>7 DEF Decided
  <2> HIDE DEF v, s, choice
  <2> QED BY <1>1, <1>5, <2>1, DecisionIs DEF Unchanged
<1>8. /\ choice \in {"ApplyRemote", "RemoteWins", "LocalWins"} => ~p.dead
      /\ choice = "ApplyDelete" => p.dead
      /\ choice = "KeepLocal" => p.dead \/ p.id \in buried
  BY <1>2, <1>3 DEF Resolved
<1>9. \/ /\ choice = "ApplyRemote"
         /\ w = Upsert(v, item)
         /\ ids' = ids
      \/ /\ choice = "ApplyDelete"
         /\ w = Remove(v, p.id, Now(m))
         /\ ids' = ids
      \/ choice = "KeepLocal" /\ w = v /\ ids' = ids
      \/ /\ choice = "RemoteWins"
         /\ ids < MaxId /\ ids' = ids + 1
         /\ w = Upsert([v EXCEPT !.items =
                            @ \cup {[i EXCEPT !.id = ids + 1] : i \in Of(v.items, p.id)}], item)
      \/ /\ choice = "LocalWins"
         /\ ids < MaxId /\ ids' = ids + 1
         /\ w = Upsert(v, [item EXCEPT !.id = ids + 1])
  BY <1>3 DEF Apply, Copy, Versioned, TypeOK
<1>10. ids < MaxId => ids + 1 \in Id
  BY <1>1 DEF Id
<1>11. item \in Item
  BY <1>4 DEF Item, Record
<1>12. item.id = p.id /\ item.body = p.body
  OBVIOUS
<1> DEFINE Right ==
         /\ Applied(v, w, p, ids + 1)
         /\ Decided(m) /\ p.id \notin risked => Settles(v, w, p, s.synced, ids + 1)
<1> SUFFICES /\ Right
             /\ ids' = ids => \A i \in w.items : i.id # ids + 1
             /\ ids' \in {ids, ids + 1}
  BY <1>3, <1>4
<1> HIDE DEF v, s, choice, w
<1>13. CASE choice = "ApplyRemote"
  <2>1. Right
    BY <1>1, <1>4, <1>5, <1>6, <1>7, <1>8, <1>9, <1>13, TakenIs
  <2>2. w.items = But(v.items, p.id) \cup {item}
    BY <1>1, <1>9, <1>11, <1>13, UpsertIs
  <2> QED BY <1>6, <1>9, <1>12, <1>13, <2>1, <2>2 DEF But
<1>14. CASE choice = "ApplyDelete"
  <2>1. Right
    BY <1>1, <1>4, <1>5, <1>6, <1>7, <1>8, <1>9, <1>14, DeletedIs
  <2>2. w.items = But(v.items, p.id)
    <3>1. p.id \in Id
      BY <1>4 DEF Record
    <3> QED BY <1>1, <1>9, <1>14, <3>1, RemoveIs
  <2> QED BY <1>6, <1>9, <1>14, <2>1, <2>2 DEF But
<1>15. CASE choice = "KeepLocal"
  <2>1. Right
    BY <1>1, <1>4, <1>5, <1>6, <1>7, <1>8, <1>9, <1>15, KeptIs
  <2> QED BY <1>6, <1>9, <1>15, <2>1
<1>16. CASE choice = "RemoteWins"
  <2>1. ids + 1 \in Id /\ ~p.dead /\ ids' = ids + 1
    BY <1>8, <1>9, <1>10, <1>16
  <2>2. w = Upsert([v EXCEPT !.items =
                      @ \cup {[i EXCEPT !.id = ids + 1] : i \in Of(v.items, p.id)}], item)
    BY <1>9, <1>16
  <2>3. Right
    BY <1>1, <1>4, <1>5, <1>6, <2>1, <2>2, RemoteWinsIs
  <2> QED BY <1>1, <2>1, <2>3
<1>17. CASE choice = "LocalWins"
  <2>1. /\ ids + 1 \in Id /\ ~p.dead /\ ids' = ids + 1
    BY <1>8, <1>9, <1>10, <1>17
  <2>2. /\ [item EXCEPT !.id = ids + 1] \in Item
        /\ [item EXCEPT !.id = ids + 1].id = ids + 1
        /\ [item EXCEPT !.id = ids + 1].body = p.body
    BY <1>11, <2>1 DEF Item
  <2>3. w = Upsert(v, [item EXCEPT !.id = ids + 1])
    BY <1>9, <1>17
  <2>4. Right
    <3> DEFINE c == [item EXCEPT !.id = ids + 1]
    <3>1. c \in Item /\ c.id = ids + 1 /\ c.body = p.body /\ w = Upsert(v, c)
      BY <2>2, <2>3
    <3>2. ~p.dead
      BY <1>8, <1>17
    <3> HIDE DEF c, item
    <3> QED BY <1>1, <1>4, <1>5, <1>6, <1>7, <1>17, <2>1, <3>1, <3>2, LocalWinsIs
  <2> QED BY <1>1, <2>1, <2>4
<1> QED BY <1>9, <1>13, <1>14, <1>15, <1>16, <1>17
\* What a vault shows of a standing record it goes on showing: a record that is
\* acted on takes the place of nothing but what has its id, and there it is the
\* server's own.
LEMMA AppliedShows ==
  ASSUME Versioned, NEW m \in Machine, NEW p \in Record, sync[m].doing = {p},
         NEW w, Applied(vault[m], w, p, ids + 1),
         NEW r \in server.recs, Standing(r), r.id = p.id => r = p, Shown(vault[m], r)
  PROVE  Shown(w, r)
<1>1. PICK i \in vault[m].items : i.body = r.body
  BY DEF Shown
<1>2. CASE i.id # p.id
  BY <1>1, <1>2 DEF Applied, Shown
<1>3. CASE i.id = p.id
  <2>1. p.body = i.body
    <3>1. CASE r.id = p.id
      BY <1>1, <3>1
    <3>2. CASE r.id # p.id
      <4>1. Version(i.id, i.body) \in Versions /\ Version(p.id, p.body) \in Versions
        BY VersionsAre
      <4>2. [id |-> r.id, body |-> r.body] \in current
        BY DEF Standing
      <4> QED BY <1>1, <1>3, <3>2, <4>1, <4>2 DEF Versioned, CopiesStay, Version
    <3> QED BY <3>1, <3>2
  <2>2. ~p.dead
    <3>1. i.body # 0
      BY DEF Versioned, DeadIsEmpty
    <3> QED BY <2>1, <3>1 DEF Versioned, DeadIsEmpty
  <2> QED BY <1>1, <2>1, <2>2 DEF Applied, Has, Shown
<1> QED BY <1>2, <1>3

LEMMA ApplyStep ==
  ASSUME Versioned, NEW m \in Machine, Local(m), Apply(m)
  PROVE  Local(m)'
<1> DEFINE s == sync[m]
           v == vault[m]
           w == vault'[m]
           n == ids + 1
<1>1. PICK p \in Record : s.doing = {p} /\ Applied(v, w, p, n)
  BY ApplyIs
<1>2. /\ UNCHANGED <<server, disk, current, buried>>
      /\ s.pc = "apply"
      /\ sync'[m] = [s EXCEPT !.pc = "decide", !.doing = {}, !.choice = "none"]
  BY DEF Apply, Do, historyVars, Versioned, TypeOK
<1>3. /\ sync'[m].pc = "decide" /\ sync'[m].page = s.page /\ sync'[m].doing = {}
      /\ sync'[m].out = s.out /\ sync'[m].since = s.since /\ sync'[m].synced = s.synced
      /\ sync'[m].rev = s.rev
  BY <1>2 DEF Versioned, TypeOK
<1>4. SyncShape(m) /\ Pages(m) /\ Seen(m)
  BY DEF Local
<1>5. Pulling(m)' = Pulling(m) \ {p} /\ p \in Pulling(m)
  BY <1>1, <1>2, <1>3, <1>4 DEF SyncShape, Pulling
<1>6. w.rev = v.rev /\ w.synced = v.synced /\ s.since = v.rev /\ s.synced = v.synced
  BY <1>1, <1>2, <1>4 DEF Applied, SyncShape
<1>7. SyncShape(m)'
  <2>1. /\ OnePer(w.items) /\ OnePer(w.graves) /\ \A i \in w.items, g \in w.graves : i.id # g.id
    BY <1>1 DEF Applied
  <2>2. OnePer(Pulling(m))'
    BY <1>4, <1>5 DEF SyncShape, OnePer
  <2> QED BY <1>1, <1>2, <1>3, <1>4, <1>5, <1>6, <2>1, <2>2 DEF SyncShape, Working
<1>8. Pages(m)' /\ Resolved(m)'
  BY <1>2, <1>3, <1>4, <1>5 DEF Pages, Resolved
<1>9. /\ v.rev \in Nat /\ s.rev \in Nat /\ s.since <= s.rev
      /\ \A r \in server.recs : r.rev \in Nat
  BY <1>2, <1>4 DEF Versioned, TypeOK, Record, SyncShape, Working
<1>10. \A r \in server.recs : r.id = p.id /\ r.rev <= s.rev => r = p
  BY <1>2, <1>4, <1>5, <1>9 DEF Pages
<1>11. \A r \in server.recs : Standing(r) /\ r.rev <= s.rev /\ Shown(v, r) => Shown(w, r)
  BY <1>1, <1>10, AppliedShows
<1>12. Standing(p) => Shown(w, p)
  BY <1>1 DEF Applied, Standing, Has, Shown
<1>13. Seen(m)'
  <2> SUFFICES ASSUME NEW r \in server.recs, Standing(r)
               PROVE  /\ \A d \in {w, disk[m]} : r.rev <= d.rev => Shown(d, r)
                      /\ r.rev <= s.rev => r \in Pulling(m)' \/ Shown(w, r)
    BY <1>2, <1>3, <1>4 DEF Seen, Standing, SyncShape
  <2>1. r.rev <= v.rev => Shown(w, r)
    BY <1>4, <1>6, <1>9, <1>11 DEF Seen
  <2>2. r.rev <= disk[m].rev => Shown(disk[m], r)
    BY <1>4 DEF Seen
  <2>3. r.rev <= s.rev => r \in Pulling(m) \/ Shown(v, r)
    BY <1>2, <1>4 DEF Seen, Working
  <2> QED BY <1>5, <1>6, <1>11, <1>12, <2>1, <2>2, <2>3
<1> QED BY <1>7, <1>8, <1>13 DEF Local

\* What changed here is what there is to push.
LEMMA NothingToPush ==
  ASSUME NEW v, NEW synced, NEW r
  PROVE  /\ ToPush(v, synced) = {} => (Agrees(v, r, synced) => Has(v, r))
         /\ \A o \in ToPush(v, synced) :
              \/ \E i \in v.items : i.at > synced /\ o = Live(i)
              \/ \E g \in v.graves : g.at > synced /\ o = Dead(g)
         /\ \A i \in v.items : i.at > synced => Live(i) \in ToPush(v, synced)
         /\ \A g \in v.graves : g.at > synced => Dead(g) \in ToPush(v, synced)
BY DEF ToPush, Agrees

LEMMA CollectStep ==
  ASSUME Versioned, NEW m \in Machine, Local(m), Collect(m)
  PROVE  Local(m)'
<1> DEFINE s == sync[m]
           v == vault[m]
           out == ToPush(v, s.synced)
<1>1. /\ UNCHANGED <<server, vault, disk, current, buried>>
      /\ s.pc = "decide" /\ s.page = {}
      /\ sync'[m] = [s EXCEPT !.pc = IF out = {} THEN "end" ELSE "push", !.out = out]
  BY DEF Collect, Do, historyVars, Versioned, TypeOK
<1>2. /\ sync'[m].pc = (IF out = {} THEN "end" ELSE "push")
      /\ sync'[m].page = s.page /\ sync'[m].doing = s.doing
      /\ sync'[m].out = out /\ sync'[m].since = s.since /\ sync'[m].synced = s.synced
      /\ sync'[m].rev = s.rev
  BY <1>1 DEF Versioned, TypeOK
<1>3. SyncShape(m) /\ Seen(m)
  BY DEF Local
<1>4. \A o \in out : \/ o.dead /\ \E g \in v.graves : o.id = g.id /\ o = Dead(g)
                     \/ ~o.dead /\ \E i \in v.items : o.id = i.id /\ o.body = i.body /\ o = Live(i)
  <2>1. \A o \in out : \/ \E i \in v.items : o = Live(i)
                       \/ \E g \in v.graves : o = Dead(g)
    BY DEF ToPush
  <2>2. \A i \in v.items : ~Live(i).dead /\ Live(i).id = i.id /\ Live(i).body = i.body
    BY DEF Live
  <2>3. \A g \in v.graves : Dead(g).dead /\ Dead(g).id = g.id
    BY DEF Dead
  <2> HIDE DEF out
  <2> QED BY <2>1, <2>2, <2>3
<1> HIDE DEF out
<1>5. OnePer(out)
  BY <1>3, <1>4 DEF SyncShape, OnePer
<1>6. s.doing = {} /\ Pulling(m) = {} /\ Pulling(m)' = {} /\ s.synced = v.synced
  BY <1>1, <1>2, <1>3 DEF SyncShape, Pulling
<1>7. SyncShape(m)'
  BY <1>1, <1>2, <1>3, <1>5, <1>6 DEF SyncShape, Working, OnePer
<1>8. Pages(m)' /\ Resolved(m)'
  BY <1>2, <1>6 DEF Pages, Resolved
<1>9. Seen(m)'
  <2>1. \A o \in out : Standing(o) => Shown(v, o)
    BY <1>4 DEF Standing, Shown
  <2> QED BY <1>1, <1>2, <1>3, <1>6, <2>1 DEF Seen, Standing, Working
<1> QED BY <1>7, <1>8, <1>9 DEF Local

LEMMA PushStep ==
  ASSUME Versioned, TypeOK', NEW m \in Machine, Local(m), Push(m)
  PROVE  Local(m)'
<1> DEFINE s == sync[m]
           v == vault[m]
<1>1. /\ UNCHANGED <<vault, disk, bodies, current, buried>>
      /\ s.pc = "push"
  BY DEF Push, historyVars
<1>2. CASE UNCHANGED server /\ sync' = [sync EXCEPT ![m] = Idle]
  <2>1. sync'[m] = Idle
    BY <1>2 DEF Versioned, TypeOK
  <2> QED BY <1>1, <1>2, <2>1, ReadingSteps DEF historyVars
<1>3. ASSUME /\ s.rev = server.rev
             /\ server'.rev = server.rev + 1
             /\ server'.recs = {r \in server.recs : Of(s.out, r.id) = {}} \cup Brought(m)
             /\ \/ sync' = [sync EXCEPT ![m] = [s EXCEPT !.pc = "end", !.rev = @ + 1, !.out = {}]]
                \/ sync' = [sync EXCEPT ![m] = Idle]
      PROVE  Local(m)'
  <2>1. SyncShape(m) /\ Seen(m)
    BY DEF Local
  <2>2. s.page = {} /\ s.doing = {} /\ Pulling(m) = {} /\ s.since = v.rev
    BY <1>1, <2>1 DEF SyncShape, Pulling
  <2>3. /\ server.rev \in Nat /\ v.rev \in Nat /\ disk[m].rev \in Nat
        /\ \A r \in server.recs : r \in Record /\ r.rev \in Nat /\ r.rev <= server.rev
    BY DEF Versioned, OneRecordEach, TypeOK, Record
  <2>4. v.rev <= server.rev /\ disk[m].rev <= server.rev
    BY <2>1 DEF SyncShape
  <2>5. \A r \in Brought(m) : r.rev = server.rev + 1 /\ (Standing(r) => Shown(v, r))
    <3> TAKE r \in Brought(m)
    <3>1. PICK o \in s.out :
           r.id = o.id /\ r.dead = o.dead /\ r.body = o.body /\ r.rev = server.rev + 1
      BY BroughtIs DEF Versioned
    <3>2. Standing(o) => Shown(v, o)
      BY <2>1 DEF Seen
    <3> QED BY <3>1, <3>2 DEF Standing, Shown
  <2>6. \A r \in server'.recs : Standing(r) => Shown(v, r)
    BY <1>1, <1>3, <2>1, <2>2, <2>3, <2>5 DEF Seen, Working
  <2>7. \A r \in server'.recs, d \in {v, disk[m]} : r.rev <= d.rev => r \in server.recs
    BY <1>3, <2>3, <2>4, <2>5
  <2>8. \A r \in server'.recs : Standing(r)' <=> Standing(r)
    BY <1>1 DEF Standing
  <2>9. CASE sync' = [sync EXCEPT ![m] = Idle]
    <3>1. sync'[m] = Idle
      BY <2>9 DEF Versioned, TypeOK
    <3>2. SyncShape(m)'
      BY <1>1, <1>3, <2>1, <2>3, <2>4, <3>1 DEF SyncShape, Idle, Pulling, OnePer, Working
    <3>3. Pages(m)' /\ Resolved(m)'
      BY <3>1 DEF Pages, Resolved, Idle
    <3>4. Seen(m)'
      BY <1>1, <2>1, <2>7, <2>8, <3>1 DEF Seen, Idle, Working
    <3> QED BY <3>2, <3>3, <3>4 DEF Local
  <2>10. CASE sync' = [sync EXCEPT ![m] = [s EXCEPT !.pc = "end", !.rev = @ + 1, !.out = {}]]
    <3>1. /\ sync'[m].pc = "end" /\ sync'[m].page = {} /\ sync'[m].doing = {}
          /\ sync'[m].out = {} /\ sync'[m].since = s.since /\ sync'[m].synced = s.synced
          /\ sync'[m].rev = server.rev + 1
      BY <1>3, <2>2, <2>10 DEF Versioned, TypeOK
    <3>2. SyncShape(m)'
      BY <1>1, <1>3, <2>1, <2>2, <2>3, <2>4, <3>1 DEF SyncShape, Pulling, OnePer, Working
    <3>3. Pages(m)' /\ Resolved(m)'
      BY <3>1 DEF Pages, Resolved
    <3>4. Seen(m)'
      BY <1>1, <2>1, <2>6, <2>7, <2>8, <3>1 DEF Seen
    <3> QED BY <3>2, <3>3, <3>4 DEF Local
  <2> QED BY <1>3, <2>9, <2>10
<1> QED BY <1>2, <1>3, PushIs DEF Versioned

LEMMA EndedOn ==
  ASSUME Versioned, NEW m \in Machine, End(m)
  PROVE  /\ UNCHANGED <<server, current, buried>> /\ sync[m].pc = "end" /\ sync'[m] = Idle
         /\ vault'[m].items = vault[m].items /\ vault'[m].graves = vault[m].graves
         /\ vault'[m].rev = sync[m].rev /\ vault'[m].synced = Now(m)
         /\ disk'[m] \in {disk[m], vault'[m]}
<1> DEFINE w == [vault[m] EXCEPT !.rev = sync[m].rev, !.synced = Now(m)]
<1>1. /\ UNCHANGED <<server, current, buried>> /\ sync[m].pc = "end"
      /\ vault'[m] = w /\ disk'[m] \in {disk[m], w} /\ sync'[m] = Idle
  BY DEF End, Do, historyVars, Versioned, TypeOK
<1>2. vault[m] \in Vault
  BY DEF Versioned, TypeOK, Vault
<1>3. /\ w.items = vault[m].items /\ w.graves = vault[m].graves
      /\ w.rev = sync[m].rev /\ w.synced = Now(m)
  BY <1>2 DEF Vault
<1> HIDE DEF w
<1> QED BY <1>1, <1>3

LEMMA EndStep ==
  ASSUME Versioned, NEW m \in Machine, Local(m), End(m)
  PROVE  Local(m)'
<1>1. SyncShape(m) /\ Seen(m)
  BY DEF Local
<1>2. sync[m].pc = "end" /\ sync[m].rev <= server.rev /\ Pulling(m) = {}
  BY <1>1, EndedOn DEF SyncShape, Working, Pulling
<1>3. SyncShape(m)'
  BY <1>1, <1>2, EndedOn DEF SyncShape, Idle, Pulling, OnePer, Working
<1>4. Pages(m)' /\ Resolved(m)'
  BY EndedOn DEF Pages, Resolved, Idle
<1>5. Seen(m)'
  BY <1>1, <1>2, EndedOn DEF Seen, Standing, Shown, Idle, Working
<1> QED BY <1>3, <1>4, <1>5 DEF Local
-----------------------------------------------------------------------------
\* The user's changes: of one item, c, whose place a new one or a grave takes.
Changes(m, c) ==
  LET v == vault[m]
      w == vault'[m]
  IN /\ UNCHANGED <<server, sync>> /\ disk'[m] = w
     /\ w.rev = v.rev /\ w.synced = v.synced
     /\ OnePer(w.items) /\ OnePer(w.graves) /\ \A i \in w.items, g \in w.graves : i.id # g.id
     /\ \A i \in v.items : i.id # c => i \in w.items
     /\ \A i \in w.items : i.id # c => i \in v.items
     /\ \A g \in v.graves : g.id # c => g \in w.graves
     /\ \A g \in w.graves : g.id # c => g \in v.graves
     \* It is changed with no sync about, or at risk.
     /\ Quiet(m) \/ c \in risked'
     \* What is still as some user wrote it stays.
     /\ \A i \in v.items, b \in current' : b \in current /\ b.body = i.body => i \in w.items
     \* Only what is changed now is later than the clock was.
     /\ \/ \A r \in server.recs : r.id # c
        \/ \E i \in w.items : i.id = c /\ i.at = Now(m)
        \/ \E g \in w.graves : g.id = c /\ g.at = Now(m)

LEMMA AddChanges ==
  ASSUME Versioned, NEW m \in Machine, SyncShape(m), Add(m)
  PROVE  \E c : Changes(m, c)
<1> DEFINE v == vault[m]
           item == [id |-> ids + 1, body |-> bodies + 1, at |-> Now(m)]
           w == vault'[m]
<1>1. /\ UNCHANGED <<server, sync>> /\ w = Upsert(v, item) /\ disk'[m] = w /\ ids < MaxId
  BY DEF Add, Save, Versioned, TypeOK
<1>2. v \in Vault /\ item \in Item /\ ids \in Nat /\ item.id = ids + 1
  BY <1>1, BoundAssumption, NowIs DEF Versioned, TypeOK, Vault, Item, Id
<1>3. /\ w.items = But(v.items, ids + 1) \cup {item}
      /\ w.graves = But(v.graves, ids + 1)
      /\ w.rev = v.rev /\ w.synced = v.synced
  BY <1>1, <1>2, UpsertIs
<1>4. \A r \in server.recs : r.id # ids + 1
  BY <1>2, SoundIs DEF Versioned, TypeOK, Record, Id
<1>5. \A i \in v.items : i.id # ids + 1
  <2>1. \A i \in v.items : i.id <= ids /\ i.id \in Nat
    BY <1>2, SoundIs DEF Vault, Item, Id
  <2> QED BY <1>2, <2>1
<1> HIDE DEF item, w
<1>6. /\ OnePer(w.items) /\ OnePer(w.graves) /\ \A i \in w.items, g \in w.graves : i.id # g.id
  BY <1>2, <1>3 DEF SyncShape, OnePer, But
<1>7. /\ \A i \in v.items : i.id # ids + 1 => i \in w.items
      /\ \A i \in w.items : i.id # ids + 1 => i \in v.items
      /\ \A g \in v.graves : g.id # ids + 1 => g \in w.graves
      /\ \A g \in w.graves : g.id # ids + 1 => g \in v.graves
      /\ Quiet(m) \/ ids + 1 \in risked'
  BY <1>2, <1>3 DEF But, Add, Risk
<1>8. Changes(m, ids + 1)
  BY <1>1, <1>3, <1>4, <1>5, <1>6, <1>7 DEF Changes, w
<1> QED BY <1>8

LEMMA EditChanges ==
  ASSUME Versioned, NEW m \in Machine, SyncShape(m), Edit(m)
  PROVE  \E c : Changes(m, c)
<1> DEFINE v == vault[m]
           w == vault'[m]
<1>1. PICK i \in v.items :
       /\ Save(m, Upsert(v, [i EXCEPT !.body = bodies', !.at = Now(m)]))
       /\ current' = {x \in current : x.body # i.body} \cup {[id |-> i.id, body |-> bodies']}
       /\ Risk(m, i.id)
  BY DEF Edit
<1> DEFINE item == [i EXCEPT !.body = bodies', !.at = Now(m)]
<1>2. /\ UNCHANGED <<server, sync>> /\ w = Upsert(v, item) /\ disk'[m] = w
      /\ bodies' = bodies + 1 /\ bodies \in Nat
  BY <1>1, BoundAssumption DEF Edit, Save, Versioned, TypeOK
<1>3. v \in Vault /\ item \in Item /\ item.id = i.id /\ item.at = Now(m)
  <2>1. v \in Vault /\ i \in Item /\ Now(m) \in Nat
    BY NowIs DEF Versioned, TypeOK, Vault
  <2>2. bodies' \in Nat
    BY <1>2
  <2> QED BY <2>1, <2>2 DEF Item
<1> HIDE DEF item
<1>4. /\ w.items = But(v.items, i.id) \cup {item}
      /\ w.graves = But(v.graves, i.id)
      /\ w.rev = v.rev /\ w.synced = v.synced
  BY <1>2, <1>3, UpsertIs
<1> HIDE DEF w
<1>5. /\ OnePer(w.items) /\ OnePer(w.graves) /\ \A j \in w.items, g \in w.graves : j.id # g.id
  BY <1>3, <1>4 DEF SyncShape, OnePer, But
<1>6. /\ \A j \in v.items : j.id # i.id => j \in w.items
      /\ \A j \in w.items : j.id # i.id => j \in v.items
      /\ \A g \in v.graves : g.id # i.id => g \in w.graves
      /\ \A g \in w.graves : g.id # i.id => g \in v.graves
      /\ \E j \in w.items : j.id = i.id /\ j.at = Now(m)
      /\ Quiet(m) \/ i.id \in risked'
  BY <1>1, <1>3, <1>4 DEF But, Risk
<1>7. ASSUME NEW j \in v.items, NEW b \in current', b \in current, b.body = j.body
      PROVE  j \in w.items
  <2>1. b.body <= bodies /\ b.body \in Nat
    BY <1>7 DEF Versioned, SoundVersions, TypeOK
  <2>2. b # [id |-> i.id, body |-> bodies']
    BY <1>2, <2>1
  <2>3. j # i
    BY <1>1, <1>7, <2>2
  <2> QED BY <1>6, <1>7, <2>3 DEF SyncShape, OnePer
<1>8. Changes(m, i.id)
  BY <1>2, <1>4, <1>5, <1>6, <1>7 DEF Changes, w
<1> QED BY <1>8

LEMMA DeleteChanges ==
  ASSUME Versioned, NEW m \in Machine, SyncShape(m), Delete(m)
  PROVE  \E c : Changes(m, c)
<1> DEFINE v == vault[m]
           w == vault'[m]
<1>1. PICK i \in v.items :
       /\ Save(m, Remove(v, i.id, Now(m)))
       /\ current' = {x \in current : x.body # i.body}
       /\ Risk(m, i.id)
  BY DEF Delete
<1> DEFINE grave == [id |-> i.id, at |-> Now(m)]
<1>2. /\ UNCHANGED <<server, sync>> /\ w = Remove(v, i.id, Now(m)) /\ disk'[m] = w
  BY <1>1 DEF Delete, Save, Versioned, TypeOK
<1>3. v \in Vault /\ i.id \in Id /\ Now(m) \in Nat /\ Of(v.items, i.id) # {}
  BY NowIs DEF Versioned, TypeOK, Vault, Item, Of
<1>4. /\ w.items = But(v.items, i.id)
      /\ w.graves = But(v.graves, i.id) \cup {grave}
      /\ w.rev = v.rev /\ w.synced = v.synced
  <2> DEFINE u == Remove(v, i.id, Now(m))
  <2>1. /\ u.items = But(v.items, i.id) /\ u.graves = But(v.graves, i.id) \cup {grave}
        /\ u.rev = v.rev /\ u.synced = v.synced
    <3> HIDE DEF v
    <3> QED BY <1>3, Removed, SMTT(30)
  <2> QED BY <1>2, <2>1
<1> HIDE DEF w
<1>5. /\ OnePer(w.items) /\ OnePer(w.graves) /\ \A j \in w.items, g \in w.graves : j.id # g.id
  BY <1>4 DEF SyncShape, OnePer, But
<1>6. /\ \A j \in v.items : j.id # i.id => j \in w.items
      /\ \A j \in w.items : j.id # i.id => j \in v.items
      /\ \A g \in v.graves : g.id # i.id => g \in w.graves
      /\ \A g \in w.graves : g.id # i.id => g \in v.graves
      /\ \E g \in w.graves : g.id = i.id /\ g.at = Now(m)
      /\ Quiet(m) \/ i.id \in risked'
  <2>1. grave.id = i.id /\ grave.at = Now(m)
    OBVIOUS
  <2>2. Quiet(m) \/ i.id \in risked'
    BY <1>1 DEF Risk
  <2> HIDE DEF grave
  <2> QED BY <1>4, <2>1, <2>2 DEF But
<1>7. \A j \in v.items, b \in current' : b \in current /\ b.body = j.body => j \in w.items
  BY <1>1, <1>6 DEF SyncShape, OnePer
<1>8. Changes(m, i.id)
  BY <1>2, <1>4, <1>5, <1>6, <1>7 DEF Changes, w
<1> QED BY <1>8

LEMMA UserStep ==
  ASSUME Versioned, Growing, NEW m \in Machine, Local(m), Add(m) \/ Edit(m) \/ Delete(m)
  PROVE  Local(m)'
<1> DEFINE v == vault[m]
           w == vault'[m]
<1>1. SyncShape(m) /\ Pages(m) /\ Resolved(m) /\ Seen(m)
  BY DEF Local
<1>2. PICK c : Changes(m, c)
  BY <1>1, AddChanges, EditChanges, DeleteChanges
<1>3. SyncShape(m)'
  BY <1>1, <1>2 DEF Changes, SyncShape, Working, Pulling
<1>4. Pages(m)' /\ Resolved(m)'
  BY <1>1, <1>2 DEF Changes, Pages, Resolved, Pulling, Growing
<1>5. ASSUME NEW r \in Record, r.body <= bodies, Standing(r)'
      PROVE  Standing(r) /\ (Shown(v, r) => Shown(w, r))
  <2>1. Standing(r)
    BY <1>5, StoodBefore
  <2>2. [id |-> r.id, body |-> r.body] \in current \cap current'
    BY <1>5, <2>1 DEF Standing
  <2> QED BY <1>2, <2>1, <2>2 DEF Changes, Shown
<1>6. \A r \in server.recs \cup sync[m].out : r \in Record /\ r.body <= bodies
  BY SoundIs DEF Versioned, TypeOK
<1>7. Seen(m)'
  BY <1>1, <1>2, <1>5, <1>6 DEF Changes, Seen, Pulling
<1> QED BY <1>3, <1>4, <1>7 DEF Local

LEMMA LostStep ==
  ASSUME Versioned, TypeOK', NEW m \in Machine, Local(m), Lost(m)
  PROVE  Local(m)'
<1>1. /\ vault'[m] = vault[m] /\ disk'[m] = disk[m] /\ UNCHANGED <<server, current, buried>>
      /\ sync'[m] = Idle
  BY DEF Lost, Do, Versioned, TypeOK, historyVars
<1> QED BY <1>1, ReadingSteps

\* A vault that is opened again is what the file holds; a sync goes on only
\* where that changes nothing.
LEMMA ReopenedOn ==
  ASSUME Perils = {}, TypeOK, NEW m \in Machine, Relock(m)
  PROVE  /\ UNCHANGED <<clock, server, ids, bodies, current, buried>>
         /\ vault'[m] = disk[m] /\ disk'[m] = disk[m]
         /\ sync'[m] = Idle \/ (sync'[m] = sync[m] /\ vault[m] = disk[m])
         /\ \A x \in current :
              (\E i \in vault[m].items \ disk[m].items : i.body = x.body) => x.id \in risked'
<1>1. vault'[m] = disk[m] /\ disk'[m] = disk[m] /\ sync'[m] \in {sync[m], Idle}
  BY DEF Relock, Do, TypeOK
<1>2. sync'[m] = Idle \/ (sync'[m] = sync[m] /\ vault[m] = disk[m])
  BY DEF Relock, Do, TypeOK
<1>3. \A x \in current :
        (\E i \in vault[m].items \ disk[m].items : i.body = x.body) => x.id \in risked'
  BY DEF Relock
<1> QED BY <1>1, <1>2, <1>3 DEF Relock

LEMMA RelockStep ==
  ASSUME Perils = {}, Versioned, NEW m \in Machine, Local(m), Filed(m), Relock(m)
  PROVE  Local(m)'
<1>1. /\ UNCHANGED <<server, current, buried>> /\ vault'[m] = disk[m] /\ disk'[m] = disk[m]
      /\ sync'[m] = Idle \/ (sync'[m] = sync[m] /\ vault[m] = disk[m])
  BY ReopenedOn DEF Versioned
<1>2. CASE sync'[m] = sync[m] /\ vault[m] = disk[m]
  BY <1>1, <1>2 DEF Local, SyncShape, Pages, Resolved, Seen, Pulling, Standing
<1>3. CASE sync'[m] = Idle
  <2>1. SyncShape(m) /\ Seen(m)
    BY DEF Local
  <2>2. SyncShape(m)'
    BY <1>1, <1>3, <2>1 DEF Filed, SyncShape, Idle, Pulling, OnePer, Working
  <2>3. Pages(m)' /\ Resolved(m)'
    BY <1>3 DEF Pages, Resolved, Idle
  <2>4. Seen(m)'
    BY <1>1, <1>3, <2>1 DEF Seen, Standing, Shown, Idle, Working
  <2> QED BY <2>2, <2>3, <2>4 DEF Local
<1> QED BY <1>1, <1>2, <1>3

LEMMA LocalStep ==
  ASSUME Perils = {}, Versioned, TypeOK', [Next]_vars, \A m \in Machine : Local(m) /\ Filed(m)
  PROVE  \A m \in Machine : Local(m)'
<1>0. Growing
  BY StepGrows DEF Versioned
<1> SUFFICES ASSUME NEW m \in Machine PROVE Local(m)'
  OBVIOUS
<1>1. CASE \E q \in Machine : At(q) /\ q # m
  BY <1>0, <1>1, Elsewhere, Bystander DEF Versioned
<1>2. CASE Purge \/ Tick \/ UNCHANGED vars
  <2>1. UNCHANGED <<vault, disk, sync>>
    BY <1>2 DEF Purge, Tick, vars
  <2> QED BY <1>0, <2>1, Bystander
<1>3. CASE At(m)
  BY <1>0, <1>3, BeginStep, PullItemsStep, PullRevisionStep, DecideStep, ApplyStep,
     CollectStep, PushStep, EndStep, UserStep, LostStep, RelockStep DEF At, SyncStep
<1> QED BY <1>1, <1>2, <1>3 DEF Next, At

LEMMA FiledStep ==
  ASSUME Versioned, TypeOK', [Next]_vars, NEW m \in Machine, Filed(m), SyncShape(m)'
  PROVE  Filed(m)'
<1>1. /\ clock \in Nat /\ clock' \in Nat /\ Skew[m] \in Nat
      /\ vault[m].synced \in Nat /\ disk[m].synced \in Nat
      /\ vault'[m].synced \in Nat /\ disk'[m].synced \in Nat
  BY SkewAssumption DEF Versioned, TypeOK
<1>2. CASE UNCHANGED <<vault, disk>> /\ clock' \in {clock, clock + 1}
  BY <1>1, <1>2 DEF Filed, Now
<1>3. CASE At(m)
  <2>1. /\ disk'[m] \in {disk[m], vault'[m]}
        /\ \/ vault'[m] = disk[m] /\ disk'[m] = disk[m]
           \/ vault'[m].synced \in {vault[m].synced, Now(m)}
        /\ clock' = clock
    BY <1>3, FileIs DEF Versioned
  <2>2. /\ OnePer(disk'[m].items) /\ OnePer(disk'[m].graves)
        /\ \A i \in disk'[m].items, g \in disk'[m].graves : i.id # g.id
    BY <2>1 DEF Filed, SyncShape
  <2>3. disk'[m].synced <= vault'[m].synced /\ vault'[m].synced <= Now(m)'
    BY <1>1, <2>1 DEF Filed, Now
  <2> QED BY <2>2, <2>3 DEF Filed
<1>4. ASSUME NEW q \in Machine, At(q), q # m PROVE Filed(m)'
  <2>1. vault'[m] = vault[m] /\ disk'[m] = disk[m] /\ clock' = clock
    BY <1>4, Elsewhere, FileIs DEF Versioned
  <2> QED BY <2>1 DEF Filed, Now
<1>5. CASE Purge \/ Tick \/ UNCHANGED vars
  BY <1>2, <1>5 DEF Purge, Tick, vars
<1> QED BY <1>3, <1>4, <1>5 DEF Next, At

-----------------------------------------------------------------------------
(* Where versions come from.                                               *)

\* Where the versions of the next state may come from.
LEMMA VersionsFrom ==
  ASSUME TypeOK, NEW m \in Machine, At(m), NEW S, Versions \subseteq S,
         \A r \in server'.recs : Version(r.id, r.body) \in S,
         \A i \in vault'[m].items : Version(i.id, i.body) \in S,
         \A g \in vault'[m].graves : Version(g.id, 0) \in S,
         \A r \in sync'[m].page \cup sync'[m].doing \cup sync'[m].out :
           Version(r.id, r.body) \in S
  PROVE  Versions' \subseteq S
<1>1. VersionsAt(m)' \subseteq S
  <2>1. VersionsOf(disk[m]) \subseteq S
    BY DEF Versions, VersionsAt
  <2>2. VersionsOf(vault'[m]) \subseteq S
    BY DEF VersionsOf
  <2>3. VersionsOf(disk'[m]) \subseteq S
    BY <2>1, <2>2, FileIs
  <2> QED BY <2>2, <2>3 DEF VersionsAt
<1>2. ASSUME NEW q \in Machine, q # m PROVE VersionsAt(q)' \subseteq S
  <2>1. VersionsAt(q)' = VersionsAt(q)
    BY <1>2, Elsewhere DEF VersionsAt
  <2> QED BY <2>1 DEF Versions
<1> QED BY <1>1, <1>2 DEF Versions

NoNewVersion ==
  Versions' \subseteq Versions /\ ids <= ids' /\ UNCHANGED <<bodies, current, buried>>

NewCopy ==
  \E x \in Versions :
    /\ x.body # 0
    /\ Versions' \subseteq Versions \cup {Version(ids + 1, x.body)}
    /\ ids' = ids + 1 /\ UNCHANGED <<bodies, current, buried>>

NewItem ==
  /\ Versions' \subseteq Versions \cup {Version(ids + 1, bodies + 1)}
  /\ current' = current \cup {Version(ids + 1, bodies + 1)}
  /\ ids' = ids + 1 /\ bodies' = bodies + 1 /\ buried' = buried

NewBody ==
  \E x \in Versions :
    /\ x.body # 0
    /\ Versions' \subseteq Versions \cup {Version(x.id, bodies + 1)}
    /\ current' = {w \in current : w.body # x.body} \cup {Version(x.id, bodies + 1)}
    /\ ids' = ids /\ bodies' = bodies + 1 /\ buried' = buried

Burial ==
  \E x \in Versions :
    /\ x.body # 0
    /\ Versions' \subseteq Versions \cup {Version(x.id, 0)}
    /\ current' = {w \in current : w.body # x.body}
    /\ ids' = ids /\ bodies' = bodies /\ buried' = buried \cup {x.id}

LEMMA ApplyVersions ==
  ASSUME Versioned, NEW m \in Machine, Local(m), Apply(m)
  PROVE  NoNewVersion \/ NewCopy
<1> DEFINE v == vault[m]
           w == vault'[m]
<1>1. PICK p \in Record :
           /\ sync[m].doing = {p}
           /\ Applied(v, w, p, ids + 1)
           /\ ids' = ids => \A i \in w.items : i.id # ids + 1
           /\ ids' \in {ids, ids + 1}
  BY ApplyIs
<1>2. /\ UNCHANGED <<server, disk, bodies, current, buried>>
      /\ sync'[m].page = sync[m].page /\ sync'[m].doing = {} /\ sync'[m].out = sync[m].out
  BY DEF Apply, Do, Versioned, TypeOK, historyVars
<1>3. /\ Version(p.id, p.body) \in Versions /\ (p.dead <=> p.body = 0)
      /\ \A i \in v.items : Version(i.id, i.body) \in Versions /\ i.body # 0
      /\ \A g \in v.graves : Version(g.id, 0) \in Versions
  BY <1>1, VersionsAre DEF Versioned, DeadIsEmpty
<1>4. \A g \in w.graves : Version(g.id, 0) \in Versions
  BY <1>1, <1>3 DEF Applied
<1>5. \A i \in w.items : i.id # ids + 1 => Version(i.id, i.body) \in Versions
  BY <1>1, <1>3 DEF Applied
<1>6. ids \in Nat
  BY DEF Versioned, TypeOK
<1>7. CASE \A i \in w.items : i.id # ids + 1
  <2>1. Versions' \subseteq Versions
    BY <1>2, <1>4, <1>5, <1>7, VersionsAre, VersionsFrom DEF Versioned, At, SyncStep
  <2> QED BY <1>1, <1>2, <1>6, <2>1 DEF NoNewVersion
<1>8. ASSUME NEW c \in w.items, c.id = ids + 1 PROVE NewCopy
  <2>1. PICK x \in Versions : x.body # 0 /\ x.body = c.body
    <3>1. (~p.dead /\ c.body = p.body) \/ \E j \in v.items : c.body = j.body
      BY <1>1, <1>8 DEF Applied
    <3>2. CASE ~p.dead /\ c.body = p.body
      BY <1>3, <3>2 DEF Version
    <3>3. CASE \E j \in v.items : c.body = j.body
      BY <1>3, <3>3 DEF Version
    <3> QED BY <3>1, <3>2, <3>3
  <2>2. \A i \in w.items : i.id = ids + 1 => i = c
    BY <1>1, <1>8 DEF Applied, OnePer
  <2> DEFINE S == Versions \cup {Version(ids + 1, x.body)}
  <2>3. \A i \in w.items : Version(i.id, i.body) \in S
    BY <1>5, <1>8, <2>1, <2>2
  <2>4. Versions' \subseteq S
    BY <1>2, <1>4, <2>3, VersionsAre, VersionsFrom DEF Versioned, At, SyncStep
  <2>5. ids' = ids + 1
    BY <1>1, <1>8
  <2> QED BY <1>2, <2>1, <2>4, <2>5 DEF NewCopy
<1> QED BY <1>7, <1>8

LEMMA SyncVersions ==
  ASSUME Versioned, NEW m \in Machine, Local(m),
         Begin(m) \/ PullItems(m) \/ PullRevision(m) \/ Decide(m) \/ Collect(m)
           \/ Push(m) \/ End(m) \/ Lost(m) \/ Relock(m), Perils = {}
  PROVE  NoNewVersion
<1>0. /\ UNCHANGED <<ids, bodies, current, buried>> /\ ids \in Nat /\ At(m)
  <2>1. UNCHANGED <<ids, bodies, current, buried>>
    BY DEF Begin, PullItems, PullRevision, Decide, Collect, Push, End, Lost, Relock, historyVars
  <2>2. ids \in Nat
    BY BoundAssumption DEF Versioned, TypeOK
  <2> QED BY <2>1, <2>2 DEF At, SyncStep
<1> SUFFICES Versions' \subseteq Versions
  BY <1>0 DEF NoNewVersion
<1>1. /\ \A i \in vault'[m].items : Version(i.id, i.body) \in Versions
      /\ \A g \in vault'[m].graves : Version(g.id, 0) \in Versions
  <2>1. CASE End(m)
    <3>1. vault[m] \in Vault /\ vault'[m] = [vault[m] EXCEPT !.rev = sync[m].rev, !.synced = Now(m)]
      BY <2>1 DEF End, Versioned, TypeOK, Vault
    <3>2. vault'[m].items = vault[m].items /\ vault'[m].graves = vault[m].graves
      BY <3>1 DEF Vault
    <3> QED BY <3>2, VersionsAre
  <2>2. CASE Relock(m)
    <3>1. vault'[m] = disk[m]
      BY <2>2 DEF Relock, Versioned, TypeOK
    <3> QED BY <3>1, VersionsAre
  <2> QED BY <2>1, <2>2, VersionsAre DEF Begin, PullItems, PullRevision, Decide, Collect, Push, Lost
<1>2. CASE Push(m)
  <2>1. \A r \in Brought(m) : Version(r.id, r.body) \in Versions
    BY <1>2, BroughtIs, VersionsAre DEF Versioned
  <2>2. \A r \in server'.recs : Version(r.id, r.body) \in Versions
    BY <1>2, <2>1, PushIs, VersionsAre DEF Versioned
  <2>3. sync'[m].page \cup sync'[m].doing \cup sync'[m].out
          \subseteq sync[m].page \cup sync[m].doing \cup sync[m].out
    <3>1. sync'[m] \in {Idle, [sync[m] EXCEPT !.pc = "end", !.rev = @ + 1, !.out = {}]}
      <4>1. sync \in [Machine -> Step]
        BY DEF Versioned, TypeOK, Step
      <4>2. \/ sync' = [sync EXCEPT ![m] =
                           [sync[m] EXCEPT !.pc = "end", !.rev = @ + 1, !.out = {}]]
            \/ sync' = [sync EXCEPT ![m] = Idle]
        BY <1>2, PushIs DEF Versioned
      <4> QED BY <4>1, <4>2
    <3>2. sync[m] \in Step
      BY DEF Versioned, TypeOK, Step
    <3>3. /\ sync'[m].page \in {sync[m].page, {}} /\ sync'[m].doing \in {sync[m].doing, {}}
          /\ sync'[m].out = {}
      <4>1. CASE sync'[m] = Idle
        BY <4>1 DEF Idle
      <4>2. CASE sync'[m] = [sync[m] EXCEPT !.pc = "end", !.rev = @ + 1, !.out = {}]
        BY <3>2, <4>2 DEF Step
      <4> QED BY <3>1, <4>1, <4>2
    <3> QED BY <3>3
  <2> QED BY <1>0, <1>1, <2>2, <2>3, VersionsAre, VersionsFrom DEF Versioned
<1>3. CASE Collect(m)
  <2>1. /\ sync'[m].page = sync[m].page /\ sync'[m].doing = sync[m].doing
        /\ sync'[m].out = ToPush(vault[m], sync[m].synced) /\ server' = server
    BY <1>3 DEF Collect, Do, Versioned, TypeOK
  <2>2. \A i \in vault[m].items : Live(i).id = i.id /\ Live(i).body = i.body
    BY DEF Live
  <2>3. \A g \in vault[m].graves : Dead(g).id = g.id /\ Dead(g).body = 0
    BY DEF Dead
  <2>4. \A r \in sync'[m].out : Version(r.id, r.body) \in Versions
    BY <2>1, <2>2, <2>3, VersionsAre DEF ToPush
  <2> QED BY <1>0, <1>1, <2>1, <2>4, VersionsAre, VersionsFrom DEF Versioned
<1>4. CASE PullItems(m)
  <2>1. /\ sync'[m].page \subseteq server.recs /\ sync'[m].doing = sync[m].doing
        /\ sync'[m].out = sync[m].out /\ server' = server
    BY <1>4 DEF PullItems, Do, Versioned, TypeOK
  <2> QED BY <1>0, <1>1, <2>1, VersionsAre, VersionsFrom DEF Versioned
<1>5. CASE Decide(m)
  <2>1. First(sync[m].page) \in sync[m].page
    BY <1>5, FirstIsOfThePage DEF Decide, Versioned, TypeOK
  <2>2. /\ sync'[m].page \cup sync'[m].doing \subseteq sync[m].page
        /\ sync'[m].out = sync[m].out /\ server' = server
    BY <1>5, <2>1 DEF Decide, Do, Versioned, TypeOK
  <2> QED BY <1>0, <1>1, <2>2, VersionsAre, VersionsFrom DEF Versioned
<1>6. CASE Begin(m) \/ PullRevision(m) \/ End(m) \/ Lost(m) \/ Relock(m)
  <2>1. /\ sync'[m].page \cup sync'[m].doing \cup sync'[m].out
             \subseteq sync[m].page \cup sync[m].doing \cup sync[m].out
        /\ server' = server
    <3>1. \/ sync'[m] \in {sync[m], Idle}
          \/ sync'[m] = [Idle EXCEPT !.pc = "items",
                           !.since = vault[m].rev, !.synced = vault[m].synced]
          \/ sync'[m] = [sync[m] EXCEPT !.pc = "decide", !.rev = server.rev]
      BY <1>6 DEF Begin, PullRevision, End, Lost, Relock, Do, Versioned, TypeOK
    <3>2. sync[m] \in Step
      BY DEF Versioned, TypeOK, Step
    <3>3. server' = server
      BY <1>6 DEF Begin, PullRevision, End, Lost, Relock
    <3>4. /\ sync'[m].page \in {sync[m].page, {}} /\ sync'[m].doing \in {sync[m].doing, {}}
          /\ sync'[m].out \in {sync[m].out, {}}
      <4>1. CASE sync'[m] = Idle
        BY <4>1 DEF Idle
      <4>2. CASE sync'[m] = [Idle EXCEPT !.pc = "items",
                              !.since = vault[m].rev, !.synced = vault[m].synced]
        BY <4>2 DEF Idle
      <4>3. CASE sync'[m] = [sync[m] EXCEPT !.pc = "decide", !.rev = server.rev]
        BY <3>2, <4>3 DEF Step
      <4> QED BY <3>1, <4>1, <4>2, <4>3
    <3> QED BY <3>3, <3>4
  <2> QED BY <1>0, <1>1, <2>1, VersionsAre, VersionsFrom DEF Versioned
<1> QED BY <1>2, <1>3, <1>4, <1>5, <1>6

LEMMA UserVersions ==
  ASSUME Versioned, NEW m \in Machine, Add(m) \/ Edit(m) \/ Delete(m)
  PROVE  NewItem \/ NewBody \/ Burial
<1> DEFINE v == vault[m]
<1>1. /\ UNCHANGED <<server, sync>> /\ At(m) /\ v \in Vault /\ TypeOK
      /\ Now(m) \in Nat /\ ids \in 0 .. MaxId /\ bodies \in 0 .. MaxBody
      /\ MaxId \in Nat /\ MaxBody \in Nat
  BY BoundAssumption, NowIs DEF Add, Edit, Delete, At, Versioned, TypeOK, Vault
<1>2. CASE Add(m)
  <2> DEFINE item == [id |-> ids + 1, body |-> bodies + 1, at |-> Now(m)]
             S == Versions \cup {Version(ids + 1, bodies + 1)}
  <2>1. vault'[m] = Upsert(v, item) /\ ids < MaxId
    BY <1>1, <1>2 DEF Add, Save, Versioned, TypeOK
  <2>2. item \in Item
    BY <1>1, <2>1 DEF Item, Id
  <2>3. vault'[m].items \subseteq v.items \cup {item} /\ vault'[m].graves \subseteq v.graves
    BY <1>1, <2>1, <2>2, UpsertIs DEF But
  <2>4. Versions' \subseteq S
    <3>1. \A i \in vault'[m].items : Version(i.id, i.body) \in S
      BY <2>3, VersionsAre
    <3> QED BY <1>1, <2>3, <3>1, VersionsAre, VersionsFrom
  <2> QED BY <1>2, <2>4 DEF Add, NewItem, Version
<1>3. CASE Edit(m)
  <2>1. PICK i \in v.items :
       /\ Save(m, Upsert(v, [i EXCEPT !.body = bodies', !.at = Now(m)]))
       /\ current' = {w \in current : w.body # i.body} \cup {[id |-> i.id, body |-> bodies']}
    BY <1>3 DEF Edit
  <2> DEFINE item == [i EXCEPT !.body = bodies', !.at = Now(m)]
             x == Version(i.id, i.body)
             S == Versions \cup {Version(x.id, bodies + 1)}
  <2>2. /\ x \in Versions /\ x.id = i.id /\ x.body = i.body /\ x.body # 0
        /\ bodies' = bodies + 1 /\ ids' = ids /\ buried' = buried
    BY <1>3, VersionsAre DEF Edit, Version, Versioned, DeadIsEmpty
  <2>3. item \in Item /\ item.id = i.id /\ item.body = bodies + 1
    <3>1. i \in Item /\ bodies' \in Nat
      BY <1>1, <2>2 DEF Vault
    <3> QED BY <1>1, <2>2, <3>1 DEF Item
  <2>4. vault'[m] = Upsert(v, item)
    BY <2>1 DEF Save, Versioned, TypeOK
  <2> HIDE DEF item, x
  <2>5. vault'[m].items \subseteq v.items \cup {item} /\ vault'[m].graves \subseteq v.graves
    BY <1>1, <2>3, <2>4, UpsertIs DEF But
  <2>6. \A j \in vault'[m].items : Version(j.id, j.body) \in S
    BY <2>2, <2>3, <2>5, VersionsAre
  <2>7. Versions' \subseteq S
    BY <1>1, <2>5, <2>6, VersionsAre, VersionsFrom
  <2>8. current' = {w \in current : w.body # x.body} \cup {Version(x.id, bodies + 1)}
    BY <2>1, <2>2 DEF Version
  <2> QED BY <2>2, <2>7, <2>8 DEF NewBody
<1>4. CASE Delete(m)
  <2>1. PICK i \in v.items :
       /\ Save(m, Remove(v, i.id, Now(m)))
       /\ current' = {w \in current : w.body # i.body}
       /\ buried' = buried \cup {i.id}
    BY <1>4 DEF Delete
  <2> DEFINE x == Version(i.id, i.body)
             S == Versions \cup {Version(x.id, 0)}
  <2>2. /\ x \in Versions /\ x.id = i.id /\ x.body = i.body /\ x.body # 0
        /\ bodies' = bodies /\ ids' = ids /\ i.id \in Id
    BY <1>1, <1>4, VersionsAre DEF Delete, Version, Versioned, DeadIsEmpty, Vault, Item
  <2>3. vault'[m] = Remove(v, i.id, Now(m))
    BY <2>1 DEF Save, Versioned, TypeOK
  <2> HIDE DEF x
  <2>4. /\ vault'[m].items \subseteq v.items
        /\ \A g \in vault'[m].graves : g \in v.graves \/ g.id = i.id
    <3> DEFINE w == Remove(v, i.id, Now(m))
    <3>1. /\ w.items = But(v.items, i.id)
          /\ \/ w.graves = v.graves
             \/ w.graves = But(v.graves, i.id) \cup {[id |-> i.id, at |-> Now(m)]}
      BY <1>1, <2>2, RemoveIs
    <3> HIDE DEF w
    <3> QED BY <2>3, <3>1 DEF But, w
  <2>5. Versions' \subseteq S
    <3>1. \A g \in vault'[m].graves : Version(g.id, 0) \in S
      BY <2>2, <2>4, VersionsAre
    <3>2. \A j \in vault'[m].items : Version(j.id, j.body) \in S
      BY <2>4, VersionsAre
    <3> QED BY <1>1, <3>1, <3>2, VersionsAre, VersionsFrom
  <2> QED BY <2>1, <2>2, <2>5 DEF Burial
<1> QED BY <1>2, <1>3, <1>4

LEMMA VersionsStep ==
  ASSUME Perils = {}, Versioned, [Next]_vars, \A m \in Machine : Local(m)
  PROVE  NoNewVersion \/ NewCopy \/ NewItem \/ NewBody \/ Burial
<1>1. CASE Purge \/ Tick \/ UNCHANGED vars
  <2>1. /\ UNCHANGED <<vault, disk, sync, ids, bodies, current, buried>>
        /\ server'.recs \subseteq server.recs /\ ids \in Nat
    BY <1>1 DEF Purge, Tick, vars, Versioned, TypeOK, historyVars
  <2>2. \A m \in Machine : VersionsAt(m)' = VersionsAt(m)
    BY <2>1 DEF VersionsAt
  <2>3. Versions' \subseteq Versions
    BY <2>1, <2>2 DEF Versions
  <2> QED BY <2>1, <2>3 DEF NoNewVersion
<1>2. ASSUME NEW m \in Machine, At(m)
      PROVE  NoNewVersion \/ NewCopy \/ NewItem \/ NewBody \/ Burial
  BY <1>2, ApplyVersions, SyncVersions, UserVersions DEF At, SyncStep
<1> QED BY <1>1, <1>2 DEF Next, At

LEMMA SoundStep ==
  ASSUME Versioned, TypeOK', NoNewVersion \/ NewCopy \/ NewItem \/ NewBody \/ Burial
  PROVE  SoundVersions' /\ CopiesStay'
<1>0. /\ ids \in Nat /\ bodies \in Nat
      /\ \A id \in buried : id \in Nat
      /\ \A w \in current : w.id \in Nat /\ w.body \in Nat
  BY BoundAssumption DEF Versioned, TypeOK, Id
<1>1. \A x \in Versions : x.id \in Nat /\ x.body \in Nat
  <2>1. ASSUME NEW v \in Vault, NEW x \in VersionsOf(v) PROVE x.id \in Nat /\ x.body \in Nat
    BY <2>1 DEF VersionsOf, Version, Vault, Item, Grave, Id
  <2>2. ASSUME NEW r \in Record PROVE Version(r.id, r.body).id \in Nat /\ Version(r.id, r.body).body \in Nat
    BY DEF Version, Record, Id
  <2>3. /\ vault \in [Machine -> Vault] /\ disk \in [Machine -> Vault] /\ server.recs \in SUBSET Record
        /\ \A m \in Machine : sync[m].page \cup sync[m].doing \cup sync[m].out \in SUBSET Record
    BY DEF Versioned, TypeOK, Vault
  <2> QED BY <2>1, <2>2, <2>3 DEF Versions, VersionsAt
<1>2. SoundVersions /\ CopiesStay
  BY DEF Versioned
<1>3. CASE NoNewVersion
  <2>1. Versions' \subseteq Versions /\ ids <= ids' /\ UNCHANGED <<bodies, current, buried>>
    BY <1>3 DEF NoNewVersion
  <2>2. ids' \in Nat
    BY BoundAssumption DEF TypeOK
  <2>3. SoundVersions'
    BY <1>0, <1>1, <1>2, <2>1, <2>2 DEF SoundVersions
  <2>4. CopiesStay'
    BY <1>2, <2>1 DEF CopiesStay
  <2> QED BY <2>3, <2>4
<1>4. CASE NewCopy
  <2>1. PICK x \in Versions :
          /\ x.body # 0
          /\ Versions' \subseteq Versions \cup {Version(ids + 1, x.body)}
          /\ ids' = ids + 1 /\ UNCHANGED <<bodies, current, buried>>
    BY <1>4 DEF NewCopy
  <2>2. SoundVersions'
    BY <1>0, <1>1, <1>2, <2>1 DEF SoundVersions, Version
  <2>3. CopiesStay'
    <3> SUFFICES ASSUME NEW w \in current, NEW y \in Versions', NEW z \in Versions',
                        y.body = w.body, y.id # w.id, z.id = y.id
                 PROVE  z.body = y.body
      BY <2>1 DEF CopiesStay
    <3>1. \A u \in Versions : u.id <= ids /\ u.id \in Nat
      BY <1>1, <1>2 DEF SoundVersions
    <3>2. CASE y \in Versions /\ z \in Versions
      BY <1>2, <3>2 DEF CopiesStay
    <3>3. CASE y = Version(ids + 1, x.body)
      BY <1>0, <2>1, <3>1, <3>3 DEF Version
    <3>4. CASE z = Version(ids + 1, x.body)
      BY <1>0, <2>1, <3>1, <3>4 DEF Version
    <3> QED BY <2>1, <3>2, <3>3, <3>4
  <2> QED BY <2>2, <2>3
<1>5. CASE NewItem
  <2> DEFINE new == Version(ids + 1, bodies + 1)
  <2>1. /\ Versions' \subseteq Versions \cup {new} /\ current' = current \cup {new}
        /\ ids' = ids + 1 /\ bodies' = bodies + 1 /\ buried' = buried
        /\ new.id = ids + 1 /\ new.body = bodies + 1
    BY <1>5 DEF NewItem, Version
  <2> HIDE DEF new
  <2>2. SoundVersions'
    BY <1>0, <1>1, <1>2, <2>1 DEF SoundVersions
  <2>3. CopiesStay'
    <3> SUFFICES ASSUME NEW w \in current', NEW y \in Versions', NEW z \in Versions',
                        y.body = w.body, y.id # w.id, z.id = y.id
                 PROVE  z.body = y.body
      BY DEF CopiesStay
    <3>1. \A u \in Versions : u.id <= ids /\ u.body <= bodies /\ u.id \in Nat /\ u.body \in Nat
      BY <1>1, <1>2 DEF SoundVersions
    <3>2. \A u \in current : u.body <= bodies
      BY <1>2 DEF SoundVersions
    <3>3. y # new /\ w \in current
      BY <1>0, <2>1, <3>1, <3>2
    <3>4. z # new
      BY <1>0, <2>1, <3>1, <3>3
    <3> QED BY <1>2, <2>1, <3>3, <3>4 DEF CopiesStay
  <2> QED BY <2>2, <2>3
<1>6. CASE NewBody
  <2>1. PICK x \in Versions :
          /\ x.body # 0
          /\ Versions' \subseteq Versions \cup {Version(x.id, bodies + 1)}
          /\ current' = {w \in current : w.body # x.body} \cup {Version(x.id, bodies + 1)}
          /\ ids' = ids /\ bodies' = bodies + 1 /\ buried' = buried
    BY <1>6 DEF NewBody
  <2> DEFINE new == Version(x.id, bodies + 1)
  <2>2. new.id = x.id /\ new.body = bodies + 1
    BY DEF Version
  <2> HIDE DEF new
  <2>3. SoundVersions'
    BY <1>0, <1>1, <1>2, <2>1, <2>2 DEF SoundVersions, new
  <2>4. CopiesStay'
    <3> SUFFICES ASSUME NEW w \in current', NEW y \in Versions', NEW z \in Versions',
                        y.body = w.body, y.id # w.id, z.id = y.id
                 PROVE  z.body = y.body
      BY DEF CopiesStay
    <3>1. \A u \in Versions : u.body <= bodies /\ u.body \in Nat
      BY <1>1, <1>2 DEF SoundVersions
    <3>2. \A u \in current : u.body <= bodies
      BY <1>2 DEF SoundVersions
    <3>3. y \in Versions
      BY <1>0, <2>1, <2>2, <3>2 DEF new
    <3>4. w \in current /\ w.body # x.body
      BY <1>0, <2>1, <2>2, <3>1, <3>3 DEF new
    <3>5. y.id = x.id => y.body = x.body
      BY <1>2, <2>1, <3>3, <3>4 DEF CopiesStay
    <3>6. z \in Versions
      BY <2>1, <2>2, <3>4, <3>5 DEF new
    <3> QED BY <1>2, <3>3, <3>4, <3>6 DEF CopiesStay
  <2> QED BY <2>3, <2>4
<1>7. CASE Burial
  <2>1. PICK x \in Versions :
          /\ x.body # 0
          /\ Versions' \subseteq Versions \cup {Version(x.id, 0)}
          /\ current' = {w \in current : w.body # x.body}
          /\ ids' = ids /\ bodies' = bodies /\ buried' = buried \cup {x.id}
    BY <1>7 DEF Burial
  <2> DEFINE new == Version(x.id, 0)
  <2>2. new.id = x.id /\ new.body = 0
    BY DEF Version
  <2> HIDE DEF new
  <2>3. SoundVersions'
    BY <1>0, <1>1, <1>2, <2>1, <2>2 DEF SoundVersions, new
  <2>4. CopiesStay'
    <3> SUFFICES ASSUME NEW w \in current, w.body # x.body, NEW y \in Versions', NEW z \in Versions',
                        y.body = w.body, y.id # w.id, z.id = y.id
                 PROVE  z.body = y.body
      BY <2>1 DEF CopiesStay
    <3>1. y \in Versions
      BY <1>2, <2>1, <2>2 DEF SoundVersions, new
    <3>2. y.id = x.id => y.body = x.body
      BY <1>2, <2>1, <3>1 DEF CopiesStay
    <3>3. z \in Versions
      BY <2>1, <2>2, <3>1, <3>2 DEF new
    <3> QED BY <1>2, <3>1, <3>3 DEF CopiesStay
  <2> QED BY <2>3, <2>4
<1> QED BY <1>3, <1>4, <1>5, <1>6, <1>7

LEMMA BroughtOnce ==
  ASSUME Versioned, NEW m \in Machine, SyncShape(m)
  PROVE  OnePer(Brought(m))
<1>1. OnePer(sync[m].out)
  BY DEF SyncShape
<1> DEFINE Sent(o) == [o EXCEPT !.rev = server.rev + 1, !.written = clock]
<1>2. \A o \in sync[m].out : Sent(o).id = o.id
  BY DEF Versioned, TypeOK, Record
<1>3. \A r \in Brought(m) : \E o \in sync[m].out : r = Sent(o)
  BY DEF Brought
<1> HIDE DEF Sent
<1> QED BY <1>1, <1>2, <1>3 DEF OnePer

LEMMA RecordsStep ==
  ASSUME Perils = {}, Versioned, [Next]_vars, \A m \in Machine : Local(m)
  PROVE  /\ OneRecordEach'
         /\ \A r \in server'.recs : r.dead <=> r.body = 0
<1>0. /\ OneRecordEach /\ server.rev \in Nat /\ \A r \in server.recs : r.rev \in Nat
      /\ \A r \in server.recs : r.dead <=> r.body = 0
  BY DEF Versioned, TypeOK, Record, DeadIsEmpty
<1>1. CASE server'.rev = server.rev /\ server'.recs \subseteq server.recs
  BY <1>0, <1>1 DEF OneRecordEach, OnePer
<1>2. ASSUME NEW m \in Machine, Push(m)
      PROVE  /\ OneRecordEach'
             /\ \A r \in server'.recs : r.dead <=> r.body = 0
  <2>1. sync[m].pc = "push" /\ SyncShape(m)
    BY <1>2 DEF Push, Local
  <2>2. CASE /\ server'.rev = server.rev + 1
             /\ server'.recs = {r \in server.recs : Of(sync[m].out, r.id) = {}} \cup Brought(m)
    <3>1. ASSUME NEW r \in Brought(m)
          PROVE  /\ r.rev = server.rev + 1 /\ (r.dead <=> r.body = 0)
                 /\ \E o \in sync[m].out : o.id = r.id
      BY <1>2, <3>1, BroughtIs DEF Versioned, DeadIsEmpty
    <3>2. OnePer(Brought(m))
      BY <2>1, BroughtOnce
    <3>3. OnePer(server'.recs)
      BY <1>0, <2>2, <3>1, <3>2 DEF OneRecordEach, OnePer, Of
    <3> QED BY <1>0, <2>2, <3>1, <3>3 DEF OneRecordEach
  <2>3. CASE UNCHANGED server
    BY <1>1, <2>3
  <2> QED BY <1>2, <2>2, <2>3, PushIs DEF Versioned
<1>3. CASE Purge
  BY <1>1, <1>3 DEF Purge, Versioned, TypeOK
<1>4. ASSUME NEW m \in Machine, At(m), ~Push(m) PROVE server' = server
  BY <1>4 DEF At, SyncStep, Begin, PullItems, PullRevision, Decide, Collect, Apply, End, Lost, Relock,
        Add, Edit, Delete
<1>5. CASE Tick \/ UNCHANGED vars
  BY <1>1, <1>5 DEF Tick, vars
<1> QED BY <1>1, <1>2, <1>3, <1>4, <1>5 DEF Next, At

\* Only what is recorded as deleted is empty.
LEMMA DeadHere ==
  ASSUME Perils = {}, Versioned, TypeOK', [Next]_vars, \A m \in Machine : Local(m),
         NEW m \in Machine
  PROVE  /\ \A i \in vault'[m].items : i.body # 0
         /\ \A r \in sync'[m].page \cup sync'[m].doing \cup sync'[m].out :
              r.dead <=> r.body = 0
<1>0. bodies \in Nat
  BY BoundAssumption DEF Versioned, TypeOK
<1>1. /\ \A r \in server.recs : r.dead <=> r.body = 0
      /\ \A i \in vault[m].items : i.body # 0
      /\ \A r \in sync[m].page \cup sync[m].doing \cup sync[m].out : r.dead <=> r.body = 0
  BY DEF Versioned, DeadIsEmpty
<1>2. CASE Relock(m)
  <2>1. vault'[m] = disk[m] /\ sync'[m] \in {sync[m], Idle}
    BY <1>2, ReopenedOn DEF Versioned
  <2>2. \A i \in disk[m].items : i.body # 0
    BY DEF Versioned, DeadIsEmpty
  <2> QED BY <1>1, <2>1, <2>2 DEF Idle
<1>3. CASE vault'[m] = vault[m] /\ sync'[m] = sync[m]
  BY <1>1, <1>3
<1>4. ASSUME vault'[m].items = vault[m].items,
             \A r \in sync'[m].page \cup sync'[m].doing :
               r \in sync[m].page \cup sync[m].doing \/ r \in server.recs,
             \A r \in sync'[m].out : r \in sync[m].out \/ (r.dead <=> r.body = 0)
      PROVE  /\ \A i \in vault'[m].items : i.body # 0
             /\ \A r \in sync'[m].page \cup sync'[m].doing \cup sync'[m].out :
                         r.dead <=> r.body = 0
  BY <1>1, <1>4
<1>5. CASE \/ Begin(m) \/ PullRevision(m) \/ PullItems(m) \/ Push(m) \/ End(m)
           \/ Lost(m)
  <2>1. vault'[m].items = vault[m].items
    <3>1. CASE End(m)
      BY <3>1 DEF End, Versioned, TypeOK
    <3> QED BY <1>5, <3>1 DEF Begin, PullRevision, PullItems, Push, Lost
  <2>2. \/ sync'[m] \in {sync[m], Idle}
        \/ sync'[m] = [Idle EXCEPT !.pc = "items",
                         !.since = vault[m].rev, !.synced = vault[m].synced]
        \/ sync'[m] = [sync[m] EXCEPT !.pc = "decide", !.rev = server.rev]
        \/ sync'[m] = [sync[m] EXCEPT !.pc = "revision",
                         !.page = {r \in server.recs : r.rev > sync[m].since}]
        \/ sync'[m] = [sync[m] EXCEPT !.pc = "end", !.rev = @ + 1, !.out = {}]
    <3>0. sync \in [Machine -> Step]
      BY SyncIs DEF Versioned
    <3>1. CASE Push(m)
      <4>1. \/ sync' = [sync EXCEPT ![m] = Idle]
            \/ sync' = [sync EXCEPT ![m] = [sync[m] EXCEPT !.pc = "end", !.rev = @ + 1, !.out = {}]]
        BY <3>1, PushIs DEF Versioned
      <4> QED BY <3>0, <4>1
    <3>2. CASE Begin(m) \/ PullRevision(m) \/ PullItems(m)
      BY <3>0, <3>2 DEF Begin, PullRevision, PullItems, Do
    <3>3. CASE End(m) \/ Lost(m)
      BY <3>0, <3>3 DEF End, Lost, Do
    <3> QED BY <1>5, <3>1, <3>2, <3>3
  <2>3. sync[m] \in Step
    BY DEF Versioned, TypeOK, Step
  <2>4. CASE sync'[m] \in {sync[m], Idle}
    BY <1>4, <2>1, <2>4 DEF Idle
  <2>5. CASE sync'[m] = [Idle EXCEPT !.pc = "items",
                         !.since = vault[m].rev, !.synced = vault[m].synced]
    BY <1>4, <2>1, <2>5 DEF Idle
  <2>6. CASE sync'[m] = [sync[m] EXCEPT !.pc = "decide", !.rev = server.rev]
    BY <1>4, <2>1, <2>3, <2>6 DEF Step
  <2>7. CASE sync'[m] = [sync[m] EXCEPT !.pc = "revision",
                         !.page = {r \in server.recs : r.rev > sync[m].since}]
    BY <1>4, <2>1, <2>3, <2>7 DEF Step
  <2>8. CASE sync'[m] = [sync[m] EXCEPT !.pc = "end", !.rev = @ + 1, !.out = {}]
    BY <1>4, <2>1, <2>3, <2>8 DEF Step
  <2> QED BY <2>2, <2>4, <2>5, <2>6, <2>7, <2>8
<1>6. CASE Decide(m)
  <2>1. First(sync[m].page) \in sync[m].page
    BY <1>6, FirstIsOfThePage DEF Decide, Versioned, TypeOK
  <2>2. /\ sync'[m].page \cup sync'[m].doing \subseteq sync[m].page
        /\ sync'[m].out = sync[m].out
    <3>1. PICK c : sync'[m] = [sync[m] EXCEPT !.pc = "apply", !.page = @ \ {First(sync[m].page)},
                                              !.doing = {First(sync[m].page)}, !.choice = c]
      BY <1>6 DEF Decide, Do, Versioned, TypeOK
    <3>2. sync[m] \in Step
      BY DEF Versioned, TypeOK, Step
    <3>3. /\ sync'[m].page = sync[m].page \ {First(sync[m].page)}
          /\ sync'[m].doing = {First(sync[m].page)} /\ sync'[m].out = sync[m].out
      BY <3>1, <3>2 DEF Step
    <3> QED BY <2>1, <3>3
  <2>3. vault' = vault
    BY <1>6 DEF Decide
  <2> QED BY <1>4, <2>2, <2>3
<1>7. CASE Collect(m)
  <2>1. /\ sync'[m].page = sync[m].page /\ sync'[m].doing = sync[m].doing
        /\ sync'[m].out = ToPush(vault[m], sync[m].synced) /\ vault' = vault
    BY <1>7 DEF Collect, Do, Versioned, TypeOK
  <2>2. \A r \in sync'[m].out : r.dead <=> r.body = 0
    BY <1>1, <2>1 DEF ToPush, Live, Dead
  <2> QED BY <1>4, <2>1, <2>2
<1>8. CASE Apply(m)
  <2>1. PICK p \in Record : /\ sync[m].doing = {p}
                            /\ Applied(vault[m], vault'[m], p, ids + 1)
    BY <1>8, ApplyIs
  <2>2. p.dead <=> p.body = 0
    BY <1>1, <2>1
  <2>3. \A i \in vault'[m].items : i.body # 0
    BY <1>1, <2>1, <2>2 DEF Applied
  <2>4. sync'[m].page = sync[m].page /\ sync'[m].doing = {} /\ sync'[m].out = sync[m].out
    BY <1>8 DEF Apply, Do, Versioned, TypeOK
  <2> QED BY <1>1, <2>3, <2>4
<1>9. CASE Add(m) \/ Edit(m) \/ Delete(m)
  <2>1. vault[m] \in Vault /\ Now(m) \in Nat /\ sync' = sync
    BY <1>9, NowIs DEF Add, Edit, Delete, Versioned, TypeOK, Vault
  <2>2. \A i \in vault'[m].items : i \in vault[m].items \/ i.body = bodies + 1
    <3>1. CASE Add(m)
      <4>1. vault'[m] = Upsert(vault[m], [id |-> ids', body |-> bodies', at |-> Now(m)])
            /\ bodies' = bodies + 1
        BY <3>1 DEF Add, Save, Versioned, TypeOK
      <4>2. vault'[m].items = But(vault[m].items, ids')
                                \cup {[id |-> ids', body |-> bodies', at |-> Now(m)]}
        BY <2>1, <4>1 DEF Upsert, Vault
      <4> QED BY <4>1, <4>2 DEF But
    <3>2. CASE Edit(m)
      <4>1. PICK i \in vault[m].items :
              vault'[m] = Upsert(vault[m], [i EXCEPT !.body = bodies', !.at = Now(m)])
        BY <3>2 DEF Edit, Save, Versioned, TypeOK
      <4> DEFINE item == [i EXCEPT !.body = bodies', !.at = Now(m)]
      <4>2. i \in Item /\ bodies' = bodies + 1
        BY <2>1, <3>2 DEF Edit, Vault
      <4>3. item.body = bodies + 1
        BY <4>2 DEF Item
      <4> HIDE DEF item
      <4>4. vault'[m].items = But(vault[m].items, item.id) \cup {item}
        BY <2>1, <4>1 DEF Upsert, Vault, item
      <4> QED BY <4>3, <4>4 DEF But
    <3>3. CASE Delete(m)
      <4>1. PICK i \in vault[m].items : vault'[m] = Remove(vault[m], i.id, Now(m))
        BY <3>3 DEF Delete, Save, Versioned, TypeOK
      <4>2. i.id \in Id
        BY <2>1 DEF Vault, Item
      <4>3. vault'[m].items = But(vault[m].items, i.id)
        BY <2>1, <4>1, <4>2, RemoveIs
      <4> QED BY <4>3 DEF But
    <3> QED BY <1>9, <3>1, <3>2, <3>3
  <2> QED BY <1>0, <1>1, <2>1, <2>2
<1>10. CASE \E q \in Machine : At(q) /\ q # m
  BY <1>3, <1>10, Elsewhere DEF Versioned
<1>11. CASE Purge \/ Tick \/ UNCHANGED vars
  BY <1>3, <1>11 DEF Purge, Tick, vars
<1> QED BY <1>2, <1>5, <1>6, <1>7, <1>8, <1>9, <1>10, <1>11 DEF Next, At, SyncStep

LEMMA DeadStep ==
  ASSUME Perils = {}, Versioned, TypeOK', [Next]_vars, \A m \in Machine : Local(m)
  PROVE  DeadIsEmpty'
<1>1. \A r \in server'.recs : r.dead <=> r.body = 0
  BY RecordsStep
<1>2. \A m \in Machine : \A i \in disk'[m].items : i.body # 0
  BY FileMoves, DeadHere DEF Versioned, DeadIsEmpty
<1> QED BY <1>1, <1>2, DeadHere DEF DeadIsEmpty

LEMMA VersionedStep ==
  ASSUME Perils = {}, Versioned, [Next]_vars, \A m \in Machine : Local(m)
  PROVE  Versioned'
<1>1. TypeOK'
  BY TypeStep DEF Versioned
<1>2. SoundVersions' /\ CopiesStay'
  BY <1>1, SoundStep, VersionsStep
<1>3. OneRecordEach' /\ DeadIsEmpty'
  BY <1>1, RecordsStep, DeadStep
<1> QED BY <1>1, <1>2, <1>3 DEF Versioned

LEMMA InitSeen == Init => SeenInv
<1> SUFFICES ASSUME Init PROVE SeenInv
  OBVIOUS
<1> DEFINE only == [id |-> 1, body |-> 1, at |-> 0]
           first == [Live(only) EXCEPT !.rev = 1]
<1>1. /\ server.rev = 1 /\ server.recs = {first}
      /\ ids = 1 /\ bodies = 1 /\ current = {[id |-> 1, body |-> 1]} /\ buried = {}
  <2>1. Shared.items = {only}
    BY DEF Shared
  <2>2. server.rev = 1 /\ server.recs = {[Live(i) EXCEPT !.rev = 1] : i \in Shared.items}
    BY DEF Init
  <2> HIDE DEF first, only
  <2>3. server.recs = {first}
    BY <2>1, <2>2 DEF first
  <2> QED BY <2>2, <2>3 DEF Init
<1>2. ASSUME NEW m \in Machine
      PROVE  /\ vault[m].items \subseteq {only} /\ vault[m].graves = {}
             /\ vault[m].rev \in {0, 1} /\ (vault[m].rev = 1 => vault[m].items = {only})
             /\ disk[m] = vault[m] /\ sync[m] = Idle
             /\ vault[m].synced \in Nat /\ vault[m].synced <= Now(m)
  <2>1. CASE m \in Joined
    BY <2>1, SkewAssumption DEF Init, Fresh, Now
  <2>2. CASE m \notin Joined
    BY <2>2, SkewAssumption DEF Init, Shared, Now
  <2> QED BY <2>1, <2>2
<1>3. first.id = 1 /\ first.body = 1 /\ first.rev = 1 /\ ~first.dead /\ only.id = 1 /\ only.body = 1
  BY DEF Live
<1> HIDE DEF first, only
<1>4. Versions \subseteq {Version(1, 1)}
  <2>1. \A m \in Machine : VersionsAt(m) \subseteq {Version(1, 1)}
    <3> TAKE m \in Machine
    <3>1. sync[m].page \cup sync[m].doing \cup sync[m].out = {}
      BY <1>2 DEF Idle
    <3>2. \A i \in vault[m].items : i = only
      BY <1>2
    <3> QED BY <1>2, <1>3, <3>1, <3>2 DEF VersionsAt, VersionsOf
  <2> QED BY <1>1, <1>3, <2>1 DEF Versions
<1>5. Versioned
  <2>1. SoundVersions /\ CopiesStay
    BY <1>1, <1>4 DEF SoundVersions, CopiesStay, Version
  <2>2. DeadIsEmpty
    BY <1>1, <1>2, <1>3 DEF DeadIsEmpty, Idle
  <2>3. OneRecordEach
    BY <1>1, <1>3 DEF OneRecordEach, OnePer
  <2> QED BY <2>1, <2>2, <2>3, InitType DEF Versioned
<1>6. ASSUME NEW m \in Machine PROVE Local(m) /\ Filed(m)
  <2>1. SyncShape(m)
    BY <1>1, <1>2 DEF SyncShape, OnePer, Pulling, Working, Idle
  <2>2. Pages(m) /\ Resolved(m)
    BY <1>2 DEF Pages, Resolved, Idle
  <2>3. Seen(m)
    BY <1>1, <1>2, <1>3 DEF Seen, Shown, Working, Idle
  <2>4. Filed(m)
    BY <1>2, <2>1 DEF Filed, SyncShape
  <2> QED BY <2>1, <2>2, <2>3, <2>4 DEF Local
<1> QED BY <1>5, <1>6 DEF SeenInv

LEMMA SeenStep ==
  ASSUME Perils = {}, SeenInv, [Next]_vars
  PROVE  SeenInv'
<1>1. Versioned'
  BY VersionedStep DEF SeenInv
<1>2. \A m \in Machine : Local(m)'
  BY <1>1, LocalStep DEF SeenInv, Versioned
<1>3. \A m \in Machine : Filed(m)'
  BY <1>1, <1>2, FiledStep DEF SeenInv, Versioned, Local
<1> QED BY <1>1, <1>2, <1>3 DEF SeenInv

-----------------------------------------------------------------------------
(* Each machine's agreement with the server, on what was not put at risk.  *)

\* Away from the record's id, a vault agrees with what it agreed with.
LEMMA AppliedElsewhere ==
  ASSUME NEW v \in Vault, NEW w, NEW p, NEW n, Applied(v, w, p, n),
         NEW r \in Record, r.id # p.id, r.id # n
  PROVE  \A t : Agrees(v, r, t) => Agrees(w, r, t)
<1>1. Has(v, r) => Has(w, r)
  BY DEF Applied, Has, Of
<1>2. ASSUME NEW t, Agrees(v, r, t) PROVE Agrees(w, r, t)
  BY <1>1, <1>2 DEF Applied, Agrees
<1> QED BY <1>2

LEMMA AloneBystander ==
  ASSUME Versioned, TypeOK', Growing, NEW m \in Machine, Local(m), Alone(m),
         vault'[m] = vault[m], sync'[m] = sync[m]
  PROVE  Alone(m)'
<1>1. /\ vault[m].rev \in Nat /\ sync[m].rev \in Nat /\ server.rev \in Nat
      /\ \A r \in server'.recs : r.rev \in Nat
  BY DEF Versioned, TypeOK, Record
<1>2. /\ vault[m].rev <= server.rev
      /\ sync[m].pc \in Working \cup {"end"} => sync[m].rev <= server.rev
  BY DEF Local, SyncShape
<1>3. \A r \in server'.recs :
        /\ r.rev <= vault[m].rev => r \in server.recs
        /\ sync[m].pc \in Working \cup {"end"} /\ r.rev <= sync[m].rev => r \in server.recs
  BY <1>1, <1>2 DEF Growing
<1>4. risked \subseteq risked'
  BY DEF Growing
<1>5. Decided(m)'
  BY <1>4 DEF Alone, Decided
<1>6. Agreement(m)'
  BY <1>3, <1>4 DEF Alone, Agreement, Pulling, Working
<1> QED BY <1>5, <1>6 DEF Alone

\* A sync that is given up, begun, or has pulled has decided nothing.
LEMMA AlonePulling ==
  ASSUME Versioned, TypeOK', NEW m \in Machine, Local(m), Alone(m),
         Begin(m) \/ PullItems(m) \/ PullRevision(m) \/ Lost(m)
  PROVE  Alone(m)'
<1>1. UNCHANGED <<server, risked>> /\ vault'[m] = vault[m]
  BY DEF Begin, PullItems, PullRevision, Lost, historyVars
<1>2. CASE PullRevision(m)
  <2>1. sync'[m].pc = "decide" /\ sync'[m].synced = sync[m].synced
        /\ sync[m].synced = vault[m].synced
    BY <1>2 DEF PullRevision, Do, Versioned, TypeOK, Local, SyncShape
  <2>2. \A r \in server.recs : r.rev <= vault[m].rev \/ r \in Pulling(m)'
    BY <1>2, PullRevisionStep
  <2> QED BY <1>1, <2>1, <2>2 DEF Alone, Decided, Agreement
<1>3. CASE sync'[m].pc \in {"idle", "items", "revision"}
  BY <1>1, <1>3 DEF Alone, Decided, Agreement, Working
<1>4. Begin(m) \/ PullItems(m) \/ Lost(m) => sync'[m].pc \in {"idle", "items", "revision"}
  <2>1. CASE Begin(m)
    BY <2>1 DEF Begin, Do, Idle, Versioned, TypeOK
  <2>2. CASE PullItems(m)
    BY <2>2, PullStep DEF Versioned
  <2>3. CASE Lost(m)
    BY <2>3 DEF Lost, Do, Idle, Versioned, TypeOK
  <2> QED BY <2>1, <2>2, <2>3
<1> QED BY <1>2, <1>3, <1>4

LEMMA AloneRelock ==
  ASSUME Perils = {}, Versioned, NEW m \in Machine, Local(m), Alone(m), Saved(m), Growing, Relock(m)
  PROVE  Alone(m)'
<1>1. /\ UNCHANGED server /\ vault'[m] = disk[m] /\ disk'[m] = disk[m]
      /\ sync'[m] = Idle \/ (sync'[m] = sync[m] /\ vault[m] = disk[m])
  BY ReopenedOn DEF Versioned
<1>2. risked \subseteq risked'
  BY DEF Growing
<1>3. CASE sync'[m] = sync[m] /\ vault[m] = disk[m]
  BY <1>1, <1>2, <1>3 DEF Alone, Decided, Agreement, Pulling
<1>4. CASE sync'[m] = Idle
  BY <1>1, <1>2, <1>4 DEF Saved, Alone, Decided, Agreement, Idle, Working
<1> QED BY <1>1, <1>3, <1>4

LEMMA AloneDecide ==
  ASSUME Versioned, NEW m \in Machine, Local(m), Alone(m), Decide(m)
  PROVE  Alone(m)'
<1>1. PICK r \in sync[m].page :
           /\ UNCHANGED <<server, vault>> /\ sync[m].pc = "decide"
           /\ sync'[m].pc = "apply" /\ sync'[m].doing = {r}
           /\ sync'[m].synced = sync[m].synced /\ sync'[m].rev = sync[m].rev
           /\ sync'[m].choice = Decision(vault[m], r, sync[m].synced)
           /\ Pulling(m)' = Pulling(m)
  BY DecidedOn DEF Local
<1>2. risked' = risked
  BY DEF Decide, historyVars
<1> QED BY <1>1, <1>2 DEF Alone, Decided, Agreement, Working

LEMMA AloneApply ==
  ASSUME Versioned, NEW m \in Machine, Local(m), Alone(m), Apply(m)
  PROVE  Alone(m)'
<1> DEFINE s == sync[m]
           v == vault[m]
           w == vault'[m]
           n == ids + 1
<1>1. PICK p \in Record : /\ s.doing = {p} /\ Applied(v, w, p, n)
                          /\ p.id \notin risked => Settles(v, w, p, s.synced, n)
  BY ApplyIs DEF Alone
<1>2. /\ UNCHANGED <<server, risked>> /\ s.pc = "apply"
      /\ sync'[m] = [s EXCEPT !.pc = "decide", !.doing = {}, !.choice = "none"]
  BY DEF Apply, Do, Versioned, TypeOK, historyVars
<1>3. /\ sync'[m].pc = "decide" /\ sync'[m].page = s.page /\ sync'[m].doing = {}
      /\ sync'[m].synced = s.synced /\ sync'[m].rev = s.rev
  BY <1>2 DEF Versioned, TypeOK
<1>4. SyncShape(m) /\ Pages(m) /\ Agreement(m)
  BY DEF Local, Alone
<1>5. Pulling(m)' = Pulling(m) \ {p} /\ p \in Pulling(m)
  BY <1>1, <1>2, <1>3, <1>4 DEF SyncShape, Pulling
<1>6. w.rev = v.rev /\ w.synced = v.synced /\ s.since = v.rev /\ s.synced = v.synced
  BY <1>1, <1>2, <1>4 DEF Applied, SyncShape
<1>7. /\ v \in Vault /\ ids \in Nat /\ v.rev \in Nat /\ s.rev \in Nat /\ s.since <= s.rev
      /\ p.rev > s.since /\ p.rev \in Nat
      /\ \A r \in server.recs : r \in Record /\ r.rev \in Nat /\ r.id \in Nat
  BY <1>2, <1>4, <1>5 DEF Versioned, TypeOK, Vault, Record, Id, SyncShape, Working
<1>8. \A r \in server.recs : r.id = p.id /\ r.rev <= s.rev => r = p
  BY <1>2, <1>4, <1>5, <1>7 DEF Pages
<1>9. \A r \in server.recs : r.id # n
  BY <1>7, SoundIs
<1>10. \A r \in server.recs : r.id # p.id => \A t : Agrees(v, r, t) => Agrees(w, r, t)
  BY <1>1, <1>7, <1>9, AppliedElsewhere
<1>11. \A r \in server.recs : r.rev <= v.rev => r.id # p.id
  BY <1>6, <1>7, <1>8
<1>12. ASSUME NEW r \in server.recs, r.id \notin risked, r.rev <= v.rev
       PROVE  Agrees(w, r, w.synced)
  <2>1. Agrees(v, r, v.synced)
    BY <1>4, <1>12 DEF Agreement
  <2> QED BY <1>6, <1>10, <1>11, <1>12, <2>1
<1>13. ASSUME NEW r \in server.recs, r.id \notin risked, r.rev <= s.rev
       PROVE  r \in Pulling(m)' \/ Agrees(w, r, s.synced)
  <2>1. r \in Pulling(m) \/ Agrees(v, r, s.synced)
    BY <1>2, <1>4, <1>13 DEF Agreement, Working
  <2>2. CASE r.id = p.id
    BY <1>1, <1>8, <1>13, <2>2 DEF Settles
  <2>3. CASE r.id # p.id
    BY <1>5, <1>10, <2>1, <2>3
  <2> QED BY <2>2, <2>3
<1>14. Agreement(m)'
  BY <1>2, <1>3, <1>6, <1>12, <1>13 DEF Agreement
<1> QED BY <1>3, <1>14 DEF Alone, Decided

LEMMA AloneCollect ==
  ASSUME Versioned, NEW m \in Machine, Local(m), Alone(m), Collect(m)
  PROVE  Alone(m)'
<1> DEFINE s == sync[m]
           v == vault[m]
           out == ToPush(v, s.synced)
<1>1. /\ UNCHANGED <<server, vault, risked>> /\ s.pc = "decide" /\ s.page = {}
      /\ sync'[m] = [s EXCEPT !.pc = IF out = {} THEN "end" ELSE "push", !.out = out]
  BY DEF Collect, Do, Versioned, TypeOK, historyVars
<1>2. /\ sync'[m].pc = (IF out = {} THEN "end" ELSE "push") /\ sync'[m].out = out
      /\ sync'[m].synced = s.synced /\ sync'[m].rev = s.rev
  BY <1>1 DEF Versioned, TypeOK
<1> HIDE DEF out
<1>3. Agreement(m) /\ Pulling(m) = {}
  BY <1>1 DEF Alone, Local, SyncShape, Pulling
<1>4. \A r \in server.recs : r.id \notin risked /\ r.rev <= s.rev =>
        Agrees(v, r, s.synced) /\ (out = {} => Has(v, r))
  BY <1>1, <1>3, NothingToPush DEF Agreement, Working, out
<1>5. Agreement(m)'
  BY <1>1, <1>2, <1>3, <1>4 DEF Agreement, Working
<1>6. Decided(m)'
  <2>1. sync'[m].pc = "push" =>
          sync'[m].out = ToPush(vault'[m], sync'[m].synced)
    BY <1>1, <1>2 DEF out
  <2>2. sync'[m].pc # "apply"
    BY <1>2
  <2> QED BY <2>1, <2>2 DEF Decided
<1> QED BY <1>5, <1>6 DEF Alone

\* What a machine pushes is what it has.
LEMMA BroughtIsHere ==
  ASSUME Versioned, NEW m \in Machine, SyncShape(m), Decided(m), sync[m].pc = "push",
         NEW r \in Brought(m), r.id \notin risked
  PROVE  /\ r \in Record /\ r.rev = server.rev + 1
         /\ Has(vault[m], r)
         /\ \/ /\ ~r.dead
               /\ \E i \in vault[m].items : i.id = r.id /\ i.body = r.body
                                            /\ i.at > vault[m].synced
            \/ r.dead /\ \E g \in vault[m].graves : g.id = r.id
         /\ \E o \in sync[m].out : o.id = r.id /\ o.body = r.body /\ o.dead = r.dead
<1>1. PICK o \in sync[m].out :
           /\ r \in Record
           /\ r.id = o.id /\ r.dead = o.dead /\ r.body = o.body /\ r.rev = server.rev + 1
  BY BroughtIs DEF Versioned
<1>2. o \in ToPush(vault[m], vault[m].synced)
  BY <1>1 DEF SyncShape, Decided
<1>3. CASE \E i \in vault[m].items : i.at > vault[m].synced /\ o = Live(i)
  <2>1. PICK i \in vault[m].items : i.at > vault[m].synced /\ o = Live(i)
    BY <1>3
  <2>2. ~r.dead /\ r.id = i.id /\ r.body = i.body
    BY <1>1, <2>1 DEF Live
  <2> QED BY <1>1, <2>1, <2>2 DEF Has
<1>4. CASE \E g \in vault[m].graves : g.at > vault[m].synced /\ o = Dead(g)
  <2>1. PICK g \in vault[m].graves : o = Dead(g)
    BY <1>4
  <2>2. r.dead /\ r.id = g.id
    BY <1>1, <2>1 DEF Dead
  <2>3. Of(vault[m].items, r.id) = {}
    BY <2>2 DEF SyncShape, Of
  <2> QED BY <1>1, <2>2, <2>3 DEF Has
<1>5. \/ \E i \in vault[m].items : i.at > vault[m].synced /\ o = Live(i)
      \/ \E g \in vault[m].graves : g.at > vault[m].synced /\ o = Dead(g)
  BY <1>2 DEF ToPush
<1> QED BY <1>3, <1>4, <1>5

LEMMA AlonePush ==
  ASSUME Versioned, NEW m \in Machine, Local(m), Alone(m), Push(m)
  PROVE  Alone(m)'
<1> DEFINE s == sync[m]
           v == vault[m]
<1>1. UNCHANGED <<vault, risked>> /\ s.pc = "push"
  BY DEF Push, historyVars
<1>2. SyncShape(m) /\ Decided(m) /\ Agreement(m)
  BY DEF Local, Alone
<1>3. sync'[m] = Idle \/ sync'[m].pc = "end"
  <2>1. sync \in [Machine -> Step]
    BY DEF Versioned, TypeOK, Step
  <2>2. \/ sync' = [sync EXCEPT ![m] = [s EXCEPT !.pc = "end", !.rev = @ + 1, !.out = {}]]
        \/ sync' = [sync EXCEPT ![m] = Idle]
    BY PushIs DEF Versioned
  <2> QED BY <2>1, <2>2 DEF Step
<1>4. CASE UNCHANGED server /\ sync' = [sync EXCEPT ![m] = Idle]
  <2>1. sync'[m] = Idle
    BY <1>4 DEF Versioned, TypeOK
  <2> QED BY <1>1, <1>2, <1>4, <2>1 DEF Alone, Decided, Agreement, Working, Idle
<1>5. ASSUME /\ s.rev = server.rev
             /\ server'.recs = {r \in server.recs : Of(s.out, r.id) = {}} \cup Brought(m)
      PROVE  Alone(m)'
  <2>1. /\ s.synced = v.synced /\ Pulling(m) = {}
        /\ \A o \in ToPush(v, v.synced) : o.id \notin risked => o \in s.out
    BY <1>1, <1>2 DEF SyncShape, Decided, Pulling
  <2>2. \A r \in Brought(m) : r.id \notin risked => Has(v, r)
    BY <1>1, <1>2, BroughtIsHere
  <2>3. ASSUME NEW r \in server.recs, Of(s.out, r.id) = {}, r.id \notin risked PROVE Has(v, r)
    <3>1. r.rev <= s.rev
      BY <1>5 DEF Versioned, OneRecordEach
    <3>2. Agrees(v, r, v.synced)
      BY <1>1, <1>2, <2>1, <2>3, <3>1 DEF Agreement, Working
    <3>3. \A i \in v.items : i.at > v.synced => i.id # r.id
      <4> TAKE i \in v.items
      <4>1. i.at > v.synced => Live(i) \in ToPush(v, v.synced)
        BY NothingToPush
      <4>2. Live(i).id = i.id
        BY DEF Live
      <4> QED BY <2>1, <2>3, <4>1, <4>2 DEF Of
    <3>4. \A g \in v.graves : g.at > v.synced => g.id # r.id
      <4> TAKE g \in v.graves
      <4>1. g.at > v.synced => Dead(g) \in ToPush(v, v.synced)
        BY NothingToPush
      <4>2. Dead(g).id = g.id
        BY DEF Dead
      <4> QED BY <2>1, <2>3, <4>1, <4>2 DEF Of
    <3> QED BY <3>2, <3>3, <3>4 DEF Agrees
  <2>4. \A r \in server'.recs : r.id \notin risked => Has(v, r)
    BY <1>5, <2>2, <2>3
  <2>5. sync'[m].pc \in {"idle", "end"}
    BY <1>3 DEF Idle
  <2>6. Agreement(m)' /\ Decided(m)'
    BY <1>1, <2>4, <2>5 DEF Agreement, Agrees, Decided, Working
  <2> QED BY <2>6 DEF Alone
<1> QED BY <1>4, <1>5, PushIs DEF Versioned

LEMMA AloneEnd ==
  ASSUME Versioned, NEW m \in Machine, Local(m), Alone(m), End(m)
  PROVE  Alone(m)'
<1>0. risked' = risked
  BY DEF End, historyVars
<1>1. \A r \in server.recs : r.id \notin risked /\ r.rev <= vault'[m].rev => Has(vault'[m], r)
  BY EndedOn DEF Alone, Agreement, Has
<1>2. Agreement(m)'
  BY <1>0, <1>1, EndedOn DEF Agreement, Agrees, Idle, Working
<1>3. Decided(m)'
  BY EndedOn DEF Decided, Idle
<1> QED BY <1>2, <1>3 DEF Alone

LEMMA AloneUser ==
  ASSUME Versioned, NEW m \in Machine, Local(m), Alone(m), Growing,
         Add(m) \/ Edit(m) \/ Delete(m)
  PROVE  Alone(m)'
<1> DEFINE v == vault[m]
           w == vault'[m]
           s == sync[m]
<1>1. PICK c : Changes(m, c)
  BY AddChanges, EditChanges, DeleteChanges DEF Local
<1>2. risked \subseteq risked' /\ sync' = sync /\ server' = server /\ w.rev = v.rev /\ w.synced = v.synced
  BY <1>1 DEF Growing, Changes
<1>3. c \notin risked' => s.pc = "idle" /\ v.synced < Now(m)
  BY <1>1 DEF Changes, Quiet
<1>4. ASSUME NEW r \in server.recs, r.id # c
      PROVE  /\ Has(v, r) => Has(w, r)
             /\ \A t : Agrees(v, r, t) => Agrees(w, r, t)
  <2>1. Has(v, r) => Has(w, r)
    BY <1>1, <1>4 DEF Changes, Has, Of
  <2> QED BY <1>1, <1>4, <2>1 DEF Changes, Agrees
<1>5. ASSUME NEW r \in server.recs, r.id = c, c \notin risked' PROVE Agrees(w, r, v.synced)
  <2>1. v.synced \in Nat /\ Now(m) \in Nat
    BY NowIs DEF Versioned, TypeOK
  <2> QED BY <1>1, <1>3, <1>5, <2>1 DEF Changes, Agrees
<1>6. Agreement(m)'
  <2> SUFFICES ASSUME NEW r \in server.recs, r.id \notin risked'
               PROVE  /\ r.rev <= v.rev => Agrees(w, r, v.synced)
                      /\ s.pc \in Working /\ r.rev <= s.rev =>
                           r \in Pulling(m) \/ Agrees(w, r, s.synced)
                      /\ s.pc = "end" /\ r.rev <= s.rev => Has(w, r)
    BY <1>2 DEF Agreement, Pulling
  <2>1. CASE r.id = c
    BY <1>3, <1>5, <2>1 DEF Working
  <2>2. CASE r.id # c
    <3>1. r.id \notin risked
      BY <1>2
    <3>2. /\ r.rev <= v.rev => Agrees(v, r, v.synced)
          /\ s.pc \in Working /\ r.rev <= s.rev => r \in Pulling(m) \/ Agrees(v, r, s.synced)
          /\ s.pc = "end" /\ r.rev <= s.rev => Has(v, r)
      BY <3>1 DEF Alone, Agreement
    <3> QED BY <1>4, <2>2, <3>2
  <2> QED BY <2>1, <2>2
<1>7. ASSUME NEW r \in s.doing, r.id \notin risked', s.pc = "apply"
      PROVE  s.choice = Decision(w, r, s.synced)
  <2>1. r.id # c /\ r.id \notin risked
    BY <1>2, <1>3, <1>7
  <2>2. Of(w.items, r.id) = Of(v.items, r.id) /\ Of(w.graves, r.id) = Of(v.graves, r.id)
    BY <1>1, <2>1 DEF Changes, Of
  <2>3. s.choice = Decision(v, r, s.synced)
    BY <1>7, <2>1 DEF Alone, Decided
  <2> QED BY <2>2, <2>3 DEF Decision
<1>8. ASSUME NEW o, o.id # c
      PROVE  o \in ToPush(w, s.synced) <=> o \in ToPush(v, s.synced)
  <2>1. \A i : Live(i).id = i.id /\ Dead(i).id = i.id
    BY DEF Live, Dead
  <2> QED BY <1>1, <1>8, <2>1 DEF Changes, ToPush
<1>9. ASSUME s.pc = "push", NEW o \in s.out \cup ToPush(w, s.synced), o.id \notin risked'
      PROVE  o \in s.out \cap ToPush(w, s.synced)
  <2>1. o.id # c /\ o.id \notin risked
    BY <1>2, <1>3, <1>9
  <2>2. o \in s.out \cup ToPush(v, s.synced)
    BY <1>8, <2>1
  <2>3. o \in s.out \cap ToPush(v, s.synced)
    BY <1>9, <2>1, <2>2 DEF Alone, Decided
  <2> QED BY <1>8, <2>1, <2>3
<1>10. Decided(m)'
  BY <1>2, <1>7, <1>9 DEF Decided
<1> QED BY <1>6, <1>10 DEF Alone

LEMMA AloneStep ==
  ASSUME Perils = {}, Versioned, TypeOK', [Next]_vars,
         \A m \in Machine : Local(m) /\ Alone(m) /\ Saved(m)
  PROVE  \A m \in Machine : Alone(m)'
<1>0. Growing
  BY StepGrows DEF Versioned
<1> SUFFICES ASSUME NEW m \in Machine PROVE Alone(m)'
  OBVIOUS
<1>1. CASE \E q \in Machine : At(q) /\ q # m
  BY <1>0, <1>1, Elsewhere, AloneBystander DEF Versioned
<1>2. CASE Purge \/ Tick \/ UNCHANGED vars
  <2>1. UNCHANGED <<vault, sync>>
    BY <1>2 DEF Purge, Tick, vars
  <2> QED BY <1>0, <2>1, AloneBystander
<1>3. CASE At(m)
  BY <1>0, <1>3, AlonePulling, AloneDecide, AloneApply, AloneCollect, AlonePush, AloneEnd,
     AloneUser, AloneRelock DEF At, SyncStep
<1> QED BY <1>1, <1>2, <1>3 DEF Next, At

LEMMA SavedStep ==
  ASSUME Perils = {}, Versioned, TypeOK', [Next]_vars, NEW m \in Machine,
         Local(m), Saved(m), Alone(m)'
  PROVE  Saved(m)'
<1>1. Growing
  BY StepGrows DEF Versioned
<1>2. disk'[m] \in {disk[m], vault'[m]}
  BY FileMoves
<1>3. /\ disk[m].rev <= server.rev /\ disk[m].rev \in Nat /\ server.rev \in Nat
      /\ \A r \in server'.recs : r.rev \in Nat
  BY DEF Local, SyncShape, Versioned, TypeOK, Record
<1>4. \A r \in server'.recs : r.rev <= disk[m].rev => r \in server.recs
  BY <1>1, <1>3 DEF Growing
<1>5. CASE disk'[m] = disk[m]
  BY <1>1, <1>4, <1>5 DEF Saved, Growing
<1>6. CASE disk'[m] = vault'[m]
  BY <1>6 DEF Saved, Alone, Agreement
<1> QED BY <1>2, <1>5, <1>6

-----------------------------------------------------------------------------
(* No write is lost.                                                       *)

\* A machine's own change, that no sync has taken to the server yet.
Unsent(m, w) ==
  /\ sync[m].pc # "end"
  /\ \E i \in vault[m].items : i.id = w.id /\ i.body = w.body /\ i.at > vault[m].synced

OnServer(w) == \E r \in server.recs : ~r.dead /\ r.body = w.body

\* A copy stays where it is, or makes way for itself.
LEMMA CopyIsSafe ==
  ASSUME Versioned, NEW m \in Machine, NEW p \in Record, sync[m].doing = {p},
         NEW w, Applied(vault[m], w, p, ids + 1),
         NEW b \in current, CopyIn(vault[m], b)
  PROVE  CopyIn(w, b)
<1>1. PICK i \in vault[m].items : i.id # b.id /\ i.body = b.body
  BY DEF CopyIn
<1>2. CASE i.id # p.id
  BY <1>1, <1>2 DEF Applied, CopyIn
<1>3. CASE i.id = p.id
  <2>1. p.body = i.body
    <3>1. Version(i.id, i.body) \in Versions /\ Version(p.id, p.body) \in Versions
      BY VersionsAre
    <3> QED BY <1>1, <1>3, <3>1 DEF Versioned, CopiesStay, Version
  <2>2. ~p.dead
    <3>1. b.body # 0
      BY DEF Versioned, SoundVersions
    <3> QED BY <1>1, <2>1, <3>1 DEF Versioned, DeadIsEmpty
  <2>3. b.id # ids + 1
    <3>1. b.id <= ids /\ b.id \in Nat /\ ids \in Nat
      BY DEF Versioned, SoundVersions, TypeOK, Id
    <3> QED BY <3>1
  <2> QED BY <1>1, <1>3, <2>1, <2>2, <2>3 DEF Applied, CopyIn, Has
<1> QED BY <1>2, <1>3

LEMMA KeptIsAny ==
  ASSUME NEW w
  PROVE  Kept(w) <=> \/ \E m \in Machine : CopyIn(vault[m], w)
                     \/ OnServer(w)
                     \/ \E m \in Machine : Unsent(m, w)
BY DEF Kept, OnServer, Unsent

\* A push takes nothing from the server that is not kept elsewhere.
LEMMA PushKeeps ==
  ASSUME Versioned, NEW m \in Machine, Local(m), Alone(m), Push(m),
         NEW w \in current, w.id \notin buried \cup risked, OnServer(w)
  PROVE  OnServer(w)' \/ CopyIn(vault[m], w)
<1>1. PICK r \in server.recs : ~r.dead /\ r.body = w.body
  BY DEF OnServer
<1>2. CASE r \in server'.recs
  BY <1>1, <1>2 DEF OnServer
<1>3. CASE r \notin server'.recs
  <2>1. /\ server.rev = sync[m].rev
        /\ server'.recs = {q \in server.recs : Of(sync[m].out, q.id) = {}} \cup Brought(m)
    BY <1>3, PushIs DEF Versioned
  <2>2. PICK o \in sync[m].out : o.id = r.id
    BY <1>3, <2>1 DEF Of
  <2> DEFINE b == [o EXCEPT !.rev = server.rev + 1, !.written = clock]
  <2>3. b \in Brought(m)
    BY DEF Brought
  <2>4. b.id = o.id /\ b.body = o.body /\ b.dead = o.dead
    <3>1. o \in Record
      BY DEF Versioned, TypeOK
    <3> QED BY <3>1 DEF Record
  <2> HIDE DEF b
  <2>5. SyncShape(m) /\ Decided(m) /\ sync[m].pc = "push" /\ Seen(m) /\ Pulling(m) = {}
    BY DEF Local, Alone, Push, SyncShape, Pulling
  <2>6. CASE b.body = r.body
    <3>1. ~b.dead
      BY <1>1, <2>4, <2>6 DEF Versioned, DeadIsEmpty
    <3> QED BY <1>1, <2>1, <2>3, <2>6, <3>1 DEF OnServer
  <2>7. CASE b.body # r.body
    <3>1. r.id = w.id
      <4>1. Version(r.id, r.body) \in Versions /\ Version(o.id, o.body) \in Versions
        BY VersionsAre
      <4> QED BY <1>1, <2>2, <2>4, <2>7, <4>1 DEF Versioned, CopiesStay, Version
    <3>2. w = [id |-> r.id, body |-> r.body]
      BY <1>1, <3>1 DEF Versioned, TypeOK
    <3>3. Standing(r)
      BY <1>1, <3>1, <3>2 DEF Standing
    <3>4. Shown(vault[m], r)
      <4>1. r.rev <= sync[m].rev
        BY <2>1 DEF Versioned, OneRecordEach
      <4> QED BY <2>5, <3>3, <4>1 DEF Seen, Working
    <3>5. ~b.dead
      BY <2>2, <2>4, <3>1, SoundIs
    <3>6. \E i \in vault[m].items : i.id = r.id /\ i.body = b.body
      BY <2>2, <2>3, <2>4, <2>5, <3>1, <3>5, BroughtIsHere
    <3> QED BY <1>1, <2>5, <2>7, <3>2, <3>4, <3>6 DEF Shown, CopyIn, SyncShape, OnePer
  <2> QED BY <2>6, <2>7
<1> QED BY <1>2, <1>3

\* What one machine keeps of a write that still stands after its step.
LEMMA MachineKeeps ==
  ASSUME Perils = {}, Versioned, NEW m \in Machine, Local(m), Filed(m), Alone(m), At(m),
         NEW w \in current, w \in current', w.id \notin buried \cup risked', risked \subseteq risked',
         CopyIn(vault[m], w) \/ Unsent(m, w)
  PROVE  CopyIn(vault'[m], w) \/ Unsent(m, w)' \/ OnServer(w)'
<1> DEFINE v == vault[m]
<1>0. v \in Vault /\ TypeOK /\ SyncShape(m)
  BY DEF Versioned, TypeOK, Vault, Local
<1>1. CASE Begin(m) \/ PullItems(m) \/ PullRevision(m) \/ Decide(m) \/ Lost(m)
  <2>1. vault'[m] = v
    BY <1>1 DEF Begin, PullItems, PullRevision, Decide, Lost
  <2>2. sync'[m].pc # "end" \/ sync'[m].pc = sync[m].pc
    <3>1. CASE Begin(m)
      BY <3>1 DEF Begin, Do, Idle, Versioned, TypeOK
    <3>2. CASE PullItems(m) \/ PullRevision(m)
      BY <3>2, PullStep DEF Versioned
    <3>3. CASE Decide(m)
      BY <3>3 DEF Decide, Do, Versioned, TypeOK
    <3>4. CASE Lost(m)
      BY <3>4 DEF Lost, Do, Idle, Versioned, TypeOK
    <3> QED BY <1>1, <3>1, <3>2, <3>3, <3>4
  <2> QED BY <2>1, <2>2 DEF Unsent
<1>2. CASE Apply(m)
  <2>1. PICK p \in Record : /\ sync[m].doing = {p}
                            /\ Applied(v, vault'[m], p, ids + 1)
                            /\ p.id \notin risked =>
                                 Settles(v, vault'[m], p, sync[m].synced, ids + 1)
    BY <1>2, ApplyIs DEF Alone
  <2>2. CASE CopyIn(v, w)
    BY <2>1, <2>2, CopyIsSafe
  <2>3. CASE Unsent(m, w)
    <3>1. PICK i \in v.items : i.id = w.id /\ i.body = w.body /\ i.at > v.synced
      BY <2>3 DEF Unsent
    <3>2. sync[m].synced = v.synced /\ vault'[m].synced = v.synced
      BY <1>0, <1>2, <2>1 DEF Apply, SyncShape, Applied
    <3>3. sync'[m].pc = "decide"
      BY <1>2 DEF Apply, Do, Versioned, TypeOK
    <3>4. w.id # ids + 1
      <4>1. w.id <= ids /\ w.id \in Nat /\ ids \in Nat
        BY BoundAssumption DEF Versioned, SoundVersions, TypeOK, Id
      <4> QED BY <4>1
    <3>5. i \in vault'[m].items \/ \E c \in vault'[m].items : c.id = ids + 1 /\ c.body = i.body
      BY <2>1, <3>1, <3>2 DEF Applied, Settles
    <3> QED BY <3>1, <3>2, <3>3, <3>4, <3>5 DEF Unsent, CopyIn
  <2> QED BY <2>2, <2>3
<1>3. CASE Collect(m)
  <2>1. vault' = vault
    BY <1>3 DEF Collect
  <2>2. ASSUME Unsent(m, w) PROVE sync'[m].pc = "push"
    <3>1. sync[m].pc = "decide"
      BY <1>3 DEF Collect
    <3>2. sync[m].synced = v.synced
      BY <1>0, <3>1 DEF SyncShape
    <3>3. PICK i \in v.items : i.at > v.synced
      BY <2>2 DEF Unsent
    <3>4. ToPush(v, sync[m].synced) # {}
      BY <3>2, <3>3 DEF ToPush
    <3> QED BY <1>3, <3>4 DEF Collect, Do, Versioned, TypeOK
  <2> QED BY <2>1, <2>2 DEF Unsent
<1>4. CASE Push(m)
  <2>1. vault' = vault /\ sync[m].pc = "push"
    BY <1>4 DEF Push
  <2>2. CASE sync'[m].pc # "end"
    BY <2>1, <2>2 DEF Unsent
  <2>3. ASSUME sync'[m].pc = "end", Unsent(m, w) PROVE OnServer(w)'
    <3>1. server'.recs = {r \in server.recs : Of(sync[m].out, r.id) = {}} \cup Brought(m)
      <4>1. sync'[m] # Idle
        BY <2>3 DEF Idle
      <4> QED BY <1>4, <4>1, PushIs DEF Versioned, TypeOK
    <3>2. PICK i \in v.items : i.id = w.id /\ i.body = w.body /\ i.at > v.synced
      BY <2>3 DEF Unsent
    <3>3. Live(i) \in sync[m].out
      <4>1. Live(i) \in ToPush(v, sync[m].synced) /\ Live(i).id = w.id
        BY <1>0, <2>1, <3>2 DEF SyncShape, ToPush, Live
      <4> QED BY <2>1, <4>1 DEF Alone, Decided
    <3> DEFINE b == [Live(i) EXCEPT !.rev = server.rev + 1, !.written = clock]
    <3>4. b \in Brought(m)
      BY <3>3 DEF Brought
    <3>5. ~b.dead /\ b.body = w.body
      BY <3>2 DEF Live
    <3> HIDE DEF b
    <3> QED BY <3>1, <3>4, <3>5 DEF OnServer
  <2> QED BY <2>1, <2>2, <2>3
<1>5. CASE End(m)
  <2>1. vault'[m].items = v.items /\ sync[m].pc = "end"
    BY <1>0, <1>5 DEF End, TypeOK, Vault
  <2> QED BY <2>1 DEF Unsent, CopyIn
<1>6. CASE Add(m) \/ Edit(m) \/ Delete(m)
  <2>1. PICK c : Changes(m, c)
    BY <1>0, <1>6, AddChanges, EditChanges, DeleteChanges
  <2>2. /\ sync' = sync /\ vault'[m].synced = v.synced
        /\ \A i \in v.items : i.body = w.body => i \in vault'[m].items
    BY <2>1 DEF Changes
  <2> QED BY <2>2 DEF Unsent, CopyIn
<1>7. CASE Relock(m)
  <2>1. /\ vault'[m] = disk[m]
        /\ sync'[m] = Idle \/ (sync'[m] = sync[m] /\ v = disk[m])
        /\ \A i \in v.items : i.body = w.body => i \in disk[m].items
    BY <1>0, <1>7, ReopenedOn
  <2>2. /\ disk[m].synced <= v.synced /\ disk[m].synced \in Nat /\ v.synced \in Nat
        /\ \A i \in v.items : i.at \in Nat
    BY <1>0 DEF Filed, TypeOK, Vault, Item
  <2>3. \A i \in v.items : i.at > v.synced => i.at > disk[m].synced
    BY <2>2
  <2> QED BY <2>1, <2>3 DEF Unsent, CopyIn, Idle
<1> QED BY <1>1, <1>2, <1>3, <1>4, <1>5, <1>6, <1>7 DEF At, SyncStep

\* A user's new write is the machine's own change.
LEMMA WritesAreUnsent ==
  ASSUME Versioned, [Next]_vars, NEW w \in current', w \notin current, w.id \notin risked'
  PROVE  \E m \in Machine : Unsent(m, w)'
<1>1. PICK m \in Machine : Add(m) \/ Edit(m)
  BY DEF Next, SyncStep, Begin, PullItems, PullRevision, Decide, Apply, Collect, Push, End, Lost,
         Delete, Relock, Purge, Tick, vars, historyVars
<1> DEFINE v == vault[m]
<1>2. /\ v \in Vault /\ sync' = sync
      /\ Quiet(m) => sync[m].pc = "idle" /\ v.synced < Now(m) /\ v.synced \in Nat /\ Now(m) \in Nat
  BY <1>1, NowIs DEF Add, Edit, Quiet, Versioned, TypeOK, Vault
<1>3. CASE Add(m)
  <2> DEFINE item == [id |-> ids', body |-> bodies', at |-> Now(m)]
  <2>1. /\ vault'[m] = Upsert(v, item) /\ w = [id |-> ids', body |-> bodies']
        /\ Quiet(m)
    BY <1>3 DEF Add, Save, Risk, Versioned, TypeOK
  <2>2. item \in vault'[m].items /\ vault'[m].synced = v.synced
    BY <1>2, <2>1 DEF Upsert, Vault
  <2> QED BY <1>2, <2>1, <2>2 DEF Unsent
<1>4. CASE Edit(m)
  <2>1. PICK i \in v.items :
          /\ vault'[m] = Upsert(v, [i EXCEPT !.body = bodies', !.at = Now(m)])
          /\ w = [id |-> i.id, body |-> bodies']
          /\ Risk(m, i.id)
    BY <1>4 DEF Edit, Save, Versioned, TypeOK
  <2> DEFINE item == [i EXCEPT !.body = bodies', !.at = Now(m)]
  <2>2. item \in vault'[m].items /\ vault'[m].synced = v.synced
    BY <1>2, <2>1 DEF Upsert, Vault
  <2>3. item.id = i.id /\ item.body = bodies' /\ item.at = Now(m)
    BY <1>2 DEF Vault, Item
  <2>4. Quiet(m)
    BY <2>1 DEF Risk
  <2> HIDE DEF item
  <2> QED BY <1>2, <2>1, <2>2, <2>3, <2>4 DEF Unsent
<1> QED BY <1>1, <1>3, <1>4

LEMMA KeepingStep ==
  ASSUME Perils = {}, Versioned, \A m \in Machine : Local(m) /\ Filed(m) /\ Alone(m),
         AllKept, [Next]_vars
  PROVE  AllKept'
<1> SUFFICES ASSUME NEW w \in current', w.id \notin buried' \cup risked' PROVE Kept(w)'
  BY DEF AllKept
<1> SUFFICES \/ \E m \in Machine : CopyIn(vault'[m], w)
             \/ OnServer(w)'
             \/ \E m \in Machine : Unsent(m, w)'
  BY DEF Kept, OnServer, Unsent, CopyIn
<1>1. w \notin current => \E m \in Machine : Unsent(m, w)'
  BY WritesAreUnsent
<1> SUFFICES ASSUME w \in current
             PROVE  \/ \E m \in Machine : CopyIn(vault'[m], w)
                    \/ OnServer(w)'
                    \/ \E m \in Machine : Unsent(m, w)'
  BY <1>1
<1>2. w.id \notin buried \cup risked /\ risked \subseteq risked'
  BY StepGrows DEF Growing, Versioned
<1>3. Kept(w)
  BY <1>2 DEF AllKept
<1>4. ASSUME NEW m \in Machine, CopyIn(vault[m], w) \/ Unsent(m, w)
      PROVE  \/ \E q \in Machine : CopyIn(vault'[q], w)
             \/ OnServer(w)'
             \/ \E q \in Machine : Unsent(q, w)'
  <2>1. CASE At(m)
    BY <1>2, <1>4, <2>1, MachineKeeps
  <2>2. CASE vault'[m] = vault[m] /\ sync'[m] = sync[m]
    BY <1>4, <2>2 DEF Unsent
  <2>3. CASE \E q \in Machine : At(q) /\ q # m
    BY <2>2, <2>3, Elsewhere DEF Versioned
  <2>4. CASE Purge \/ Tick \/ UNCHANGED vars
    BY <2>2, <2>4 DEF Purge, Tick, vars
  <2> QED BY <2>1, <2>3, <2>4 DEF Next, At
<1>5. CASE OnServer(w)
  <2>1. ASSUME NEW m \in Machine, Push(m)
        PROVE  OnServer(w)' \/ CopyIn(vault'[m], w)
    BY <1>2, <1>5, <2>1, PushKeeps DEF Push
  <2>2. CASE \A r \in server.recs : ~r.dead => r \in server'.recs
    BY <1>5, <2>2 DEF OnServer
  <2>3. CASE Purge
    BY <2>2, <2>3 DEF Purge, Versioned, TypeOK
  <2>4. ASSUME NEW m \in Machine, At(m), ~Push(m) PROVE server' = server
    BY <2>4 DEF At, SyncStep, Begin, PullItems, PullRevision, Decide, Collect, Apply, End, Lost, Relock,
        Add, Edit, Delete
  <2>5. CASE Tick \/ UNCHANGED vars
    BY <2>2, <2>5 DEF Tick, vars
  <2> QED BY <2>1, <2>2, <2>3, <2>4, <2>5 DEF Next, At
<1> QED BY <1>3, <1>4, <1>5, KeptIsAny

-----------------------------------------------------------------------------
-----------------------------------------------------------------------------
(* Theorems.                                                               *)

LEMMA InitHolds == Init => IInv
<1> SUFFICES ASSUME Init PROVE IInv
  OBVIOUS
<1> DEFINE only == [id |-> 1, body |-> 1, at |-> 0]
           first == [Live(only) EXCEPT !.rev = 1]
<1>1. server.recs = {first} /\ current = {[id |-> 1, body |-> 1]}
  <2>1. Shared.items = {only}
    BY DEF Shared
  <2>2. server.recs = {[Live(i) EXCEPT !.rev = 1] : i \in Shared.items}
    BY DEF Init
  <2> HIDE DEF first, only
  <2>3. server.recs = {first}
    BY <2>1, <2>2 DEF first
  <2> QED BY <2>3 DEF Init
<1>2. first.id = 1 /\ first.body = 1 /\ first.rev = 1 /\ ~first.dead /\ only.id = 1 /\ only.body = 1
  BY DEF Live
<1> HIDE DEF first, only
<1>3. ASSUME NEW m \in Machine PROVE Alone(m) /\ Saved(m)
  <2>1. sync[m] = Idle /\ disk[m] = vault[m]
    BY DEF Init
  <2>2. vault[m].rev = 0 \/ vault[m].items = {only}
    BY DEF Init, Fresh, Shared, only
  <2>3. \A r \in server.recs : r.rev <= vault[m].rev => Has(vault[m], r)
    BY <1>1, <1>2, <2>2 DEF Has
  <2> QED BY <2>1, <2>3 DEF Alone, Agreement, Agrees, Decided, Working, Idle, Saved
<1>4. AllKept
  BY <1>1, <1>2 DEF AllKept, Kept
<1> QED BY <1>3, <1>4, InitSeen DEF IInv

LEMMA StepHolds ==
  ASSUME Perils = {}, IInv, [Next]_vars
  PROVE  IInv'
<1>1. SeenInv'
  BY SeenStep DEF IInv
<1>2. \A m \in Machine : Alone(m)'
  BY <1>1, AloneStep DEF IInv, SeenInv, Versioned
<1>3. \A m \in Machine : Saved(m)'
  BY <1>1, <1>2, SavedStep DEF IInv, SeenInv, Versioned
<1>4. AllKept'
  BY KeepingStep DEF IInv, SeenInv
<1> QED BY <1>1, <1>2, <1>3, <1>4 DEF IInv

\* Every variable has its type.
THEOREM TypeCorrect == Spec => []TypeOK
BY InitType, TypeStep, PTL DEF Spec

\* A pull brings everything above the revision this machine last saw
\* (client.rs, pull), so what is at or below it is in the vault and in its
\* file: no record is stepped over for ever, whatever users change while a sync
\* is under way and wherever a vault is locked.
THEOREM WhatIsSyncedIsSeen == ASSUME Perils = {} PROVE Spec => []SyncedIsSeen
<1>1. SeenInv /\ [Next]_vars => SeenInv'
  BY SeenStep
<1>2. SeenInv => SyncedIsSeen
  BY DEF SeenInv, Local, Seen, Standing, Shown, SyncedIsSeen
<1> QED BY InitSeen, <1>1, <1>2, PTL DEF Spec

LEMMA Always == ASSUME Perils = {} PROVE Spec => []IInv
<1>1. IInv /\ [Next]_vars => IInv'
  BY StepHolds
<1> QED BY InitHolds, <1>1, PTL DEF Spec

\* Conflicts resolve last-write-wins per item, keeping the loser as a conflict
\* copy (docs/hosting.md; merge.rs, reconcile; sync.rs, apply): what a user wrote
\* is on some machine or on the server until a user replaces it or deletes its
\* item, whatever syncs conflict, get lost or are cut off, whatever else users
\* change meanwhile and wherever vaults are locked.  Only an item that was itself
\* changed beside a sync, or dropped with a vault that was not saved, may be lost.
THEOREM EditsAreKept == ASSUME Perils = {} PROVE Spec => []NoEditLost
<1>1. IInv => NoEditLost
  BY DEF IInv, AllKept, Kept, CopyIn, NoEditLost, Held
<1> QED BY <1>1, Always, PTL

\* A machine at the server's revision with nothing to push has what the server
\* has, record by record, deletions included (sync.rs, sync_now), but for the
\* items that were changed beside a sync or dropped before they were saved.
THEOREM SyncedMeansAgreed == ASSUME Perils = {} PROVE Spec => []SyncedMachinesAgree
<1>1. IInv => SyncedMachinesAgree
  <2> SUFFICES ASSUME IInv, NEW m \in Machine, vault[m].rev = server.rev,
                      ToPush(vault[m], vault[m].synced) = {}, NEW r \in server.recs,
                      r.id \notin risked
               PROVE  {i.body : i \in Of(vault[m].items, r.id)} =
                        IF r.dead THEN {} ELSE {r.body}
    BY DEF SyncedMachinesAgree
  <2>1. r.rev <= vault[m].rev
    BY DEF IInv, SeenInv, Versioned, OneRecordEach
  <2>2. Agrees(vault[m], r, vault[m].synced)
    BY <2>1 DEF IInv, Alone, Agreement
  <2>3. Has(vault[m], r)
    BY <2>2, NothingToPush
  <2>4. OnePer(vault[m].items)
    BY DEF IInv, SeenInv, Local, SyncShape
  <2> QED BY <2>3, <2>4 DEF Has, OnePer, Of
<1> QED BY <1>1, Always, PTL

=============================================================================

-------------------------------- MODULE Sync --------------------------------
(***************************************************************************)
(* Sync: machines that edit their own copies of a vault, and a server they *)
(* meet at (apps/desktop/src-tauri/src/sync.rs, crates/yara-sync-client,   *)
(* crates/yara-sync).                                                      *)
(*                                                                         *)
(* A sync pulls what is above the revision the machine last saw, decides   *)
(* record by record what wins, pushes what changed since the last sync     *)
(* under optimistic concurrency, and remembers the revision and the time.  *)
(* It holds no lock while it is on the network, and takes the vault's lock *)
(* again for every step: the user goes on editing, and may lock and unlock *)
(* the vault, in between.  Requests and responses get lost.                *)
(*                                                                         *)
(* What an item holds is a body: a number that tells one write by a user   *)
(* from another.  Bodies and deletion proofs travel sealed and open on any *)
(* machine of the account, and the server is honest about both.  One       *)
(* account; one sync at a time on a machine.                               *)
(***************************************************************************)
EXTENDS Naturals

CONSTANTS
  Machine,     \* the devices of the account
  Joined,      \* those that have joined it and not synced yet
  Skew,        \* Skew[m]: how far ahead m's clock is
  Perils,      \* which of "torn" and "outlived" happen, see below
  Retention,   \* how long the server keeps a tombstone
  MaxClock,    \* bound: the clock
  MaxRev,      \* bound: pushes that take effect
  MaxId,       \* bound: item ids, those of conflict copies included
  MaxBody      \* bound: writes by users

ASSUME JoinedAssumption == Joined \subseteq Machine
ASSUME SkewAssumption == Skew \in [Machine -> Nat]
ASSUME PerilAssumption == Perils \subseteq {"torn", "outlived"}
ASSUME BoundAssumption ==
  /\ {Retention, MaxClock, MaxRev} \subseteq Nat
  /\ {MaxId, MaxBody} \subseteq Nat \ {0}

VARIABLES
  clock,
  server,     \* the account's revision and its records
  vault,      \* vault[m]: the open vault of a machine
  disk,       \* disk[m]: its file
  sync,       \* sync[m]: the sync in progress
  ids,        \* how many item ids are in use
  bodies,     \* how many bodies were written
  current,    \* history: what users wrote and have not replaced or deleted
  buried,     \* history: the ids some user deleted
  risked      \* history: the ids that were changed beside a sync, or whose write
              \* was dropped with what a sync had not saved

historyVars == <<bodies, current, buried, risked>>
vars == <<clock, server, vault, disk, sync, ids, historyVars>>

Id == 1 .. MaxId
Item == [id : Id, body : Nat, at : Nat]
Grave == [id : Id, at : Nat]

\* SyncItem and ItemRecord.  `at` is inside what is sealed: updated_at, or
\* deleted_at in the proof; `written` is the server's own updated_at.
Record == [id : Id, dead : BOOLEAN, body : Nat, at : Nat,
           rev : Nat, written : Nat]

Live(item) == [id |-> item.id, dead |-> FALSE, body |-> item.body,
               at |-> item.at, rev |-> 0, written |-> 0]
Dead(grave) == [id |-> grave.id, dead |-> TRUE, body |-> 0,
                at |-> grave.at, rev |-> 0, written |-> 0]

Resolution == {"none", "ApplyRemote", "KeepLocal", "ApplyDelete",
               "RemoteWins", "LocalWins"}

\* A sync: where it is; the revision and the time it began from; the page's
\* records still to be decided and the page's revision; the record being
\* decided; what is to be pushed.
Idle == [pc |-> "idle", since |-> 0, synced |-> 0, page |-> {}, rev |-> 0,
         doing |-> {}, choice |-> "none", out |-> {}]

TypeOK ==
  /\ clock \in Nat
  /\ server \in [rev : Nat, recs : SUBSET Record]
  /\ vault \in [Machine -> [items : SUBSET Item, graves : SUBSET Grave,
                            rev : Nat, synced : Nat]]
  /\ disk \in [Machine -> [items : SUBSET Item, graves : SUBSET Grave,
                           rev : Nat, synced : Nat]]
  /\ sync \in [Machine ->
       [pc : {"idle", "items", "revision", "decide", "apply", "push", "end"},
        since : Nat, synced : Nat, page : SUBSET Record, rev : Nat,
        doing : SUBSET Record, choice : Resolution, out : SUBSET Record]]
  /\ ids \in 0 .. MaxId
  /\ bodies \in 0 .. MaxBody
  /\ current \in SUBSET [id : Id, body : Nat]
  /\ buried \in SUBSET Id
  /\ risked \in SUBSET Id

\* What a machine knows that enrolled with one item, or has pulled it; and what
\* one knows that has just joined.
Shared == [items |-> {[id |-> 1, body |-> 1, at |-> 0]}, graves |-> {},
           rev |-> 1, synced |-> 1]
Fresh == [items |-> {}, graves |-> {}, rev |-> 0, synced |-> 0]

Init ==
  /\ clock = 2
  /\ server = [rev |-> 1,
               recs |-> {[Live(i) EXCEPT !.rev = 1] : i \in Shared.items}]
  /\ vault = [m \in Machine |-> IF m \in Joined THEN Fresh
                               ELSE [Shared EXCEPT !.synced = @ + Skew[m]]]
  /\ disk = vault
  /\ sync = [m \in Machine |-> Idle]
  /\ ids = 1
  /\ bodies = 1
  /\ current = {[id |-> 1, body |-> 1]}
  /\ buried = {}
  /\ risked = {}

Now(m) == clock + Skew[m]

\* What the properties that hold depend on.  "torn": a push reaches the server
\* between the two halves of a pull.  "outlived": a sync goes on in a vault that
\* was closed and opened again, and lost by it what a sync had not saved.

-----------------------------------------------------------------------------
(* The vault (crates/yara-core/src/vault.rs).                              *)

Of(set, id) == {x \in set : x.id = id}
But(set, id) == {x \in set : x.id # id}

\* upsert, and add: an item that is here is not recorded as deleted.
Upsert(v, item) ==
  [v EXCEPT !.items = But(@, item.id) \cup {item}, !.graves = But(@, item.id)]

\* remove: nothing happens to an item that is not here.
Remove(v, id, now) ==
  IF Of(v.items, id) = {} THEN v
  ELSE [v EXCEPT !.items = But(@, id),
                 !.graves = But(@, id) \cup {[id |-> id, at |-> now]}]

\* A command changes the open vault and saves it.
Save(m, v) ==
  /\ vault' = [vault EXCEPT ![m] = v]
  /\ disk' = [disk EXCEPT ![m] = v]

\* No sync is running, or ended in this second.
Quiet(m) == sync[m].pc = "idle" /\ vault[m].synced < Now(m)

\* What is changed beside a sync is not later than the time it remembers.
Risk(m, id) == risked' = IF Quiet(m) THEN risked ELSE risked \cup {id}

Add(m) ==
  /\ ids < MaxId /\ bodies < MaxBody
  /\ ids' = ids + 1 /\ bodies' = bodies + 1
  /\ Save(m, Upsert(vault[m], [id |-> ids', body |-> bodies', at |-> Now(m)]))
  /\ current' = current \cup {[id |-> ids', body |-> bodies']}
  /\ Risk(m, ids')
  /\ UNCHANGED <<clock, server, sync, buried>>

Edit(m) ==
  /\ bodies < MaxBody
  /\ bodies' = bodies + 1
  /\ \E i \in vault[m].items :
       /\ Save(m, Upsert(vault[m], [i EXCEPT !.body = bodies', !.at = Now(m)]))
       /\ current' = {w \in current : w.body # i.body}
                       \cup {[id |-> i.id, body |-> bodies']}
       /\ Risk(m, i.id)
  /\ UNCHANGED <<clock, server, sync, ids, buried>>

Delete(m) ==
  /\ \E i \in vault[m].items :
       /\ Save(m, Remove(vault[m], i.id, Now(m)))
       /\ current' = {w \in current : w.body # i.body}
       /\ buried' = buried \cup {i.id}
       /\ Risk(m, i.id)
  /\ UNCHANGED <<clock, server, sync, ids, bodies>>

-----------------------------------------------------------------------------
(* sync_now, and the server's half of it.                                  *)

Do(m, step) == sync' = [sync EXCEPT ![m] = step]

Begin(m) ==
  /\ sync[m].pc = "idle"
  /\ Do(m, [Idle EXCEPT !.pc = "items",
                        !.since = vault[m].rev, !.synced = vault[m].synced])
  /\ UNCHANGED <<clock, server, vault, disk, ids, historyVars>>

\* The server's pull_items reads the records and the revision under two locks.
PullItems(m) ==
  /\ sync[m].pc = "items"
  /\ Do(m, [sync[m] EXCEPT !.pc = "revision",
              !.page = {r \in server.recs : r.rev > sync[m].since}])
  /\ UNCHANGED <<clock, server, vault, disk, ids, historyVars>>

PullRevision(m) ==
  /\ sync[m].pc = "revision"
  /\ Do(m, [sync[m] EXCEPT !.pc = "decide", !.rev = server.rev])
  /\ UNCHANGED <<clock, server, vault, disk, ids, historyVars>>

\* Mutation of Reconcile: what was deleted here stays deleted.
ReconcileBuried(local, buriedHere, r, synced) ==
  LET changed == \E x \in local : x.at > synced
  IN IF local = {} THEN (IF r.dead THEN "ApplyDelete" ELSE "ApplyRemote")
     ELSE IF buriedHere THEN "KeepLocal"
     ELSE IF ~changed THEN (IF r.dead THEN "ApplyDelete" ELSE "ApplyRemote")
     ELSE IF r.dead THEN "KeepLocal"
     ELSE IF \E x \in local : r.at > x.at THEN "RemoteWins" ELSE "LocalWins"

\* merge::reconcile.  `local` is the item or the grave this machine has, or
\* nothing.
Reconcile(local, buriedHere, r, synced) ==
  LET changed == \E x \in local : x.at > synced
  IN IF local = {} THEN (IF r.dead THEN "ApplyDelete" ELSE "ApplyRemote")
     ELSE IF buriedHere
       THEN (IF r.dead \/ changed THEN "KeepLocal" ELSE "ApplyRemote")
     ELSE IF ~changed THEN (IF r.dead THEN "ApplyDelete" ELSE "ApplyRemote")
     ELSE IF r.dead THEN "KeepLocal"
     ELSE IF \E x \in local : r.at > x.at THEN "RemoteWins" ELSE "LocalWins"

First(page) ==
  CHOOSE r \in page : \A q \in page : r.rev < q.rev \/ (r.rev = q.rev /\ r.id <= q.id)

\* One record of the page: what this machine has is read ...
Decide(m) ==
  LET r == First(sync[m].page)
      item == Of(vault[m].items, r.id)
      grave == Of(vault[m].graves, r.id)
  IN /\ sync[m].pc = "decide" /\ sync[m].page # {}
     /\ Do(m, [sync[m] EXCEPT !.pc = "apply", !.page = @ \ {r}, !.doing = {r},
                 !.choice = IF item # {}
                   THEN Reconcile(item, FALSE, r, sync[m].synced)
                   ELSE Reconcile(grave, TRUE, r, sync[m].synced)])
     /\ UNCHANGED <<clock, server, vault, disk, ids, historyVars>>

\* A copy of an item under an id of its own.
Copy(item) == [item EXCEPT !.id = ids + 1]

\* Mutation of Apply: the loser of a conflict is not kept.
ApplyWithoutCopy(m) ==
  /\ sync[m].pc = "apply"
  /\ \E r \in sync[m].doing :
       vault' = [vault EXCEPT ![m] =
         IF sync[m].choice \in {"ApplyRemote", "RemoteWins"}
           THEN Upsert(@, [id |-> r.id, body |-> r.body, at |-> r.at])
         ELSE IF sync[m].choice = "ApplyDelete" THEN Remove(@, r.id, Now(m))
         ELSE @]
  /\ Do(m, [sync[m] EXCEPT !.pc = "decide", !.doing = {}, !.choice = "none"])
  /\ UNCHANGED <<clock, server, disk, ids, historyVars>>

\* ... and then acted on.  Nothing is saved yet.
Apply(m) ==
  LET v == vault[m]
      Take(r) == [id |-> r.id, body |-> r.body, at |-> r.at]
  IN /\ sync[m].pc = "apply"
     /\ \E r \in sync[m].doing :
          \/ /\ sync[m].choice = "ApplyRemote"
             /\ vault' = [vault EXCEPT ![m] = Upsert(v, Take(r))]
             /\ UNCHANGED ids
          \/ /\ sync[m].choice = "ApplyDelete"
             /\ vault' = [vault EXCEPT ![m] = Remove(v, r.id, Now(m))]
             /\ UNCHANGED ids
          \/ sync[m].choice = "KeepLocal" /\ UNCHANGED <<vault, ids>>
          \/ /\ sync[m].choice = "RemoteWins"
             /\ ids < MaxId /\ ids' = ids + 1
             /\ vault' = [vault EXCEPT ![m] =
                  Upsert([v EXCEPT !.items =
                            @ \cup {Copy(i) : i \in Of(v.items, r.id)}], Take(r))]
          \/ /\ sync[m].choice = "LocalWins"
             /\ ids < MaxId /\ ids' = ids + 1
             /\ vault' = [vault EXCEPT ![m] = Upsert(v, Copy(Take(r)))]
     /\ Do(m, [sync[m] EXCEPT !.pc = "decide", !.doing = {}, !.choice = "none"])
     /\ UNCHANGED <<clock, server, disk, historyVars>>

\* merge::to_push: what changed here since the last sync, deletions included.
ToPush(v, synced) ==
  {Live(i) : i \in {j \in v.items : j.at > synced}}
    \cup {Dead(g) : g \in {h \in v.graves : h.at > synced}}

Collect(m) ==
  LET out == ToPush(vault[m], sync[m].synced)
  IN /\ sync[m].pc = "decide" /\ sync[m].page = {}
     /\ Do(m, [sync[m] EXCEPT !.pc = IF out = {} THEN "end" ELSE "push",
                              !.out = out])
     /\ UNCHANGED <<clock, server, vault, disk, ids, historyVars>>

\* Mutation of Push: a refused push takes the revision it was refused with.
PushTakesRevision(m) ==
  /\ sync[m].pc = "push"
  /\ "torn" \in Perils \/ \A q \in Machine : sync[q].pc # "revision"
  /\ IF server.rev = sync[m].rev
       THEN /\ server.rev < MaxRev
            /\ server' =
                 [rev |-> server.rev + 1,
                  recs |-> {r \in server.recs : Of(sync[m].out, r.id) = {}}
                    \cup {[r EXCEPT !.rev = server.rev + 1, !.written = clock] :
                            r \in sync[m].out}]
            /\ Do(m, [sync[m] EXCEPT !.pc = "end", !.rev = @ + 1, !.out = {}])
       ELSE /\ Do(m, [sync[m] EXCEPT !.pc = "end", !.rev = server.rev, !.out = {}])
            /\ UNCHANGED server
  /\ UNCHANGED <<clock, vault, disk, ids, historyVars>>

\* The server's push_items: the whole batch takes one new revision, if nobody
\* else has pushed since the pull.  The response may get lost.
Push(m) ==
  /\ sync[m].pc = "push"
  /\ "torn" \in Perils \/ \A q \in Machine : sync[q].pc # "revision"
  /\ IF server.rev = sync[m].rev
       THEN /\ server.rev < MaxRev
            /\ server' =
                 [rev |-> server.rev + 1,
                  recs |-> {r \in server.recs : Of(sync[m].out, r.id) = {}}
                    \cup {[r EXCEPT !.rev = server.rev + 1, !.written = clock] :
                            r \in sync[m].out}]
            /\ \/ Do(m, [sync[m] EXCEPT !.pc = "end", !.rev = @ + 1, !.out = {}])
               \/ Do(m, Idle)
       ELSE Do(m, Idle) /\ UNCHANGED server
  /\ UNCHANGED <<clock, vault, disk, ids, historyVars>>

\* The revision and the time are remembered in the vault, and it is saved, or
\* the save fails.
End(m) ==
  LET v == [vault[m] EXCEPT !.rev = sync[m].rev, !.synced = Now(m)]
  IN /\ sync[m].pc = "end"
     /\ vault' = [vault EXCEPT ![m] = v]
     /\ disk' \in {disk, [disk EXCEPT ![m] = v]}
     /\ Do(m, Idle)
     /\ UNCHANGED <<clock, server, ids, historyVars>>

\* A request gets lost on its way.
Lost(m) ==
  /\ sync[m].pc \in {"items", "revision", "push"}
  /\ Do(m, Idle)
  /\ UNCHANGED <<clock, server, vault, disk, ids, historyVars>>

\* The vault is locked, or the app stops, and is opened again from its file.
\* What a sync brought or set aside and has not saved is dropped.  A sync that
\* meets the locked vault fails; one that does not, goes on.
Relock(m) ==
  /\ vault' = [vault EXCEPT ![m] = disk[m]]
  /\ risked' = risked \cup {w.id : w \in {x \in current :
                 \E i \in vault[m].items \ disk[m].items : i.body = x.body}}
  /\ \/ Do(m, Idle)
     \/ /\ sync[m].pc # "idle" /\ UNCHANGED sync
        /\ "outlived" \in Perils \/ vault[m] = disk[m]
  /\ UNCHANGED <<clock, server, disk, ids, bodies, current, buried>>

\* `yara-sync purge`: the server forgets old tombstones.
Purge ==
  /\ server' = [server EXCEPT !.recs =
                  {r \in @ : ~(r.dead /\ r.written + Retention < clock)}]
  /\ server' # server
  /\ UNCHANGED <<clock, vault, disk, sync, ids, historyVars>>

Tick ==
  /\ clock < MaxClock
  /\ clock' = clock + 1
  /\ UNCHANGED <<server, vault, disk, sync, ids, historyVars>>

SyncStep(m) ==
  \/ Begin(m) \/ PullItems(m) \/ PullRevision(m) \/ Decide(m) \/ Apply(m)
  \/ Collect(m) \/ Push(m) \/ End(m) \/ Lost(m)

Next ==
  \/ \E m \in Machine : SyncStep(m) \/ Add(m) \/ Edit(m) \/ Delete(m) \/ Relock(m)
  \/ Purge
  \/ Tick

Spec == Init /\ [][Next]_vars
-----------------------------------------------------------------------------
(* Safety.                                                                 *)

\* On some machine, or on the server.
Held(b) ==
  \/ \E m \in Machine : \E i \in vault[m].items : i.body = b
  \/ \E r \in server.recs : ~r.dead /\ r.body = b

\* "Conflicts resolve last-write-wins per item, keeping the loser as a
\* conflict copy" (docs/hosting.md): what a user wrote is on some machine or on
\* the server until a user replaces it or deletes its item.  Not so for an item
\* that a user changed beside a sync (sync.rs:410), nor for what a vault held
\* that was locked before what a sync had done to it was saved.
NoEditLost == \A w \in current : w.id \in buried \cup risked \/ Held(w.body)

\* "Everything above the revision this machine last saw" (client.rs, pull):
\* what the server has at or below the revision a machine will ask from is in
\* the machine's vault and in its file, unless users moved on from it.
SyncedIsSeen ==
  \A m \in Machine : \A v \in {vault[m], disk[m]} : \A r \in server.recs :
    ~r.dead /\ r.rev <= v.rev /\ r.id \notin buried
        /\ [id |-> r.id, body |-> r.body] \in current
      => \E i \in v.items : i.body = r.body

\* A machine that has just synced agrees with the server: with the server's
\* revision as its own and nothing to push, it has every record as the server
\* has it, and nothing the server has as deleted, but for items that a user
\* changed beside a sync.
SyncedMachinesAgree ==
  \A m \in Machine :
    /\ sync[m].pc = "idle"
    /\ vault[m].rev = server.rev
    /\ ToPush(vault[m], vault[m].synced) = {}
    => \A r \in server.recs : r.id \notin risked =>
         {i.body : i \in Of(vault[m].items, r.id)} =
           IF r.dead THEN {} ELSE {r.body}

=============================================================================

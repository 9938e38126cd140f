------------------------------- MODULE Broker -------------------------------
(***************************************************************************)
(* The agent broker: crates/yara-broker/src/transport.rs, with the desktop *)
(* app's side of it (apps/desktop/src-tauri/src/broker.rs, the lock and    *)
(* unlock commands of lib.rs, and the queue of approval dialogs in         *)
(* apps/desktop/src/screens/Vault.tsx).                                    *)
(*                                                                         *)
(* Every pipe connection is a task of its own, so requests interleave at   *)
(* every await and between every two mutexes they take: the vault, the     *)
(* grant store, the pending prompts and the log are four of them.  One     *)
(* action below is one critical section.  The Tauri commands (unlock,      *)
(* lock, answer, revoke, edit) run one at a time on the main thread, in    *)
(* between and against the tasks; `ui` is where a command is that takes    *)
(* more than one mutex.                                                    *)
(***************************************************************************)
EXTENDS GrantStore, Integers, Sequences

CONSTANTS
  Request,       \* requests agents send; each one is a task
  Reveal,        \* the scope that hands the value over
  Vault,         \* vault profiles of this machine
  NoVault,       \* AppState.vault = None
  OnceSeconds,   \* Grant::once: how long a one-shot grant lasts
  WindowSeconds, \* decision_from: how long a window lasts
  WindowUses,    \* decision_from: how many uses a window has
  AuditCapacity, \* how many records a log keeps
  MaxClock,      \* bound on the clock
  DiskFails      \* whether AppState::save may fail

ASSUME RevealAssumption == Reveal \in Disclosing
ASSUME VaultAssumption == NoVault \notin Vault
ASSUME NumberAssumption ==
  /\ OnceSeconds \in Nat \ {0}
  /\ WindowSeconds \in Nat \ {0}
  /\ WindowUses \in Nat \ {0}
  /\ AuditCapacity \in Nat \ {0}
  /\ MaxClock \in Nat
ASSUME DiskAssumption == DiskFails \in BOOLEAN

VARIABLES
  clock,        \* yara_broker::now()
  open,         \* the vault AppState holds the key of, or NoVault
  present,      \* present[v]: the targets of v that have a value
  ui,           \* what the main thread is in the middle of
  queue,        \* the Vault screen's approvals, the dialog shown first
  pc,           \* pc[r]: the critical section request r enters next
  want,         \* want[r]: what r asks for
  now,          \* now[r]: the time handle_access read, before any prompt
  decision,     \* decision[r]: what r's oneshot channel delivered
  pending,      \* UiApprover.pending: prompts that still have a sender
  allowed,      \* allowed[r]: the grant in r's Outcome
  reply,        \* reply[r]: the response r is going to get
  grants,       \* Broker.grants
  issued,       \* how many grants were ever issued
  vaultLog,     \* the audit log in the open vault's memory
  diskLog,      \* diskLog[v]: the audit log in v's file
  memLog,       \* Broker.audit, what the Agent access screen reads
  interrupted,  \* history: requests a lock caught with their audit record due
  newer         \* history, newer[r]: whose records were pushed after r's

grantVars == <<grants, issued>>
promptVars == <<queue, decision, pending>>
logVars == <<vaultLog, diskLog, memLog, newer>>
appVars == <<clock, open, present, ui, interrupted>>
vars == <<appVars, promptVars, grantVars, logVars,
          pc, want, now, allowed, reply>>

NoGrant == 0
Allow == {"once", "window"}
Served == {"revealed", "ran"}

\* The record record_access writes.  Outcome::Refused and Outcome::Failed
\* carry no grant; Outcome::Approved and Outcome::Reused do.
Entry(r) ==
  [request |-> r, reply |-> reply[r], fresh |-> decision[r] \in Allow,
   grant |-> IF reply[r] \in Served THEN allowed[r] ELSE NoGrant]

Replies == {"none", "listed", "VaultLocked", "Unresolved", "Denied",
            "TimedOut", "FieldEmpty", "revealed", "ran", "failed"}

Entries == [request : Request, reply : Replies, fresh : BOOLEAN, grant : Nat]

Phases == {"idle", "resolve", "redeem", "ask", "waiting", "dispatch",
           "fetch", "running", "revoke", "record", "save", "log", "done"}

TypeOK ==
  /\ clock \in Nat
  /\ open \in Vault \cup {NoVault}
  /\ present \in [Vault -> SUBSET Target]
  /\ ui \in {"ready", "restore", "abandon", "forgetGrants", "forgetLog"}
  /\ queue \in Seq(Request)
  /\ pc \in [Request -> Phases]
  /\ want \in [Request -> Access]
  /\ now \in [Request -> Nat]
  /\ decision \in [Request -> {"none", "dropped", "deny"} \cup Allow]
  /\ pending \in SUBSET Request
  /\ allowed \in [Request -> Nat]
  /\ reply \in [Request -> Replies]
  /\ grants \in SUBSET Grant
  /\ issued \in Nat
  /\ vaultLog \in Seq(Entries)
  /\ diskLog \in [Vault -> Seq(Entries)]
  /\ memLog \in Seq(Entries)
  /\ interrupted \in SUBSET Request
  /\ newer \in [Request -> SUBSET Request]

\* `want` is what each agent is going to ask, fixed from the start.
Init ==
  /\ clock = 0
  /\ open = NoVault
  /\ present \in [Vault -> SUBSET Target]
  /\ ui = "ready"
  /\ queue = <<>>
  /\ pc = [r \in Request |-> "idle"]
  /\ want \in [Request -> Access]
  /\ now = [r \in Request |-> 0]
  /\ decision = [r \in Request |-> "none"]
  /\ pending = {}
  /\ allowed = [r \in Request |-> NoGrant]
  /\ reply = [r \in Request |-> "none"]
  /\ grants = {}
  /\ issued = 0
  /\ vaultLog = <<>>
  /\ diskLog = [v \in Vault |-> <<>>]
  /\ memLog = <<>>
  /\ interrupted = {}
  /\ newer = [r \in Request |-> {}]

-----------------------------------------------------------------------------
(* A request.                                                              *)

Goto(r, from, to) == pc[r] = from /\ pc' = [pc EXCEPT ![r] = to]

Answered(r, response) == reply' = [reply EXCEPT ![r] = response]

\* What the vault answers while it is unlocked; locked, it has nothing.
HasValue(t) == open # NoVault /\ t \in present[open]

\* handle: a listing needs no approval, and is recorded.
List(r) ==
  /\ open # NoVault
  /\ Goto(r, "idle", "record")
  /\ Answered(r, "listed")
  /\ UNCHANGED <<appVars, promptVars, grantVars, logVars, want, now, allowed>>

\* handle_access, the first is_unlocked.  A refusal this early is not logged.
Receive(r) ==
  /\ IF open = NoVault
       THEN Goto(r, "idle", "done") /\ Answered(r, "VaultLocked")
       ELSE Goto(r, "idle", "resolve") /\ UNCHANGED reply
  /\ UNCHANGED <<appVars, promptVars, grantVars, logVars, want, now, allowed>>

\* resolve and has_field, then the clock.  An item that is not there, a name
\* two items share, and an empty field are refused without a prompt.
Resolve(r) ==
  /\ IF HasValue(want[r].target)
       THEN /\ Goto(r, "resolve", "redeem")
            /\ now' = [now EXCEPT ![r] = clock]
            /\ UNCHANGED reply
       ELSE /\ Goto(r, "resolve", "done")
            /\ Answered(r, "Unresolved")
            /\ UNCHANGED now
  /\ UNCHANGED <<appVars, promptVars, grantVars, logVars, want, allowed>>

\* Under the grant lock: prune, then charge the first grant that authorises.
Redeem(r) ==
  LET live == Prune(grants, now[r])
      found == Redeemable(live, want[r], now[r])
  IN /\ \/ /\ found = {}
           /\ Goto(r, "redeem", "ask")
           /\ grants' = live
           /\ UNCHANGED allowed
        \/ \E g \in found :
             /\ Goto(r, "redeem", "dispatch")
             /\ grants' = Charge(live, g)
             /\ allowed' = [allowed EXCEPT ![r] = g.id]
     /\ UNCHANGED <<appVars, promptVars, issued, logVars, want, now, reply>>

\* UiApprover::ask.  The event reaches the Vault screen if it is mounted.
Ask(r) ==
  /\ Goto(r, "ask", "waiting")
  /\ pending' = pending \cup {r}
  /\ queue' = IF open = NoVault THEN queue ELSE Append(queue, r)
  /\ UNCHANGED <<appVars, decision, grantVars, logVars,
                 want, now, allowed, reply>>

\* APPROVAL_TIMEOUT.  Nothing takes the prompt out of `pending` or off the
\* screen.
Timeout(r) ==
  /\ decision[r] = "none"
  /\ Goto(r, "waiting", "record")
  /\ Answered(r, "TimedOut")
  /\ UNCHANGED <<appVars, promptVars, grantVars, logVars, want, now, allowed>>

\* Mutation of Denied: a dropped sender is not taken for an answer.
DeniedWhenRefused(r) ==
  /\ decision[r] = "deny"
  /\ Goto(r, "waiting", "record")
  /\ Answered(r, "Denied")
  /\ UNCHANGED <<appVars, promptVars, grantVars, logVars, want, now, allowed>>

\* A refusal, or a sender dropped without an answer.
Denied(r) ==
  /\ decision[r] \in {"deny", "dropped"}
  /\ Goto(r, "waiting", "record")
  /\ Answered(r, "Denied")
  /\ UNCHANGED <<appVars, promptVars, grantVars, logVars, want, now, allowed>>

\* Mutation of GrantFor: an answer of a window is taken at its word.
GrantForAnyScope(r) ==
  IF decision[r] = "window"
    THEN NewGrant(issued + 1, want[r], now[r], WindowSeconds, WindowUses)
    ELSE NewGrant(issued + 1, want[r], now[r], OnceSeconds, 1)

\* The grant an answer buys.  It runs from the time the request came in, and
\* a disclosure never gets more than one use.
GrantFor(r) ==
  IF decision[r] = "window" /\ want[r].scope \notin Disclosing
    THEN NewGrant(issued + 1, want[r], now[r], WindowSeconds, WindowUses)
    ELSE NewGrant(issued + 1, want[r], now[r], OnceSeconds, 1)

\* The end of seek_approval, under one grant lock: issue, redeem, prune.
\* redeem charges the first grant that authorises, which need not be the one
\* just issued; the Outcome names the one just issued.
Mint(r) ==
  LET store == Issue(grants, GrantFor(r))
      found == Redeemable(store, want[r], now[r])
  IN /\ decision[r] \in Allow
     /\ Goto(r, "waiting", "dispatch")
     /\ \/ found = {} /\ grants' = Prune(store, now[r])
        \/ \E g \in found : grants' = Prune(Charge(store, g), now[r])
     /\ issued' = issued + 1
     /\ allowed' = [allowed EXCEPT ![r] = issued + 1]
     /\ UNCHANGED <<appVars, promptVars, logVars, want, now, reply>>

\* dispatch, the second is_unlocked.
CheckUnlocked(r) ==
  /\ IF open = NoVault
       THEN Goto(r, "dispatch", "revoke") /\ Answered(r, "VaultLocked")
       ELSE Goto(r, "dispatch", "fetch") /\ UNCHANGED reply
  /\ UNCHANGED <<appVars, promptVars, grantVars, logVars, want, now, allowed>>

\* Mutation of RevokeOwn: the grant of a request refused for a locked vault
\* stays.
RevokeOwnSkipped(r) ==
  /\ Goto(r, "revoke", "record")
  /\ UNCHANGED <<appVars, promptVars, grantVars, logVars,
                 want, now, allowed, reply>>

\* handle_access, after dispatch found the vault locked.
RevokeOwn(r) ==
  /\ Goto(r, "revoke", "record")
  /\ grants' = Revoke(grants, allowed[r])
  /\ UNCHANGED <<appVars, promptVars, issued, logVars,
                 want, now, allowed, reply>>

\* vault.secret: a vault that locked since, like an item deleted since, reads
\* as an empty field.
Fetch(r) ==
  /\ \/ /\ ~HasValue(want[r].target)
        /\ Goto(r, "fetch", "record")
        /\ Answered(r, "FieldEmpty")
     \/ /\ HasValue(want[r].target) /\ want[r].scope = Reveal
        /\ Goto(r, "fetch", "record")
        /\ Answered(r, "revealed")
     \/ /\ HasValue(want[r].target) /\ want[r].scope # Reveal
        /\ Goto(r, "fetch", "running")
        /\ UNCHANGED reply
  /\ UNCHANGED <<appVars, promptVars, grantVars, logVars, want, now, allowed>>

\* run_command: the process ends, or never started.
CommandEnds(r) ==
  /\ Goto(r, "running", "record")
  /\ \E response \in {"ran", "failed"} : Answered(r, response)
  /\ UNCHANGED <<appVars, promptVars, grantVars, logVars, want, now, allowed>>

\* Vault::record_audit, and AuditLog::record like it: a push, and what is
\* over the capacity is drained from the front.
Recording(log, entry) ==
  LET pushed == Append(log, entry)
      excess == Len(pushed) - AuditCapacity
  IN IF excess > 0 THEN SubSeq(pushed, excess + 1, Len(pushed)) ELSE pushed

\* Whose records are made: on their way to a file, or past it.
Pushed(r) == pc[r] \in {"save", "log", "done"}

\* VaultView::record_audit, the push.  A locked vault swallows it.
PushAudit(r) ==
  /\ Goto(r, "record", "save")
  /\ IF open = NoVault
       THEN UNCHANGED <<vaultLog, newer>>
       ELSE /\ vaultLog' = Recording(vaultLog, Entry(r))
            /\ newer' = [q \in Request |->
                 IF Pushed(q) THEN newer[q] \cup {r} ELSE newer[q]]
  /\ UNCHANGED <<appVars, promptVars, grantVars, diskLog, memLog,
                 want, now, allowed, reply>>

\* AppState::save writes whatever vault is open, in whole, or fails.
Save ==
  \/ open # NoVault /\ diskLog' = [diskLog EXCEPT ![open] = vaultLog]
  \/ (open = NoVault \/ DiskFails) /\ UNCHANGED diskLog

\* Mutation of SaveAudit: the record waits for the next save.
SaveAuditLater(r) ==
  /\ Goto(r, "save", "log")
  /\ UNCHANGED <<appVars, promptVars, grantVars, logVars,
                 want, now, allowed, reply>>

\* VaultView::record_audit, the save, whose failure is swallowed.
SaveAudit(r) ==
  /\ Goto(r, "save", "log")
  /\ Save
  /\ UNCHANGED <<appVars, promptVars, grantVars, vaultLog, memLog, newer,
                 want, now, allowed, reply>>

\* record, the log in memory; then the response goes back on the pipe.
LogAudit(r) ==
  /\ Goto(r, "log", "done")
  /\ memLog' = Recording(memLog, Entry(r))
  /\ UNCHANGED <<appVars, promptVars, grantVars, vaultLog, diskLog, newer,
                 want, now, allowed, reply>>

-----------------------------------------------------------------------------
(* The user, through the main thread.                                      *)

\* Mutation of Unlock: the log does not come back from the file.
UnlockEmptyLog(v) ==
  /\ ui = "ready" /\ open = NoVault
  /\ open' = v
  /\ vaultLog' = <<>>
  /\ ui' = "restore"
  /\ UNCHANGED <<clock, present, interrupted, promptVars, grantVars, diskLog,
                 memLog, newer, pc, want, now, allowed, reply>>

\* open_selected_vault, then set_vault.
Unlock(v) ==
  /\ ui = "ready" /\ open = NoVault
  /\ open' = v
  /\ vaultLog' = diskLog[v]
  /\ ui' = "restore"
  /\ UNCHANGED <<clock, present, interrupted, promptVars, grantVars, diskLog,
                 memLog, newer, pc, want, now, allowed, reply>>

\* Broker::restore_audit, the end of unlock_vault.
RestoreAudit ==
  /\ ui = "restore"
  /\ memLog' = vaultLog
  /\ ui' = "ready"
  /\ UNCHANGED <<clock, open, present, interrupted, promptVars, grantVars,
                 vaultLog, diskLog, newer, pc, want, now, allowed, reply>>

\* lock_everything, first state.clear: the key is gone and the Vault screen
\* unmounts, with the prompts it was showing.
Lock ==
  /\ ui = "ready"
  /\ open' = NoVault
  /\ vaultLog' = <<>>
  /\ queue' = <<>>
  /\ ui' = "abandon"
  /\ interrupted' = interrupted \cup
       {r \in Request : pc[r] \in {"running", "record", "save"}}
  /\ UNCHANGED <<clock, present, decision, pending, grantVars, diskLog, memLog,
                 newer, pc, want, now, allowed, reply>>

\* BrokerHandle::on_lock, first abandon_all: the waiting requests see their
\* sender go.
AbandonAll ==
  /\ ui = "abandon"
  /\ ui' = "forgetGrants"
  /\ pending' = {}
  /\ decision' = [r \in Request |->
       IF r \in pending /\ pc[r] = "waiting" THEN "dropped" ELSE decision[r]]
  /\ UNCHANGED <<clock, open, present, interrupted, queue, grantVars, logVars,
                 pc, want, now, allowed, reply>>

\* forget_grants, the store.
ForgetGrants ==
  /\ ui = "forgetGrants"
  /\ ui' = "forgetLog"
  /\ grants' = {}
  /\ UNCHANGED <<clock, open, present, interrupted, promptVars, issued, logVars,
                 pc, want, now, allowed, reply>>

\* forget_grants, the log.
ForgetLog ==
  /\ ui = "forgetLog"
  /\ ui' = "ready"
  /\ memLog' = <<>>
  /\ UNCHANGED <<clock, open, present, interrupted, promptVars, grantVars,
                 vaultLog, diskLog, newer, pc, want, now, allowed, reply>>

\* resolve_approval for the dialog on top: the answer reaches a request that
\* is still waiting, and the dialog goes.
Answer(r, choice) ==
  /\ ui = "ready"
  /\ queue # <<>> /\ r = Head(queue)
  /\ r \in pending /\ pc[r] = "waiting"
  /\ pending' = pending \ {r}
  /\ decision' = [decision EXCEPT ![r] = choice]
  /\ queue' = Tail(queue)
  /\ UNCHANGED <<appVars, grantVars, logVars, pc, want, now, allowed, reply>>

\* resolve_approval fails when the request is no longer waiting: the dialog
\* shows the error and stays, since only success calls onSettled.
AnswerTooLate(r) ==
  /\ ui = "ready"
  /\ queue # <<>> /\ r = Head(queue)
  /\ r \in pending /\ pc[r] # "waiting"
  /\ pending' = pending \ {r}
  /\ UNCHANGED <<appVars, queue, decision, grantVars, logVars,
                 pc, want, now, allowed, reply>>

\* revoke_grant, from the permissions screen.
RevokeGrant(g) ==
  /\ ui = "ready" /\ open # NoVault
  /\ IsLive(g, clock)
  /\ grants' = Revoke(grants, g.id)
  /\ UNCHANGED <<appVars, promptVars, issued, logVars,
                 pc, want, now, allowed, reply>>

\* add_item, update_item or delete_item gives a target a value or takes it
\* away, and saves the whole vault.
Edit(t) ==
  /\ ui = "ready" /\ open # NoVault
  /\ \E with \in {present[open] \cup {t}, present[open] \ {t}} :
       present' = [present EXCEPT ![open] = with]
  /\ Save
  /\ UNCHANGED <<clock, open, ui, interrupted, promptVars, grantVars, vaultLog,
                 memLog, newer, pc, want, now, allowed, reply>>

Tick ==
  /\ clock < MaxClock
  /\ clock' = clock + 1
  /\ UNCHANGED <<open, present, ui, interrupted, promptVars, grantVars, logVars,
                 pc, want, now, allowed, reply>>

-----------------------------------------------------------------------------
\* The critical sections a task runs on its own, sooner or later.
TaskStep(r) ==
  \/ Resolve(r) \/ Redeem(r) \/ Ask(r) \/ Timeout(r) \/ Denied(r) \/ Mint(r)
  \/ CheckUnlocked(r) \/ RevokeOwn(r) \/ Fetch(r)
  \/ PushAudit(r) \/ SaveAudit(r) \/ LogAudit(r)

\* The rest of a command that has begun.
CommandStep == RestoreAudit \/ AbandonAll \/ ForgetGrants \/ ForgetLog

Next ==
  \/ \E r \in Request : List(r) \/ Receive(r) \/ TaskStep(r) \/ CommandEnds(r)
  \/ \E v \in Vault : Unlock(v)
  \/ Lock
  \/ CommandStep
  \/ \E r \in Request :
       \/ \E choice \in {"deny"} \cup Allow : Answer(r, choice)
       \/ AnswerTooLate(r)
  \/ \E g \in grants : RevokeGrant(g)
  \/ \E t \in Target : Edit(t)
  \/ Tick

\* tokio polls every ready task and its timer fires; a command that began
\* ends.  A spawned process may run for ever, and so may an agent, or the
\* user, do nothing.
Fairness ==
  /\ \A r \in Request : WF_vars(TaskStep(r))
  /\ WF_vars(CommandStep)

Spec == Init /\ [][Next]_vars /\ Fairness
-----------------------------------------------------------------------------
(* Safety.                                                                 *)

\* A grant in the store of a locked vault is on its way out: a task that was
\* in flight when the vault locked is about to find it locked and revoke it.
\* (forget_grants and the revoke after dispatch, transport.rs.)
LockedGrantsAreInFlight ==
  open = NoVault /\ ui = "ready" =>
    \A g \in grants : \E r \in Request :
      allowed[r] = g.id /\ pc[r] \in {"dispatch", "revoke"}

\* A disclosure never leaves a grant another request could use: whatever
\* interleaving of answers, redemptions and locks, the store holds no
\* disclosing grant, but for an unidentified client's, which matches nobody.
DisclosuresNeverStand ==
  \A g \in grants : g.scope \in Disclosing => g.client = Unidentified

\* Each disclosure is its own decision: no request for one gets past
\* authorisation on an answer given to another request's prompt.
DisclosureWasAsked ==
  \A r \in Request :
    allowed[r] # NoGrant /\ want[r].scope \in Disclosing =>
      decision[r] \in Allow

\* A request that reuses a grant has an approval behind it, of the same
\* target and the same scope, given to the same identified program.
ReuseWasConsented ==
  \A r \in Request : allowed[r] # NoGrant =>
    \E q \in Request :
      /\ decision[q] \in Allow
      /\ allowed[q] = allowed[r]
      /\ want[q] = want[r]
      /\ q # r => want[r].client \in Program

\* The log goes on from what the file had: in its order, with the oldest gone
\* only as far as the records after them fill it to its capacity.
GoesOnFrom(old, new) ==
  \E gone \in 0 .. Len(old) :
    /\ Len(old) - gone <= Len(new)
    /\ \A i \in 1 .. (Len(old) - gone) : new[i] = old[gone + i]
    /\ gone > 0 => Len(new) = AuditCapacity

\* No save takes a record out of a vault's file, of whatever vault is open by
\* then and whichever tasks and commands save on top of one another, but the
\* oldest of a full log to make room (vault.rs:780).
SavedEntriesStay ==
  [][\A v \in Vault : GoesOnFrom(diskLog[v], diskLog'[v])]_vars

\* A log has the record, or is full with records that all came after it.
HasOrOutgrew(log, r) ==
  \/ \E i \in DOMAIN log : log[i] = Entry(r)
  \/ Len(log) = AuditCapacity /\ \A i \in DOMAIN log : log[i].request \in newer[r]

\* A request that got its secret is on record in a vault's file when it is
\* answered, and until AuditCapacity later ones have pushed it out, unless a
\* lock fell between the secret and the record.
AuditedUnlessInterrupted ==
  \A r \in Request :
    pc[r] = "done" /\ reply[r] \in Served /\ r \notin interrupted =>
      \E v \in Vault : HasOrOutgrew(diskLog[v], r)

(* Liveness.                                                               *)

\* Every request is answered, or is a process still running: no lock, no
\* absent user and no dropped prompt leaves an agent waiting for ever.
RequestsEnd ==
  \A r \in Request : pc[r] # "idle" ~> pc[r] \in {"running", "done"}

-----------------------------------------------------------------------------
(* What a comment says and the code does not do: refuted by a run.         *)

\* "Store it and charge this request against it, so an approval for one use
\* is not immediately spendable a second time" (seek_approval).
OneShotIsSpent ==
  \A r, q \in Request :
    decision[q] = "once" /\ allowed[q] # NoGrant /\ allowed[r] = allowed[q]
      => r = q

=============================================================================

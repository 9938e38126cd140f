----------------------------- MODULE Enrolment ------------------------------
(***************************************************************************)
(* Enrolling a vault for sync, and joining an account with a recovery kit. *)
(*                                                                         *)
(* Both are asynchronous commands that ask for the open vault anew each    *)
(* time they need one: to check it, to wrap its key, to write the sync     *)
(* state into it, to save it.  The user may lock it meanwhile, open        *)
(* another, forget the sync, or start a second enrolment.  Keys and        *)
(* ciphers are perfect: a key is named after the vault it was made for,    *)
(* and an account and a device after the task that made them.              *)
(***************************************************************************)
EXTENDS Naturals

CONSTANTS Vault, Password, Task, NoSync, NoVault, NoRow

ASSUME NullAssumption == NoSync \notin [account : Task, device : Task] /\ NoVault \notin Vault

VARIABLES
  own,       \* the password of each vault
  vaultFile, \* its file: the key of the payload, the wrapped key, the sync state
  mem,       \* the open vault
  account,   \* the server's accounts: the vault key and password a kit goes with
  device,    \* the server's devices: the account of each
  task,
  kits,      \* history: accounts whose recovery kit was shown
  strayed    \* history: vaults that were given the sync state of another state of affairs

enrolVars == <<own, vaultFile, mem, account, device, task, kits, strayed>>

NewFile(v) == [key |-> v, wrapped |-> [key |-> v, password |-> own[v]], sync |-> NoSync]
Closed == [vault |-> NoVault]
Unlocked == mem.vault # NoVault
NoTask == [at |-> "idle"]
Done == [at |-> "done"]
At(t, step) == task[t].at = step

InitEnrolment ==
  /\ own \in [Vault -> Password]
  /\ vaultFile = [v \in Vault |-> NewFile(v)]
  /\ mem = Closed
  /\ account = [t \in Task |-> NoRow]
  /\ device = [t \in Task |-> NoRow]
  /\ task = [t \in Task |-> NoTask]
  /\ kits = {} /\ strayed = {}

Finish(t) == task' = [task EXCEPT ![t] = Done]

-----------------------------------------------------------------------------
(* The user *)

(* UnlockedVault::open: the payload's key out of the wrapped one.           *)
OpenVault == \E v \in Vault :
  /\ ~Unlocked
  /\ vaultFile[v].wrapped = [key |-> vaultFile[v].key, password |-> own[v]]
  /\ mem' = [vault |-> v, key |-> vaultFile[v].key,
             wrapped |-> vaultFile[v].wrapped, sync |-> vaultFile[v].sync]
  /\ UNCHANGED <<own, vaultFile, account, device, task, kits, strayed>>

CloseVault ==
  /\ Unlocked
  /\ mem' = Closed
  /\ UNCHANGED <<own, vaultFile, account, device, task, kits, strayed>>

(* UnlockedVault::seal and the write: all that is in memory.                *)
Sealed(m) == [key |-> m.key, wrapped |-> m.wrapped, sync |-> m.sync]
Saved(m) == [vaultFile EXCEPT ![m.vault] = Sealed(m)]

SaveVault ==
  /\ Unlocked
  /\ vaultFile' = Saved(mem)
  /\ UNCHANGED <<own, mem, account, device, task, kits, strayed>>

Forget ==
  /\ Unlocked /\ mem.sync # NoSync
  /\ mem' = [mem EXCEPT !.sync = NoSync]
  /\ vaultFile' \in {vaultFile, Saved(mem')}
  /\ UNCHANGED <<own, account, device, task, kits, strayed>>

-----------------------------------------------------------------------------
(* enrol *)

Unsynced == Unlocked /\ mem.sync = NoSync

(* Nothing compares the password given with the vault's.                    *)
StartEnrol(t) == \E p \in Password :
  /\ At(t, "idle") /\ Unsynced
  /\ task' = [task EXCEPT ![t] = [at |-> "wrap", password |-> p, alone |-> TRUE]]
  /\ UNCHANGED <<own, vaultFile, mem, account, device, kits, strayed>>

WrapKey(t) ==
  /\ At(t, "wrap")
  /\ IF Unlocked
       THEN task' = [task EXCEPT ![t] =
              [at |-> "enrol", password |-> @.password, key |-> mem.key, home |-> mem.vault,
               alone |-> @.alone /\ vaultFile[mem.vault].key = mem.key]]
       ELSE Finish(t)
  /\ UNCHANGED <<own, vaultFile, mem, account, device, kits, strayed>>

Rows(t) ==
  /\ account' = [account EXCEPT ![t] = [key |-> task[t].key, password |-> task[t].password]]
  /\ device' = [device EXCEPT ![t] = t]

(* Mutation of CreateAccount: a failure is taken for an account.            *)
CreateAccountUnasked(t) ==
  /\ At(t, "enrol")
  /\ \/ Rows(t) \/ UNCHANGED <<account, device>>
  /\ task' = [task EXCEPT ![t].at = "set"]
  /\ UNCHANGED <<own, vaultFile, mem, kits, strayed>>

(* The request, or the answer to it, may be lost, and either is a failure.  *)
CreateAccount(t) ==
  /\ At(t, "enrol")
  /\ \/ Rows(t) /\ task' = [task EXCEPT ![t].at = "set"]
     \/ Rows(t) /\ Finish(t)
     \/ UNCHANGED <<account, device>> /\ Finish(t)
  /\ UNCHANGED <<own, vaultFile, mem, kits, strayed>>

(* The others that are under way are no longer alone with the vault.        *)
Step(t, step) == task' = [u \in Task |->
  IF u = t THEN [task[t] EXCEPT !.at = step]
  ELSE IF task[u].at \in {"idle", "done"} THEN task[u]
  ELSE [task[u] EXCEPT !.alone = FALSE]]

SetSync(t) ==
  /\ At(t, "set")
  /\ IF Unlocked
       THEN /\ mem' = [mem EXCEPT !.sync = [account |-> t, device |-> t]]
            /\ strayed' = IF task[t].alone /\ mem.vault = task[t].home
                            THEN strayed ELSE strayed \cup {mem.vault}
            /\ Step(t, "save")
       ELSE Finish(t) /\ UNCHANGED <<mem, strayed>>
  /\ UNCHANGED <<own, vaultFile, account, device, kits>>

(* Of whatever is open by now; the kit is shown when that went well.        *)
SaveEnrolled(t) ==
  /\ At(t, "save")
  /\ \/ Unlocked /\ vaultFile' = Saved(mem) /\ kits' = kits \cup {t}
     \/ UNCHANGED <<vaultFile, kits>>
  /\ Finish(t)
  /\ UNCHANGED <<own, mem, account, device, strayed>>

-----------------------------------------------------------------------------
(* join *)

(* Keys derived from the kit and a password open what they wrapped.         *)
Unwraps(a, p) == account[a].password = p

(* The kit and the password open what the server has, or nothing happens.   *)
StartJoin(t) == \E a \in kits, p \in Password :
  /\ At(t, "idle") /\ Unsynced
  /\ task' = [task EXCEPT ![t] =
       IF Unwraps(a, p)
         THEN [at |-> "register", account |-> a, password |-> p, key |-> account[a].key,
               alone |-> TRUE]
         ELSE Done]
  /\ UNCHANGED <<own, vaultFile, mem, account, device, kits, strayed>>

RegisterDevice(t) ==
  /\ At(t, "register")
  /\ \/ /\ device' = [device EXCEPT ![t] = task[t].account]
        /\ task' = [task EXCEPT ![t].at = "adopt"]
     \/ device' = [device EXCEPT ![t] = task[t].account] /\ Finish(t)
     \/ UNCHANGED device /\ Finish(t)
  /\ UNCHANGED <<own, vaultFile, mem, account, kits, strayed>>

Joined(t) == [account |-> task[t].account, device |-> t]

(* Mutation of Adopt: the password is not tried on the vault.               *)
AdoptUnproven(t) ==
  /\ At(t, "adopt")
  /\ IF Unlocked
       THEN /\ mem' = [mem EXCEPT !.key = task[t].key, !.sync = Joined(t),
                         !.wrapped = [key |-> task[t].key, password |-> task[t].password]]
            /\ Step(t, "keep")
       ELSE Finish(t) /\ UNCHANGED mem
  /\ UNCHANGED <<own, vaultFile, account, device, kits, strayed>>

(* Mutation of Adopt: the key stays and only the sync state is set.         *)
AdoptStateOnly(t) ==
  /\ At(t, "adopt")
  /\ IF Unlocked /\ mem.wrapped.password = task[t].password
       THEN mem' = [mem EXCEPT !.sync = Joined(t)] /\ Step(t, "keep")
       ELSE Finish(t) /\ UNCHANGED mem
  /\ UNCHANGED <<own, vaultFile, account, device, kits, strayed>>

(* adopt_vault_key: the password must open the wrapped key that is there,   *)
(* and then wraps the new one.                                              *)
Adopt(t) ==
  /\ At(t, "adopt")
  /\ IF Unlocked /\ mem.wrapped.password = task[t].password
       THEN /\ mem' = [mem EXCEPT !.key = task[t].key, !.sync = Joined(t),
                         !.wrapped = [key |-> task[t].key, password |-> task[t].password]]
            /\ Step(t, "keep")
       ELSE Finish(t) /\ UNCHANGED mem
  /\ UNCHANGED <<own, vaultFile, account, device, kits, strayed>>

SaveJoined(t) ==
  /\ At(t, "keep")
  /\ \/ Unlocked /\ vaultFile' = Saved(mem)
     \/ UNCHANGED vaultFile
  /\ Finish(t)
  /\ UNCHANGED <<own, mem, account, device, kits, strayed>>

TaskStep(t) ==
  \/ StartEnrol(t) \/ WrapKey(t) \/ CreateAccount(t) \/ SetSync(t) \/ SaveEnrolled(t)
  \/ StartJoin(t) \/ RegisterDevice(t) \/ Adopt(t) \/ SaveJoined(t)

NextEnrolment ==
  \/ OpenVault \/ CloseVault \/ SaveVault \/ Forget
  \/ \E t \in Task : TaskStep(t)

SpecEnrolment == InitEnrolment /\ [][NextEnrolment]_enrolVars

-----------------------------------------------------------------------------
Sealings == {<<v, vaultFile[v]>> : v \in Vault}
          \cup (IF Unlocked THEN {<<mem.vault, Sealed(mem)>>} ELSE {})

(* Every file opens with the password of its vault, to the key its payload  *)
(* is sealed with (vault.rs:690, "a vault that saves cleanly and never      *)
(* opens again"), whatever was adopted, half adopted or saved by others.    *)
StillOpens ==
  \A v \in Vault : vaultFile[v].wrapped = [key |-> vaultFile[v].key, password |-> own[v]]

(* A vault that syncs with an account has the key that the account's other  *)
(* machines read with (vault.rs:680) - unless another vault was opened, or  *)
(* another enrolment reached the vault, while its own was under way, or it  *)
(* enrolled with a key that was in no file yet.                             *)
SyncsUnderItsKey ==
  \A c \in Sealings : c[2].sync # NoSync /\ c[1] \notin strayed =>
    account[c[2].sync.account].key = c[2].key

(* The device a vault signs as is one the account has (sync.rs:107): no     *)
(* answer that was lost, no lock, and no save that failed leaves another.   *)
SignsAsRegistered ==
  \A c \in Sealings : c[2].sync # NoSync => device[c[2].sync.device] = c[2].sync.account
=============================================================================

------------------------------ MODULE Session ------------------------------
(***************************************************************************)
(* Session: which vault opens without its password being typed             *)
(* (apps/desktop/src-tauri/src/lib.rs, state.rs, remembered.rs).           *)
(*                                                                         *)
(* A user who unlocks may ask to be remembered.  The password then goes to *)
(* the credential store of the system, and the registry says until when it *)
(* may be used.  Every write of either, and of a vault file, may fail, and *)
(* the process may end between any two: a command is the list of what it   *)
(* has yet to do.  Commands run one at a time.                             *)
(*                                                                         *)
(* A write of the registry or of a vault file takes effect or does not,    *)
(* and so does a removal of files: how that comes about is VaultFiles.     *)
(***************************************************************************)
EXTENDS Naturals, Sequences

CONSTANTS
  Vault,       \* profile ids
  Default,     \* the id of the first profile
  Password,
  NoVault, NoPassword,
  Remember,    \* REMEMBER_SECONDS
  MaxClock     \* bound: the clock

ASSUME IdAssumption ==
  Default \in Vault /\ NoVault \notin Vault /\ NoPassword \notin Password
ASSUME TimeAssumption == Remember \in Nat /\ MaxClock \in Nat \ {0}

VARIABLES
  clock,
  registry,     \* the profiles, the selected one, until when each is remembered
  credential,   \* credential[v]: what the credential store has
  file,         \* file[v]: the password v's file opens with
  open,         \* the open vault, and how it was opened
  suppressed,   \* resume_suppressed
  todo,         \* what the command in progress has yet to do
  allowed       \* history: until when the user lets v open by itself

vars == <<clock, registry, credential, file, open, suppressed, todo, allowed>>

Registry == [vaults : SUBSET Vault, selected : Vault \cup {NoVault},
             until : [Vault -> Nat]]

Effect == [do : {"ClearExpiry", "DeleteCredential", "Forgotten",
                 "StoreCredential", "SetExpiry", "SetVault", "Deselect", "Save",
                 "Refresh"},
           vault : Vault, password : Password \cup {NoPassword}]

Closed == [vault |-> NoVault, password |-> NoPassword, resumed |-> FALSE]

TypeOK ==
  /\ clock \in 1 .. MaxClock
  /\ registry \in Registry
  /\ registry.selected \in registry.vaults \cup {NoVault}
  /\ credential \in [Vault -> Password \cup {NoPassword}]
  /\ file \in [Vault -> Password \cup {NoPassword}]
  /\ open \in [vault : Vault \cup {NoVault},
               password : Password \cup {NoPassword}, resumed : BOOLEAN]
  /\ suppressed \in BOOLEAN
  /\ todo \in Seq(Effect)
  /\ allowed \in [Vault -> Nat]

Init ==
  /\ clock = 1
  /\ registry = [vaults |-> {}, selected |-> NoVault,
                 until |-> [v \in Vault |-> 0]]
  /\ credential = [v \in Vault |-> NoPassword]
  /\ file = credential
  /\ open = Closed
  /\ suppressed = FALSE
  /\ todo = <<>>
  /\ allowed = [v \in Vault |-> 0]

Selected == registry.selected
IsUnlocked == open.vault # NoVault

-----------------------------------------------------------------------------
(* What commands do, one write at a time.                                  *)

Step(what, v, p) == [do |-> what, vault |-> v, password |-> p]

\* Mutation of Forget: the credential goes first, and the expiry when it can.
ForgetCredentialFirst(v) ==
  << Step("DeleteCredential", v, NoPassword), Step("Forgotten", v, NoPassword),
     Step("ClearExpiry", v, NoPassword) >>

\* forget_remembered.  Then the user sees that it is done.
Forget(v) ==
  << Step("ClearExpiry", v, NoPassword), Step("DeleteCredential", v, NoPassword),
     Step("Forgotten", v, NoPassword) >>

\* set_remembered
SetRemembered(v, p, remember) ==
  IF remember THEN << Step("StoreCredential", v, p), Step("SetExpiry", v, p) >>
              ELSE Forget(v)

E == Head(todo)
Doing(what) == todo # <<>> /\ E.do = what
Continue == todo' = Tail(todo)
Fail == todo' = <<>>

ClearExpiry ==
  /\ Doing("ClearExpiry")
  /\ \/ registry' = [registry EXCEPT !.until[E.vault] = 0] /\ Continue
     \/ UNCHANGED registry /\ Fail
  /\ UNCHANGED <<clock, credential, file, open, suppressed, allowed>>

\* The credential store may refuse, and nobody asks.
DeleteCredential ==
  /\ Doing("DeleteCredential") /\ Continue
  /\ credential' \in {credential, [credential EXCEPT ![E.vault] = NoPassword]}
  /\ UNCHANGED <<clock, registry, file, open, suppressed, allowed>>

Forgotten ==
  /\ Doing("Forgotten") /\ Continue
  /\ allowed' = [allowed EXCEPT ![E.vault] = 0]
  /\ UNCHANGED <<clock, registry, credential, file, open, suppressed>>

StoreCredential ==
  /\ Doing("StoreCredential")
  /\ \/ credential' = [credential EXCEPT ![E.vault] = E.password] /\ Continue
     \/ UNCHANGED credential /\ Fail
  /\ UNCHANGED <<clock, registry, file, open, suppressed, allowed>>

\* Without an expiry the credential is taken back, and the command fails.
SetExpiry ==
  /\ Doing("SetExpiry")
  /\ \/ /\ registry' = [registry EXCEPT !.until[E.vault] = clock + Remember]
        /\ Continue
     \/ /\ UNCHANGED registry
        /\ todo' = << Step("DeleteCredential", E.vault, NoPassword) >>
  /\ UNCHANGED <<clock, credential, file, open, suppressed, allowed>>

\* set_vault, allow_resume
SetVault ==
  /\ Doing("SetVault") /\ Continue
  /\ open' = [vault |-> E.vault, password |-> E.password, resumed |-> FALSE]
  /\ suppressed' = FALSE
  /\ UNCHANGED <<clock, registry, credential, file, allowed>>

Deselect ==
  /\ Doing("Deselect") /\ Continue
  /\ registry' \in {registry, [registry EXCEPT !.selected = NoVault]}
  /\ UNCHANGED <<clock, credential, file, open, suppressed, allowed>>

Save ==
  /\ Doing("Save")
  /\ \/ file' = [file EXCEPT ![E.vault] = open.password] /\ Continue
     \/ UNCHANGED file /\ Fail
  /\ UNCHANGED <<clock, registry, credential, open, suppressed, allowed>>

\* refresh_remembered: who is remembered stays so, from now on.
Refresh ==
  /\ Doing("Refresh")
  /\ IF registry.until[E.vault] > clock
       THEN /\ todo' = SetRemembered(E.vault, E.password, TRUE)
            /\ allowed' = [allowed EXCEPT ![E.vault] = clock + Remember]
       ELSE Continue /\ UNCHANGED allowed
  /\ UNCHANGED <<clock, registry, credential, file, open, suppressed>>

EffectStep ==
  \/ ClearExpiry \/ DeleteCredential \/ Forgotten \/ StoreCredential
  \/ SetExpiry \/ SetVault \/ Deselect \/ Save \/ Refresh

-----------------------------------------------------------------------------
(* The commands.                                                           *)

\* remembered_password
Remembered(v) == IF registry.until[v] > clock THEN credential[v] ELSE NoPassword

\* vault_startup: what opens a vault by itself.  A credential that does not is
\* forgotten, and so is one that has expired.
Startup ==
  LET v == Selected
      until == registry.until[v]
  IN /\ todo = <<>> /\ ~IsUnlocked /\ v # NoVault
     /\ ~suppressed /\ until # 0
     /\ \/ /\ Remembered(v) # NoPassword /\ Remembered(v) = file[v]
           /\ open' = [vault |-> v, password |-> file[v], resumed |-> TRUE]
           /\ UNCHANGED todo
        \/ /\ until <= clock \/ Remembered(v) \notin {NoPassword, file[v]}
           /\ todo' = Forget(v)
           /\ UNCHANGED open
        \/ /\ until > clock /\ Remembered(v) = NoPassword
           /\ todo' = << Step("ClearExpiry", v, NoPassword) >>
           /\ UNCHANGED open
     /\ UNCHANGED <<clock, registry, credential, file, suppressed, allowed>>

\* unlock_vault with the right password.
Unlock(remember) ==
  LET v == Selected
      p == file[v]
  IN /\ todo = <<>> /\ ~IsUnlocked /\ v # NoVault
     /\ todo' = Append(SetRemembered(v, p, remember), Step("SetVault", v, p))
     /\ allowed' = IF remember THEN [allowed EXCEPT ![v] = clock + Remember]
                               ELSE allowed
     /\ UNCHANGED <<clock, registry, credential, file, open, suppressed>>

\* create_vault.  The first profile always gets the same id; no other id is
\* used again.
Create(v, p, remember) ==
  /\ todo = <<>> /\ ~IsUnlocked /\ v \notin registry.vaults
  /\ IF registry.vaults = {} THEN v = Default
                             ELSE v # Default /\ credential[v] = NoPassword
  /\ registry' = [registry EXCEPT !.vaults = @ \cup {v}, !.selected = v]
  /\ file' = [file EXCEPT ![v] = p]
  /\ suppressed' = FALSE
  /\ todo' = Append(SetRemembered(v, p, remember), Step("SetVault", v, p))
  /\ allowed' = [allowed EXCEPT ![v] = IF remember THEN clock + Remember ELSE 0]
  /\ UNCHANGED <<clock, credential, open>>

Select(v) ==
  /\ todo = <<>> /\ ~IsUnlocked /\ v \in registry.vaults
  /\ registry' = [registry EXCEPT !.selected = v]
  /\ suppressed' = FALSE
  /\ UNCHANGED <<clock, credential, file, open, todo, allowed>>

ChooseAnother ==
  /\ todo = <<>> /\ Selected # NoVault
  /\ open' = Closed
  /\ todo' = << Step("Deselect", Selected, NoPassword) >>
  /\ UNCHANGED <<clock, registry, credential, file, suppressed, allowed>>

Lock ==
  /\ todo = <<>> /\ IsUnlocked
  /\ open' = Closed
  /\ suppressed' = TRUE
  /\ UNCHANGED <<clock, registry, credential, file, todo, allowed>>

Logout ==
  /\ todo = <<>> /\ IsUnlocked
  /\ open' = Closed
  /\ suppressed' = TRUE
  /\ todo' = Append(Forget(Selected), Step("Deselect", Selected, NoPassword))
  /\ UNCHANGED <<clock, registry, credential, file, allowed>>

\* remove_vault
Remove(v) ==
  /\ todo = <<>> /\ v \in registry.vaults
  /\ open' = Closed
  /\ suppressed' = TRUE
  /\ \/ /\ registry' = [vaults |-> registry.vaults \ {v},
                        selected |-> IF Selected = v THEN NoVault ELSE Selected,
                        until |-> [registry.until EXCEPT ![v] = 0]]
        /\ file' = [file EXCEPT ![v] = NoPassword]
        /\ todo' = << Step("DeleteCredential", v, NoPassword),
                     Step("Forgotten", v, NoPassword) >>
     \/ UNCHANGED <<registry, file, todo>>
  /\ UNCHANGED <<clock, credential, allowed>>

\* change_master_password, with the current password right.
ChangePassword(p) ==
  /\ todo = <<>> /\ IsUnlocked
  /\ open' = [open EXCEPT !.password = p]
  /\ todo' = << Step("Save", open.vault, p), Step("Refresh", open.vault, p) >>
  /\ UNCHANGED <<clock, registry, credential, file, suppressed, allowed>>

\* Any other change, by a command or by a task, is saved.
SaveVault ==
  /\ IsUnlocked
  /\ file' = [file EXCEPT ![open.vault] = open.password]
  /\ UNCHANGED <<clock, registry, credential, open, suppressed, todo, allowed>>

\* lock_on_reload: the page is loaded again.
Reload ==
  /\ todo = <<>> /\ IsUnlocked
  /\ open' = Closed
  /\ UNCHANGED <<clock, registry, credential, file, suppressed, todo, allowed>>

\* The app ends, wherever it is, and is started again.
Restart ==
  /\ open' = Closed
  /\ suppressed' = FALSE
  /\ todo' = <<>>
  /\ UNCHANGED <<clock, registry, credential, file, allowed>>

\* The time a command takes counts for nothing.
Tick ==
  /\ todo = <<>> /\ clock < MaxClock
  /\ clock' = clock + 1
  /\ UNCHANGED <<registry, credential, file, open, suppressed, todo, allowed>>

Command ==
  \/ Startup \/ ChooseAnother \/ Lock \/ Logout \/ SaveVault \/ Reload
  \/ \E remember \in BOOLEAN :
       \/ Unlock(remember)
       \/ \E v \in Vault, p \in Password : Create(v, p, remember)
  \/ \E v \in Vault : Select(v) \/ Remove(v)
  \/ \E p \in Password : ChangePassword(p)

Next == EffectStep \/ Command \/ Restart \/ Tick

Spec == Init /\ [][Next]_vars
-----------------------------------------------------------------------------
(* Safety.                                                                 *)

\* A vault opens by itself only while the user lets it: the last answer that
\* was carried out to the question "remember?" was yes, at most Remember ago,
\* and no log-out and no removal was reported as done since - across restarts,
\* failed writes and a new vault under an old id.
OpensOnlyIfAllowed ==
  [][~IsUnlocked /\ open'.resumed => clock < allowed[open'.vault]]_vars

=============================================================================

--------------------------- MODULE SessionProofs ----------------------------
(***************************************************************************)
(* Proofs about Session: its types, and that a vault opens by itself only  *)
(* while the user lets it.                                                 *)
(*                                                                         *)
(* The argument: an expiry in the registry is never later than what the    *)
(* user allowed.  Two effects could break that.  A SetExpiry does not,     *)
(* because the yes it carries out came when the command started and no     *)
(* time has passed since (YesStands).  A report that something is          *)
(* forgotten does not, because it stands behind the ClearExpiry of its own *)
(* vault or where the expiry is gone already (ReportsAreTrue).             *)
(***************************************************************************)
EXTENDS Session, TLAPS

\* Only profiles are remembered.
RememberedExist == \A v \in Vault \ registry.vaults : registry.until[v] = 0

ExpiriesAllowed ==
  \A v \in Vault :
    registry.until[v] <= allowed[v] /\ allowed[v] <= clock + Remember

YesStands ==
  \A i \in 1 .. Len(todo) : todo[i].do = "SetExpiry" =>
    /\ todo[i].vault \in registry.vaults
    /\ allowed[todo[i].vault] = clock + Remember
    /\ \A j \in 1 .. Len(todo) : todo[j].do # "Forgotten"

ReportsAreTrue ==
  \A i \in 1 .. Len(todo) : todo[i].do = "Forgotten" =>
    \/ registry.until[todo[i].vault] = 0
    \/ \E j \in 1 .. i - 1 :
         todo[j].do = "ClearExpiry" /\ todo[j].vault = todo[i].vault

\* The open vault is the selected one.
OpenIsSelected ==
  /\ IsUnlocked => open.vault = Selected
  /\ \A i \in 1 .. Len(todo) :
       /\ todo[i].do = "SetVault" =>
            /\ todo[i].vault = Selected
            /\ \A j \in 1 .. Len(todo) : todo[j].do # "Deselect"
       /\ todo[i].do = "Deselect" => ~IsUnlocked

Inv ==
  /\ TypeOK
  /\ OpenIsSelected
  /\ RememberedExist
  /\ ExpiriesAllowed
  /\ YesStands
  /\ ReportsAreTrue
-----------------------------------------------------------------------------
(* Lists of effects.                                                       *)

LEMMA HeadAndTail ==
  ASSUME NEW t \in Seq(Effect), t # <<>>
  PROVE  /\ Head(t) \in Effect /\ Head(t) = t[1] /\ Len(t) \in Nat \ {0}
         /\ Tail(t) \in Seq(Effect) /\ Len(Tail(t)) = Len(t) - 1
         /\ \A i \in 1 .. Len(t) - 1 : Tail(t)[i] = t[i + 1]
<1>. QED
  OBVIOUS

LEMMA ShortLists ==
  ASSUME NEW e \in Effect, NEW f \in Effect
  PROVE  << >> \in Seq(Effect) /\ << e >> \in Seq(Effect) /\ << e, f >> \in Seq(Effect)
<1>. QED
  OBVIOUS

\* What writing an expiry does to the registry.
LEMMA WrittenExpiry ==
  ASSUME NEW r \in Registry, NEW v \in Vault, NEW t \in Nat, NEW q,
         q = [r EXCEPT !.until[v] = t]
  PROVE  /\ q \in Registry
         /\ q.vaults = r.vaults /\ q.selected = r.selected
         /\ q.until[v] = t
         /\ \A w \in Vault \ {v} : q.until[w] = r.until[w]
<1>. QED
  BY DEF Registry

LEMMA StepIsEffect ==
  ASSUME NEW what \in {"ClearExpiry", "DeleteCredential", "Forgotten",
                       "StoreCredential", "SetExpiry", "SetVault", "Deselect",
                       "Save", "Refresh"},
         NEW v \in Vault, NEW p \in Password \cup {NoPassword}
  PROVE  /\ Step(what, v, p) \in Effect
         /\ Step(what, v, p).do = what /\ Step(what, v, p).vault = v
<1>. QED
  BY DEF Step, Effect

\* What forget_remembered does, in this order.
LEMMA ForgetIs ==
  ASSUME NEW v \in Vault
  PROVE  /\ Forget(v) \in Seq(Effect) /\ Len(Forget(v)) = 3
         /\ Forget(v)[1].do = "ClearExpiry" /\ Forget(v)[1].vault = v
         /\ Forget(v)[2].do = "DeleteCredential" /\ Forget(v)[2].vault = v
         /\ Forget(v)[3].do = "Forgotten" /\ Forget(v)[3].vault = v
<1>1. /\ Step("ClearExpiry", v, NoPassword) \in Effect
      /\ Step("DeleteCredential", v, NoPassword) \in Effect
      /\ Step("Forgotten", v, NoPassword) \in Effect
  BY StepIsEffect
<1>. QED
  BY <1>1, StepIsEffect DEF Forget

\* What set_remembered does for a yes.
LEMMA RememberIs ==
  ASSUME NEW v \in Vault, NEW p \in Password \cup {NoPassword}
  PROVE  /\ SetRemembered(v, p, TRUE) \in Seq(Effect)
         /\ Len(SetRemembered(v, p, TRUE)) = 2
         /\ SetRemembered(v, p, TRUE)[1].do = "StoreCredential"
         /\ SetRemembered(v, p, TRUE)[1].vault = v
         /\ SetRemembered(v, p, TRUE)[2].do = "SetExpiry"
         /\ SetRemembered(v, p, TRUE)[2].vault = v
<1>1. Step("StoreCredential", v, p) \in Effect /\ Step("SetExpiry", v, p) \in Effect
  BY StepIsEffect
<1>. QED
  BY <1>1, StepIsEffect DEF SetRemembered

LEMMA AppendIs ==
  ASSUME NEW s \in Seq(Effect), NEW e \in Effect
  PROVE  /\ Append(s, e) \in Seq(Effect) /\ Len(Append(s, e)) = Len(s) + 1
         /\ \A i \in 1 .. Len(s) : Append(s, e)[i] = s[i]
         /\ Append(s, e)[Len(s) + 1] = e
<1>. QED
  OBVIOUS

-----------------------------------------------------------------------------
(* Types.                                                                  *)

LEMMA TypeInit == Init => TypeOK
<1>. SUFFICES ASSUME Init PROVE TypeOK
  OBVIOUS
<1>. USE IdAssumption, TimeAssumption DEF Init
<1>1. registry \in Registry /\ registry.selected \in registry.vaults \cup {NoVault}
  BY DEF Registry
<1>2. todo \in Seq(Effect)
  OBVIOUS
<1>3. open \in [vault : Vault \cup {NoVault},
               password : Password \cup {NoPassword}, resumed : BOOLEAN]
  BY DEF Closed
<1>4. clock \in 1 .. MaxClock
  OBVIOUS
<1>5. /\ credential \in [Vault -> Password \cup {NoPassword}]
      /\ file \in [Vault -> Password \cup {NoPassword}]
      /\ allowed \in [Vault -> Nat] /\ suppressed \in BOOLEAN
  OBVIOUS
<1>. QED
  BY <1>1, <1>2, <1>3, <1>4, <1>5 DEF TypeOK

LEMMA TypeEffects == TypeOK /\ EffectStep => TypeOK'
<1>. SUFFICES ASSUME TypeOK, EffectStep PROVE TypeOK'
  OBVIOUS
<1>. USE IdAssumption, TimeAssumption DEF TypeOK, Doing, Continue, Fail
<1>1. todo # <<>>
  BY DEF EffectStep, ClearExpiry, DeleteCredential, Forgotten, StoreCredential,
         SetExpiry, SetVault, Deselect, Save, Refresh
<1>2. E \in Effect /\ Tail(todo) \in Seq(Effect)
  BY <1>1, HeadAndTail DEF E
<1>3. E.vault \in Vault /\ E.password \in Password \cup {NoPassword}
  BY <1>2 DEF Effect
<1>4. << >> \in Seq(Effect)
  OBVIOUS
<1>5. CASE ClearExpiry
  <2>0. ASSUME registry' = [registry EXCEPT !.until[E.vault] = 0]
        PROVE  /\ registry' \in Registry
               /\ registry'.selected \in registry'.vaults \cup {NoVault}
    BY <1>3, <2>0 DEF Registry
  <2>1. /\ registry' \in Registry
        /\ registry'.selected \in registry'.vaults \cup {NoVault}
    BY <1>5, <2>0 DEF ClearExpiry
  <2>2. todo' \in Seq(Effect)
    BY <1>2, <1>4, <1>5 DEF ClearExpiry
  <2>. QED
    BY <1>5, <2>1, <2>2 DEF ClearExpiry
<1>6. CASE DeleteCredential
  BY <1>2, <1>3, <1>6 DEF DeleteCredential
<1>7. CASE Forgotten
  BY <1>2, <1>3, <1>7 DEF Forgotten
<1>8. CASE StoreCredential
  BY <1>2, <1>3, <1>4, <1>8 DEF StoreCredential
<1>9. CASE SetExpiry
  <2>1. clock + Remember \in Nat
    OBVIOUS
  <2>2. /\ registry' \in Registry
        /\ registry'.selected \in registry'.vaults \cup {NoVault}
    BY <1>3, <1>9, <2>1, WrittenExpiry DEF SetExpiry
  <2>3. << Step("DeleteCredential", E.vault, NoPassword) >> \in Seq(Effect)
    BY <1>3, StepIsEffect, ShortLists
  <2>4. todo' \in Seq(Effect)
    BY <1>2, <1>9, <2>3 DEF SetExpiry
  <2>. QED
    BY <1>9, <2>2, <2>4 DEF SetExpiry
<1>10. CASE SetVault
  BY <1>2, <1>3, <1>10 DEF SetVault
<1>11. CASE Deselect
  <2>1. /\ registry' \in Registry
        /\ registry'.selected \in registry'.vaults \cup {NoVault}
    BY <1>11 DEF Deselect, Registry
  <2>. QED
    BY <1>2, <1>11, <2>1 DEF Deselect
<1>12. CASE Save
  BY <1>2, <1>3, <1>4, <1>12 DEF Save
<1>13. CASE Refresh
  <2>1. SetRemembered(E.vault, E.password, TRUE) \in Seq(Effect)
    BY <1>3, RememberIs
  <2>2. clock + Remember \in Nat
    OBVIOUS
  <2>3. CASE registry.until[E.vault] > clock
    <3>1. todo' = SetRemembered(E.vault, E.password, TRUE)
      BY <1>13, <2>3 DEF Refresh
    <3>2. allowed' = [allowed EXCEPT ![E.vault] = clock + Remember]
      BY <1>13, <2>3 DEF Refresh
    <3>3. allowed' \in [Vault -> Nat]
      BY <2>2, <3>2
    <3>. QED
      BY <1>13, <2>1, <3>1, <3>3 DEF Refresh
  <2>4. CASE ~(registry.until[E.vault] > clock)
    BY <1>2, <1>13, <2>4 DEF Refresh
  <2>. QED
    BY <2>3, <2>4
<1>. QED
  BY <1>5, <1>6, <1>7, <1>8, <1>9, <1>10, <1>11, <1>12, <1>13 DEF EffectStep

LEMMA TypeCommands == TypeOK /\ OpenIsSelected /\ Command => TypeOK'
<1>. SUFFICES ASSUME TypeOK, OpenIsSelected, Command PROVE TypeOK'
  OBVIOUS
<1>. USE IdAssumption, TimeAssumption DEF TypeOK, IsUnlocked, Selected
<1>. DEFINE Opened == [vault : Vault \cup {NoVault},
                       password : Password \cup {NoPassword}, resumed : BOOLEAN]
<1>0. Closed \in Opened
  BY DEF Closed
<1>1. ASSUME NEW s \in Seq(Effect), NEW what \in {"SetVault", "Deselect"},
             NEW v \in Vault, NEW p \in Password \cup {NoPassword}
      PROVE  Append(s, Step(what, v, p)) \in Seq(Effect)
  BY <1>1, StepIsEffect, AppendIs
<1>2. ASSUME NEW v \in Vault, NEW p \in Password \cup {NoPassword},
             NEW remember \in BOOLEAN
      PROVE  SetRemembered(v, p, remember) \in Seq(Effect)
  <2>1. CASE remember
    BY <2>1, RememberIs DEF SetRemembered
  <2>2. CASE ~remember
    BY <2>2, ForgetIs DEF SetRemembered
  <2>. QED
    BY <2>1, <2>2
<1>3. CASE Startup
  <2>1. Selected \in Vault
    BY <1>3 DEF Startup, Registry
  <2>2. Forget(Selected) \in Seq(Effect)
    BY <2>1, ForgetIs
  <2>3. << Step("ClearExpiry", Selected, NoPassword) >> \in Seq(Effect)
    BY <2>1, StepIsEffect, ShortLists
  <2>4. todo' \in Seq(Effect)
    BY <1>3, <2>2, <2>3 DEF Startup
  <2>5. open' \in Opened
    <3>1. [vault |-> Selected, password |-> file[Selected], resumed |-> TRUE] \in Opened
      BY <2>1
    <3>. QED
      BY <1>3, <3>1 DEF Startup
  <2>6. UNCHANGED <<clock, registry, credential, file, suppressed, allowed>>
    BY <1>3 DEF Startup
  <2>. QED
    BY <2>4, <2>5, <2>6
<1>4. ASSUME NEW remember \in BOOLEAN, Unlock(remember) PROVE TypeOK'
  <2>1. Selected \in Vault
    BY <1>4 DEF Unlock, Registry
  <2>2. todo' \in Seq(Effect)
    BY <1>1, <1>2, <1>4, <2>1 DEF Unlock
  <2>3. allowed' \in [Vault -> Nat]
    BY <1>4, <2>1 DEF Unlock
  <2>. QED
    BY <1>4, <2>2, <2>3 DEF Unlock
<1>5. ASSUME NEW v \in Vault, NEW p \in Password, NEW remember \in BOOLEAN,
             Create(v, p, remember)
      PROVE  TypeOK'
  <2>1. todo' \in Seq(Effect)
    BY <1>1, <1>2, <1>5 DEF Create
  <2>2. /\ registry' \in Registry
        /\ registry'.selected \in registry'.vaults \cup {NoVault}
    BY <1>5 DEF Create, Registry
  <2>3. allowed' \in [Vault -> Nat]
    BY <1>5 DEF Create
  <2>. QED
    BY <1>5, <2>1, <2>2, <2>3 DEF Create
<1>6. ASSUME NEW v \in Vault, Select(v) PROVE TypeOK'
  <2>1. /\ registry' \in Registry
        /\ registry'.selected \in registry'.vaults \cup {NoVault}
    BY <1>6 DEF Select, Registry
  <2>. QED
    BY <1>6, <2>1 DEF Select
<1>7. CASE ChooseAnother
  <2>1. Selected \in Vault
    BY <1>7 DEF ChooseAnother, Registry
  <2>2. << Step("Deselect", Selected, NoPassword) >> \in Seq(Effect)
    BY <2>1, StepIsEffect, ShortLists
  <2>. QED
    BY <1>0, <1>7, <2>2 DEF ChooseAnother
<1>8. CASE Lock
  BY <1>0, <1>8 DEF Lock
<1>9. CASE Logout
  <2>1. Selected \in Vault
    BY <1>9 DEF Logout, OpenIsSelected
  <2>2. todo' \in Seq(Effect)
    BY <1>1, <1>9, <2>1, ForgetIs DEF Logout
  <2>. QED
    BY <1>0, <1>9, <2>2 DEF Logout
<1>10. ASSUME NEW v \in Vault, Remove(v) PROVE TypeOK'
  <2>1. << Step("DeleteCredential", v, NoPassword), Step("Forgotten", v, NoPassword) >>
          \in Seq(Effect)
    BY StepIsEffect, ShortLists
  <2>2. todo' \in Seq(Effect)
    BY <1>10, <2>1 DEF Remove
  <2>3. /\ registry' \in Registry
        /\ registry'.selected \in registry'.vaults \cup {NoVault}
    BY <1>10 DEF Remove, Registry
  <2>. QED
    BY <1>0, <1>10, <2>2, <2>3 DEF Remove
<1>11. ASSUME NEW p \in Password, ChangePassword(p) PROVE TypeOK'
  <2>1. open.vault \in Vault
    BY <1>11 DEF ChangePassword
  <2>2. todo' \in Seq(Effect)
    BY <1>11, <2>1, StepIsEffect, ShortLists DEF ChangePassword
  <2>. QED
    BY <1>11, <2>2 DEF ChangePassword
<1>12. CASE SaveVault
  BY <1>12 DEF SaveVault
<1>13. CASE Reload
  BY <1>0, <1>13 DEF Reload
<1>. HIDE DEF TypeOK
<1>. QED
  BY <1>3, <1>4, <1>5, <1>6, <1>7, <1>8, <1>9, <1>10, <1>11, <1>12, <1>13
     DEF Command

-----------------------------------------------------------------------------
(* The lists of effects: what a command starts with, and what is left of   *)
(* it after a step.                                                        *)

\* A list is about one vault, asks to set its expiry only after a yes, and
\* reports it forgotten only behind the write that clears the expiry.
Orderly(t, v, yes, last) ==
  \A i \in 1 .. Len(t) :
    /\ t[i].vault = v
    /\ t[i].do \in {"SetVault", "Deselect"} => t[i].do = last
    /\ t[i].do = "SetExpiry" => yes
    /\ t[i].do = "Forgotten" => ~yes /\ 1 < i /\ t[1].do = "ClearExpiry"

LEMMA ListsAreOrderly ==
  ASSUME NEW v \in Vault, NEW p \in Password \cup {NoPassword},
         NEW yes \in BOOLEAN
  PROVE  Orderly(SetRemembered(v, p, yes), v, yes, "none")
<1>1. CASE yes
  <2>1. SetRemembered(v, p, yes) =
          << Step("StoreCredential", v, p), Step("SetExpiry", v, p) >>
    BY <1>1 DEF SetRemembered
  <2>2. /\ Step("StoreCredential", v, p).do = "StoreCredential"
        /\ Step("StoreCredential", v, p).vault = v
        /\ Step("SetExpiry", v, p).do = "SetExpiry"
        /\ Step("SetExpiry", v, p).vault = v
    BY StepIsEffect
  <2>3. Orderly(<< Step("StoreCredential", v, p), Step("SetExpiry", v, p) >>,
                v, yes, "none")
    BY <1>1, <2>2 DEF Orderly
  <2>. QED
    BY <2>1, <2>3
<1>2. CASE ~yes
  <2>1. SetRemembered(v, p, yes) = Forget(v)
    BY <1>2 DEF SetRemembered
  <2>. QED
    BY <1>2, <2>1, ForgetIs DEF Orderly
<1>. QED
  BY <1>1, <1>2

LEMMA LastOfList ==
  ASSUME NEW s \in Seq(Effect), NEW v \in Vault, NEW yes \in BOOLEAN,
         Orderly(s, v, yes, "none"),
         NEW last \in {"SetVault", "Deselect"},
         NEW p \in Password \cup {NoPassword}
  PROVE  Orderly(Append(s, Step(last, v, p)), v, yes, last)
<1>1. Step(last, v, p) \in Effect /\ Step(last, v, p).do = last /\ Step(last, v, p).vault = v
  BY StepIsEffect
<1>2. Len(s) \in Nat
  OBVIOUS
<1>. HIDE DEF Step
<1>. QED
  BY <1>1, <1>2, AppendIs DEF Orderly

\* What a new list needs to be in keeping with the state.
LEMMA NewList ==
  ASSUME NEW v \in Vault, NEW yes \in BOOLEAN, NEW last,
         todo' \in Seq(Effect), Orderly(todo', v, yes, last),
         IsUnlocked' => open'.vault = Selected',
         last = "SetVault" => v = Selected',
         last = "Deselect" => ~IsUnlocked',
         yes => v \in registry'.vaults /\ allowed'[v] = clock' + Remember
  PROVE  OpenIsSelected' /\ YesStands' /\ ReportsAreTrue'
<1>0. Len(todo') \in Nat
  OBVIOUS
<1>1. OpenIsSelected'
  BY <1>0 DEF Orderly, OpenIsSelected
<1>2. YesStands'
  BY <1>0 DEF Orderly, YesStands
<1>3. ReportsAreTrue'
  <2>. SUFFICES ASSUME NEW i \in 1 .. Len(todo'), todo'[i].do = "Forgotten"
                PROVE  \E j \in 1 .. i - 1 :
                         todo'[j].do = "ClearExpiry" /\ todo'[j].vault = todo'[i].vault
    BY DEF ReportsAreTrue
  <2>1. /\ 1 < i /\ todo'[1].do = "ClearExpiry"
        /\ todo'[i].vault = v /\ todo'[1].vault = v
    BY <1>0 DEF Orderly
  <2>. QED
    BY <1>0, <2>1
<1>. QED
  BY <1>1, <1>2, <1>3

\* What is left of a list after a step: its tail, or nothing.
Shorter ==
  \A i \in 1 .. Len(todo') : i + 1 \in 1 .. Len(todo) /\ todo'[i] = todo[i + 1]

LEMMA StepsShorten ==
  ASSUME TypeOK, todo # <<>>, Continue \/ Fail
  PROVE  Shorter
<1>1. todo \in Seq(Effect)
  BY DEF TypeOK
<1>2. CASE Continue
  <2>1. /\ Len(todo) \in Nat \ {0} /\ Len(todo') = Len(todo) - 1
        /\ \A i \in 1 .. Len(todo) - 1 : todo'[i] = todo[i + 1]
    BY <1>1, <1>2, HeadAndTail DEF Continue
  <2>. QED
    BY <2>1 DEF Shorter
<1>3. CASE Fail
  BY <1>3 DEF Fail, Shorter
<1>. QED
  BY <1>2, <1>3

LEMMA ShorterList ==
  ASSUME TypeOK, todo # <<>>, Shorter, TypeOK',
         OpenIsSelected, YesStands, ReportsAreTrue,
         IsUnlocked' => open'.vault = Selected',
         IsUnlocked' => IsUnlocked \/ E.do = "SetVault",
         Selected' = Selected \/ E.do = "Deselect",
         registry'.vaults = registry.vaults, clock' = clock,
         allowed' = allowed \/ E.do = "Forgotten",
         \A v \in Vault :
           registry.until[v] = 0 => registry'.until[v] = 0 \/ E.do = "SetExpiry",
         E.do = "ClearExpiry" => registry'.until[E.vault] = 0
  PROVE  OpenIsSelected' /\ YesStands' /\ ReportsAreTrue'
<1>1. /\ E = todo[1] /\ Len(todo) \in Nat \ {0} /\ Len(todo') \in Nat
      /\ 1 \in 1 .. Len(todo)
  BY HeadAndTail DEF TypeOK, E
<1>2. \A i \in 1 .. Len(todo') : i + 1 \in 1 .. Len(todo) /\ todo'[i] = todo[i + 1]
  BY DEF Shorter
<1>3. \A i \in 1 .. Len(todo') : todo'[i].vault \in Vault
  <2>1. todo' \in Seq(Effect)
    BY DEF TypeOK
  <2>2. \A i \in 1 .. Len(todo') : todo'[i] \in Effect
    BY <2>1
  <2>. QED
    BY <2>2 DEF Effect
<1>. HIDE DEF E
<1>4. OpenIsSelected'
  <2>. SUFFICES ASSUME NEW i \in 1 .. Len(todo')
                PROVE  /\ todo'[i].do = "SetVault" =>
                            /\ todo'[i].vault = Selected'
                            /\ \A j \in 1 .. Len(todo') : todo'[j].do # "Deselect"
                       /\ todo'[i].do = "Deselect" => ~IsUnlocked'
    BY DEF OpenIsSelected
  <2>1. todo[i + 1].do = "SetVault" =>
          /\ todo[i + 1].vault = Selected
          /\ \A j \in 1 .. Len(todo) : todo[j].do # "Deselect"
    BY <1>2 DEF OpenIsSelected
  <2>2. todo[i + 1].do = "Deselect" => ~IsUnlocked /\ todo[1].do # "SetVault"
    BY <1>1, <1>2 DEF OpenIsSelected
  <2>. QED
    BY <1>1, <1>2, <2>1, <2>2
<1>5. YesStands'
  <2>. SUFFICES ASSUME NEW i \in 1 .. Len(todo'), todo'[i].do = "SetExpiry"
                PROVE  /\ todo'[i].vault \in registry'.vaults
                       /\ allowed'[todo'[i].vault] = clock' + Remember
                       /\ \A j \in 1 .. Len(todo') : todo'[j].do # "Forgotten"
    BY DEF YesStands
  <2>1. /\ todo[i + 1].vault \in registry.vaults
        /\ allowed[todo[i + 1].vault] = clock + Remember
        /\ \A j \in 1 .. Len(todo) : todo[j].do # "Forgotten"
    BY <1>2 DEF YesStands
  <2>. QED
    BY <1>1, <1>2, <2>1
<1>6. ReportsAreTrue'
  <2>. SUFFICES ASSUME NEW i \in 1 .. Len(todo'), todo'[i].do = "Forgotten",
                       registry'.until[todo'[i].vault] # 0
                PROVE  \E j \in 1 .. i - 1 :
                         todo'[j].do = "ClearExpiry" /\ todo'[j].vault = todo'[i].vault
    BY DEF ReportsAreTrue
  <2>1. todo[i + 1].do = "Forgotten" /\ todo[1].do # "SetExpiry"
    BY <1>1, <1>2 DEF YesStands
  <2>2. registry.until[todo[i + 1].vault] # 0
    BY <1>1, <1>2, <1>3, <2>1
  <2>3. PICK j \in 1 .. i : todo[j].do = "ClearExpiry" /\ todo[j].vault = todo[i + 1].vault
    BY <1>1, <1>2, <2>1, <2>2 DEF ReportsAreTrue
  <2>4. j # 1
    BY <1>1, <1>2, <2>3
  <2>5. j - 1 \in 1 .. i - 1 /\ j - 1 \in 1 .. Len(todo') /\ todo'[j - 1] = todo[j]
    BY <1>1, <1>2, <2>4
  <2>. QED
    BY <1>2, <2>3, <2>5
<1>. QED
  BY <1>4, <1>5, <1>6

-----------------------------------------------------------------------------
(* Every step keeps the invariant.                                         *)

LEMMA InitInv == Init => Inv
<1>. SUFFICES ASSUME Init PROVE Inv
  OBVIOUS
<1>1. TypeOK
  BY TypeInit
<1>2. Len(todo) = 0 /\ clock = 1
  BY DEF Init
<1>3. OpenIsSelected /\ YesStands /\ ReportsAreTrue
  BY <1>2 DEF Init, OpenIsSelected, YesStands, ReportsAreTrue, IsUnlocked, Closed
<1>4. RememberedExist /\ ExpiriesAllowed
  BY <1>2, TimeAssumption DEF Init, RememberedExist, ExpiriesAllowed
<1>. QED
  BY <1>1, <1>3, <1>4 DEF Inv

LEMMA EffectInv == Inv /\ EffectStep => Inv'
<1>. SUFFICES ASSUME Inv, EffectStep PROVE Inv'
  OBVIOUS
<1>0. TypeOK'
  BY TypeEffects DEF Inv
<1>1. todo # <<>> /\ E = todo[1] /\ 1 \in 1 .. Len(todo)
  <2>1. todo # <<>>
    BY DEF EffectStep, ClearExpiry, DeleteCredential, Forgotten, StoreCredential,
           SetExpiry, SetVault, Deselect, Save, Refresh, Doing
  <2>. QED
    BY <2>1, HeadAndTail DEF Inv, TypeOK, E
<1>2. E.vault \in Vault /\ E.password \in Password \cup {NoPassword}
  <2>1. E \in Effect
    BY <1>1, HeadAndTail DEF Inv, TypeOK, E
  <2>. QED
    BY <2>1 DEF Effect
<1>3. clock \in Nat /\ Remember \in Nat /\ registry \in Registry
      /\ allowed \in [Vault -> Nat]
  BY TimeAssumption DEF Inv, TypeOK
<1>4. IsUnlocked => open.vault = Selected
  BY DEF Inv, OpenIsSelected
<1>5. ASSUME DeleteCredential \/ StoreCredential \/ Save PROVE Inv'
  <2>1. Shorter
    BY <1>1, <1>5, StepsShorten DEF Inv, DeleteCredential, StoreCredential, Save
  <2>2. UNCHANGED <<clock, registry, open, allowed>> /\ E.do # "ClearExpiry"
    BY <1>5 DEF DeleteCredential, StoreCredential, Save, Doing
  <2>3. OpenIsSelected' /\ YesStands' /\ ReportsAreTrue'
    BY <1>0, <1>1, <1>4, <2>1, <2>2, ShorterList DEF Inv, IsUnlocked, Selected
  <2>. QED
    BY <1>0, <2>2, <2>3 DEF Inv, RememberedExist, ExpiriesAllowed
<1>6. CASE ClearExpiry
  <2>1. Shorter
    BY <1>1, <1>6, StepsShorten DEF Inv, ClearExpiry
  <2>2. UNCHANGED <<clock, open, allowed>> /\ E.do = "ClearExpiry"
    BY <1>6 DEF ClearExpiry, Doing
  <2>3. CASE registry' = [registry EXCEPT !.until[E.vault] = 0]
    <3>1. /\ registry'.vaults = registry.vaults
          /\ registry'.selected = registry.selected
          /\ registry'.until[E.vault] = 0
          /\ \A w \in Vault \ {E.vault} : registry'.until[w] = registry.until[w]
      BY <1>2, <1>3, <2>3 DEF Registry
    <3>2. OpenIsSelected' /\ YesStands' /\ ReportsAreTrue'
      BY <1>0, <1>1, <1>4, <2>1, <2>2, <3>1, ShorterList DEF Inv, IsUnlocked, Selected
    <3>3. RememberedExist'
      BY <3>1 DEF Inv, RememberedExist
    <3>4. ExpiriesAllowed'
      BY <1>3, <2>2, <3>1 DEF Inv, ExpiriesAllowed
    <3>. QED
      BY <1>0, <3>2, <3>3, <3>4 DEF Inv
  <2>4. CASE UNCHANGED registry /\ Fail
    <3>1. todo' \in Seq(Effect) /\ Len(todo') = 0
      BY <2>4 DEF Fail
    <3>2. OpenIsSelected' /\ YesStands' /\ ReportsAreTrue'
      BY <1>4, <2>2, <2>4, <3>1
         DEF OpenIsSelected, YesStands, ReportsAreTrue, IsUnlocked, Selected
    <3>. QED
      BY <1>0, <2>2, <2>4, <3>2 DEF Inv, RememberedExist, ExpiriesAllowed
  <2>. QED
    BY <1>6, <2>3, <2>4 DEF ClearExpiry
<1>7. CASE Forgotten
  <2>1. Shorter
    BY <1>1, <1>7, StepsShorten DEF Inv, Forgotten
  <2>2. UNCHANGED <<clock, registry, open>> /\ E.do = "Forgotten"
    BY <1>7 DEF Forgotten, Doing
  <2>3. OpenIsSelected' /\ YesStands' /\ ReportsAreTrue'
    BY <1>0, <1>1, <1>4, <2>1, <2>2, ShorterList DEF Inv, IsUnlocked, Selected
  <2>4. registry.until[E.vault] = 0
    BY <1>1, <2>2 DEF Inv, ReportsAreTrue
  <2>5. allowed' = [allowed EXCEPT ![E.vault] = 0]
    BY <1>7 DEF Forgotten
  <2>6. ExpiriesAllowed'
    BY <1>2, <1>3, <2>2, <2>4, <2>5 DEF Inv, ExpiriesAllowed
  <2>. QED
    BY <1>0, <2>2, <2>3, <2>6 DEF Inv, RememberedExist
<1>8. CASE SetExpiry
  <2>1. UNCHANGED <<clock, open, allowed>> /\ E.do = "SetExpiry"
    BY <1>8 DEF SetExpiry, Doing
  <2>2. E.vault \in registry.vaults /\ allowed[E.vault] = clock + Remember
    BY <1>1, <2>1 DEF Inv, YesStands
  <2>3. CASE registry' = [registry EXCEPT !.until[E.vault] = clock + Remember] /\ Continue
    <3>1. /\ registry'.vaults = registry.vaults
          /\ registry'.selected = registry.selected
          /\ registry'.until[E.vault] = clock + Remember
          /\ \A w \in Vault \ {E.vault} : registry'.until[w] = registry.until[w]
      BY <1>2, <1>3, <2>3 DEF Registry
    <3>2. Shorter
      BY <1>1, <2>3, StepsShorten DEF Inv
    <3>3. OpenIsSelected' /\ YesStands' /\ ReportsAreTrue'
      BY <1>0, <1>1, <1>4, <2>1, <3>1, <3>2, ShorterList DEF Inv, IsUnlocked, Selected
    <3>4. RememberedExist'
      BY <2>2, <3>1 DEF Inv, RememberedExist
    <3>5. ExpiriesAllowed'
      BY <1>3, <2>1, <2>2, <3>1 DEF Inv, ExpiriesAllowed
    <3>. QED
      BY <1>0, <3>3, <3>4, <3>5 DEF Inv
  <2>4. CASE /\ UNCHANGED registry
             /\ todo' = << Step("DeleteCredential", E.vault, NoPassword) >>
    <3>1. Orderly(todo', E.vault, FALSE, "none")
      BY <1>2, <2>4, StepIsEffect DEF Orderly
    <3>2. todo' \in Seq(Effect)
      BY <1>0 DEF TypeOK
    <3>3. OpenIsSelected' /\ YesStands' /\ ReportsAreTrue'
      BY <1>2, <1>4, <2>1, <2>4, <3>1, <3>2, NewList DEF IsUnlocked, Selected
    <3>. QED
      BY <1>0, <2>1, <2>4, <3>3 DEF Inv, RememberedExist, ExpiriesAllowed
  <2>. QED
    BY <1>8, <2>3, <2>4 DEF SetExpiry
<1>9. CASE SetVault
  <2>1. Shorter
    BY <1>1, <1>9, StepsShorten DEF Inv, SetVault
  <2>2. UNCHANGED <<clock, registry, allowed>> /\ E.do = "SetVault"
    BY <1>9 DEF SetVault, Doing
  <2>3. open'.vault = E.vault /\ E.vault = Selected
    BY <1>1, <1>9, <2>2 DEF SetVault, Inv, OpenIsSelected
  <2>4. OpenIsSelected' /\ YesStands' /\ ReportsAreTrue'
    BY <1>0, <1>1, <2>1, <2>2, <2>3, ShorterList DEF Inv, Selected
  <2>. QED
    BY <1>0, <2>2, <2>4 DEF Inv, RememberedExist, ExpiriesAllowed
<1>10. CASE Deselect
  <2>1. Shorter
    BY <1>1, <1>10, StepsShorten DEF Inv, Deselect
  <2>2. UNCHANGED <<clock, open, allowed>> /\ E.do = "Deselect"
    BY <1>10 DEF Deselect, Doing
  <2>3. registry'.vaults = registry.vaults /\ registry'.until = registry.until
    BY <1>3, <1>10 DEF Deselect, Registry
  <2>4. ~IsUnlocked /\ ~IsUnlocked'
    BY <1>1, <2>2 DEF Inv, OpenIsSelected, IsUnlocked
  <2>5. OpenIsSelected' /\ YesStands' /\ ReportsAreTrue'
    BY <1>0, <1>1, <2>1, <2>2, <2>3, <2>4, ShorterList DEF Inv
  <2>. QED
    BY <1>0, <2>2, <2>3, <2>5 DEF Inv, RememberedExist, ExpiriesAllowed
<1>11. CASE Refresh
  <2>1. UNCHANGED <<clock, registry, open>> /\ E.do = "Refresh"
    BY <1>11 DEF Refresh, Doing
  <2>2. CASE registry.until[E.vault] > clock
    <3>1. /\ todo' = SetRemembered(E.vault, E.password, TRUE)
          /\ allowed' = [allowed EXCEPT ![E.vault] = clock + Remember]
      BY <1>11, <2>2 DEF Refresh
    <3>2. E.vault \in registry.vaults
      BY <1>2, <1>3, <2>2 DEF Inv, RememberedExist
    <3>3. Orderly(todo', E.vault, TRUE, "none") /\ todo' \in Seq(Effect)
      BY <1>0, <1>2, <3>1, ListsAreOrderly DEF TypeOK
    <3>4. OpenIsSelected' /\ YesStands' /\ ReportsAreTrue'
      BY <1>2, <1>3, <1>4, <2>1, <3>1, <3>2, <3>3, NewList DEF IsUnlocked, Selected
    <3>5. ExpiriesAllowed'
      BY <1>2, <1>3, <2>1, <3>1 DEF Inv, ExpiriesAllowed, Registry
    <3>. QED
      BY <1>0, <2>1, <3>4, <3>5 DEF Inv, RememberedExist
  <2>3. CASE ~(registry.until[E.vault] > clock)
    <3>1. Continue /\ UNCHANGED allowed
      BY <1>11, <2>3 DEF Refresh
    <3>2. Shorter
      BY <1>1, <3>1, StepsShorten DEF Inv
    <3>3. OpenIsSelected' /\ YesStands' /\ ReportsAreTrue'
      BY <1>0, <1>1, <1>4, <2>1, <3>1, <3>2, ShorterList DEF Inv, IsUnlocked, Selected
    <3>. QED
      BY <1>0, <2>1, <3>1, <3>3 DEF Inv, RememberedExist, ExpiriesAllowed
  <2>. QED
    BY <2>2, <2>3
<1>. QED
  BY <1>5, <1>6, <1>7, <1>8, <1>9, <1>10, <1>11 DEF EffectStep

LEMMA CommandInv == Inv /\ Command => Inv'
<1>. SUFFICES ASSUME Inv, Command PROVE Inv'
  OBVIOUS
<1>0. TypeOK' /\ todo' \in Seq(Effect)
  BY TypeCommands DEF Inv, TypeOK
<1>1. clock \in Nat /\ Remember \in Nat /\ registry \in Registry
      /\ allowed \in [Vault -> Nat] /\ file \in [Vault -> Password \cup {NoPassword}]
      /\ registry.selected \in registry.vaults \cup {NoVault}
      /\ open.password \in Password \cup {NoPassword}
  BY TimeAssumption DEF Inv, TypeOK
<1>2. IsUnlocked => open.vault = Selected
  BY DEF Inv, OpenIsSelected
<1>3. Selected \in registry.vaults \cup {NoVault} /\ registry.vaults \subseteq Vault
  BY <1>1 DEF Selected, Registry
<1>4. ~(open' = Closed /\ IsUnlocked')
  BY DEF Closed, IsUnlocked
<1>5. ASSUME todo' = <<>>, IsUnlocked' => open'.vault = Selected'
      PROVE  OpenIsSelected' /\ YesStands' /\ ReportsAreTrue'
  <2>1. Len(todo') = 0
    BY <1>5
  <2>. QED
    BY <1>5, <2>1 DEF OpenIsSelected, YesStands, ReportsAreTrue
<1>6. ASSUME UNCHANGED <<clock, registry, allowed>>
      PROVE  RememberedExist' /\ ExpiriesAllowed'
  BY <1>6 DEF Inv, RememberedExist, ExpiriesAllowed
<1>7. ASSUME NEW v \in Vault, NEW p \in Password \cup {NoPassword},
             NEW yes \in BOOLEAN, NEW last \in {"SetVault", "Deselect"},
             NEW q \in Password \cup {NoPassword},
             todo' = Append(SetRemembered(v, p, yes), Step(last, v, q))
      PROVE  Orderly(todo', v, yes, last)
  <2>1. SetRemembered(v, p, yes) \in Seq(Effect)
    BY RememberIs, ForgetIs DEF SetRemembered
  <2>. QED
    BY <1>7, <2>1, ListsAreOrderly, LastOfList
<1>8. CASE Startup
  <2>1. Selected \in Vault /\ ~IsUnlocked /\ UNCHANGED <<clock, registry, allowed>>
    BY <1>3, <1>8 DEF Startup
  <2>2. CASE open'.vault = Selected /\ UNCHANGED todo
    <3>1. todo' = <<>>
      BY <1>8, <2>2 DEF Startup
    <3>. QED
      BY <1>0, <1>5, <1>6, <2>1, <2>2, <3>1 DEF Inv, Selected
  <2>3. CASE UNCHANGED open /\ todo' = Forget(Selected)
    <3>1. Forget(Selected) = SetRemembered(Selected, NoPassword, FALSE)
      BY DEF SetRemembered
    <3>2. Orderly(todo', Selected, FALSE, "none")
      BY <2>1, <2>3, <3>1, ListsAreOrderly
    <3>3. OpenIsSelected' /\ YesStands' /\ ReportsAreTrue'
      BY <1>0, <2>1, <2>3, <3>2, NewList DEF IsUnlocked
    <3>. QED
      BY <1>0, <1>6, <2>1, <3>3 DEF Inv
  <2>4. CASE /\ UNCHANGED open
             /\ todo' = << Step("ClearExpiry", Selected, NoPassword) >>
    <3>1. Orderly(todo', Selected, FALSE, "none")
      BY <2>1, <2>4, StepIsEffect DEF Orderly
    <3>2. OpenIsSelected' /\ YesStands' /\ ReportsAreTrue'
      BY <1>0, <2>1, <2>4, <3>1, NewList DEF IsUnlocked
    <3>. QED
      BY <1>0, <1>6, <2>1, <3>2 DEF Inv
  <2>. QED
    BY <1>8, <2>2, <2>3, <2>4 DEF Startup
<1>9. ASSUME NEW remember \in BOOLEAN, Unlock(remember) PROVE Inv'
  <2>1. /\ Selected \in Vault /\ Selected \in registry.vaults /\ ~IsUnlocked
        /\ UNCHANGED <<clock, registry, open>>
        /\ file[Selected] \in Password \cup {NoPassword}
    BY <1>1, <1>3, <1>9 DEF Unlock
  <2>2. Orderly(todo', Selected, remember, "SetVault")
    BY <1>7, <1>9, <2>1 DEF Unlock
  <2>3. allowed' = IF remember THEN [allowed EXCEPT ![Selected] = clock + Remember]
                               ELSE allowed
    BY <1>9 DEF Unlock
  <2>4. remember => allowed'[Selected] = clock' + Remember
    BY <1>1, <2>1, <2>3
  <2>5. OpenIsSelected' /\ YesStands' /\ ReportsAreTrue'
    BY <1>0, <2>1, <2>2, <2>4, NewList DEF IsUnlocked, Selected
  <2>6. ExpiriesAllowed'
    BY <1>1, <2>1, <2>3 DEF Inv, ExpiriesAllowed, Registry
  <2>. QED
    BY <1>0, <2>1, <2>5, <2>6 DEF Inv, RememberedExist
<1>10. ASSUME NEW v \in Vault, NEW p \in Password, NEW remember \in BOOLEAN,
              Create(v, p, remember)
       PROVE  Inv'
  <2>1. /\ ~IsUnlocked /\ v \notin registry.vaults /\ UNCHANGED <<clock, open>>
        /\ registry' = [registry EXCEPT !.vaults = @ \cup {v}, !.selected = v]
        /\ allowed' = [allowed EXCEPT ![v] = IF remember THEN clock + Remember ELSE 0]
    BY <1>10 DEF Create
  <2>2. /\ registry'.vaults = registry.vaults \cup {v} /\ registry'.selected = v
        /\ registry'.until = registry.until
    BY <1>1, <2>1 DEF Registry
  <2>3. Orderly(todo', v, remember, "SetVault")
    BY <1>7, <1>10 DEF Create
  <2>4. remember => allowed'[v] = clock' + Remember
    BY <1>1, <2>1
  <2>5. OpenIsSelected' /\ YesStands' /\ ReportsAreTrue'
    BY <1>0, <2>1, <2>2, <2>3, <2>4, NewList DEF IsUnlocked, Selected
  <2>6. registry.until[v] = 0
    BY <2>1 DEF Inv, RememberedExist
  <2>7. ExpiriesAllowed'
    BY <1>1, <2>1, <2>2, <2>6 DEF Inv, ExpiriesAllowed, Registry
  <2>8. RememberedExist'
    BY <2>2 DEF Inv, RememberedExist
  <2>. QED
    BY <1>0, <2>5, <2>7, <2>8 DEF Inv
<1>11. ASSUME NEW v \in Vault, Select(v) PROVE Inv'
  <2>1. /\ todo' = <<>> /\ ~IsUnlocked /\ UNCHANGED <<clock, open, allowed>>
        /\ registry' = [registry EXCEPT !.selected = v]
    BY <1>11 DEF Select
  <2>2. registry'.vaults = registry.vaults /\ registry'.until = registry.until
    BY <1>1, <2>1 DEF Registry
  <2>3. OpenIsSelected' /\ YesStands' /\ ReportsAreTrue'
    BY <1>5, <2>1 DEF IsUnlocked
  <2>. QED
    BY <1>0, <2>1, <2>2, <2>3 DEF Inv, RememberedExist, ExpiriesAllowed
<1>12. CASE ChooseAnother
  <2>1. /\ Selected \in Vault /\ ~IsUnlocked' /\ UNCHANGED <<clock, registry, allowed>>
        /\ todo' = << Step("Deselect", Selected, NoPassword) >>
    BY <1>3, <1>4, <1>12 DEF ChooseAnother
  <2>2. Orderly(todo', Selected, FALSE, "Deselect")
    BY <2>1, StepIsEffect DEF Orderly
  <2>3. OpenIsSelected' /\ YesStands' /\ ReportsAreTrue'
    BY <1>0, <2>1, <2>2, NewList
  <2>. QED
    BY <1>0, <1>6, <2>1, <2>3 DEF Inv
<1>13. ASSUME Lock \/ Reload PROVE Inv'
  <2>1. todo' = <<>> /\ ~IsUnlocked' /\ UNCHANGED <<clock, registry, allowed>>
    BY <1>4, <1>13 DEF Lock, Reload
  <2>. QED
    BY <1>0, <1>5, <1>6, <2>1 DEF Inv
<1>14. CASE Logout
  <2>1. /\ Selected \in Vault /\ ~IsUnlocked' /\ UNCHANGED <<clock, registry, allowed>>
        /\ todo' = Append(Forget(Selected), Step("Deselect", Selected, NoPassword))
    BY <1>2, <1>4, <1>14 DEF Logout, IsUnlocked, Inv, TypeOK
  <2>2. Forget(Selected) = SetRemembered(Selected, NoPassword, FALSE)
    BY DEF SetRemembered
  <2>3. Orderly(todo', Selected, FALSE, "Deselect")
    BY <1>7, <2>1, <2>2
  <2>4. OpenIsSelected' /\ YesStands' /\ ReportsAreTrue'
    BY <1>0, <2>1, <2>3, NewList
  <2>. QED
    BY <1>0, <1>6, <2>1, <2>4 DEF Inv
<1>15. ASSUME NEW v \in Vault, Remove(v) PROVE Inv'
  <2>1. ~IsUnlocked' /\ UNCHANGED <<clock, allowed>>
    BY <1>4, <1>15 DEF Remove
  <2>2. CASE UNCHANGED <<registry, file, todo>>
    <3>1. todo' = <<>>
      BY <1>15, <2>2 DEF Remove
    <3>. QED
      BY <1>0, <1>5, <1>6, <2>1, <2>2, <3>1 DEF Inv
  <2>3. CASE /\ registry' = [vaults |-> registry.vaults \ {v},
                             selected |-> IF Selected = v THEN NoVault ELSE Selected,
                             until |-> [registry.until EXCEPT ![v] = 0]]
             /\ todo' = << Step("DeleteCredential", v, NoPassword),
                           Step("Forgotten", v, NoPassword) >>
    <3>1. /\ registry'.vaults = registry.vaults \ {v} /\ registry'.until[v] = 0
          /\ \A w \in Vault \ {v} : registry'.until[w] = registry.until[w]
      BY <1>1, <2>3 DEF Registry
    <3>2. /\ Len(todo') = 2
          /\ todo'[1].do = "DeleteCredential" /\ todo'[1].vault = v
          /\ todo'[2].do = "Forgotten" /\ todo'[2].vault = v
      BY <2>3, StepIsEffect
    <3>3. OpenIsSelected' /\ YesStands' /\ ReportsAreTrue'
      BY <2>1, <3>1, <3>2 DEF OpenIsSelected, YesStands, ReportsAreTrue
    <3>4. RememberedExist' /\ ExpiriesAllowed'
      BY <1>1, <2>1, <3>1 DEF Inv, RememberedExist, ExpiriesAllowed
    <3>. QED
      BY <1>0, <3>3, <3>4 DEF Inv
  <2>. QED
    BY <1>15, <2>2, <2>3 DEF Remove
<1>16. ASSUME NEW p \in Password, ChangePassword(p) PROVE Inv'
  <2>1. /\ IsUnlocked /\ UNCHANGED <<clock, registry, allowed>>
        /\ open' = [open EXCEPT !.password = p]
        /\ todo' = << Step("Save", open.vault, p), Step("Refresh", open.vault, p) >>
    BY <1>16 DEF ChangePassword
  <2>2. open.vault \in Vault /\ open'.vault = open.vault
    BY <2>1 DEF Inv, TypeOK, IsUnlocked
  <2>3. Orderly(todo', open.vault, FALSE, "none")
    BY <2>1, <2>2, StepIsEffect DEF Orderly
  <2>4. OpenIsSelected' /\ YesStands' /\ ReportsAreTrue'
    <3>1. IsUnlocked' => open'.vault = Selected'
      BY <1>2, <2>1, <2>2 DEF Selected
    <3>. QED
      BY <1>0, <2>2, <2>3, <3>1, NewList
  <2>. QED
    BY <1>0, <1>6, <2>1, <2>4 DEF Inv
<1>17. CASE SaveVault
  BY <1>0, <1>6, <1>17
     DEF SaveVault, Inv, OpenIsSelected, YesStands, ReportsAreTrue, IsUnlocked, Selected
<1>. QED
  BY <1>8, <1>9, <1>10, <1>11, <1>12, <1>13, <1>14, <1>15, <1>16, <1>17 DEF Command

LEMMA RestInv == Inv /\ (Restart \/ Tick \/ UNCHANGED vars) => Inv'
<1>. SUFFICES ASSUME Inv, Restart \/ Tick \/ UNCHANGED vars PROVE Inv'
  OBVIOUS
<1>. USE DEF Inv, OpenIsSelected, RememberedExist, ExpiriesAllowed, YesStands,
             ReportsAreTrue, IsUnlocked, Selected
<1>1. CASE Restart
  <2>1. /\ todo' = <<>> /\ Len(todo') = 0 /\ todo' \in Seq(Effect)
        /\ open' = Closed /\ open'.vault = NoVault
    BY <1>1 DEF Restart, Closed
  <2>2. Closed \in [vault : Vault \cup {NoVault},
                   password : Password \cup {NoPassword}, resumed : BOOLEAN]
    BY DEF Closed
  <2>3. TypeOK'
    BY <1>1, <2>1, <2>2 DEF Restart, TypeOK
  <2>. QED
    BY <1>1, <2>1, <2>3 DEF Restart
<1>2. CASE Tick
  <2>1. todo' = <<>> /\ Len(todo') = 0 /\ clock' = clock + 1
    BY <1>2 DEF Tick
  <2>2. TypeOK'
    BY <1>2, TimeAssumption DEF Tick, TypeOK
  <2>3. ExpiriesAllowed'
    BY <1>2, <2>1, TimeAssumption DEF Tick, TypeOK
  <2>. QED
    BY <1>2, <2>1, <2>2, <2>3 DEF Tick
<1>3. CASE UNCHANGED vars
  BY <1>3 DEF vars, TypeOK
<1>. QED
  BY <1>1, <1>2, <1>3

-----------------------------------------------------------------------------
(* The theorems.                                                           *)

\* Every state the session reaches has the types, and is one where no expiry
\* is later than what the user allowed, where a yes that is being carried out
\* still stands, and where nothing is reported forgotten before it is.
THEOREM SessionInvariant == Spec => []Inv
<1>1. Inv /\ [Next]_vars => Inv'
  BY EffectInv, CommandInv, RestInv DEF Next
<1>. QED
  BY InitInv, <1>1, PTL DEF Spec

\* Any number of profiles and passwords, any time limit: the registry, the
\* credentials, the files and what a command has yet to do keep their types,
\* and the selected profile is one that exists.
THEOREM TypeCorrect == Spec => []TypeOK
<1>1. Inv => TypeOK
  BY DEF Inv
<1>. QED
  BY SessionInvariant, <1>1, PTL

\* Steps that leave a vault open by itself: only vault_startup opens one, and
\* a password that changes leaves it open.
LEMMA OpeningSteps ==
  ASSUME Inv, [Next]_vars, open' # open, open'.resumed
  PROVE  /\ IsUnlocked'
         /\ \/ IsUnlocked
            \/ /\ Selected \in Vault /\ open'.vault = Selected
               /\ registry.until[Selected] > clock
<1>0. /\ open \in [vault : Vault \cup {NoVault},
                  password : Password \cup {NoPassword}, resumed : BOOLEAN]
      /\ clock \in Nat /\ Closed.resumed = FALSE
  BY DEF Inv, TypeOK, Closed
<1>1. CASE EffectStep
  <2>1. UNCHANGED open \/ SetVault
    BY <1>1 DEF EffectStep, ClearExpiry, DeleteCredential, Forgotten,
                StoreCredential, SetExpiry, Deselect, Save, Refresh
  <2>2. ~SetVault
    BY DEF SetVault
  <2>. QED
    BY <2>1, <2>2
<1>2. CASE Startup
  <2>1. /\ Selected \in Vault /\ Remembered(Selected) # NoPassword
        /\ open' = [vault |-> Selected, password |-> file[Selected], resumed |-> TRUE]
    BY <1>2 DEF Startup, Inv, TypeOK, Registry, Selected
  <2>2. registry.until[Selected] > clock
    BY <2>1 DEF Remembered
  <2>. QED
    BY <2>1, <2>2, IdAssumption DEF IsUnlocked
<1>3. ASSUME NEW p \in Password, ChangePassword(p)
      PROVE  IsUnlocked /\ IsUnlocked'
  BY <1>0, <1>3 DEF ChangePassword, IsUnlocked
<1>4. CASE Command /\ ~Startup /\ ~(\E p \in Password : ChangePassword(p))
  BY <1>0, <1>4 DEF Command, ChooseAnother, Lock, Logout, SaveVault, Reload, Unlock,
                    Create, Select, Remove
<1>5. CASE Restart \/ Tick \/ UNCHANGED vars
  BY <1>0, <1>5 DEF Restart, Tick, vars
<1>. QED
  BY <1>1, <1>2, <1>3, <1>4, <1>5 DEF Next

\* What is closed was not opened by itself.
ClosedIsPlain == ~IsUnlocked => ~open.resumed

LEMMA ClosedStaysPlain == Spec => []ClosedIsPlain
<1>1. Init => ClosedIsPlain
  BY DEF Init, Closed, ClosedIsPlain
<1>2. Inv /\ ClosedIsPlain /\ [Next]_vars => ClosedIsPlain'
  BY OpeningSteps DEF ClosedIsPlain, IsUnlocked
<1>. QED
  BY SessionInvariant, <1>1, <1>2, PTL DEF Spec

\* Any number of profiles and passwords, any time limit: vault_startup opens a
\* vault by itself only while the user lets it - the last answer carried out
\* was yes, at most Remember ago, and no log-out and no removal was reported
\* as done since, whatever failed and wherever the app ended in between.
THEOREM OpensOnlyWhenAllowed == Spec => OpensOnlyIfAllowed
<1>1. ASSUME Inv, ClosedIsPlain, [Next]_vars, ~IsUnlocked, open'.resumed
      PROVE  clock < allowed[open'.vault]
  <2>1. open' # open
    BY <1>1 DEF ClosedIsPlain
  <2>2. /\ Selected \in Vault /\ open'.vault = Selected
        /\ registry.until[Selected] > clock
    BY <1>1, <2>1, OpeningSteps
  <2>3. registry.until[Selected] <= allowed[Selected]
    BY <1>1, <2>2 DEF Inv, ExpiriesAllowed
  <2>4. /\ registry.until[Selected] \in Nat /\ allowed[Selected] \in Nat
        /\ clock \in Nat
    BY <1>1, <2>2 DEF Inv, TypeOK, Registry
  <2>. QED
    BY <2>2, <2>3, <2>4
<1>2. Inv /\ ClosedIsPlain /\ [Next]_vars =>
        [~IsUnlocked /\ open'.resumed => clock < allowed[open'.vault]]_vars
  BY <1>1
<1>. QED
  BY SessionInvariant, ClosedStaysPlain, <1>2, PTL DEF Spec, OpensOnlyIfAllowed

=============================================================================

---------------------------- MODULE DesktopProofs ----------------------------
(***************************************************************************)
(* Theorems of the machines of the desktop process that share no state, as *)
(* the runs explore them: the secret clipboard, the pipe of the broker,    *)
(* enrolling for sync, reading the exports of other programs, generating   *)
(* passwords.  They hold for any copies, secrets, timers, clients, vaults, *)
(* commands under way at once, exports, classes and lengths.               *)
(***************************************************************************)
EXTENDS Clipboard, PipeServer, Enrolment, Importer, Generator,
        ListsProofs, FunctionTheorems

-----------------------------------------------------------------------------
(* The secret clipboard.                                                    *)

Phase == {"none", "waiting", "clearing", "done"}
Report == {"nothing", "failed", "wiped", "gone"}

ClipTypeOK ==
  /\ board \in [text : Secret \cup {Nothing, Other}, by : Copies \cup {0}]
  /\ token \in Copies \cup {0}
  /\ copying \in [at : {"rest", "written", "counted"}, secret : Secret \cup {Nothing}]
  /\ copying.at = "written" => token < MaxCopies
  /\ copying.at = "counted" => token # 0
  /\ copying.at # "rest" => copying.secret \in Secret
  /\ timer \in [Copies -> Phase]
  /\ said \in [Copies \cup {0} -> Report]

(* The copy that is, or is about to be, the newest                          *)
NewestCopy == IF copying.at = "written" THEN token + 1 ELSE token

(* What is on the clipboard of ours is the newest copy, and is remembered   *)
(* once the copy is done.                                                   *)
OnlyTheNewest ==
  board.by # 0 =>
    /\ board.by = NewestCopy
    /\ board.text \in Secret
    /\ board.text = IF AtRest THEN ours ELSE copying.secret

(* No timer of a copy that is not done has started, or said anything.       *)
NotBeforeItsTime ==
  \A t \in Copies : t > token \/ (t = token /\ copying.at = "counted")
                      => timer[t] = "none" /\ said[t] = "nothing"

ClipInv == ClipTypeOK /\ OnlyTheNewest /\ NotBeforeItsTime /\ HonestReports /\ StillWatched

LEMMA ClipInit == InitClipboard => ClipInv
BY BoardAssumption DEF InitClipboard, ClipInv, ClipTypeOK, OnlyTheNewest, NotBeforeItsTime,
     HonestReports, StillWatched, Copies, Phase, Report

(* A wipe, by a timer or by a command, leaves nothing of ours that it would *)
(* not remember.                                                            *)
LEMMA WipeIs ==
  ASSUME NEW t \in Copies \cup {0}, ClipInv, Wipe(t)
  PROVE  /\ said' \in [Copies \cup {0} -> Report]
         /\ \A u \in Copies \cup {0} : u # t => said'[u] = said[u]
         /\ said'[t] \in {"failed", "wiped", "gone"}
         /\ board' \in [text : Secret \cup {Nothing, Other}, by : Copies \cup {0}]
         /\ board'.by # 0 => board' = board
         /\ board'.by # 0 /\ AtRest => ours' = ours /\ said'[t] = "failed"
<1>. USE DEF ClipInv, ClipTypeOK, Report
<1>1. CASE /\ ours # Nothing
           /\ said' = [said EXCEPT ![t] = "failed"]
           /\ UNCHANGED <<board, ours>>
  BY <1>1
<1>2. CASE /\ ours' = Nothing
           /\ board' = IF ours # Nothing /\ board.text = ours
                         THEN [text |-> Nothing, by |-> 0] ELSE board
           /\ said' = [said EXCEPT ![t] =
                IF ours # Nothing /\ board.text = ours THEN "wiped" ELSE "gone"]
  <2>1. ASSUME board.by # 0, AtRest PROVE ours # Nothing /\ board.text = ours
    BY <2>1, BoardAssumption DEF OnlyTheNewest
  <2>2. board' \in [text : Secret \cup {Nothing, Other}, by : Copies \cup {0}]
    BY <1>2
  <2>3. board'.by # 0 => board' = board
    BY <1>2
  <2>4. ~(board'.by # 0 /\ AtRest)
    BY <1>2, <2>1
  <2>. QED
    BY <1>2, <2>2, <2>3, <2>4
<1>. QED
  BY <1>1, <1>2 DEF Wipe

LEMMA ClipStep == ClipInv /\ [NextClipboard]_clipVars => ClipInv'
<1>. SUFFICES ASSUME ClipInv, [NextClipboard]_clipVars PROVE ClipInv'
  OBVIOUS
<1>. USE BoardAssumption
<1>1. CASE UNCHANGED clipVars
  BY <1>1 DEF clipVars, ClipInv, ClipTypeOK, OnlyTheNewest, NewestCopy, NotBeforeItsTime,
       HonestReports, StillWatched, AtRest
<1>2. CASE Write
  <2>1. PICK s \in Secret :
          /\ AtRest /\ token < MaxCopies
          /\ \/ /\ board' = [text |-> s, by |-> token + 1]
                /\ copying' = [at |-> "written", secret |-> s]
                /\ said' = [said EXCEPT ![0] = "nothing"]
             \/ /\ board' = [text |-> Nothing, by |-> 0]
                /\ UNCHANGED <<copying, said>>
          /\ UNCHANGED <<ours, token, timer>>
    BY <1>2 DEF Write
  <2>2. CASE UNCHANGED <<copying, said>> /\ board' = [text |-> Nothing, by |-> 0]
    BY <2>1, <2>2 DEF ClipInv, ClipTypeOK, OnlyTheNewest, NotBeforeItsTime, HonestReports,
         StillWatched, AtRest
  <2>3. CASE /\ board' = [text |-> s, by |-> token + 1]
             /\ copying' = [at |-> "written", secret |-> s]
             /\ said' = [said EXCEPT ![0] = "nothing"]
    <3>1. ClipTypeOK' /\ OnlyTheNewest'
      BY <2>1, <2>3 DEF ClipInv, ClipTypeOK, OnlyTheNewest, NewestCopy, AtRest, Copies, Report
    <3>2. \A t \in Copies : t > token => timer[t] = "none" /\ said[t] = "nothing"
      BY DEF ClipInv, NotBeforeItsTime
    <3>3. NotBeforeItsTime'
      BY <2>1, <2>3, <3>2 DEF ClipInv, ClipTypeOK, NotBeforeItsTime, Copies
    <3>4. HonestReports' /\ StillWatched'
      BY <2>1, <2>3, <3>2 DEF ClipInv, ClipTypeOK, HonestReports, StillWatched, AtRest, Copies
    <3>. QED
      BY <3>1, <3>3, <3>4 DEF ClipInv
  <2>. QED
    BY <2>1, <2>2, <2>3
<1>3. CASE Count
  BY <1>3 DEF Count, ClipInv, ClipTypeOK, OnlyTheNewest, NewestCopy, NotBeforeItsTime,
       HonestReports, StillWatched, AtRest, Copies, Report, Phase
<1>4. CASE Record
  BY <1>4 DEF Record, ClipInv, ClipTypeOK, OnlyTheNewest, NewestCopy, NotBeforeItsTime,
       HonestReports, StillWatched, AtRest, Copies, Report, Phase
<1>5. CASE ClearNow
  <2>. Wipe(0) /\ AtRest /\ UNCHANGED <<token, copying, timer>>
    BY <1>5 DEF ClearNow
  <2>. /\ said' \in [Copies \cup {0} -> Report]
       /\ \A u \in Copies : said'[u] = said[u]
       /\ board' \in [text : Secret \cup {Nothing, Other}, by : Copies \cup {0}]
       /\ board'.by # 0 => board' = board /\ ours' = ours /\ said'[0] = "failed"
    BY WipeIs DEF Copies
  <2>. QED
    BY DEF ClipInv, ClipTypeOK, OnlyTheNewest, NewestCopy, NotBeforeItsTime,
       HonestReports, StillWatched, AtRest, Copies
<1>6. CASE Others
  BY <1>6 DEF Others, ClipInv, ClipTypeOK, OnlyTheNewest, NewestCopy, NotBeforeItsTime,
       HonestReports, StillWatched, AtRest
<1>7. ASSUME NEW t \in Copies, ClearCopy(t) PROVE ClipInv'
  BY <1>7 DEF ClearCopy, ClipInv, ClipTypeOK, OnlyTheNewest, NewestCopy, NotBeforeItsTime,
       HonestReports, StillWatched, AtRest, Copies, Report, Phase
<1>8. ASSUME NEW t \in Copies, TimerWipes(t) PROVE ClipInv'
  <2>1. /\ timer[t] = "clearing" /\ Wipe(t) /\ timer' = [timer EXCEPT ![t] = "done"]
        /\ UNCHANGED <<token, copying>>
    BY <1>8 DEF TimerWipes
  <2>2. /\ said' \in [Copies \cup {0} -> Report]
        /\ \A u \in Copies \cup {0} : u # t => said'[u] = said[u]
        /\ board' \in [text : Secret \cup {Nothing, Other}, by : Copies \cup {0}]
        /\ board'.by # 0 => board' = board
        /\ board'.by # 0 /\ AtRest => ours' = ours /\ said'[t] = "failed"
    BY <2>1, WipeIs
  <2>3. t <= token /\ ~(t = token /\ copying.at = "counted")
    BY <2>1 DEF ClipInv, NotBeforeItsTime, Copies, ClipTypeOK
  <2>4. ClipTypeOK'
    BY <2>1, <2>2 DEF ClipInv, ClipTypeOK, Phase
  <2>5. OnlyTheNewest' /\ NotBeforeItsTime'
    BY <2>1, <2>2, <2>3 DEF ClipInv, ClipTypeOK, OnlyTheNewest, NewestCopy, NotBeforeItsTime, AtRest, Copies
  <2>6. AtRest \/ board.by # t
    BY <2>3 DEF ClipInv, OnlyTheNewest, NewestCopy, ClipTypeOK, AtRest, Copies
  <2>7. HonestReports' /\ StillWatched'
    BY <2>1, <2>2, <2>6 DEF ClipInv, ClipTypeOK, HonestReports, StillWatched, AtRest, Copies
  <2>. QED
    BY <2>4, <2>5, <2>7 DEF ClipInv
<1>. QED
  BY <1>1, <1>2, <1>3, <1>4, <1>5, <1>6, <1>7, <1>8 DEF NextClipboard

LEMMA ClipAlways == SpecClipboard => []ClipInv
<1>1. ClipInv /\ [NextClipboard]_clipVars => ClipInv'
  BY ClipStep
<1>. QED
  BY ClipInit, <1>1, PTL DEF SpecClipboard

-----------------------------------------------------------------------------
(* However copies, timers, locks and other programs interleave, a secret on *)
(* the clipboard is one that the application still remembers to take off    *)
(* (clipboard.rs, wipe).                                                    *)
THEOREM CopiesAreRemembered == SpecClipboard => []NeverForgotten
<1>1. ClipInv => NeverForgotten
  BY DEF ClipInv, OnlyTheNewest, NeverForgotten
<1>. QED
  BY ClipAlways, <1>1, PTL

(* No timer and no lock says of a secret that is on the clipboard that it   *)
(* is gone (clipboard.rs, Cleared).                                         *)
THEOREM ReportsAreHonest == SpecClipboard => []HonestReports
<1>1. ClipInv => HonestReports
  BY DEF ClipInv
<1>. QED
  BY ClipAlways, <1>1, PTL

(* A secret on the clipboard has its timer to come, or has been reported to *)
(* be there still (lib.rs, copy_secret).                                    *)
THEOREM CopiesAreWatched == SpecClipboard => []StillWatched
<1>1. ClipInv => StillWatched
  BY DEF ClipInv
<1>. QED
  BY ClipAlways, <1>1, PTL

-----------------------------------------------------------------------------
(* The pipe.                                                                *)

PipeTypeOK ==
  /\ loop \in [at : {"start", "connect", "reopen", "ended"},
               server : [held : BOOLEAN, by : Caller \cup {Nobody}],
               connected : Caller \cup {Nobody}, failures : Nat, attempt : Nat]
  /\ caller \in [Caller -> {"away", "waiting", "connected", "talking", "cut"}]

(* Between two rounds the loop listens; in the middle of one it has the     *)
(* instance that was connected, or else the one that failed.                *)
AlwaysAnInstance ==
  /\ LoopAt("start") => loop.connected = Nobody
  /\ LoopAt("connect") => loop.server.held /\ loop.connected = Nobody
  /\ LoopAt("reopen") => loop.server.held \/ loop.connected # Nobody

PipeInv == PipeTypeOK /\ AlwaysAnInstance

LEMMA PipeInit == InitPipe => PipeInv
BY DEF InitPipe, PipeInv, PipeTypeOK, AlwaysAnInstance, LoopAt, NoListener, Listener

LEMMA PipeEnds == ASSUME PipeInv, NEW cs, End(cs) PROVE PipeInv'
BY DEF End, Cut, After, PipeInv, PipeTypeOK, AlwaysAnInstance, LoopAt, NoListener, Listener

LEMMA PipeStep == PipeInv /\ [NextPipe]_pipeVars => PipeInv'
<1>. SUFFICES ASSUME PipeInv, [NextPipe]_pipeVars PROVE PipeInv'
  OBVIOUS
<1>. USE PipeAssumption DEF LoopAt, NoListener, FreeListener, Listener
<1>1. CASE UNCHANGED pipeVars
  BY <1>1 DEF pipeVars, PipeInv, PipeTypeOK, AlwaysAnInstance
<1>2. CASE OpenPipe
  <2>1. CASE /\ loop' = [loop EXCEPT !.at = "connect", !.server = FreeListener]
             /\ UNCHANGED caller
    <3>1. PipeTypeOK'
      BY <2>1 DEF PipeInv, PipeTypeOK
    <3>2. loop.connected = Nobody
      BY <1>2 DEF OpenPipe, PipeInv, AlwaysAnInstance
    <3>. QED
      BY <2>1, <3>1, <3>2 DEF PipeInv, PipeTypeOK, AlwaysAnInstance
  <2>2. CASE End({})
    BY <2>2, PipeEnds
  <2>. QED
    BY <1>2, <2>1, <2>2 DEF OpenPipe
<1>3. CASE Accept
  BY <1>3 DEF Accept, PipeInv, PipeTypeOK, AlwaysAnInstance
<1>4. CASE AcceptFails
  <2>1. CASE loop.failures + 1 >= AcceptFailures
    BY <1>4, <2>1, PipeEnds DEF AcceptFails
  <2>2. CASE ~(loop.failures + 1 >= AcceptFailures)
    <3>1. loop.failures + 1 \in Nat /\ loop.server.held
      BY <1>4 DEF AcceptFails, PipeInv, PipeTypeOK, AlwaysAnInstance
    <3>2. /\ loop' = [loop EXCEPT !.at = "reopen", !.failures = loop.failures + 1, !.attempt = 1]
          /\ UNCHANGED caller
      BY <1>4, <2>2 DEF AcceptFails
    <3>3. PipeTypeOK'
      BY <3>1, <3>2 DEF PipeInv, PipeTypeOK
    <3>4. AlwaysAnInstance'
      BY <3>1, <3>2 DEF PipeInv, PipeTypeOK, AlwaysAnInstance
    <3>. QED
      BY <3>3, <3>4 DEF PipeInv
  <2>. QED
    BY <2>1, <2>2
<1>5. CASE Reopen
  <2>1. PipeTypeOK'
    BY <1>5 DEF Reopen, After, Tasked, PipeInv, PipeTypeOK
  <2>. QED
    BY <1>5, <2>1 DEF Reopen, PipeInv, PipeTypeOK, AlwaysAnInstance
<1>6. CASE ReopenFails
  <2>1. CASE loop.attempt >= CreateAttempts
    BY <1>6, <2>1, PipeEnds DEF ReopenFails
  <2>2. CASE ~(loop.attempt >= CreateAttempts)
    BY <1>6, <2>2 DEF ReopenFails, PipeInv, PipeTypeOK, AlwaysAnInstance
  <2>. QED
    BY <2>1, <2>2
<1>7. ASSUME NEW c \in Caller, Arrive(c) PROVE PipeInv'
  BY <1>7 DEF Arrive, PipeInv, PipeTypeOK, AlwaysAnInstance
<1>8. ASSUME NEW c \in Caller, Take(c) PROVE PipeInv'
  BY <1>8 DEF Take, PipeInv, PipeTypeOK, AlwaysAnInstance
<1>9. ASSUME NEW c \in Caller, HangUp(c) PROVE PipeInv'
  BY <1>9 DEF HangUp, PipeInv, PipeTypeOK, AlwaysAnInstance
<1>. QED
  BY <1>1, <1>2, <1>3, <1>4, <1>5, <1>6, <1>7, <1>8, <1>9 DEF NextPipe, LoopStep

(* From the moment serve has opened the pipe until it returns, there is an  *)
(* instance of it, so nobody else can create the name (transport.rs:682).   *)
THEOREM TheNameIsKept == SpecPipe => []NameIsOwned
<1>1. PipeInv => NameIsOwned
  BY DEF PipeInv, PipeTypeOK, AlwaysAnInstance, NameIsOwned, Instances, LoopAt
<1>2. PipeInv /\ [NextPipe]_pipeVars => PipeInv'
  BY PipeStep
<1>. QED
  BY PipeInit, <1>1, <1>2, PTL DEF SpecPipe

-----------------------------------------------------------------------------
(* Enrolling and joining.                                                   *)

Sync == [account : Task, device : Task] \cup {NoSync}
Wrapped == [key : Vault, password : Password]
Payload == [key : Vault, wrapped : Wrapped, sync : Sync]
Opened == [vault : Vault, key : Vault, wrapped : Wrapped, sync : Sync]

Wrapping == [at : {"wrap"}, password : Password, alone : BOOLEAN]
Enrolling == [at : {"enrol", "set", "save"}, password : Password, key : Vault,
              home : Vault, alone : BOOLEAN]
Joining == [at : {"register", "adopt", "keep"}, account : Task, password : Password,
            key : Vault, alone : BOOLEAN]

TypeOK ==
  /\ own \in [Vault -> Password]
  /\ vaultFile \in [Vault -> Payload]
  /\ mem \in Opened \cup {Closed}
  /\ account \in [Task -> Wrapped \cup {NoRow}]
  /\ device \in [Task -> Task \cup {NoRow}]
  /\ task \in [Task -> {NoTask, Done} \cup Wrapping \cup Enrolling \cup Joining]
  /\ kits \in SUBSET Task

(* The tasks whose rows will not change any more                            *)
Registered(t) == task[t].at \notin {"idle", "wrap", "enrol", "register"}

(* A task that got its answers has its rows, and so has an account whose    *)
(* kit was shown.                                                           *)
RowsAreThere ==
  /\ \A t \in Task :
       /\ task[t].at \in {"set", "save"} => account[t] \in Wrapped /\ device[t] = t
       /\ task[t].at \in {"adopt", "keep"} => device[t] = task[t].account
  /\ \A a \in kits : account[a] \in Wrapped

Signs(sync) ==
  sync # NoSync => Registered(sync.device) /\ device[sync.device] = sync.account

SyncsSign ==
  /\ \A v \in Vault : Signs(vaultFile[v].sync)
  /\ Unlocked => Signs(mem.sync)

(* What is open would open again if it were saved.                          *)
MemoryOpens ==
  Unlocked => mem.wrapped = [key |-> mem.key, password |-> own[mem.vault]]

IInv == TypeOK /\ RowsAreThere /\ SyncsSign /\ StillOpens /\ MemoryOpens

LEMMA InitHolds == InitEnrolment => IInv
<1>. SUFFICES ASSUME InitEnrolment PROVE IInv
  OBVIOUS
<1>. USE NullAssumption DEF InitEnrolment, NewFile, Closed, NoTask
<1>1. TypeOK
  BY DEF TypeOK, Payload, Wrapped, Sync
<1>2. RowsAreThere /\ SyncsSign
  BY DEF RowsAreThere, SyncsSign, Signs, Unlocked
<1>3. StillOpens /\ MemoryOpens
  BY DEF StillOpens, MemoryOpens, Unlocked
<1>. QED
  BY <1>1, <1>2, <1>3 DEF IInv

(* In which of its phases a task is tells what it holds.                    *)
LEMMA PhaseIs ==
  ASSUME TypeOK, NEW t \in Task
  PROVE  /\ task[t].at = "wrap" => task[t] \in Wrapping
         /\ task[t].at \in {"enrol", "set", "save"} => task[t] \in Enrolling
         /\ task[t].at \in {"register", "adopt", "keep"} => task[t] \in Joining
         /\ task[t].at = "idle" => task[t] = NoTask
         /\ task[t].at = "done" => task[t] = Done
BY DEF TypeOK, Wrapping, Enrolling, Joining, NoTask, Done

LEMMA OpenIs == ASSUME TypeOK, Unlocked PROVE mem \in Opened
BY DEF TypeOK, Unlocked, Closed

(* What the steps that leave tasks, accounts and devices alone must do: the *)
(* open vault goes to its file, or a file to memory, or nothing.            *)
LEMMA SavingHolds ==
  ASSUME IInv, Unlocked PROVE
    /\ Saved(mem) \in [Vault -> Payload]
    /\ \A v \in Vault : Signs(Saved(mem)[v].sync)
    /\ \A v \in Vault : Saved(mem)[v].wrapped = [key |-> Saved(mem)[v].key, password |-> own[v]]
<1>1. mem \in Opened
  BY OpenIs DEF IInv
<1>2. Sealed(mem) \in Payload /\ Sealed(mem).sync = mem.sync
      /\ Sealed(mem).wrapped = mem.wrapped /\ Sealed(mem).key = mem.key
  BY <1>1 DEF Sealed, Opened, Payload
<1>3. \A v \in Vault : Saved(mem)[v] = IF v = mem.vault THEN Sealed(mem) ELSE vaultFile[v]
  BY DEF Saved, IInv, TypeOK
<1>4. Saved(mem) \in [Vault -> Payload]
  BY <1>2 DEF Saved, IInv, TypeOK
<1>. QED
  BY <1>2, <1>3, <1>4 DEF IInv, SyncsSign, StillOpens, MemoryOpens

LEMMA UserHolds ==
  ASSUME IInv, OpenVault \/ CloseVault \/ SaveVault \/ Forget PROVE IInv'
<1>. USE NullAssumption
<1>1. UNCHANGED <<own, account, device, task, kits>>
  BY DEF OpenVault, CloseVault, SaveVault, Forget
<1>2. RowsAreThere'
  BY <1>1 DEF IInv, RowsAreThere
<1>3. \A sync : Signs(sync) => Signs(sync)'
  BY <1>1 DEF Signs, Registered
<1>4. CASE OpenVault
  <2>1. PICK v \in Vault : mem' = [vault |-> v, key |-> vaultFile[v].key,
                                   wrapped |-> vaultFile[v].wrapped, sync |-> vaultFile[v].sync]
    BY <1>4 DEF OpenVault
  <2>2. vaultFile' = vaultFile
    BY <1>4 DEF OpenVault
  <2>3. mem' \in Opened
    BY <2>1 DEF IInv, TypeOK, Payload, Opened
  <2>4. TypeOK'
    BY <1>1, <2>2, <2>3 DEF IInv, TypeOK
  <2>. QED
    BY <1>1, <1>2, <1>3, <2>1, <2>2, <2>4 DEF IInv, SyncsSign, StillOpens, MemoryOpens
<1>5. CASE CloseVault
  BY <1>1, <1>2, <1>3, <1>5
     DEF CloseVault, IInv, TypeOK, SyncsSign, StillOpens, MemoryOpens, Unlocked, Closed
<1>6. CASE SaveVault
  <2>1. Unlocked /\ vaultFile' = Saved(mem) /\ mem' = mem
    BY <1>6 DEF SaveVault
  <2>2. TypeOK' /\ StillOpens'
    BY <1>1, <2>1, SavingHolds DEF IInv, TypeOK, StillOpens
  <2>. QED
    BY <1>1, <1>2, <1>3, <2>1, <2>2, SavingHolds DEF IInv, SyncsSign, MemoryOpens, Unlocked
<1>7. CASE Forget
  <2>1. mem \in Opened
    BY <1>7, OpenIs DEF Forget, IInv
  <2>2. mem' = [mem EXCEPT !.sync = NoSync] /\ vaultFile' \in {vaultFile, Saved(mem')}
    BY <1>7 DEF Forget
  <2>3. mem' \in Opened /\ mem'.vault = mem.vault /\ mem'.key = mem.key
        /\ mem'.wrapped = mem.wrapped /\ mem'.sync = NoSync
    BY <2>1, <2>2 DEF Opened, Sync
  <2>4. Sealed(mem') \in Payload /\ Sealed(mem').sync = NoSync
        /\ Sealed(mem').wrapped = mem.wrapped /\ Sealed(mem').key = mem.key
    BY <2>3 DEF Sealed, Opened, Payload
  <2>5. \A v \in Vault : \/ vaultFile'[v] = vaultFile[v]
                         \/ v = mem.vault /\ vaultFile'[v] = Sealed(mem')
    BY <2>2, <2>3 DEF Saved, IInv, TypeOK
  <2>6. vaultFile' \in [Vault -> Payload]
    BY <2>2, <2>4 DEF Saved, IInv, TypeOK
  <2>7. TypeOK'
    BY <1>1, <2>3, <2>6 DEF IInv, TypeOK
  <2>8. SyncsSign'
    BY <1>3, <2>3, <2>4, <2>5 DEF IInv, SyncsSign, Signs
  <2>9. mem.wrapped = [key |-> mem.key, password |-> own[mem.vault]]
    BY <1>7 DEF Forget, IInv, MemoryOpens
  <2>10. StillOpens' /\ MemoryOpens'
    BY <1>1, <2>3, <2>4, <2>5, <2>9 DEF IInv, StillOpens, MemoryOpens
  <2>. QED
    BY <1>2, <2>7, <2>8, <2>10 DEF IInv
<1>. QED
  BY <1>4, <1>5, <1>6, <1>7

(* A task that moves on, and may change its own rows until it has them,     *)
(* changes no vault's standing.                                             *)
LEMMA SignsStay ==
  ASSUME IInv, NEW t \in Task, task' \in [Task -> {NoTask, Done} \cup Wrapping \cup Enrolling \cup Joining],
         \A u \in Task \ {t} : task'[u].at = task[u].at /\ device'[u] = device[u],
         Registered(t) => Registered(t)' /\ device'[t] = device[t]
  PROVE  \A sync \in Sync : Signs(sync) => Signs(sync)'
BY DEF Signs, Registered, Sync, IInv, TypeOK

(* So do the steps that change neither files nor memory.                    *)
LEMMA OutsideHolds ==
  ASSUME IInv, NEW t \in Task, UNCHANGED <<own, vaultFile, mem>>, TypeOK', RowsAreThere',
         \A u \in Task \ {t} : task'[u].at = task[u].at /\ device'[u] = device[u],
         Registered(t) => Registered(t)' /\ device'[t] = device[t]
  PROVE  IInv'
<1>1. \A sync \in Sync : Signs(sync) => Signs(sync)'
  BY SignsStay DEF TypeOK
<1>2. SyncsSign'
  BY <1>1, OpenIs DEF IInv, SyncsSign, TypeOK, Payload, Opened, Unlocked
<1>. QED
  BY <1>2 DEF IInv, StillOpens, MemoryOpens, Unlocked

(* And giving up.                                                           *)
LEMMA FinishHolds ==
  ASSUME IInv, NEW t \in Task, Finish(t), UNCHANGED <<own, vaultFile, mem, account, device, kits>>
  PROVE  IInv'
<1>1. task' = [task EXCEPT ![t] = Done]
  BY DEF Finish
<1>2. TypeOK'
  BY <1>1 DEF IInv, TypeOK
<1>3. RowsAreThere'
  BY <1>1 DEF IInv, TypeOK, RowsAreThere, Done
<1>4. Registered(t)'
  BY <1>1 DEF IInv, TypeOK, Registered, Done
<1>5. \A u \in Task \ {t} : task'[u].at = task[u].at /\ device'[u] = device[u]
  BY <1>1 DEF IInv, TypeOK
<1>. QED
  BY <1>2, <1>3, <1>4, <1>5, OutsideHolds

LEMMA AskingHolds ==
  ASSUME IInv, NEW t \in Task, StartEnrol(t) \/ WrapKey(t) \/ StartJoin(t)
  PROVE  IInv'
<1>1. UNCHANGED <<own, vaultFile, mem, account, device, kits>>
  BY DEF StartEnrol, WrapKey, StartJoin
<1>2. ASSUME NEW s \in {Done} \cup Wrapping \cup Enrolling \cup Joining,
             task' = [task EXCEPT ![t] = s], ~Registered(t),
             s.at \in {"wrap", "enrol", "register", "done"}
      PROVE  IInv'
  <2>1. TypeOK'
    BY <1>1, <1>2 DEF IInv, TypeOK
  <2>2. RowsAreThere'
    BY <1>1, <1>2 DEF IInv, TypeOK, RowsAreThere
  <2>3. \A u \in Task \ {t} : task'[u].at = task[u].at /\ device'[u] = device[u]
    BY <1>1, <1>2 DEF IInv, TypeOK
  <2>. QED
    BY <1>1, <1>2, <2>1, <2>2, <2>3, OutsideHolds
<1>3. CASE StartEnrol(t)
  <2>1. PICK p \in Password : task' = [task EXCEPT ![t] = [at |-> "wrap", password |-> p, alone |-> TRUE]]
    BY <1>3 DEF StartEnrol
  <2>2. [at |-> "wrap", password |-> p, alone |-> TRUE] \in Wrapping
    BY DEF Wrapping
  <2>3. ~Registered(t)
    BY <1>3 DEF StartEnrol, At, Registered
  <2>. QED
    BY <1>2, <2>1, <2>2, <2>3
<1>4. CASE WrapKey(t) /\ Unlocked
  <2>. DEFINE s == [at |-> "enrol", password |-> task[t].password, key |-> mem.key,
                    home |-> mem.vault,
                    alone |-> task[t].alone /\ vaultFile[mem.vault].key = mem.key]
  <2>1. task' = [task EXCEPT ![t] = s]
    BY <1>4 DEF WrapKey
  <2>2. task[t] \in Wrapping /\ ~Registered(t)
    BY <1>4, PhaseIs DEF WrapKey, At, IInv, Registered
  <2>3. mem \in Opened
    BY <1>4, OpenIs DEF IInv
  <2>4. task[t].password \in Password /\ task[t].alone \in BOOLEAN
        /\ mem.key \in Vault /\ mem.vault \in Vault
    BY <2>2, <2>3 DEF Wrapping, Opened
  <2>5. s.alone \in BOOLEAN
    BY <2>4
  <2>6. s \in Enrolling /\ s.at = "enrol"
    BY <2>4, <2>5 DEF Enrolling
  <2>. QED
    BY <1>2, <2>1, <2>2, <2>6
<1>5. CASE WrapKey(t) /\ ~Unlocked
  BY <1>1, <1>5, FinishHolds DEF WrapKey
<1>6. CASE StartJoin(t)
  <2>1. PICK a \in kits, p \in Password :
          task' = [task EXCEPT ![t] =
            IF account[a].password = p
              THEN [at |-> "register", account |-> a, password |-> p, key |-> account[a].key,
                    alone |-> TRUE]
              ELSE Done]
    BY <1>6 DEF StartJoin, Unwraps
  <2>2. account[a].key \in Vault /\ a \in Task
    BY DEF IInv, RowsAreThere, TypeOK, Wrapped
  <2>3. [at |-> "register", account |-> a, password |-> p, key |-> account[a].key,
         alone |-> TRUE] \in Joining
    BY <2>2 DEF Joining
  <2>4. ~Registered(t)
    BY <1>6 DEF StartJoin, At, Registered
  <2>5. Done.at = "done"
    BY DEF Done
  <2>. QED
    BY <1>2, <2>1, <2>3, <2>4, <2>5
<1>. QED
  BY <1>3, <1>4, <1>5, <1>6

LEMMA ServedHolds ==
  ASSUME IInv, NEW t \in Task, CreateAccount(t) \/ RegisterDevice(t)
  PROVE  IInv'
<1>1. UNCHANGED <<own, vaultFile, mem, kits>>
  BY DEF CreateAccount, RegisterDevice
<1>2. CASE CreateAccount(t)
  <2>1. task[t] \in Enrolling /\ task[t].at = "enrol"
    BY <1>2, PhaseIs DEF CreateAccount, At, IInv
  <2>2. [key |-> task[t].key, password |-> task[t].password] \in Wrapped
    BY <2>1 DEF Enrolling, Wrapped
  <2>3. \/ task' = [task EXCEPT ![t].at = "set"] /\ Rows(t)
        \/ task' = [task EXCEPT ![t] = Done] /\ (Rows(t) \/ UNCHANGED <<account, device>>)
    BY <1>2 DEF CreateAccount, Finish
  <2>4. account' \in [Task -> Wrapped \cup {NoRow}] /\ device' \in [Task -> Task \cup {NoRow}]
    BY <2>2, <2>3 DEF Rows, IInv, TypeOK
  <2>5. task' \in [Task -> {NoTask, Done} \cup Wrapping \cup Enrolling \cup Joining]
        /\ task'[t].at \in {"set", "done"}
    BY <2>1, <2>3 DEF IInv, TypeOK, Enrolling, Done
  <2>6. TypeOK'
    BY <1>1, <2>4, <2>5 DEF IInv, TypeOK
  <2>7. \A u \in Task \ {t} : /\ task'[u] = task[u] /\ device'[u] = device[u]
                              /\ account'[u] = account[u]
    BY <2>3 DEF Rows, IInv, TypeOK
  <2>8. account'[t] \in Wrapped \/ account' = account
    BY <2>2, <2>3 DEF Rows, IInv, TypeOK
  <2>9. task'[t].at = "set" => account'[t] \in Wrapped /\ device'[t] = t
    BY <2>2, <2>3 DEF Rows, IInv, TypeOK, Done
  <2>10. RowsAreThere'
    BY <1>1, <2>5, <2>7, <2>8, <2>9 DEF IInv, TypeOK, RowsAreThere
  <2>11. ~Registered(t)
    BY <2>1 DEF Registered
  <2>. QED
    BY <1>1, <2>6, <2>7, <2>10, <2>11, OutsideHolds
<1>3. CASE RegisterDevice(t)
  <2>1. task[t] \in Joining /\ task[t].at = "register"
    BY <1>3, PhaseIs DEF RegisterDevice, At, IInv
  <2>2. /\ UNCHANGED account
        /\ \/ task' = [task EXCEPT ![t].at = "adopt"]
              /\ device' = [device EXCEPT ![t] = task[t].account]
           \/ task' = [task EXCEPT ![t] = Done]
              /\ (device' = [device EXCEPT ![t] = task[t].account] \/ UNCHANGED device)
    BY <1>3 DEF RegisterDevice, Finish
  <2>3. device' \in [Task -> Task \cup {NoRow}]
    BY <2>1, <2>2 DEF IInv, TypeOK, Joining
  <2>4. task' \in [Task -> {NoTask, Done} \cup Wrapping \cup Enrolling \cup Joining]
        /\ task'[t].at \in {"adopt", "done"}
    BY <2>1, <2>2 DEF IInv, TypeOK, Joining, Done
  <2>5. TypeOK'
    BY <1>1, <2>2, <2>3, <2>4 DEF IInv, TypeOK
  <2>6. \A u \in Task \ {t} : task'[u] = task[u] /\ device'[u] = device[u]
    BY <2>2 DEF IInv, TypeOK
  <2>7. task'[t].at = "adopt" => device'[t] = task'[t].account
    BY <2>1, <2>2 DEF IInv, TypeOK, Joining, Done
  <2>8. RowsAreThere'
    BY <1>1, <2>2, <2>4, <2>6, <2>7 DEF IInv, TypeOK, RowsAreThere
  <2>9. ~Registered(t)
    BY <2>1 DEF Registered
  <2>. QED
    BY <1>1, <2>5, <2>6, <2>8, <2>9, OutsideHolds
<1>. QED
  BY <1>2, <1>3

LEMMA StepIs ==
  ASSUME IInv, NEW t \in Task, NEW step \in {"save", "keep"}, Step(t, step),
         step = "save" => task[t] \in Enrolling, step = "keep" => task[t] \in Joining
  PROVE  /\ task' \in [Task -> {NoTask, Done} \cup Wrapping \cup Enrolling \cup Joining]
         /\ task'[t] = [task[t] EXCEPT !.at = step] /\ task'[t].at = step
         /\ \A u \in Task \ {t} : task'[u].at = task[u].at
         /\ \A u \in Task \ {t} : task[u].at \in {"adopt", "keep"} => task'[u].account = task[u].account
<1>. DEFINE States == {NoTask, Done} \cup Wrapping \cup Enrolling \cup Joining
<1>1. task' = [u \in Task |->
         IF u = t THEN [task[t] EXCEPT !.at = step]
         ELSE IF task[u].at \in {"idle", "done"} THEN task[u]
         ELSE [task[u] EXCEPT !.alone = FALSE]]
  BY DEF Step
<1>2. task'[t] = [task[t] EXCEPT !.at = step] /\ task'[t] \in States /\ task'[t].at = step
  BY <1>1 DEF Enrolling, Joining
<1>3. ASSUME NEW u \in Task \ {t}
      PROVE  /\ task'[u] \in States /\ task'[u].at = task[u].at
             /\ task[u].at \in {"adopt", "keep"} => task'[u].account = task[u].account
  <2>1. CASE task[u].at \in {"idle", "done"}
    BY <1>1, <2>1 DEF IInv, TypeOK
  <2>2. CASE task[u].at \notin {"idle", "done"}
    <3>1. task[u] \in Wrapping \cup Enrolling \cup Joining
      BY <2>2 DEF IInv, TypeOK, NoTask, Done
    <3>2. task'[u] = [task[u] EXCEPT !.alone = FALSE]
      BY <1>1, <2>2
    <3>3. task[u].at \in {"adopt", "keep"} => task[u] \in Joining
      BY PhaseIs DEF IInv
    <3>. QED
      BY <3>1, <3>2, <3>3 DEF Wrapping, Enrolling, Joining
  <2>. QED
    BY <2>1, <2>2
<1>4. task' \in [Task -> States]
  BY <1>1, <1>2, <1>3
<1>. QED
  BY <1>2, <1>3, <1>4

(* The sync state goes to whatever is open, and with it, when joining, the  *)
(* account's key under a password that opened the key that was there.       *)
LEMMA WritingHolds ==
  ASSUME IInv, NEW t \in Task, SetSync(t) \/ Adopt(t)
  PROVE  IInv'
<1>. USE NullAssumption
<1>1. UNCHANGED <<own, vaultFile, account, device, kits>>
  BY DEF SetSync, Adopt
<1>2. ASSUME NEW step \in {"save", "keep"}, Step(t, step), Unlocked, mem' \in Opened,
             step = "save" => task[t] \in Enrolling, step = "keep" => task[t] \in Joining,
             step = "save" => task[t].at = "set", step = "keep" => task[t].at = "adopt",
             mem'.vault = mem.vault,
             mem'.sync.device = t, device[t] = mem'.sync.account,
             mem'.wrapped = [key |-> mem'.key, password |-> own[mem.vault]]
      PROVE  IInv'
  <2>1. /\ task' \in [Task -> {NoTask, Done} \cup Wrapping \cup Enrolling \cup Joining]
        /\ task'[t] = [task[t] EXCEPT !.at = step] /\ task'[t].at = step
        /\ \A u \in Task \ {t} : task'[u].at = task[u].at
        /\ \A u \in Task \ {t} : task[u].at \in {"adopt", "keep"} => task'[u].account = task[u].account
    BY <1>2, StepIs
  <2>2. TypeOK'
    BY <1>1, <1>2, <2>1 DEF IInv, TypeOK
  <2>3. step = "keep" => task'[t].account = task[t].account
    BY <1>2, <2>1 DEF Joining
  <2>4. /\ step = "save" => account[t] \in Wrapped /\ device[t] = t
        /\ step = "keep" => device[t] = task'[t].account
    BY <1>2, <2>3 DEF IInv, RowsAreThere
  <2>5. ASSUME NEW u \in Task \ {t}
        PROVE  /\ task'[u].at \in {"set", "save"} => account[u] \in Wrapped /\ device[u] = u
               /\ task'[u].at \in {"adopt", "keep"} => device[u] = task'[u].account
    BY <2>1 DEF IInv, RowsAreThere
  <2>6. RowsAreThere'
    <3>1. \A a \in kits : account[a] \in Wrapped
      BY DEF IInv, RowsAreThere
    <3>2. ASSUME NEW u \in Task
          PROVE  /\ task'[u].at \in {"set", "save"} => account[u] \in Wrapped /\ device[u] = u
                 /\ task'[u].at \in {"adopt", "keep"} => device[u] = task'[u].account
      BY <2>1, <2>4, <2>5
    <3>. QED
      BY <1>1, <3>1, <3>2 DEF RowsAreThere
  <2>7. Registered(t)'
    BY <2>1 DEF Registered
  <2>8. \A sync \in Sync : Signs(sync) => Signs(sync)'
    BY <1>1, <2>1, <2>7, SignsStay
  <2>9. SyncsSign'
    BY <1>1, <1>2, <2>7, <2>8 DEF IInv, TypeOK, Payload, SyncsSign, Signs
  <2>10. StillOpens' /\ MemoryOpens'
    BY <1>1, <1>2 DEF IInv, StillOpens, MemoryOpens
  <2>. QED
    BY <2>2, <2>6, <2>9, <2>10 DEF IInv
<1>3. CASE SetSync(t) /\ Unlocked
  <2>1. mem \in Opened /\ task[t] \in Enrolling /\ task[t].at = "set"
    BY <1>3, OpenIs, PhaseIs DEF SetSync, At, IInv
  <2>2. mem' = [mem EXCEPT !.sync = [account |-> t, device |-> t]] /\ Step(t, "save")
    BY <1>3 DEF SetSync
  <2>3. mem' \in Opened /\ mem'.vault = mem.vault /\ mem'.key = mem.key
        /\ mem'.wrapped = mem.wrapped /\ mem'.sync = [account |-> t, device |-> t]
    BY <2>1, <2>2 DEF Opened, Sync
  <2>4. device[t] = t /\ mem.wrapped = [key |-> mem.key, password |-> own[mem.vault]]
    BY <1>3, <2>1 DEF IInv, RowsAreThere, MemoryOpens
  <2>. QED
    BY <1>2, <1>3, <2>1, <2>2, <2>3, <2>4
<1>4. CASE Adopt(t) /\ Unlocked /\ mem.wrapped.password = task[t].password
  <2>1. mem \in Opened /\ task[t] \in Joining /\ task[t].at = "adopt"
    BY <1>4, OpenIs, PhaseIs DEF Adopt, At, IInv
  <2>2. /\ mem' = [mem EXCEPT !.key = task[t].key, !.sync = Joined(t),
                     !.wrapped = [key |-> task[t].key, password |-> task[t].password]]
        /\ Step(t, "keep")
    BY <1>4 DEF Adopt
  <2>3. Joined(t) \in Sync /\ Joined(t).device = t /\ Joined(t).account = task[t].account
    BY <2>1 DEF Joined, Sync, Joining
  <2>4. [key |-> task[t].key, password |-> task[t].password] \in Wrapped /\ task[t].key \in Vault
    BY <2>1 DEF Joining, Wrapped
  <2>5. /\ mem' \in Opened /\ mem'.vault = mem.vault /\ mem'.key = task[t].key
        /\ mem'.sync = Joined(t)
        /\ mem'.wrapped = [key |-> task[t].key, password |-> task[t].password]
    BY <2>1, <2>2, <2>3, <2>4 DEF Opened
  <2>6. task[t].password = own[mem.vault]
    BY <1>4 DEF IInv, MemoryOpens
  <2>7. device[t] = task[t].account
    BY <2>1 DEF IInv, RowsAreThere
  <2>. QED
    BY <1>2, <1>4, <2>1, <2>2, <2>3, <2>5, <2>6, <2>7
<1>5. CASE Finish(t) /\ UNCHANGED mem
  BY <1>1, <1>5, FinishHolds
<1>. QED
  BY <1>3, <1>4, <1>5 DEF SetSync, Adopt

LEMMA KeepingHolds ==
  ASSUME IInv, NEW t \in Task, SaveEnrolled(t) \/ SaveJoined(t)
  PROVE  IInv'
<1>1. /\ UNCHANGED <<own, mem, account, device>>
      /\ task' = [task EXCEPT ![t] = Done]
      /\ task[t].at \in {"save", "keep"}
      /\ vaultFile' = vaultFile \/ (Unlocked /\ vaultFile' = Saved(mem))
      /\ kits' = kits \/ (task[t].at = "save" /\ kits' = kits \cup {t})
  BY DEF SaveEnrolled, SaveJoined, Finish, At
<1>2. /\ vaultFile' \in [Vault -> Payload]
      /\ \A v \in Vault : Signs(vaultFile'[v].sync)
      /\ \A v \in Vault : vaultFile'[v].wrapped = [key |-> vaultFile'[v].key, password |-> own[v]]
  BY <1>1, SavingHolds DEF IInv, TypeOK, SyncsSign, StillOpens
<1>3. TypeOK'
  BY <1>1, <1>2 DEF IInv, TypeOK
<1>4. RowsAreThere'
  BY <1>1 DEF IInv, TypeOK, RowsAreThere, Done
<1>5. Registered(t)'
  BY <1>1 DEF IInv, TypeOK, Registered, Done
<1>6. \A u \in Task \ {t} : task'[u].at = task[u].at /\ device'[u] = device[u]
  BY <1>1 DEF IInv, TypeOK
<1>7. \A sync \in Sync : Signs(sync) => Signs(sync)'
  BY <1>1, <1>3, <1>5, <1>6, SignsStay DEF TypeOK
<1>8. SyncsSign'
  BY <1>1, <1>2, <1>7, OpenIs DEF IInv, SyncsSign, Payload, Opened, Unlocked
<1>9. StillOpens' /\ MemoryOpens'
  BY <1>1, <1>2 DEF IInv, StillOpens, MemoryOpens, Unlocked
<1>. QED
  BY <1>3, <1>4, <1>8, <1>9 DEF IInv

LEMMA StepHolds == IInv /\ [NextEnrolment]_enrolVars => IInv'
<1>. SUFFICES ASSUME IInv, [NextEnrolment]_enrolVars PROVE IInv'
  OBVIOUS
<1>1. CASE UNCHANGED enrolVars
  BY <1>1 DEF enrolVars, IInv, TypeOK, RowsAreThere, SyncsSign, Signs, Registered,
       StillOpens, MemoryOpens, Unlocked
<1>2. CASE OpenVault \/ CloseVault \/ SaveVault \/ Forget
  BY <1>2, UserHolds
<1>3. ASSUME NEW t \in Task, TaskStep(t) PROVE IInv'
  BY <1>3, AskingHolds, ServedHolds, WritingHolds, KeepingHolds DEF TaskStep
<1>. QED
  BY <1>1, <1>2, <1>3 DEF NextEnrolment

LEMMA Always == SpecEnrolment => []IInv
BY InitHolds, StepHolds, PTL DEF SpecEnrolment

-----------------------------------------------------------------------------
(* Whatever is enrolled, joined, half done or saved by others, a vault's    *)
(* file opens with its password, to the key its payload is sealed with      *)
(* (vault.rs, adopt_vault_key).                                             *)
THEOREM VaultsStillOpen == SpecEnrolment => []StillOpens
<1>1. IInv => StillOpens
  BY DEF IInv
<1>. QED
  BY Always, <1>1, PTL

(* What a vault signs as, in its file or in memory, is a device the server  *)
(* has registered to that account (sync.rs, enrol and join).                *)
THEOREM VaultsSignAsRegistered == SpecEnrolment => []SignsAsRegistered
<1>1. IInv => SignsAsRegistered
  BY DEF IInv, SignsAsRegistered, SyncsSign, Signs, Sealings, Sealed, Unlocked
<1>. QED
  BY Always, <1>1, PTL
-----------------------------------------------------------------------------
(* A task whose account is as it will stay.                                 *)
Settled(t) == task[t].at \notin {"idle", "wrap", "enrol"}

(* A kit goes with the key its account has, and so does what was wrapped;   *)
(* until its vault gets the sync state, the key that a task alone with it   *)
(* wrapped is the vault's, in its file and when it is open.                 *)
TaskKeys(t) ==
  /\ task[t].at \in {"register", "adopt", "keep"} =>
       Settled(task[t].account) /\ account[task[t].account].key = task[t].key
  /\ task[t].at = "set" => account[t].key = task[t].key
  /\ task[t].at \in {"enrol", "set"} /\ task[t].alone =>
       /\ vaultFile[task[t].home].key = task[t].key
       /\ mem.vault = task[t].home => mem.key = task[t].key

(* s is what v is, in its file or in memory.                                *)
SyncKey(v, s) == s.sync # NoSync =>
  /\ Settled(s.sync.account)
  /\ v \notin strayed => account[s.sync.account].key = s.key

KeysAreKnown ==
  /\ \A k \in kits : Settled(k)
  /\ \A t \in Task : TaskKeys(t)
  /\ \A v \in Vault : SyncKey(v, vaultFile[v])
  /\ Unlocked => SyncKey(mem.vault, mem)

LEMMA InitKeys == InitEnrolment => KeysAreKnown
<1>. SUFFICES ASSUME InitEnrolment PROVE KeysAreKnown
  OBVIOUS
<1>1. kits = {} /\ ~Unlocked
  BY DEF InitEnrolment, Closed, Unlocked
<1>2. \A t \in Task : task[t].at = "idle"
  BY DEF InitEnrolment, NoTask
<1>3. \A v \in Vault : vaultFile[v].sync = NoSync
  BY DEF InitEnrolment, NewFile
<1>. QED
  BY <1>1, <1>2, <1>3 DEF KeysAreKnown, TaskKeys, SyncKey

(* The open vault goes to its file, a file to memory, and tasks end: no key *)
(* comes to a vault that was not its own before.                            *)
LEMMA VaultsChangePlaces ==
  ASSUME IInv, KeysAreKnown, UNCHANGED <<account, strayed>>,
         \A t \in Task : task'[t] = task[t] \/ (Settled(t) /\ task'[t] = Done),
         \A k \in kits' : k \in kits \/ (k \in Task /\ Settled(k)),
         \A v \in Vault : \/ vaultFile'[v].key = vaultFile[v].key
                          \/ mem.vault = v /\ vaultFile'[v].key = mem.key,
         \A v \in Vault : mem'.vault = v => \/ mem'.key = vaultFile[v].key
                                            \/ mem.vault = v /\ mem'.key = mem.key,
         \A v \in Vault : SyncKey(v, vaultFile'[v]),
         Unlocked' => mem'.sync \in Sync /\ SyncKey(mem'.vault, mem'),
         \A v \in Vault : vaultFile'[v].sync \in Sync
  PROVE  KeysAreKnown'
<1>1. \A t \in Task : Settled(t) => Settled(t)'
  BY DEF Settled, Done
<1>2. \A k \in kits' : Settled(k)'
  BY <1>1 DEF KeysAreKnown, IInv, TypeOK
<1>3. ASSUME NEW t \in Task PROVE TaskKeys(t)'
  <2>1. CASE task'[t] = Done
    BY <2>1 DEF TaskKeys, Done
  <2>2. CASE task'[t] = task[t]
    <3>1. TaskKeys(t)
      BY DEF KeysAreKnown
    <3>2. /\ task[t].at \in {"register", "adopt", "keep"} => task[t].account \in Task
          /\ task[t].at \in {"enrol", "set"} => task[t].home \in Vault
      BY PhaseIs DEF IInv, Joining, Enrolling
    <3>. QED
      BY <1>1, <2>2, <3>1, <3>2 DEF TaskKeys
  <2>. QED
    BY <2>1, <2>2
<1>4. \A s \in Sync : s # NoSync => s.account \in Task
  BY DEF Sync
<1>5. \A v \in Vault : SyncKey(v, vaultFile[v])'
  BY <1>1, <1>4 DEF SyncKey
<1>6. (Unlocked => SyncKey(mem.vault, mem))'
  BY <1>1, <1>4 DEF SyncKey
<1>. QED
  BY <1>2, <1>3, <1>5, <1>6 DEF KeysAreKnown

(* Saving what is open.                                                     *)
LEMMA SavedKeys ==
  ASSUME IInv, KeysAreKnown, Unlocked
  PROVE  \A v \in Vault :
           /\ Saved(mem)[v].key = vaultFile[v].key \/ (mem.vault = v /\ Saved(mem)[v].key = mem.key)
           /\ SyncKey(v, Saved(mem)[v])
           /\ Saved(mem)[v].sync \in Sync
<1>1. mem \in Opened
  BY OpenIs DEF IInv
<1>2. Sealed(mem).sync = mem.sync /\ Sealed(mem).key = mem.key
  BY DEF Sealed
<1>3. \A v \in Vault : Saved(mem)[v] = IF v = mem.vault THEN Sealed(mem) ELSE vaultFile[v]
  BY DEF Saved, IInv, TypeOK
<1>. QED
  BY <1>1, <1>2, <1>3 DEF KeysAreKnown, SyncKey, Opened, IInv, TypeOK, Payload

LEMMA UserKeys ==
  ASSUME IInv, KeysAreKnown, OpenVault \/ CloseVault \/ SaveVault \/ Forget
  PROVE  KeysAreKnown'
<1>. USE NullAssumption
<1>1. UNCHANGED <<account, task, kits, strayed>>
  BY DEF OpenVault, CloseVault, SaveVault, Forget
<1>2. \A k \in kits : k \in Task /\ Settled(k)
  BY DEF IInv, TypeOK, KeysAreKnown
<1>3. \A v \in Vault : vaultFile[v].sync \in Sync /\ SyncKey(v, vaultFile[v])
  BY DEF IInv, TypeOK, Payload, KeysAreKnown
<1>4. Unlocked => mem.sync \in Sync /\ SyncKey(mem.vault, mem)
  BY OpenIs DEF IInv, Opened, KeysAreKnown
<1>5. CASE OpenVault
  <2>1. PICK v \in Vault : mem' = [vault |-> v, key |-> vaultFile[v].key,
                                   wrapped |-> vaultFile[v].wrapped, sync |-> vaultFile[v].sync]
    BY <1>5 DEF OpenVault
  <2>2. vaultFile' = vaultFile
    BY <1>5 DEF OpenVault
  <2>3. mem'.sync \in Sync /\ SyncKey(mem'.vault, mem')
    BY <1>3, <2>1 DEF SyncKey
  <2>. QED
    BY <1>1, <1>2, <1>3, <2>1, <2>2, <2>3, VaultsChangePlaces
<1>6. CASE CloseVault
  <2>1. vaultFile' = vaultFile /\ mem'.vault = NoVault /\ ~Unlocked'
    BY <1>6 DEF CloseVault, Closed, Unlocked
  <2>. QED
    BY <1>1, <1>2, <1>3, <2>1, VaultsChangePlaces
<1>7. CASE SaveVault
  <2>1. Unlocked /\ vaultFile' = Saved(mem) /\ mem' = mem /\ (Unlocked' <=> Unlocked)
    BY <1>7 DEF SaveVault, Unlocked
  <2>. QED
    BY <1>1, <1>2, <1>4, <2>1, SavedKeys, VaultsChangePlaces
<1>8. CASE Forget
  <2>1. mem \in Opened
    BY <1>8, OpenIs DEF Forget, IInv
  <2>2. mem' = [mem EXCEPT !.sync = NoSync] /\ vaultFile' \in {vaultFile, Saved(mem')}
    BY <1>8 DEF Forget
  <2>3. mem'.vault = mem.vault /\ mem'.key = mem.key /\ mem'.sync = NoSync
    BY <2>1, <2>2 DEF Opened
  <2>4. Sealed(mem').sync = NoSync /\ Sealed(mem').key = mem.key
    BY <2>3 DEF Sealed
  <2>5. \A v \in Vault : \/ vaultFile'[v] = vaultFile[v]
                         \/ v = mem.vault /\ vaultFile'[v] = Sealed(mem')
    BY <2>2, <2>3 DEF Saved, IInv, TypeOK
  <2>6. \A v \in Vault : vaultFile'[v].sync \in Sync /\ SyncKey(v, vaultFile'[v])
    BY <1>3, <2>4, <2>5 DEF SyncKey, Sync
  <2>7. mem'.sync \in Sync /\ SyncKey(mem'.vault, mem')
    BY <2>3 DEF SyncKey, Sync
  <2>. QED
    BY <1>1, <1>2, <2>3, <2>4, <2>5, <2>6, <2>7, VaultsChangePlaces
<1>. QED
  BY <1>5, <1>6, <1>7, <1>8

LEMMA KeepingKeys ==
  ASSUME IInv, KeysAreKnown, NEW t \in Task, SaveEnrolled(t) \/ SaveJoined(t)
  PROVE  KeysAreKnown'
<1>1. /\ UNCHANGED <<mem, account, strayed>>
      /\ task' = [task EXCEPT ![t] = Done]
      /\ task[t].at \in {"save", "keep"}
      /\ vaultFile' = vaultFile \/ (Unlocked /\ vaultFile' = Saved(mem))
      /\ kits' = kits \/ kits' = kits \cup {t}
  BY DEF SaveEnrolled, SaveJoined, Finish, At
<1>2. Settled(t) /\ \A u \in Task : task'[u] = task[u] \/ (Settled(u) /\ task'[u] = Done)
  BY <1>1 DEF Settled, IInv, TypeOK
<1>3. \A k \in kits' : k \in kits \/ (k \in Task /\ Settled(k))
  BY <1>1, <1>2
<1>4. \A v \in Vault : vaultFile[v].sync \in Sync /\ SyncKey(v, vaultFile[v])
  BY DEF IInv, TypeOK, Payload, KeysAreKnown
<1>5. Unlocked' => mem'.sync \in Sync /\ SyncKey(mem'.vault, mem')
  BY <1>1, OpenIs DEF IInv, Opened, KeysAreKnown, Unlocked
<1>6. \A v \in Vault :
        /\ vaultFile'[v].key = vaultFile[v].key \/ (mem.vault = v /\ vaultFile'[v].key = mem.key)
        /\ SyncKey(v, vaultFile'[v])
        /\ vaultFile'[v].sync \in Sync
  BY <1>1, <1>4, SavedKeys
<1>. QED
  BY <1>1, <1>2, <1>3, <1>5, <1>6, VaultsChangePlaces

(* A task that moves on with the vaults left alone.                         *)
LEMMA OutsideKeys ==
  ASSUME IInv, KeysAreKnown, NEW t \in Task, UNCHANGED <<vaultFile, mem, kits, strayed>>,
         \A u \in Task \ {t} : task'[u] = task[u] /\ account'[u] = account[u],
         Settled(t) => Settled(t)' /\ account'[t] = account[t],
         TaskKeys(t)'
  PROVE  KeysAreKnown'
<1>1. \A u \in Task : Settled(u) => Settled(u)' /\ account'[u] = account[u]
  BY DEF Settled
<1>2. \A k \in kits' : Settled(k)'
  BY <1>1 DEF KeysAreKnown, IInv, TypeOK
<1>3. ASSUME NEW u \in Task \ {t} PROVE TaskKeys(u)'
  <2>1. TaskKeys(u)
    BY DEF KeysAreKnown
  <2>2. task[u].at \in {"register", "adopt", "keep"} => task[u].account \in Task
    BY PhaseIs DEF IInv, Joining
  <2>. QED
    BY <1>1, <2>1, <2>2 DEF TaskKeys
<1>4. \A s \in Sync : s # NoSync => s.account \in Task
  BY DEF Sync
<1>5. \A v \in Vault : vaultFile[v].sync \in Sync /\ SyncKey(v, vaultFile[v])
  BY DEF IInv, TypeOK, Payload, KeysAreKnown
<1>6. Unlocked => mem.sync \in Sync /\ SyncKey(mem.vault, mem)
  BY OpenIs DEF IInv, Opened, KeysAreKnown
<1>7. \A v \in Vault : SyncKey(v, vaultFile[v])'
  BY <1>1, <1>4, <1>5 DEF SyncKey
<1>8. (Unlocked => SyncKey(mem.vault, mem))'
  BY <1>1, <1>4, <1>6 DEF SyncKey, Unlocked
<1>. QED
  BY <1>2, <1>3, <1>7, <1>8 DEF KeysAreKnown

LEMMA FinishKeys ==
  ASSUME IInv, KeysAreKnown, NEW t \in Task, Finish(t),
         UNCHANGED <<vaultFile, mem, account, kits, strayed>>
  PROVE  KeysAreKnown'
<1>1. task' = [task EXCEPT ![t] = Done]
  BY DEF Finish
<1>2. task'[t] = Done /\ \A u \in Task \ {t} : task'[u] = task[u] /\ account'[u] = account[u]
  BY <1>1 DEF IInv, TypeOK
<1>3. Settled(t)' /\ TaskKeys(t)'
  BY <1>2 DEF Settled, TaskKeys, Done
<1>. QED
  BY <1>2, <1>3, OutsideKeys

LEMMA AskingKeys ==
  ASSUME IInv, KeysAreKnown, NEW t \in Task, StartEnrol(t) \/ WrapKey(t) \/ StartJoin(t)
  PROVE  KeysAreKnown'
<1>. USE NullAssumption
<1>1. UNCHANGED <<vaultFile, mem, account, kits, strayed>> /\ ~Settled(t)
  BY DEF StartEnrol, WrapKey, StartJoin, At, Settled
<1>2. ASSUME NEW s, task' = [task EXCEPT ![t] = s]
      PROVE  task'[t] = s /\ \A u \in Task \ {t} : task'[u] = task[u] /\ account'[u] = account[u]
  BY <1>1, <1>2 DEF IInv, TypeOK
<1>3. CASE StartEnrol(t)
  <2>1. PICK p \in Password : task' = [task EXCEPT ![t] = [at |-> "wrap", password |-> p, alone |-> TRUE]]
    BY <1>3 DEF StartEnrol
  <2>2. task'[t].at = "wrap"
    BY <2>1 DEF IInv, TypeOK
  <2>3. TaskKeys(t)'
    BY <2>2 DEF TaskKeys
  <2>. QED
    BY <1>1, <1>2, <2>1, <2>3, OutsideKeys
<1>4. CASE WrapKey(t) /\ Unlocked
  <2>. DEFINE s == [at |-> "enrol", password |-> task[t].password, key |-> mem.key,
                    home |-> mem.vault,
                    alone |-> task[t].alone /\ vaultFile[mem.vault].key = mem.key]
  <2>1. task' = [task EXCEPT ![t] = s]
    BY <1>4 DEF WrapKey
  <2>2. task'[t] = s
    BY <1>2, <2>1
  <2>3. s.at = "enrol" /\ s.home = mem.vault /\ s.key = mem.key
        /\ (s.alone => vaultFile[mem.vault].key = mem.key)
    OBVIOUS
  <2>. HIDE DEF s
  <2>4. TaskKeys(t)'
    BY <1>1, <2>2, <2>3 DEF TaskKeys
  <2>. QED
    BY <1>1, <1>2, <2>1, <2>4, OutsideKeys
<1>5. CASE WrapKey(t) /\ ~Unlocked
  BY <1>1, <1>5, FinishKeys DEF WrapKey
<1>6. CASE StartJoin(t)
  <2>1. PICK k \in kits, p \in Password :
          task' = [task EXCEPT ![t] =
            IF account[k].password = p
              THEN [at |-> "register", account |-> k, password |-> p, key |-> account[k].key,
                    alone |-> TRUE]
              ELSE Done]
    BY <1>6 DEF StartJoin, Unwraps
  <2>2. k \in Task /\ Settled(k) /\ k # t
    BY <1>1 DEF IInv, TypeOK, KeysAreKnown
  <2>3. task'[k] = task[k]
    BY <1>2, <2>1, <2>2
  <2>4. CASE account[k].password = p
    <3>1. task'[t] = [at |-> "register", account |-> k, password |-> p, key |-> account[k].key,
                      alone |-> TRUE]
      BY <2>1, <2>4 DEF IInv, TypeOK
    <3>2. TaskKeys(t)'
      BY <1>1, <2>2, <2>3, <3>1 DEF TaskKeys, Settled
    <3>. QED
      BY <1>1, <1>2, <2>1, <3>2, OutsideKeys
  <2>5. CASE account[k].password # p
    BY <1>1, <2>1, <2>5, FinishKeys DEF Finish
  <2>. QED
    BY <2>4, <2>5
<1>. QED
  BY <1>3, <1>4, <1>5, <1>6

LEMMA ServedKeys ==
  ASSUME IInv, KeysAreKnown, NEW t \in Task, CreateAccount(t) \/ RegisterDevice(t)
  PROVE  KeysAreKnown'
<1>1. CASE CreateAccount(t)
  <2>1. UNCHANGED <<vaultFile, mem, kits, strayed>>
    BY <1>1 DEF CreateAccount
  <2>2. task[t] \in Enrolling /\ task[t].at = "enrol" /\ ~Settled(t)
    BY <1>1, PhaseIs DEF CreateAccount, At, IInv, Settled
  <2>3. \/ task' = [task EXCEPT ![t].at = "set"] /\ Rows(t)
        \/ task' = [task EXCEPT ![t] = Done] /\ (Rows(t) \/ UNCHANGED account)
    BY <1>1 DEF CreateAccount, Finish
  <2>4. \A u \in Task \ {t} : task'[u] = task[u] /\ account'[u] = account[u]
    BY <2>3 DEF Rows, IInv, TypeOK
  <2>5. CASE task' = [task EXCEPT ![t].at = "set"] /\ Rows(t)
    <3>1. task'[t] = [task[t] EXCEPT !.at = "set"] /\ account'[t].key = task[t].key
      BY <2>5 DEF Rows, IInv, TypeOK
    <3>2. /\ task'[t].at = "set" /\ task'[t].key = task[t].key
          /\ task'[t].home = task[t].home /\ task'[t].alone = task[t].alone
      BY <2>2, <3>1 DEF Enrolling
    <3>3. TaskKeys(t)
      BY DEF KeysAreKnown
    <3>4. TaskKeys(t)'
      BY <2>1, <2>2, <3>1, <3>2, <3>3 DEF TaskKeys
    <3>. QED
      BY <2>1, <2>2, <2>4, <3>4, OutsideKeys
  <2>6. CASE task' = [task EXCEPT ![t] = Done]
    <3>1. task'[t] = Done
      BY <2>6 DEF IInv, TypeOK
    <3>2. TaskKeys(t)'
      BY <3>1 DEF TaskKeys, Done
    <3>. QED
      BY <2>1, <2>2, <2>4, <3>2, OutsideKeys
  <2>. QED
    BY <2>3, <2>5, <2>6
<1>2. CASE RegisterDevice(t)
  <2>1. UNCHANGED <<vaultFile, mem, account, kits, strayed>>
    BY <1>2 DEF RegisterDevice
  <2>2. task[t] \in Joining /\ task[t].at = "register" /\ Settled(t)
    BY <1>2, PhaseIs DEF RegisterDevice, At, IInv, Settled
  <2>3. CASE Finish(t)
    BY <2>1, <2>3, FinishKeys
  <2>4. CASE task' = [task EXCEPT ![t].at = "adopt"]
    <3>1. task'[t] = [task[t] EXCEPT !.at = "adopt"] /\ \A u \in Task \ {t} : task'[u] = task[u]
      BY <2>4 DEF IInv, TypeOK
    <3>2. task'[t].at = "adopt" /\ task'[t].key = task[t].key /\ task'[t].account = task[t].account
      BY <2>2, <3>1 DEF Joining
    <3>3. Settled(t)' /\ \A u \in Task : Settled(u) => Settled(u)'
      BY <3>1, <3>2 DEF Settled
    <3>4. task[t].account \in Task /\ Settled(task[t].account)
          /\ account[task[t].account].key = task[t].key
      BY <2>2 DEF KeysAreKnown, TaskKeys, Joining
    <3>5. TaskKeys(t)'
      BY <2>1, <3>2, <3>3, <3>4 DEF TaskKeys
    <3>. QED
      BY <2>1, <3>1, <3>3, <3>5, OutsideKeys
  <2>. QED
    BY <1>2, <2>3, <2>4 DEF RegisterDevice
<1>. QED
  BY <1>1, <1>2

(* Writing the sync state: the account it names has the key that goes with  *)
(* it, or the vault has strayed; no other task is alone with it after that. *)
LEMMA WritingKeys ==
  ASSUME IInv, KeysAreKnown, NEW t \in Task, SetSync(t) \/ Adopt(t)
  PROVE  KeysAreKnown'
<1>. USE NullAssumption
<1>1. UNCHANGED <<vaultFile, account, kits>>
  BY DEF SetSync, Adopt
<1>2. ASSUME NEW step \in {"save", "keep"}, Step(t, step), Unlocked, mem' \in Opened,
             step = "save" => task[t] \in Enrolling /\ task[t].at = "set",
             step = "keep" => task[t] \in Joining /\ task[t].at = "adopt",
             strayed \subseteq strayed', mem'.vault = mem.vault,
             step = "save" => mem'.key = mem.key,
             mem'.sync # NoSync, mem'.sync.account \in Task, Settled(mem'.sync.account),
             mem.vault \notin strayed' => account[mem'.sync.account].key = mem'.key
      PROVE  KeysAreKnown'
  <2>1. task' = [u \in Task |->
          IF u = t THEN [task[t] EXCEPT !.at = step]
          ELSE IF task[u].at \in {"idle", "done"} THEN task[u]
          ELSE [task[u] EXCEPT !.alone = FALSE]]
    BY <1>2 DEF Step
  <2>2. /\ task'[t].at = step
        /\ step = "keep" => task'[t].account = task[t].account /\ task'[t].key = task[t].key
    BY <1>2, <2>1 DEF Enrolling, Joining
  <2>3. ASSUME NEW u \in Task \ {t}
        PROVE  /\ task'[u].at = task[u].at
               /\ task[u].at \in {"register", "adopt", "keep"} =>
                    task'[u].account = task[u].account /\ task'[u].key = task[u].key
               /\ task[u].at \in {"enrol", "set"} => task'[u].key = task[u].key /\ ~task'[u].alone
    <3>1. CASE task[u].at \in {"idle", "done"}
      BY <2>1, <3>1
    <3>2. CASE task[u].at \notin {"idle", "done"}
      <4>1. task[u] \in Wrapping \cup Enrolling \cup Joining
        BY <3>2 DEF IInv, TypeOK, NoTask, Done
      <4>2. task'[u] = [task[u] EXCEPT !.alone = FALSE]
        BY <2>1, <3>2
      <4>3. /\ task[u].at \in {"register", "adopt", "keep"} => task[u] \in Joining
            /\ task[u].at \in {"enrol", "set"} => task[u] \in Enrolling
        BY PhaseIs DEF IInv
      <4>. QED
        BY <4>1, <4>2, <4>3 DEF Wrapping, Enrolling, Joining
    <3>. QED
      BY <3>1, <3>2
  <2>4. \A u \in Task : Settled(u) => Settled(u)'
    BY <2>2, <2>3 DEF Settled
  <2>5. \A k \in kits' : Settled(k)'
    BY <1>1, <2>4 DEF KeysAreKnown, IInv, TypeOK
  <2>6. \A u \in Task : task[u].at \in {"register", "adopt", "keep"} => task[u].account \in Task
    BY PhaseIs DEF IInv, Joining
  <2>7. ASSUME NEW u \in Task \ {t} PROVE TaskKeys(u)'
    <3>1. TaskKeys(u)
      BY DEF KeysAreKnown
    <3>. QED
      BY <1>1, <2>3, <2>4, <2>6, <3>1 DEF TaskKeys
  <2>8. TaskKeys(t)'
    <3>1. TaskKeys(t)
      BY DEF KeysAreKnown
    <3>. QED
      BY <1>1, <1>2, <2>2, <2>4, <2>6, <3>1 DEF TaskKeys
  <2>9. \A v \in Vault : vaultFile[v].sync \in Sync /\ SyncKey(v, vaultFile[v])
    BY DEF IInv, TypeOK, Payload, KeysAreKnown
  <2>10. \A v \in Vault : SyncKey(v, vaultFile[v])'
    <3>1. \A s \in Sync : s # NoSync => s.account \in Task
      BY DEF Sync
    <3>. QED
      BY <1>1, <1>2, <2>4, <2>9, <3>1 DEF SyncKey
  <2>11. SyncKey(mem.vault, mem)'
    BY <1>1, <1>2, <2>4 DEF SyncKey
  <2>. QED
    BY <2>5, <2>7, <2>8, <2>10, <2>11 DEF KeysAreKnown
<1>3. CASE SetSync(t) /\ Unlocked
  <2>1. mem \in Opened /\ task[t] \in Enrolling /\ task[t].at = "set"
    BY <1>3, OpenIs, PhaseIs DEF SetSync, At, IInv
  <2>2. /\ mem' = [mem EXCEPT !.sync = [account |-> t, device |-> t]] /\ Step(t, "save")
        /\ strayed' = IF task[t].alone /\ mem.vault = task[t].home
                        THEN strayed ELSE strayed \cup {mem.vault}
    BY <1>3 DEF SetSync
  <2>3. mem' \in Opened /\ mem'.vault = mem.vault /\ mem'.key = mem.key
        /\ mem'.sync = [account |-> t, device |-> t]
    BY <2>1, <2>2 DEF Opened, Sync
  <2>4. mem'.sync \in [account : Task, device : Task] /\ mem'.sync.account = t
    BY <2>3
  <2>5. Settled(t) /\ TaskKeys(t)
    BY <2>1 DEF Settled, KeysAreKnown
  <2>6. mem.vault \notin strayed' => account[t].key = mem.key
    BY <2>1, <2>2, <2>5 DEF TaskKeys
  <2>7. mem'.sync # NoSync
    BY <2>4
  <2>. QED
    BY <1>2, <1>3, <2>1, <2>2, <2>3, <2>4, <2>5, <2>6, <2>7
<1>4. CASE Adopt(t) /\ Unlocked /\ mem.wrapped.password = task[t].password
  <2>1. mem \in Opened /\ task[t] \in Joining /\ task[t].at = "adopt"
    BY <1>4, OpenIs, PhaseIs DEF Adopt, At, IInv
  <2>2. /\ mem' = [mem EXCEPT !.key = task[t].key, !.sync = Joined(t),
                     !.wrapped = [key |-> task[t].key, password |-> task[t].password]]
        /\ Step(t, "keep") /\ strayed' = strayed
    BY <1>4 DEF Adopt
  <2>3. Joined(t) \in [account : Task, device : Task] /\ Joined(t).account = task[t].account
    BY <2>1 DEF Joined, Joining
  <2>4. [key |-> task[t].key, password |-> task[t].password] \in Wrapped /\ task[t].key \in Vault
    BY <2>1 DEF Joining, Wrapped
  <2>5. /\ mem' \in Opened /\ mem'.vault = mem.vault /\ mem'.key = task[t].key
        /\ mem'.sync = Joined(t)
    BY <2>1, <2>2, <2>3, <2>4 DEF Opened, Sync
  <2>6. task[t].account \in Task /\ Settled(task[t].account)
        /\ account[task[t].account].key = task[t].key
    BY <2>1 DEF KeysAreKnown, TaskKeys, Joining
  <2>7. mem'.sync # NoSync
    BY <2>3, <2>5
  <2>. QED
    BY <1>2, <1>4, <2>1, <2>2, <2>3, <2>5, <2>6, <2>7
<1>5. CASE Finish(t) /\ UNCHANGED <<mem, strayed>>
  BY <1>1, <1>5, FinishKeys
<1>. QED
  BY <1>3, <1>4, <1>5 DEF SetSync, Adopt

LEMMA KeysStep == IInv /\ KeysAreKnown /\ [NextEnrolment]_enrolVars => KeysAreKnown'
<1>. SUFFICES ASSUME IInv, KeysAreKnown, [NextEnrolment]_enrolVars PROVE KeysAreKnown'
  OBVIOUS
<1>1. CASE UNCHANGED enrolVars
  BY <1>1 DEF enrolVars, KeysAreKnown, TaskKeys, SyncKey, Settled, Unlocked
<1>2. CASE OpenVault \/ CloseVault \/ SaveVault \/ Forget
  BY <1>2, UserKeys
<1>3. ASSUME NEW t \in Task, TaskStep(t) PROVE KeysAreKnown'
  BY <1>3, AskingKeys, ServedKeys, WritingKeys, KeepingKeys DEF TaskStep
<1>. QED
  BY <1>1, <1>2, <1>3 DEF NextEnrolment

(* What a vault syncs with, in its file or in memory, is read by the other  *)
(* machines of that account with the key the vault is sealed with (vault.rs,*)
(* adopt_vault_key; sync.rs, enrol and join), unless it strayed: another    *)
(* vault was open when the state was written, another task changed the      *)
(* vault meanwhile, or its key was in no file when it was wrapped.          *)
THEOREM VaultsSyncUnderTheirKey == SpecEnrolment => []SyncsUnderItsKey
<1>1. KeysAreKnown => SyncsUnderItsKey
  BY DEF KeysAreKnown, SyncKey, SyncsUnderItsKey, Sealings, Sealed
<1>2. SpecEnrolment => []KeysAreKnown
  BY Always, InitKeys, KeysStep, PTL DEF SpecEnrolment
<1>. QED
  BY <1>1, <1>2, PTL

-----------------------------------------------------------------------------
(* Reading exports.                                                         *)

(* The URLs of a row *)

(* One more URL of those seen, as Distinct takes it.                        *)
Further(seen, url, text) ==
  IF Plain(text) \in ToSet(seen) \cup {NoText, url} THEN seen ELSE Append(seen, Plain(text))

LEMMA PlainIsText ==
  ASSUME NEW text \in Texts
  PROVE  Plain(text) \in Texts /\ Plain(text).word = text.word /\ Plain(Plain(text)) = Plain(text)
BY DEF Texts, Plain, Text

LEMMA FurtherIs ==
  ASSUME NEW seen \in Seq(Texts), NEW url, NEW text \in Texts
  PROVE  /\ Further(seen, url, text) \in Seq(Texts)
         /\ ToSet(Further(seen, url, text)) = ToSet(seen) \cup ({Plain(text)} \ {NoText, url})
<1>1. CASE Plain(text) \in ToSet(seen) \cup {NoText, url}
  BY <1>1 DEF Further
<1>2. CASE Plain(text) \notin ToSet(seen) \cup {NoText, url}
  <2>1. Further(seen, url, text) = Append(seen, Plain(text)) /\ Plain(text) \in Texts
    BY <1>2, PlainIsText DEF Further
  <2>2. ToSet(Append(seen, Plain(text))) = ToSet(seen) \cup {Plain(text)}
    BY <2>1 DEF ToSet
  <2>. QED
    BY <1>2, <2>1, <2>2
<1>. QED
  BY <1>1, <1>2

(* The function that Distinct is defined by.                                *)
DistinctBy(seen, url, texts) ==
  /\ seen = [n \in 0..Len(texts) |->
       IF n = 0 THEN <<>> ELSE Further(seen[n - 1], url, texts[n])]
  /\ Distinct(url, texts) = seen[Len(texts)]

LEMMA DistinctRuns ==
  ASSUME NEW url, NEW texts \in Seq(Texts)
  PROVE  \E seen : DistinctBy(seen, url, texts)
<1>. DEFINE Going(f) == [n \in 0..Len(texts) |->
              IF n = 0 THEN <<>> ELSE Further(f[n - 1], url, texts[n])]
            G == [z \in Seq(Texts) \X (1..Len(texts)) |-> Further(z[1], url, texts[z[2]])]
<1>1. Len(texts) \in Nat /\ \A n \in 1..Len(texts) : texts[n] \in Texts
  OBVIOUS
<1>2. G \in [Seq(Texts) \X (1..Len(texts)) -> Seq(Texts)]
  BY <1>1, FurtherIs
<1>3. <<>> \in Seq(Texts)
  OBVIOUS
<1>4. PICK f \in [0..Len(texts) -> Seq(Texts)] : Runs(f, Len(texts), <<>>, G)
  <2>. HIDE DEF G
  <2>. QED
    BY <1>1, <1>2, <1>3, Recursion
<1>5. f = Going(f)
  <2>1. ASSUME NEW n \in 1..Len(texts) PROVE f[n] = Going(f)[n]
    <3>1. n \in 0..Len(texts) /\ n # 0 /\ n - 1 \in 0..Len(texts)
      BY <1>1
    <3>2. f[n - 1] \in Seq(Texts)
      <4>. HIDE DEF Going, G
      <4>. QED
        BY <3>1
    <3>3. G[<<f[n - 1], n>>] = Further(f[n - 1], url, texts[n])
      BY <3>1, <3>2
    <3>4. Going(f)[n] = Further(f[n - 1], url, texts[n])
      BY <3>1
    <3>5. f[n] = G[<<f[n - 1], n>>]
      BY <1>4 DEF Runs
    <3>. QED
      BY <3>3, <3>4, <3>5
  <2>2. f[0] = Going(f)[0]
    BY <1>1, <1>4 DEF Runs
  <2>3. DOMAIN f = 0..Len(texts) /\ DOMAIN Going(f) = 0..Len(texts)
    OBVIOUS
  <2>4. \A n \in 0..Len(texts) : n = 0 \/ n \in 1..Len(texts)
    OBVIOUS
  <2>5. Going(f) = [n \in 0..Len(texts) |-> Going(f)[n]]
    OBVIOUS
  <2>. HIDE DEF Going, G
  <2>. QED
    BY <2>1, <2>2, <2>3, <2>4, <2>5
<1>6. (CHOOSE g : g = Going(g)) = Going(CHOOSE g : g = Going(g))
  BY <1>5
<1>7. Distinct(url, texts) = (CHOOSE g : g = Going(g))[Len(texts)]
  BY DEF Distinct, Further
<1>8. DistinctBy(CHOOSE g : g = Going(g), url, texts)
  BY <1>6, <1>7 DEF DistinctBy
<1>. QED
  BY <1>8

(* The URLs of a row that are kept: all of them, but its own.               *)
LEMMA DistinctIs ==
  ASSUME NEW url, NEW texts \in Seq(Texts)
  PROVE  /\ Distinct(url, texts) \in Seq(Texts)
         /\ ToSet(Distinct(url, texts)) =
              {Plain(text) : text \in ToSet(texts)} \ {NoText, url}
<1>1. PICK seen : DistinctBy(seen, url, texts)
  BY DistinctRuns
<1>2. /\ seen = [n \in 0..Len(texts) |->
           IF n = 0 THEN <<>> ELSE Further(seen[n - 1], url, texts[n])]
      /\ Distinct(url, texts) = seen[Len(texts)]
  BY <1>1 DEF DistinctBy
<1>. DEFINE U == {n \in 0..Len(texts) :
              /\ seen[n] \in Seq(Texts)
              /\ ToSet(seen[n]) = {Plain(texts[k]) : k \in 1..n} \ {NoText, url}}
<1>3. Len(texts) \in Nat /\ 0 \in 0..Len(texts) /\ Len(texts) \in 0..Len(texts)
  OBVIOUS
<1>4. 0 \in U
  <2>1. seen[0] = <<>>
    BY <1>2, <1>3
  <2>2. <<>> \in Seq(Texts) /\ ToSet(<<>>) = {} /\ 1..0 = {}
    BY DEF ToSet
  <2>. QED
    BY <1>3, <2>1, <2>2
<1>5. ASSUME NEW n \in 1..Len(texts), n - 1 \in U PROVE n \in U
  <2>1. /\ seen[n - 1] \in Seq(Texts)
        /\ ToSet(seen[n - 1]) = {Plain(texts[k]) : k \in 1..n - 1} \ {NoText, url}
    BY <1>5
  <2>2. n \in 0..Len(texts) /\ n # 0 /\ texts[n] \in Texts
    OBVIOUS
  <2>3. seen[n] = Further(seen[n - 1], url, texts[n])
    BY <1>2, <2>2
  <2>4. /\ seen[n] \in Seq(Texts)
        /\ ToSet(seen[n]) = ToSet(seen[n - 1]) \cup ({Plain(texts[n])} \ {NoText, url})
    BY <2>1, <2>2, <2>3, FurtherIs
  <2>5. 1..n = (1..n - 1) \cup {n}
    OBVIOUS
  <2>6. {Plain(texts[k]) : k \in 1..n} = {Plain(texts[k]) : k \in 1..n - 1} \cup {Plain(texts[n])}
    BY <2>5
  <2>. QED
    BY <2>1, <2>2, <2>4, <2>6
<1>. HIDE DEF U
<1>6. Len(texts) \in U
  BY <1>3, <1>4, <1>5, Upwards
<1>7. {Plain(texts[k]) : k \in 1..Len(texts)} = {Plain(text) : text \in ToSet(texts)}
  BY DEF ToSet
<1>. QED
  BY <1>2, <1>6, <1>7 DEF U

-----------------------------------------------------------------------------
(* The fields of an item *)

FieldName == {"Email", "Additional URL", "Cardholder", "Card type", "Card number",
              "Security code", "Expiration", "PIN"}
FieldType == [label : FieldName \X Nat, value : Texts, secret : BOOLEAN]

(* The values of a list of fields that are shown, and those that are not.   *)
ValuesOf(fields, secret) == {f.value : f \in {g \in ToSet(fields) : g.secret = secret}}
Labels(fields) == {f.label : f \in ToSet(fields)}
Labelled(fields) == \A j, k \in DOMAIN fields : fields[j].label = fields[k].label => j = k

LEMMA FieldIs ==
  ASSUME NEW name \in FieldName, NEW value \in Texts, NEW secret \in BOOLEAN
  PROVE  LET fields == Field(Label(name), value, secret) IN
         /\ fields \in Seq(FieldType) /\ Labelled(fields)
         /\ Labels(fields) \subseteq {<<name, 1>>}
         /\ value \in ValuesOf(fields, secret) \cup {NoText}
         /\ ValuesOf(fields, secret) \subseteq {value}
         /\ ValuesOf(fields, ~secret) = {}
<1>. DEFINE one == [label |-> <<name, 1>>, value |-> value, secret |-> secret]
<1>1. one \in FieldType /\ one.label = <<name, 1>> /\ one.value = value /\ one.secret = secret
  BY DEF FieldType
<1>2. CASE value = NoText
  <2>1. Field(Label(name), value, secret) = <<>> /\ ToSet(<<>>) = {} /\ DOMAIN <<>> = {}
    BY <1>2 DEF Field, ToSet
  <2>. QED
    BY <1>2, <2>1 DEF Labelled, Labels, ValuesOf
<1>3. CASE value # NoText
  <2>1. Field(Label(name), value, secret) = <<one>>
    BY <1>3 DEF Field, Label
  <2>. HIDE DEF one
  <2>2. ToSet(<<one>>) = {one} /\ DOMAIN <<one>> = {1} /\ <<one>> \in Seq(FieldType)
    BY <1>1 DEF ToSet
  <2>. QED
    BY <1>1, <2>1, <2>2 DEF Labelled, Labels, ValuesOf
<1>. QED
  BY <1>2, <1>3

LEMMA JoinedIs ==
  ASSUME NEW s \in Seq(FieldType), NEW t \in Seq(FieldType)
  PROVE  /\ s \o t \in Seq(FieldType)
         /\ ToSet(s \o t) = ToSet(s) \cup ToSet(t)
         /\ Labels(s \o t) = Labels(s) \cup Labels(t)
         /\ \A secret \in BOOLEAN :
              ValuesOf(s \o t, secret) = ValuesOf(s, secret) \cup ValuesOf(t, secret)
<1>1. /\ s \o t \in Seq(FieldType) /\ Len(s \o t) = Len(s) + Len(t)
      /\ Len(s) \in Nat /\ Len(t) \in Nat
      /\ DOMAIN s = 1..Len(s) /\ DOMAIN t = 1..Len(t) /\ DOMAIN (s \o t) = 1..Len(s) + Len(t)
  OBVIOUS
<1>2. /\ \A k \in 1..Len(s) : (s \o t)[k] = s[k] /\ k \in 1..Len(s) + Len(t)
      /\ \A k \in 1..Len(t) : (s \o t)[Len(s) + k] = t[k] /\ Len(s) + k \in 1..Len(s) + Len(t)
  OBVIOUS
<1>3. \A k \in 1..Len(s) + Len(t) : k \in 1..Len(s) \/ \E j \in 1..Len(t) : k = Len(s) + j
  <2>. SUFFICES ASSUME NEW k \in 1..Len(s) + Len(t), k \notin 1..Len(s)
                PROVE  k - Len(s) \in 1..Len(t) /\ k = Len(s) + (k - Len(s))
    OBVIOUS
  <2>. QED
    BY <1>1
<1>4. ToSet(s \o t) = ToSet(s) \cup ToSet(t)
  <2>1. \A k \in 1..Len(s) + Len(t) : (s \o t)[k] \in ToSet(s) \cup ToSet(t)
    BY <1>1, <1>2, <1>3 DEF ToSet
  <2>2. \A k \in 1..Len(s) : s[k] \in ToSet(s \o t)
    BY <1>1, <1>2 DEF ToSet
  <2>3. \A k \in 1..Len(t) : t[k] \in ToSet(s \o t)
    BY <1>1, <1>2 DEF ToSet
  <2>. QED
    BY <1>1, <2>1, <2>2, <2>3 DEF ToSet
<1>5. Labels(s \o t) = Labels(s) \cup Labels(t)
  BY <1>4 DEF Labels
<1>6. \A secret \in BOOLEAN :
        ValuesOf(s \o t, secret) = ValuesOf(s, secret) \cup ValuesOf(t, secret)
  BY <1>4 DEF ValuesOf
<1>. QED
  BY <1>1, <1>4, <1>5, <1>6

LEMMA JoinedLabelled ==
  ASSUME NEW s \in Seq(FieldType), NEW t \in Seq(FieldType), Labelled(s), Labelled(t),
         Labels(s) \cap Labels(t) = {}
  PROVE  Labelled(s \o t)
<1>1. /\ Len(s) \in Nat /\ Len(t) \in Nat
      /\ DOMAIN s = 1..Len(s) /\ DOMAIN t = 1..Len(t) /\ DOMAIN (s \o t) = 1..Len(s) + Len(t)
  OBVIOUS
<1>2. /\ \A k \in 1..Len(s) : (s \o t)[k] = s[k] /\ s[k].label \in Labels(s)
      /\ \A k \in 1..Len(t) : (s \o t)[Len(s) + k] = t[k] /\ t[k].label \in Labels(t)
  BY <1>1 DEF Labels, ToSet
<1>3. \A k \in 1..Len(s) + Len(t) : k \in 1..Len(s) \/ \E j \in 1..Len(t) : k = Len(s) + j
  <2>. SUFFICES ASSUME NEW k \in 1..Len(s) + Len(t), k \notin 1..Len(s)
                PROVE  k - Len(s) \in 1..Len(t) /\ k = Len(s) + (k - Len(s))
    OBVIOUS
  <2>. QED
    BY <1>1
<1>. SUFFICES ASSUME NEW j \in 1..Len(s) + Len(t), NEW k \in 1..Len(s) + Len(t),
                     (s \o t)[j].label = (s \o t)[k].label
              PROVE  j = k
  BY <1>1 DEF Labelled
<1>4. CASE j \in 1..Len(s) /\ k \in 1..Len(s)
  BY <1>1, <1>2, <1>4 DEF Labelled
<1>5. CASE j \in 1..Len(s) /\ k \notin 1..Len(s)
  BY <1>2, <1>3, <1>5
<1>6. CASE j \notin 1..Len(s) /\ k \in 1..Len(s)
  BY <1>2, <1>3, <1>6
<1>7. CASE j \notin 1..Len(s) /\ k \notin 1..Len(s)
  <2>1. PICK m \in 1..Len(t) : j = Len(s) + m
    BY <1>3, <1>7
  <2>2. PICK n \in 1..Len(t) : k = Len(s) + n
    BY <1>3, <1>7
  <2>3. t[m].label = t[n].label
    BY <1>2, <2>1, <2>2
  <2>4. m = n
    BY <1>1, <2>3 DEF Labelled
  <2>. QED
    BY <2>1, <2>2, <2>4
<1>. QED
  BY <1>4, <1>5, <1>6, <1>7
(* What every item has, whatever it was made of.                            *)
Basic(item, row) ==
  /\ item.name = Plain(row.name) /\ item.folder = Plain(row.vault)
  /\ item.url = Plain(row.url) /\ item.password = row.password /\ item.totp = Totp(row)
  /\ item.created = Stamp(row.createTime) /\ item.updated = Stamp(row.modifyTime)

UrlLabel(n) == <<"Additional URL", n>>

LEMMA UrlLabelIs ==
  /\ \A n \in Nat : UrlLabel(n) \in FieldName \X Nat /\ UrlLabel(n) # <<"Email", 1>>
  /\ \A m, n \in Nat : UrlLabel(m) = UrlLabel(n) => m = n
<1>1. \A n \in Nat : UrlLabel(n) \in FieldName \X Nat
  BY DEF UrlLabel, FieldName
<1>2. \A n \in Nat : UrlLabel(n) # <<"Email", 1>>
  BY DEF UrlLabel
<1>3. \A n \in Nat : UrlLabel(n)[2] = n
  BY DEF UrlLabel
<1>. QED
  BY <1>1, <1>2, <1>3

LEMMA AutofillIs ==
  ASSUME NEW row \in PassRow
  PROVE  LET fields == AutofillFields(row) IN
         /\ fields \in Seq(FieldType) /\ Labelled(fields)
         /\ Labels(fields) \subseteq {UrlLabel(n) : n \in Nat}
         /\ ValuesOf(fields, FALSE) =
              {Plain(text) : text \in ToSet(row.autofill)} \ {NoText, Plain(row.url)}
         /\ ValuesOf(fields, TRUE) = {}
<1>. DEFINE urls == Distinct(Plain(row.url), row.autofill)
            fields == AutofillFields(row)
<1>1. row.autofill \in Seq(Texts)
  BY DEF PassRow
<1>2. urls \in Seq(Texts)
      /\ ToSet(urls) = {Plain(text) : text \in ToSet(row.autofill)} \ {NoText, Plain(row.url)}
  BY <1>1, DistinctIs
<1>. HIDE DEF urls
<1>3. /\ Len(urls) \in Nat /\ DOMAIN urls = 1..Len(urls)
      /\ \A n \in 1..Len(urls) : urls[n] \in Texts /\ n \in Nat
  BY <1>2
<1>4. fields = [n \in DOMAIN urls |->
                  [label |-> UrlLabel(n), value |-> urls[n], secret |-> FALSE]]
  BY DEF AutofillFields, urls, UrlLabel
<1>5. DOMAIN fields = 1..Len(urls)
      /\ \A n \in 1..Len(urls) :
           /\ fields[n] = [label |-> UrlLabel(n), value |-> urls[n], secret |-> FALSE]
           /\ fields[n] \in FieldType
  BY <1>3, <1>4, UrlLabelIs DEF FieldType
<1>6. fields \in Seq(FieldType)
  <2>1. fields \in [1..Len(urls) -> FieldType]
    BY <1>3, <1>4, <1>5
  <2>. QED
    BY <1>3, <2>1
<1>. HIDE DEF fields
<1>7. \A n \in 1..Len(urls) : /\ fields[n].label = UrlLabel(n)
                              /\ fields[n].value = urls[n] /\ fields[n].secret = FALSE
  BY <1>5
<1>8. Labelled(fields)
  <2>. SUFFICES ASSUME NEW j \in 1..Len(urls), NEW k \in 1..Len(urls),
                       fields[j].label = fields[k].label
                PROVE  j = k
    BY <1>5 DEF Labelled
  <2>1. UrlLabel(j) = UrlLabel(k) /\ j \in Nat /\ k \in Nat
    BY <1>3, <1>7
  <2>. QED
    BY <2>1, UrlLabelIs
<1>9. Labels(fields) \subseteq {UrlLabel(n) : n \in Nat}
  BY <1>3, <1>5, <1>7 DEF Labels, ToSet
<1>10. {g \in ToSet(fields) : g.secret = TRUE} = {} /\ {g \in ToSet(fields) : g.secret = FALSE} = ToSet(fields)
  BY <1>5, <1>7 DEF ToSet
<1>11. {f.value : f \in ToSet(fields)} = ToSet(urls)
  BY <1>3, <1>5, <1>7 DEF ToSet
<1>. QED
  BY <1>2, <1>6, <1>8, <1>9, <1>10, <1>11 DEF ValuesOf, fields

LEMMA CommonIs ==
  ASSUME NEW row \in PassRow, NEW kind
  PROVE  LET item == Common(row, kind) IN
         /\ Basic(item, row) /\ item.notes = row.note
         /\ item.username = (IF Plain(row.username) # NoText THEN Plain(row.username)
                                                           ELSE Plain(row.email))
         /\ item.fields = (IF Plain(row.username) = NoText \/ Plain(row.email) = Plain(row.username)
                             THEN <<>> ELSE PushPlain("Email", Plain(row.email)))
                          \o AutofillFields(row)
BY DEF Common, Bare, Basic, Exact

LEMMA CommonFields ==
  ASSUME NEW row \in PassRow, NEW kind
  PROVE  LET fields == Common(row, kind).fields IN
         /\ fields \in Seq(FieldType) /\ Labelled(fields)
         /\ {Plain(text) : text \in ToSet(row.autofill)}
              \subseteq ValuesOf(fields, FALSE) \cup {NoText, Plain(row.url)}
         /\ \/ Plain(row.username) = NoText \/ Plain(row.email) = Plain(row.username)
            \/ Plain(row.email) \in ValuesOf(fields, FALSE) \cup {NoText}
         /\ ValuesOf(fields, FALSE)
              \subseteq {Plain(row.email)} \cup {Plain(text) : text \in ToSet(row.autofill)}
<1>. DEFINE named == Plain(row.username) = NoText \/ Plain(row.email) = Plain(row.username)
            email == IF named THEN <<>> ELSE PushPlain("Email", Plain(row.email))
            urls == AutofillFields(row)
<1>1. Common(row, kind).fields = email \o urls
  BY CommonIs
<1>2. row.email \in Texts /\ Plain(row.email) \in Texts /\ Plain(Plain(row.email)) = Plain(row.email)
  <2>1. row.email \in Texts
    BY DEF PassRow
  <2>. QED
    BY <2>1, PlainIsText
<1>3. /\ email \in Seq(FieldType) /\ Labelled(email) /\ Labels(email) \subseteq {<<"Email", 1>>}
      /\ named \/ Plain(row.email) \in ValuesOf(email, FALSE) \cup {NoText}
      /\ ValuesOf(email, FALSE) \subseteq {Plain(row.email)}
  <2>1. CASE named
    <3>1. email = <<>> /\ ToSet(<<>>) = {} /\ DOMAIN <<>> = {} /\ <<>> \in Seq(FieldType)
      BY <2>1 DEF ToSet
    <3>. QED
      BY <2>1, <3>1 DEF Labelled, Labels, ValuesOf
  <2>2. CASE ~named
    <3>1. email = Field(Label("Email"), Plain(row.email), FALSE)
      BY <1>2, <2>2 DEF PushPlain
    <3>. DEFINE fields == Field(Label("Email"), Plain(row.email), FALSE)
    <3>2. /\ fields \in Seq(FieldType) /\ Labelled(fields)
          /\ Labels(fields) \subseteq {<<"Email", 1>>}
          /\ Plain(row.email) \in ValuesOf(fields, FALSE) \cup {NoText}
          /\ ValuesOf(fields, FALSE) \subseteq {Plain(row.email)}
      <4>1. "Email" \in FieldName /\ FALSE \in BOOLEAN
        BY DEF FieldName
      <4>. HIDE DEF fields
      <4>. QED
        BY <1>2, <4>1, FieldIs DEF fields
    <3>. HIDE DEF fields
    <3>. QED
      BY <3>1, <3>2 DEF fields
  <2>. QED
    BY <2>1, <2>2
<1>4. /\ urls \in Seq(FieldType) /\ Labelled(urls)
      /\ Labels(urls) \subseteq {UrlLabel(n) : n \in Nat}
      /\ ValuesOf(urls, FALSE) =
           {Plain(text) : text \in ToSet(row.autofill)} \ {NoText, Plain(row.url)}
  BY AutofillIs
<1>. HIDE DEF email, urls, named
<1>5. Labels(email) \cap Labels(urls) = {}
  BY <1>3, <1>4, UrlLabelIs
<1>6. Labelled(email \o urls)
  BY <1>3, <1>4, <1>5, JoinedLabelled
<1>7. email \o urls \in Seq(FieldType)
      /\ ValuesOf(email \o urls, FALSE) = ValuesOf(email, FALSE) \cup ValuesOf(urls, FALSE)
  BY <1>3, <1>4, JoinedIs
<1>. QED
  BY <1>1, <1>3, <1>4, <1>6, <1>7 DEF named
(* A list of fields with these names that holds what is shown and what is   *)
(* hidden, but for empty texts, and no more.                                *)
Holds(fields, names, shown, hidden) ==
  /\ fields \in Seq(FieldType) /\ Labelled(fields)
  /\ Labels(fields) \subseteq names \X {1}
  /\ shown \subseteq ValuesOf(fields, FALSE) \cup {NoText} /\ ValuesOf(fields, FALSE) \subseteq shown
  /\ hidden \subseteq ValuesOf(fields, TRUE) \cup {NoText}

LEMMA HoldsJoined ==
  ASSUME NEW s, NEW t, NEW ns, NEW nt, NEW shs, NEW sht, NEW hs, NEW ht,
         Holds(s, ns, shs, hs), Holds(t, nt, sht, ht), ns \cap nt = {}
  PROVE  Holds(s \o t, ns \cup nt, shs \cup sht, hs \cup ht)
<1>1. /\ s \in Seq(FieldType) /\ t \in Seq(FieldType) /\ Labelled(s) /\ Labelled(t)
      /\ Labels(s) \subseteq ns \X {1} /\ Labels(t) \subseteq nt \X {1}
  BY DEF Holds
<1>2. Labels(s) \cap Labels(t) = {}
  <2>1. (ns \X {1}) \cap (nt \X {1}) = {}
    OBVIOUS
  <2>. QED
    BY <1>1, <2>1
<1>3. Labelled(s \o t)
  BY <1>1, <1>2, JoinedLabelled
<1>4. /\ s \o t \in Seq(FieldType) /\ Labels(s \o t) = Labels(s) \cup Labels(t)
      /\ ValuesOf(s \o t, FALSE) = ValuesOf(s, FALSE) \cup ValuesOf(t, FALSE)
      /\ ValuesOf(s \o t, TRUE) = ValuesOf(s, TRUE) \cup ValuesOf(t, TRUE)
  BY <1>1, JoinedIs
<1>5. Labels(s \o t) \subseteq (ns \cup nt) \X {1}
  BY <1>1, <1>4
<1>. QED
  BY <1>3, <1>4, <1>5 DEF Holds

LEMMA PushHolds ==
  ASSUME NEW name \in FieldName, NEW text \in Texts
  PROVE  /\ Holds(PushPlain(name, text), {name}, {Plain(text)}, {})
         /\ Holds(PushSecret(name, text), {name}, {}, {text})
<1>1. Plain(text) \in Texts /\ Exact(text) = text
  BY PlainIsText DEF Exact
<1>2. <<name, 1>> \in {name} \X {1} /\ TRUE \in BOOLEAN /\ FALSE \in BOOLEAN
      /\ ~TRUE = FALSE /\ ~FALSE = TRUE
  OBVIOUS
<1>3. Holds(PushPlain(name, text), {name}, {Plain(text)}, {})
  <2>. DEFINE fields == Field(Label(name), Plain(text), FALSE)
  <2>1. /\ fields \in Seq(FieldType) /\ Labelled(fields)
        /\ Labels(fields) \subseteq {<<name, 1>>}
        /\ Plain(text) \in ValuesOf(fields, FALSE) \cup {NoText}
        /\ ValuesOf(fields, FALSE) \subseteq {Plain(text)}
    <3>. HIDE DEF fields
    <3>. QED
      BY <1>1, <1>2, FieldIs DEF fields
  <2>2. PushPlain(name, text) = fields
    BY DEF PushPlain
  <2>. HIDE DEF fields
  <2>. QED
    BY <1>2, <2>1, <2>2 DEF Holds
<1>4. Holds(PushSecret(name, text), {name}, {}, {text})
  <2>. DEFINE fields == Field(Label(name), text, TRUE)
  <2>1. /\ fields \in Seq(FieldType) /\ Labelled(fields)
        /\ Labels(fields) \subseteq {<<name, 1>>}
        /\ text \in ValuesOf(fields, TRUE) \cup {NoText}
        /\ ValuesOf(fields, FALSE) = {}
    <3>. HIDE DEF fields
    <3>. QED
      BY <1>1, <1>2, FieldIs DEF fields
  <2>2. PushSecret(name, text) = fields
    BY <1>1 DEF PushSecret
  <2>. HIDE DEF fields
  <2>. QED
    BY <1>2, <2>1, <2>2 DEF Holds
<1>. QED
  BY <1>3, <1>4

CardType ==
  [holder : Texts, type : Texts, number : Texts, expires : Texts,
   code : Texts, pin : Texts, note : Texts]

LEMMA CardFieldsAre ==
  ASSUME NEW card \in CardType
  PROVE  Holds(CardFields(card), FieldName \ {"Email", "Additional URL"},
               {Plain(card.holder), Plain(card.type), Plain(card.expires)},
               {card.number, card.code, card.pin})
<1>1. /\ card.holder \in Texts /\ card.type \in Texts /\ card.number \in Texts
      /\ card.expires \in Texts /\ card.code \in Texts /\ card.pin \in Texts
  BY DEF CardType
<1>2. /\ "Cardholder" \in FieldName /\ "Card type" \in FieldName /\ "Card number" \in FieldName
      /\ "Security code" \in FieldName /\ "Expiration" \in FieldName /\ "PIN" \in FieldName
  BY DEF FieldName
<1>. DEFINE f1 == PushPlain("Cardholder", card.holder)
            f2 == PushPlain("Card type", card.type)
            f3 == PushSecret("Card number", card.number)
            f4 == PushSecret("Security code", card.code)
            f5 == PushPlain("Expiration", card.expires)
            f6 == PushSecret("PIN", card.pin)
            n1 == {"Cardholder"}   n2 == {"Card type"}    n3 == {"Card number"}
            n4 == {"Security code"} n5 == {"Expiration"}  n6 == {"PIN"}
            p1 == {Plain(card.holder)} p2 == {Plain(card.type)} p5 == {Plain(card.expires)}
            s3 == {card.number} s4 == {card.code} s6 == {card.pin}
<1>3. /\ Holds(f1, n1, p1, {}) /\ Holds(f2, n2, p2, {}) /\ Holds(f3, n3, {}, s3)
      /\ Holds(f4, n4, {}, s4) /\ Holds(f5, n5, p5, {}) /\ Holds(f6, n6, {}, s6)
  BY <1>1, <1>2, PushHolds
<1>4. /\ n1 \cap n2 = {} /\ (n1 \cup n2) \cap n3 = {} /\ (n1 \cup n2 \cup n3) \cap n4 = {}
      /\ (n1 \cup n2 \cup n3 \cup n4) \cap n5 = {}
      /\ (n1 \cup n2 \cup n3 \cup n4 \cup n5) \cap n6 = {}
  OBVIOUS
<1>5. n1 \cup n2 \cup n3 \cup n4 \cup n5 \cup n6 = FieldName \ {"Email", "Additional URL"}
  BY DEF FieldName
<1>6. /\ p1 \cup p2 \cup {} \cup {} \cup p5 \cup {}
            = {Plain(card.holder), Plain(card.type), Plain(card.expires)}
      /\ {} \cup {} \cup s3 \cup s4 \cup {} \cup s6 = {card.number, card.code, card.pin}
  OBVIOUS
<1>7. CardFields(card) = f1 \o f2 \o f3 \o f4 \o f5 \o f6
  BY DEF CardFields
<1>. HIDE DEF f1, f2, f3, f4, f5, f6, n1, n2, n3, n4, n5, n6, p1, p2, p5, s3, s4, s6
<1>8. Holds(f1 \o f2, n1 \cup n2, p1 \cup p2, {} \cup {})
  BY <1>3, <1>4, HoldsJoined
<1>9. Holds(f1 \o f2 \o f3, n1 \cup n2 \cup n3, p1 \cup p2 \cup {}, {} \cup {} \cup s3)
  BY <1>3, <1>4, <1>8, HoldsJoined
<1>10. Holds(f1 \o f2 \o f3 \o f4, n1 \cup n2 \cup n3 \cup n4,
             p1 \cup p2 \cup {} \cup {}, {} \cup {} \cup s3 \cup s4)
  BY <1>3, <1>4, <1>9, HoldsJoined
<1>11. Holds(f1 \o f2 \o f3 \o f4 \o f5, n1 \cup n2 \cup n3 \cup n4 \cup n5,
             p1 \cup p2 \cup {} \cup {} \cup p5, {} \cup {} \cup s3 \cup s4 \cup {})
  BY <1>3, <1>4, <1>10, HoldsJoined
<1>12. Holds(f1 \o f2 \o f3 \o f4 \o f5 \o f6, n1 \cup n2 \cup n3 \cup n4 \cup n5 \cup n6,
             p1 \cup p2 \cup {} \cup {} \cup p5 \cup {}, {} \cup {} \cup s3 \cup s4 \cup {} \cup s6)
  BY <1>3, <1>4, <1>11, HoldsJoined
<1>. QED
  BY <1>5, <1>6, <1>7, <1>12

LEMMA NothingHeld ==
  Holds(<<>>, {}, {}, {})
<1>1. ToSet(<<>>) = {} /\ DOMAIN <<>> = {} /\ <<>> \in Seq(FieldType)
  BY DEF ToSet
<1>. QED
  BY <1>1 DEF Holds, Labelled, Labels, ValuesOf
-----------------------------------------------------------------------------
(* What a row becomes *)

Trimmed(cells) == {Plain(cell) : cell \in cells}

(* Nothing of the row is missing, and nothing that is shown was hidden.     *)
Faithful(item, row) ==
  /\ Basic(item, row) /\ Labelled(item.fields)
  /\ Trimmed(PlainCells(row)) \subseteq Visible(item) \cup {NoText}
  /\ SecretCells(row) \subseteq Hidden(item) \cup {NoText}
  /\ Visible(item) \subseteq Trimmed(PlainCells(row)) \cup {NoText}

LEMMA ValuesAre ==
  ASSUME NEW item, NEW secret
  PROVE  Values(item, secret) = ValuesOf(item.fields, secret)
BY DEF Values, ValuesOf

LEMMA CommonFaithful ==
  ASSUME NEW row \in PassRow, NEW kind, row.type # "creditcard"
  PROVE  Faithful(Common(row, kind), row)
<1>. DEFINE item == Common(row, kind)
            shown == ValuesOf(item.fields, FALSE)
            urls == {Plain(text) : text \in ToSet(row.autofill)}
            email == Plain(row.email)
            username == Plain(row.username)
<1>1. /\ Basic(item, row) /\ item.notes = row.note
      /\ item.username = IF username # NoText THEN username ELSE email
  BY CommonIs
<1>2. /\ item.name = Plain(row.name) /\ item.folder = Plain(row.vault)
      /\ item.url = Plain(row.url) /\ item.password = row.password
  BY <1>1 DEF Basic
<1>3. /\ Labelled(item.fields)
      /\ urls \subseteq shown \cup {NoText, Plain(row.url)}
      /\ username = NoText \/ email = username \/ email \in shown \cup {NoText}
      /\ shown \subseteq {email} \cup urls
  BY CommonFields
<1>4. PlainCells(row) =
        {row.name, row.url, row.vault, row.email, row.username} \cup ToSet(row.autofill)
  BY DEF PlainCells
<1>5. Trimmed(PlainCells(row)) =
        {Plain(row.name), Plain(row.url), Plain(row.vault), email, username} \cup urls
  BY <1>4 DEF Trimmed
<1>6. Visible(item) = {item.name, item.folder, item.username, item.url} \cup shown
  BY ValuesAre DEF Visible
<1>7. SecretCells(row) = {row.password, row.note}
  BY DEF SecretCells
<1>8. {item.password, item.notes} \subseteq Hidden(item)
  BY DEF Hidden
<1>. HIDE DEF item, shown, urls, email, username
<1>9. Trimmed(PlainCells(row)) \subseteq Visible(item) \cup {NoText}
  <2>1. username \in Visible(item) \cup {NoText}
    BY <1>1, <1>6
  <2>2. email \in Visible(item) \cup {NoText}
    BY <1>1, <1>3, <1>6
  <2>3. urls \subseteq Visible(item) \cup {NoText}
    BY <1>2, <1>3, <1>6
  <2>. QED
    BY <1>2, <1>5, <1>6, <2>1, <2>2, <2>3
<1>10. SecretCells(row) \subseteq Hidden(item) \cup {NoText}
  BY <1>1, <1>2, <1>7, <1>8
<1>11. Visible(item) \subseteq Trimmed(PlainCells(row)) \cup {NoText}
  BY <1>1, <1>2, <1>3, <1>5, <1>6
<1>. QED
  BY <1>1, <1>3, <1>9, <1>10, <1>11 DEF Faithful, item

LEMMA CardItemIs ==
  ASSUME NEW row
  PROVE  LET item == Card(row) IN
         /\ Basic(item, row) /\ item.username = NoText
         /\ item.notes = (IF Blank(row.note) THEN NoText
                          ELSE IF IsCard(row) THEN Cards[row.note.word].note ELSE row.note)
         /\ item.fields = (IF IsCard(row) THEN CardFields(Cards[row.note.word]) ELSE <<>>)
BY DEF Card, Bare, Basic, Exact

LEMMA CardFaithful ==
  ASSUME NEW row \in PassRow, row.type = "creditcard"
  PROVE  Faithful(Card(row), row)
<1>. DEFINE item == Card(row)
            card == Cards[row.note.word]
            shown == ValuesOf(item.fields, FALSE)
            hidden == ValuesOf(item.fields, TRUE)
<1>1. /\ Basic(item, row) /\ item.username = NoText
      /\ item.notes = IF Blank(row.note) THEN NoText
                      ELSE IF IsCard(row) THEN card.note ELSE row.note
      /\ item.fields = IF IsCard(row) THEN CardFields(card) ELSE <<>>
  BY CardItemIs
<1>2. /\ item.name = Plain(row.name) /\ item.folder = Plain(row.vault)
      /\ item.url = Plain(row.url) /\ item.password = row.password
  BY <1>1 DEF Basic
<1>3. Visible(item) = {item.name, item.folder, item.username, item.url} \cup shown
  BY ValuesAre DEF Visible
<1>4. Hidden(item) = {item.password, item.notes} \cup hidden
  BY ValuesAre DEF Hidden
<1>5. CASE IsCard(row)
  <2>1. ~Blank(row.note) /\ card \in CardType
    BY <1>5, ExportsAssumption, WordAssumption DEF IsCard, Blank, CardType
  <2>2. /\ Labelled(item.fields)
        /\ {Plain(card.holder), Plain(card.type), Plain(card.expires)} \subseteq shown \cup {NoText}
        /\ shown \subseteq {Plain(card.holder), Plain(card.type), Plain(card.expires)}
        /\ {card.number, card.code, card.pin} \subseteq hidden \cup {NoText}
    <3>. HIDE DEF item, card
    <3>. QED
      BY <1>1, <1>5, <2>1, CardFieldsAre DEF Holds
  <2>3. PlainCells(row) = {row.name, row.url, row.vault} \cup {card.holder, card.type, card.expires}
    BY <1>5 DEF PlainCells
  <2>4. Trimmed(PlainCells(row)) =
          {Plain(row.name), Plain(row.url), Plain(row.vault)}
            \cup {Plain(card.holder), Plain(card.type), Plain(card.expires)}
    BY <2>3 DEF Trimmed
  <2>5. SecretCells(row) = {row.password, card.number, card.code, card.pin, card.note}
    BY <1>5 DEF SecretCells
  <2>6. item.notes = card.note
    BY <1>1, <1>5, <2>1
  <2>. HIDE DEF item, card, shown, hidden
  <2>7. Trimmed(PlainCells(row)) \subseteq Visible(item) \cup {NoText}
    BY <1>2, <1>3, <2>2, <2>4
  <2>8. SecretCells(row) \subseteq Hidden(item) \cup {NoText}
    BY <1>2, <1>4, <2>2, <2>5, <2>6
  <2>9. Visible(item) \subseteq Trimmed(PlainCells(row)) \cup {NoText}
    BY <1>1, <1>2, <1>3, <2>2, <2>4
  <2>. QED
    BY <1>1, <2>2, <2>7, <2>8, <2>9 DEF Faithful, item
<1>6. CASE ~IsCard(row)
  <2>1. item.fields = <<>> /\ Labelled(item.fields) /\ shown = {} /\ hidden = {}
    <3>1. item.fields = <<>>
      BY <1>1, <1>6
    <3>2. ToSet(<<>>) = {} /\ DOMAIN <<>> = {}
      BY DEF ToSet
    <3>. HIDE DEF item
    <3>. QED
      BY <3>1, <3>2 DEF Labelled, ValuesOf
  <2>2. PlainCells(row) = {row.name, row.url, row.vault}
    BY <1>6 DEF PlainCells
  <2>3. Trimmed(PlainCells(row)) = {Plain(row.name), Plain(row.url), Plain(row.vault)}
    BY <2>2 DEF Trimmed
  <2>4. SecretCells(row) = {row.password} \cup (IF Blank(row.note) THEN {} ELSE {row.note})
    BY <1>6 DEF SecretCells
  <2>5. item.notes = IF Blank(row.note) THEN NoText ELSE row.note
    BY <1>1, <1>6
  <2>. HIDE DEF item, shown, hidden
  <2>6. Trimmed(PlainCells(row)) \subseteq Visible(item) \cup {NoText}
    BY <1>2, <1>3, <2>3
  <2>7. SecretCells(row) \subseteq Hidden(item) \cup {NoText}
    BY <1>2, <1>4, <2>4, <2>5
  <2>8. Visible(item) \subseteq Trimmed(PlainCells(row)) \cup {NoText}
    BY <1>1, <1>2, <1>3, <2>1, <2>3
  <2>. QED
    BY <1>1, <2>1, <2>6, <2>7, <2>8 DEF Faithful, item
<1>. QED
  BY <1>5, <1>6

(* A row is skipped with a name, or becomes one item with its warnings.     *)
LEMMA PassItemIs ==
  ASSUME NEW row \in PassRow
  PROVE  LET import == PassItem(row) IN
         \/ import.entries = <<>> /\ (import.skipped = {Unnamed} \/ import.skipped = {Plain(row.name)})
            /\ (import.skipped = {Unnamed} \/ ~Blank(row.name))
         \/ /\ ~Blank(row.name) /\ import.skipped = {} /\ import.warnings = Warnings(row)
            /\ \E item : Faithful(item, row) /\ import.entries = <<item>>
<1>1. CASE Blank(row.name)
  BY <1>1 DEF PassItem, Skipped
<1>2. CASE ~Blank(row.name) /\ row.type \notin DOMAIN KindOf
  BY <1>2 DEF PassItem, Skipped
<1>3. CASE ~Blank(row.name) /\ row.type \in DOMAIN KindOf /\ row.type = "creditcard"
  <2>1. PassItem(row) = Entry(Card(row), Warnings(row))
    BY <1>3 DEF PassItem
  <2>2. Faithful(Card(row), row)
    BY <1>3, CardFaithful
  <2>3. /\ PassItem(row).skipped = {} /\ PassItem(row).warnings = Warnings(row)
        /\ PassItem(row).entries = <<Card(row)>>
    BY <2>1 DEF Entry
  <2>. QED
    BY <1>3, <2>2, <2>3
<1>4. CASE ~Blank(row.name) /\ row.type \in DOMAIN KindOf /\ row.type # "creditcard"
  <2>. DEFINE kind == KindOf[row.type]
  <2>1. PassItem(row) = Entry(Common(row, kind), Warnings(row))
    BY <1>4 DEF PassItem
  <2>. HIDE DEF kind
  <2>2. Faithful(Common(row, kind), row)
    BY <1>4, CommonFaithful
  <2>3. /\ PassItem(row).skipped = {} /\ PassItem(row).warnings = Warnings(row)
        /\ PassItem(row).entries = <<Common(row, kind)>>
    BY <2>1 DEF Entry
  <2>. QED
    BY <1>4, <2>2, <2>3
<1>. QED
  BY <1>1, <1>2, <1>3, <1>4
LEMMA NamesAre ==
  ASSUME NEW entry \in JsonEntry
  PROVE  /\ Names(entry) \in Seq(Texts) /\ Names(entry)[1] = entry.name
         /\ Len(Names(entry)) \in {1, 3}
<1>1. entry.name \in Texts
  BY ExportsAssumption
<1>2. CASE entry.uri.word \in DOMAIN Codes
  <2>1. Codes[entry.uri.word].issuer \in Texts /\ Codes[entry.uri.word].account \in Texts
    BY <1>2, ExportsAssumption
  <2>. DEFINE from == Codes[entry.uri.word].issuer
              whose == Codes[entry.uri.word].account
  <2>2. Names(entry) = <<entry.name>> \o <<from, whose>>
    BY <1>2 DEF Names
  <2>. HIDE DEF from, whose
  <2>. QED
    BY <1>1, <2>1, <2>2 DEF from, whose
<1>3. CASE entry.uri.word \notin DOMAIN Codes
  <2>1. Names(entry) = <<entry.name>> \o <<>>
    BY <1>3 DEF Names
  <2>. QED
    BY <1>1, <2>1
<1>. QED
  BY <1>2, <1>3

LEMMA PickNameIs ==
  ASSUME NEW entry \in JsonEntry
  PROVE  /\ ~Blank(PickName(entry))
         /\ ~Blank(entry.name) => PickName(entry) = Plain(entry.name)
<1>. DEFINE names == Names(entry)
            worded == {k \in DOMAIN names : ~Blank(names[k])}
<1>1. names \in Seq(Texts) /\ names[1] = entry.name /\ Len(names) \in {1, 3}
  BY NamesAre
<1>2. PickName(entry) = IF worded = {} THEN Text("Untitled") ELSE Plain(names[Min(worded)])
  BY DEF PickName
<1>3. DOMAIN names = 1..Len(names) /\ 1 \in DOMAIN names
  BY <1>1
<1>4. worded \subseteq {1, 2, 3}
  BY <1>1, <1>3
<1>. HIDE DEF names
<1>5. CASE worded = {}
  <2>1. PickName(entry) = Text("Untitled") /\ Blank(entry.name)
    BY <1>1, <1>2, <1>3, <1>5
  <2>2. Text("Untitled").word # NoWord
    BY WordAssumption DEF Text
  <2>. QED
    BY <2>1, <2>2 DEF Blank
<1>6. CASE worded # {}
  <2>1. \E x \in worded : \A y \in worded : x <= y
    <3>1. CASE 1 \in worded
      BY <1>4, <3>1
    <3>2. CASE 1 \notin worded /\ 2 \in worded
      BY <1>4, <3>2
    <3>3. CASE 1 \notin worded /\ 2 \notin worded
      BY <1>4, <1>6, <3>3
    <3>. QED
      BY <3>1, <3>2, <3>3
  <2>2. Min(worded) \in worded /\ \A y \in worded : Min(worded) <= y
    <3>. HIDE DEF worded
    <3>. QED
      BY <2>1 DEF Min
  <2>. DEFINE k == Min(worded)
  <2>3. k \in DOMAIN names /\ ~Blank(names[k])
    BY <2>2
  <2>4. names[k] \in Texts /\ PickName(entry) = Plain(names[k])
    BY <1>1, <1>2, <1>6, <2>3
  <2>5. ~Blank(entry.name) => k = 1
    <3>1. ~Blank(entry.name) => 1 \in worded
      BY <1>1, <1>3
    <3>. HIDE DEF worded
    <3>2. ASSUME 1 \in worded PROVE Min(worded) = 1
      <4>1. Min(worded) \in {1, 2, 3} /\ Min(worded) <= 1
        BY <1>4, <2>2, <3>2
      <4>. QED
        BY <4>1
    <3>. QED
      BY <3>1, <3>2
  <2>. HIDE DEF k, worded
  <2>6. ~Blank(Plain(names[k]))
    BY <2>3, <2>4, PlainIsText DEF Blank
  <2>. QED
    BY <1>1, <2>4, <2>5, <2>6
<1>. QED
  BY <1>5, <1>6

-----------------------------------------------------------------------------
(* What was last read is a row of an export and what the program made of it *)
(* (import.rs, from_proton_pass and from_proton_authenticator).             *)
FromAnExport ==
  \/ reading = NoReading
  \/ \E row \in CsvRow : reading = [source |-> "pass", row |-> row, import |-> PassItem(row)]
  \/ reading = [source |-> "torn", row |-> NoReading, import |-> Skipped(Text("CSV row 2"))]
  \/ \E entry \in JsonEntry :
       reading = [source |-> "authenticator", row |-> entry, import |-> Authenticated(entry)]

(* Nothing else is ever left of a row: the readings are functions of it.    *)
THEOREM ReadingInvariant == SpecImporter => []FromAnExport
<1>1. InitImporter => FromAnExport
  BY DEF InitImporter, FromAnExport
<1>2. FromAnExport /\ [NextImporter]_reading => FromAnExport'
  <2>. SUFFICES ASSUME FromAnExport, [NextImporter]_reading PROVE FromAnExport'
    OBVIOUS
  <2>1. CASE ReadPassRow
    <3>1. \E row \in CsvRow : reading' = [source |-> "pass", row |-> row, import |-> PassItem(row)]
      BY <2>1 DEF ReadPassRow, Read
    <3>. QED
      BY <3>1 DEF FromAnExport
  <2>2. CASE ReadTornRow
    BY <2>2 DEF ReadTornRow, Read, FromAnExport
  <2>3. CASE ReadEntry
    <3>1. \E entry \in JsonEntry :
            reading' = [source |-> "authenticator", row |-> entry, import |-> Authenticated(entry)]
      BY <2>3 DEF ReadEntry, Read
    <3>. QED
      BY <3>1 DEF FromAnExport
  <2>4. CASE NextRow
    BY <2>4 DEF NextRow, FromAnExport
  <2>5. CASE UNCHANGED reading
    BY <2>5 DEF FromAnExport
  <2>. QED
    BY <2>1, <2>2, <2>3, <2>4, <2>5 DEF NextImporter
<1>. QED
  BY <1>1, <1>2, PTL DEF SpecImporter

LEMMA PassReading ==
  ASSUME FromAnExport, Became("pass")
  PROVE  \E row \in PassRow : reading.row = row /\ reading.import = PassItem(row)
<1>1. reading # NoReading /\ reading.source = "pass"
  BY DEF Became
<1>2. reading # [source |-> "torn", row |-> NoReading, import |-> Skipped(Text("CSV row 2"))]
  <2>. DEFINE import == Skipped(Text("CSV row 2"))
  <2>. HIDE DEF import
  <2>1. reading # [source |-> "torn", row |-> NoReading, import |-> import]
    BY <1>1
  <2>. QED
    BY <2>1 DEF import
<1>3. ~ \E entry \in JsonEntry :
        reading = [source |-> "authenticator", row |-> entry, import |-> Authenticated(entry)]
  BY <1>1
<1>4. PICK row \in CsvRow : reading = [source |-> "pass", row |-> row, import |-> PassItem(row)]
  BY <1>1, <1>2, <1>3 DEF FromAnExport
<1>. DEFINE import == PassItem(row)
<1>. HIDE DEF import
<1>5. reading.row = row /\ reading.import = import
  BY <1>4 DEF import
<1>. QED
  BY <1>5, ExportsAssumption DEF import

LEMMA EntriesOf ==
  ASSUME NEW row, NEW item, reading.import = PassItem(row), PassItem(row).entries = <<item>>
  PROVE  Entries = {item}
BY DEF Entries, ToSet

LEMMA NoEntries ==
  ASSUME NEW row, reading.import = PassItem(row), PassItem(row).entries = <<>>
  PROVE  Entries = {}
BY DEF Entries, ToSet
(* A cell that gave no code, or no time, has a warning.                     *)
LEMMA Warned ==
  ASSUME NEW row \in PassRow
  PROVE  /\ Totp(row) = NoCode /\ ~Blank(row.totp) => "code" \in Warnings(row)
         /\ Stamp(row.createTime) = NoText /\ ~Blank(row.createTime) => "created" \in Warnings(row)
         /\ Stamp(row.modifyTime) = NoText /\ ~Blank(row.modifyTime) => "updated" \in Warnings(row)
<1>1. row.totp \in Texts /\ row.createTime \in Texts /\ row.modifyTime \in Texts
  BY DEF PassRow
<1>2. \A text \in Texts : ~Blank(text) => Plain(text) # NoText
  BY DEF Texts, Blank, Plain, NoText, Text
<1>3. ASSUME Totp(row) = NoCode, ~Blank(row.totp) PROVE "code" \in Warnings(row)
  <2>1. row.totp.word \notin DOMAIN Codes
    BY <1>1, <1>2, <1>3 DEF Totp, NoCode
  <2>2. Unread(row) = {"code"}
    BY <1>3, <2>1 DEF Unread
  <2>. QED
    BY <2>2 DEF Warnings
<1>4. ASSUME NEW cell \in Texts, NEW column, Stamp(cell) = NoText, ~Blank(cell)
      PROVE  Unstamped(column, cell) = {column}
  <2>1. cell.word \notin Times
    BY <1>2, <1>4 DEF Stamp
  <2>. QED
    BY <1>4, <2>1 DEF Unstamped
<1>5. ASSUME Stamp(row.createTime) = NoText, ~Blank(row.createTime) PROVE "created" \in Warnings(row)
  <2>1. Unstamped("created", row.createTime) = {"created"}
    BY <1>1, <1>4, <1>5
  <2>. QED
    BY <2>1 DEF Warnings
<1>6. ASSUME Stamp(row.modifyTime) = NoText, ~Blank(row.modifyTime) PROVE "updated" \in Warnings(row)
  <2>1. Unstamped("updated", row.modifyTime) = {"updated"}
    BY <1>1, <1>4, <1>6
  <2>. QED
    BY <2>1 DEF Warnings
<1>. QED
  BY <1>3, <1>5, <1>6

LEMMA LostNothing ==
  ASSUME FromAnExport
  PROVE  NothingLostSilently
<1>. SUFFICES ASSUME Became("pass"), NEW item \in Entries
              PROVE  LET row == reading.row IN
                     /\ {Plain(cell) : cell \in PlainCells(row)} \subseteq Visible(item) \cup {NoText}
                     /\ SecretCells(row) \subseteq Hidden(item) \cup {NoText}
                     /\ item.totp = NoCode /\ ~Blank(row.totp) => "code" \in reading.import.warnings
                     /\ item.created = NoText /\ ~Blank(row.createTime)
                          => "created" \in reading.import.warnings
                     /\ item.updated = NoText /\ ~Blank(row.modifyTime)
                          => "updated" \in reading.import.warnings
  BY DEF NothingLostSilently
<1>1. PICK row \in PassRow : reading.row = row /\ reading.import = PassItem(row)
  BY PassReading
<1>2. PassItem(row).entries # <<>>
  BY <1>1, NoEntries
<1>3. PICK made : Faithful(made, row) /\ PassItem(row).entries = <<made>>
  BY <1>2, PassItemIs
<1>4. PassItem(row).warnings = Warnings(row)
  BY <1>2, PassItemIs
<1>5. item = made
  BY <1>1, <1>3, EntriesOf
<1>6. /\ Trimmed(PlainCells(row)) \subseteq Visible(item) \cup {NoText}
      /\ SecretCells(row) \subseteq Hidden(item) \cup {NoText}
      /\ item.totp = Totp(row)
      /\ item.created = Stamp(row.createTime) /\ item.updated = Stamp(row.modifyTime)
  BY <1>3, <1>5 DEF Faithful, Basic
<1>7. {Plain(cell) : cell \in PlainCells(row)} \subseteq Visible(item) \cup {NoText}
  BY <1>6 DEF Trimmed
<1>. QED
  BY <1>1, <1>4, <1>6, <1>7, Warned

LEMMA TrimmedWords ==
  ASSUME NEW cells
  PROVE  Words(Trimmed(cells)) = Words(cells)
<1>1. \A cell : Plain(cell).word = cell.word
  BY DEF Plain, Text
<1>. QED
  BY <1>1 DEF Words, Trimmed

LEMMA Masked ==
  ASSUME FromAnExport
  PROVE  SecretsStayMasked
<1>. SUFFICES ASSUME Became("pass")
              PROVE  LET row == reading.row IN
                     Words(reading.import.skipped \cup UNION {Visible(item) : item \in Entries})
                       \subseteq Words(PlainCells(row) \cup {NoText, Unnamed})
  BY DEF SecretsStayMasked
<1>1. PICK row \in PassRow : reading.row = row /\ reading.import = PassItem(row)
  BY PassReading
<1>2. row.name \in PlainCells(row)
  BY DEF PlainCells
<1>. DEFINE listed == reading.import.skipped \cup UNION {Visible(item) : item \in Entries}
            open == PlainCells(row) \cup {NoText, Unnamed}
<1>3. CASE PassItem(row).entries = <<>>
  <2>1. listed = PassItem(row).skipped
    BY <1>1, <1>3, NoEntries
  <2>2. listed = {Unnamed} \/ listed = {Plain(row.name)}
    <3>1. \A item : <<item>> # <<>>
      OBVIOUS
    <3>2. PassItem(row).skipped = {Unnamed} \/ PassItem(row).skipped = {Plain(row.name)}
      BY <1>3, <3>1, PassItemIs
    <3>. QED
      BY <2>1, <3>2
  <2>3. Plain(row.name).word = row.name.word
    BY DEF Plain, Text
  <2>. HIDE DEF listed
  <2>. QED
    BY <1>1, <1>2, <2>2, <2>3 DEF Words, listed
<1>4. CASE PassItem(row).entries # <<>>
  <2>1. PICK item : Faithful(item, row) /\ PassItem(row).entries = <<item>>
    BY <1>4, PassItemIs
  <2>2. PassItem(row).skipped = {}
    BY <1>4, PassItemIs
  <2>3. listed = Visible(item)
    BY <1>1, <2>1, <2>2, EntriesOf
  <2>4. Visible(item) \subseteq Trimmed(PlainCells(row)) \cup {NoText}
    BY <2>1 DEF Faithful
  <2>5. Words(Visible(item)) \subseteq Words(Trimmed(PlainCells(row))) \cup Words({NoText})
    BY <2>4 DEF Words
  <2>6. Words(Visible(item)) \subseteq Words(PlainCells(row) \cup {NoText, Unnamed})
    <3>1. Words(Visible(item)) \subseteq Words(PlainCells(row)) \cup Words({NoText})
      BY <2>5, TrimmedWords
    <3>2. Words(PlainCells(row)) \cup Words({NoText}) \subseteq Words(PlainCells(row) \cup {NoText, Unnamed})
      BY DEF Words
    <3>. QED
      BY <3>1, <3>2
  <2>. QED
    BY <1>1, <2>3, <2>6
<1>. QED
  BY <1>3, <1>4

LEMMA ByName ==
  ASSUME FromAnExport
  PROVE  AskedForByName
<1>1. LabelsDistinct
  <2>. SUFFICES ASSUME Became("pass"), NEW item \in Entries
                PROVE  Labelled(item.fields)
    BY DEF LabelsDistinct, Labelled
  <2>1. PICK row \in PassRow : reading.row = row /\ reading.import = PassItem(row)
    BY PassReading
  <2>2. PassItem(row).entries # <<>>
    BY <2>1, NoEntries
  <2>3. PICK made : Faithful(made, row) /\ PassItem(row).entries = <<made>>
    BY <2>2, PassItemIs
  <2>4. item = made
    BY <2>1, <2>3, EntriesOf
  <2>. QED
    BY <2>3, <2>4 DEF Faithful
<1>2. NamedAsExported
  <2>. DEFINE named == reading.import.skipped \cup {item.name : item \in Entries}
  <2>. SUFFICES ASSUME reading # NoReading, NEW name \in named
                PROVE  /\ ~Blank(name)
                       /\ Became("authenticator") /\ ~Blank(reading.row.name)
                            => name = Plain(reading.row.name)
    BY DEF NamedAsExported
  <2>1. CASE Became("pass")
    <3>1. PICK row \in PassRow : reading.row = row /\ reading.import = PassItem(row)
      BY <2>1, PassReading
    <3>2. ~Blank(Unnamed)
      BY WordAssumption DEF Blank, Unnamed, Text
    <3>3. ~Blank(row.name) => ~Blank(Plain(row.name))
      BY DEF Blank, Plain, Text
    <3>4. CASE PassItem(row).entries = <<>>
      <4>1. named = PassItem(row).skipped
        BY <3>1, <3>4, NoEntries
      <4>. HIDE DEF named
      <4>2. \/ PassItem(row).skipped = {Unnamed}
            \/ PassItem(row).skipped = {Plain(row.name)} /\ ~Blank(row.name)
        BY <3>4, PassItemIs
      <4>3. ~Blank(name)
        BY <3>2, <3>3, <4>1, <4>2
      <4>. QED
        BY <2>1, <4>3 DEF Became
    <3>5. CASE PassItem(row).entries # <<>>
      <4>1. PICK item : Faithful(item, row) /\ PassItem(row).entries = <<item>>
        BY <3>5, PassItemIs
      <4>2. ~Blank(row.name) /\ PassItem(row).skipped = {}
        BY <3>5, PassItemIs
      <4>3. named = {item.name}
        BY <3>1, <4>1, <4>2, EntriesOf
      <4>4. item.name = Plain(row.name)
        BY <4>1 DEF Faithful, Basic
      <4>. HIDE DEF named
      <4>5. ~Blank(name)
        BY <3>3, <4>2, <4>3, <4>4
      <4>. QED
        BY <2>1, <4>5 DEF Became
    <3>. QED
      BY <3>4, <3>5
  <2>2. CASE reading = [source |-> "torn", row |-> NoReading, import |-> Skipped(Text("CSV row 2"))]
    <3>. DEFINE line == Text("CSV row 2")
    <3>1. ~Blank(line)
      BY WordAssumption DEF Blank, Text
    <3>. HIDE DEF line
    <3>2. reading.source = "torn" /\ reading.import = Skipped(line)
      BY <2>2 DEF line
    <3>3. reading.import.skipped = {line} /\ Entries = {}
      BY <3>2 DEF Skipped, Entries, ToSet
    <3>. QED
      BY <3>1, <3>2, <3>3 DEF Became
  <2>3. ASSUME NEW entry \in JsonEntry,
               reading = [source |-> "authenticator", row |-> entry, import |-> Authenticated(entry)]
        PROVE  /\ ~Blank(name)
               /\ ~Blank(reading.row.name) => name = Plain(reading.row.name)
    <3>. DEFINE import == Authenticated(entry)
    <3>. HIDE DEF import
    <3>1. reading.row = entry /\ reading.import = import
      BY <2>3 DEF import
    <3>2. name \in {RawName(entry), PickName(entry)}
      <4>1. CASE ~entry.readable
        <5>1. import = Skipped(RawName(entry))
          BY <4>1 DEF Authenticated, import
        <5>2. import.skipped = {RawName(entry)} /\ import.entries = <<>>
          BY <5>1 DEF Skipped
        <5>3. Entries = {}
          BY <3>1, <5>2 DEF Entries, ToSet
        <5>. QED
          BY <3>1, <5>2, <5>3
      <4>2. CASE entry.readable /\ (entry.type # "totp" \/ entry.uri.word \notin DOMAIN Codes)
        <5>1. import = Skipped(PickName(entry))
          BY <4>2 DEF Authenticated, import
        <5>2. import.skipped = {PickName(entry)} /\ import.entries = <<>>
          BY <5>1 DEF Skipped
        <5>3. Entries = {}
          BY <3>1, <5>2 DEF Entries, ToSet
        <5>. QED
          BY <3>1, <5>2, <5>3
      <4>3. CASE entry.readable /\ ~(entry.type # "totp" \/ entry.uri.word \notin DOMAIN Codes)
        <5>. DEFINE item == [name |-> PickName(entry), totp |-> Plain(entry.uri),
                             notes |-> IF Blank(entry.note) THEN NoText ELSE entry.note]
        <5>1. import = Entry(item, {})
          BY <4>3 DEF Authenticated, import
        <5>2. item.name = PickName(entry)
          OBVIOUS
        <5>. HIDE DEF item
        <5>3. import.skipped = {} /\ import.entries = <<item>>
          BY <5>1 DEF Entry
        <5>4. Entries = {item}
          BY <3>1, <5>3 DEF Entries, ToSet
        <5>. QED
          BY <3>1, <5>2, <5>3, <5>4
      <4>. QED
        BY <4>1, <4>2, <4>3
    <3>3. ~Blank(RawName(entry)) /\ (~Blank(entry.name) => RawName(entry) = Plain(entry.name))
      BY WordAssumption DEF RawName, Blank, Plain, Text
    <3>. QED
      BY <3>1, <3>2, <3>3, PickNameIs
  <2>4. CASE \E row \in CsvRow :
               reading = [source |-> "pass", row |-> row, import |-> PassItem(row)]
    <3>1. Became("pass")
      BY <2>4 DEF Became
    <3>. QED
      BY <2>1, <3>1
  <2>. QED
    BY <2>2, <2>3, <2>4 DEF FromAnExport
<1>. QED
  BY <1>1, <1>2 DEF AskedForByName

(* Whatever an export holds, no cell of a row that is imported is dropped   *)
(* without a warning (import.rs, proton_pass_item and what it applies).     *)
THEOREM NothingIsLost == SpecImporter => []NothingLostSilently
BY ReadingInvariant, LostNothing, PTL

(* Whatever an export holds, nothing that is only in its secret cells is    *)
(* listed without asking (import.rs, push_secret_field and Skipped).        *)
THEOREM SecretsMasked == SpecImporter => []SecretsStayMasked
BY ReadingInvariant, Masked, PTL

(* Whatever an export holds, an agent can tell the fields of an item apart, *)
(* and every entry has a name (import.rs, apply_common_fields, pick_name).  *)
THEOREM ImportedByName == SpecImporter => []AskedForByName
BY ReadingInvariant, ByName, PTL

-----------------------------------------------------------------------------
(* Generating passwords.                                                    *)

(* Division *)

LEMMA Grows ==
  ASSUME NEW len \in Nat, NEW a \in Nat, NEW b \in Nat, a < b
  PROVE  len * a + len <= len * b
<1>1. b - a - 1 \in Nat
  OBVIOUS
<1>2. len * (b - a - 1) >= 0
  BY <1>1
<1>3. len * (b - a - 1) = len * b - len * a - len
  BY <1>1
<1>. QED
  BY <1>2, <1>3

LEMMA Division ==
  ASSUME NEW len \in Nat \ {0}, NEW b \in Nat
  PROVE  /\ b \div len \in Nat /\ b % len \in 0..len - 1
         /\ b = len * (b \div len) + (b % len)
<1>1. b % len \in 0..len - 1
  OBVIOUS
<1>2. b = len * (b \div len) + (b % len)
  OBVIOUS
<1>3. b \div len \in Nat
  OBVIOUS
<1>. QED
  BY <1>1, <1>2, <1>3

LEMMA Unique ==
  ASSUME NEW len \in Nat \ {0}, NEW q \in Nat, NEW r \in 0..len - 1
  PROVE  (len * q + r) % len = r /\ (len * q + r) \div len = q
<1>. DEFINE b == len * q + r
            q2 == b \div len
            r2 == b % len
<1>1. b \in Nat
  OBVIOUS
<1>2. q2 \in Nat /\ r2 \in 0..len - 1 /\ b = len * q2 + r2
  BY <1>1, Division
<1>3. len * q \in Nat /\ len * q2 \in Nat
  BY <1>2
<1>. HIDE DEF q2, r2
<1>4. ~ (q < q2)
  <2>. SUFFICES ASSUME q < q2 PROVE FALSE
    OBVIOUS
  <2>1. len * q + len <= len * q2
    BY <1>2, Grows
  <2>. QED
    BY <1>2, <1>3, <2>1
<1>5. ~ (q2 < q)
  <2>. SUFFICES ASSUME q2 < q PROVE FALSE
    OBVIOUS
  <2>1. len * q2 + len <= len * q
    BY <1>2, Grows
  <2>. QED
    BY <1>2, <1>3, <2>1
<1>6. q2 = q
  BY <1>2, <1>4, <1>5
<1>7. r2 = r
  BY <1>2, <1>3, <1>6
<1>. QED
  BY <1>6, <1>7 DEF q2, r2

-----------------------------------------------------------------------------
(* Indexes *)

(* The bytes that select a value: the value itself, and every len from there. *)
LEMMA Selecting ==
  ASSUME NEW len \in 1..256, NEW value \in 0..len - 1
  PROVE  Cardinality({b \in Byte : value \in Selects(len, b)}) = 256 \div len
<1>. DEFINE n == 256 \div len
            S == {b \in Byte : value \in Selects(len, b)}
            f == [q \in 1..n |-> len * (q - 1) + value]
<1>1. /\ n \in Nat /\ 256 % len \in 0..len - 1 /\ 256 = len * n + (256 % len)
  BY Division
<1>2. len * n \in Nat /\ Accepted(len) = len * n
  BY <1>1 DEF Accepted
<1>. HIDE DEF n
<1>3. ASSUME NEW q \in 1..n
      PROVE  /\ len * (q - 1) + value \in 0..255 /\ len * (q - 1) + value < len * n
             /\ (len * (q - 1) + value) % len = value
  <2>1. q - 1 \in Nat /\ q - 1 < n /\ value \in Nat
    BY <1>1
  <2>2. len * (q - 1) + len <= len * n
    BY <1>1, <2>1, Grows
  <2>3. len * (q - 1) \in Nat
    BY <2>1
  <2>. DEFINE before == q - 1
  <2>4. (len * before + value) % len = value
    <3>1. before \in Nat
      BY <2>1
    <3>. HIDE DEF before
    <3>2. len \in Nat \ {0} /\ value \in 0..len - 1
      OBVIOUS
    <3>3. (len * before + value) % len = value /\ (len * before + value) \div len = before
      BY <3>1, <3>2, Unique
    <3>. QED
      BY <3>3
  <2>. QED
    BY <1>1, <1>2, <2>1, <2>2, <2>3, <2>4
<1>4. ASSUME NEW q \in 1..n PROVE f[q] \in S
  <2>1. f[q] = len * (q - 1) + value
    OBVIOUS
  <2>. HIDE DEF f
  <2>2. f[q] \in 0..255 /\ f[q] < Accepted(len) /\ f[q] % len = value
    BY <1>2, <1>3, <2>1
  <2>. QED
    BY <2>2 DEF Byte, Selects
<1>5. f \in [1..n -> S]
  BY <1>4
<1>6. ASSUME NEW q \in 1..n, NEW r \in 1..n, f[q] = f[r] PROVE q = r
  <2>1. q - 1 \in Nat /\ r - 1 \in Nat /\ value \in Nat
    BY <1>1
  <2>2. len * (q - 1) + value = len * (r - 1) + value
    BY <1>6
  <2>3. (len * (q - 1) + value) \div len = q - 1 /\ (len * (r - 1) + value) \div len = r - 1
    BY <2>1, Unique
  <2>. QED
    BY <2>2, <2>3
<1>7. ASSUME NEW b \in S PROVE \E q \in 1..n : f[q] = b
  <2>1. b \in Nat /\ b < len * n /\ b % len = value
    BY <1>2 DEF Selects, Byte
  <2>2. b \div len \in Nat /\ b = len * (b \div len) + (b % len)
    BY <2>1, Division
  <2>. DEFINE q == b \div len
  <2>. HIDE DEF q
  <2>3. q \in Nat /\ b = len * q + value
    BY <2>1, <2>2 DEF q
  <2>4. q < n
    <3>. SUFFICES ASSUME n <= q PROVE FALSE
      BY <1>1, <2>3
    <3>1. len * n <= len * q
      <4>1. CASE n = q
        BY <1>2, <4>1
      <4>2. CASE n < q
        <5>1. len * n + len <= len * q
          BY <1>1, <2>3, <4>2, Grows
        <5>2. len * q \in Nat
          BY <2>3
        <5>. QED
          BY <1>2, <5>1, <5>2
      <4>. QED
        BY <1>1, <2>3, <4>1, <4>2
    <3>2. len * q \in Nat
      BY <2>3
    <3>. QED
      BY <1>2, <2>1, <2>3, <3>1, <3>2
  <2>5. q + 1 \in 1..n /\ (q + 1) - 1 = q
    BY <1>1, <2>3, <2>4
  <2>6. f[q + 1] = b
    BY <2>3, <2>5
  <2>. QED
    BY <2>5, <2>6
<1>. HIDE DEF f, S
<1>8. f \in Injection(1..n, S)
  BY <1>5, <1>6, Fun_IsInj
<1>9. f \in Surjection(1..n, S)
  BY <1>5, <1>7, Fun_IsSurj
<1>10. ExistsBijection(1..n, S)
  BY <1>8, <1>9 DEF ExistsBijection, Bijection
<1>. QED
  BY <1>1, <1>10, FS_CountingElements DEF n, S
-----------------------------------------------------------------------------
(* Shuffling *)

Strings(n, X) == [1..n -> X]

Swap(s, i, j, n, X) == n \in Nat /\ s \in Strings(n, X) /\ i \in 1..n /\ j \in 1..n

(* x is in one of the slots; no two slots have the same.                    *)
Appears(p, n, x) == \E k \in 1..n : p[k] = x
Apart(p, n) == \A j, k \in 1..n : p[j] = p[k] => j = k

LEMMA SwappedIs ==
  ASSUME NEW X, NEW n, NEW s, NEW i, NEW j, Swap(s, i, j, n, X)
  PROVE  /\ Swapped(s, i, j) \in Strings(n, X)
         /\ Swapped(s, i, j)[i] = s[j] /\ Swapped(s, i, j)[j] = s[i]
         /\ \A k \in 1..n : k # i /\ k # j => Swapped(s, i, j)[k] = s[k]
BY DEF Swap, Swapped, Strings

(* after: the sequence s after each swap of the last slots with their draws. *)
Shuffles(after, s, draws, n, X) ==
  /\ after \in [0..n - 1 -> Strings(n, X)] /\ after[0] = s
  /\ \A k \in 1..n - 1 :
       after[k] = Swapped(after[k - 1], n + 1 - k, draws[n + 1 - k])

LEMMA Slots ==
  ASSUME NEW n \in Nat \ {0}, NEW k \in 1..n - 1
  PROVE  n + 1 - k \in 2..n /\ n + 1 - k \in 1..n /\ k - 1 \in 0..n - 1 /\ k \in 0..n - 1
OBVIOUS

LEMMA DrawIs ==
  ASSUME NEW n \in Nat \ {0}, NEW draws \in Draws(n), NEW slot \in 2..n
  PROVE  draws[slot] \in 1..n /\ draws[slot] <= slot /\ slot \in 1..n
BY DEF Draws

LEMMA ShuffleRuns ==
  ASSUME NEW X, NEW n \in Nat \ {0}, NEW s \in Strings(n, X), NEW draws \in Draws(n)
  PROVE  \E after : Shuffles(after, s, draws, n, X) /\ Shuffled(s, draws) = after[n - 1]
<1>. DEFINE Seqs == Strings(n, X)
            Going(f) == [k \in 0..n - 1 |->
              IF k = 0 THEN s ELSE Swapped(f[k - 1], n + 1 - k, draws[n + 1 - k])]
            G == [z \in Seqs \X (1..n - 1) |-> Swapped(z[1], n + 1 - z[2], draws[n + 1 - z[2]])]
<1>1. n - 1 \in Nat /\ Len(s) = n
  BY DEF Strings
<1>2. G \in [Seqs \X (1..n - 1) -> Seqs]
  <2>1. ASSUME NEW t \in Seqs, NEW k \in 1..n - 1
        PROVE  Swapped(t, n + 1 - k, draws[n + 1 - k]) \in Seqs
    <3>1. n + 1 - k \in 2..n /\ n + 1 - k \in 1..n
      BY Slots
    <3>2. draws[n + 1 - k] \in 1..n
      BY <3>1, DrawIs
    <3>. DEFINE slot == n + 1 - k
                draw == draws[slot]
    <3>3. slot \in 1..n /\ draw \in 1..n /\ n \in Nat /\ t \in Strings(n, X)
      BY <3>1, <3>2
    <3>. HIDE DEF slot, draw
    <3>4. Swap(t, slot, draw, n, X)
      BY <3>3 DEF Swap
    <3>5. Swapped(t, slot, draw) \in Strings(n, X)
      BY <3>4, SwappedIs
    <3>. QED
      BY <3>5 DEF slot, draw
  <2>. HIDE DEF Seqs
  <2>. QED
    BY <2>1
<1>3. s \in Seqs
  OBVIOUS
<1>. HIDE DEF Seqs
<1>4. PICK f \in [0..n - 1 -> Seqs] : Runs(f, n - 1, s, G)
  <2>. HIDE DEF G
  <2>. QED
    BY <1>1, <1>2, <1>3, Recursion
<1>5. ASSUME NEW k \in 1..n - 1
      PROVE  f[k] = Swapped(f[k - 1], n + 1 - k, draws[n + 1 - k])
  <2>1. k - 1 \in 0..n - 1
    BY Slots
  <2>2. f[k - 1] \in Seqs
    <3>. HIDE DEF G
    <3>. QED
      BY <2>1
  <2>3. G[<<f[k - 1], k>>] = Swapped(f[k - 1], n + 1 - k, draws[n + 1 - k])
    BY <2>2
  <2>4. f[k] = G[<<f[k - 1], k>>]
    BY <1>4 DEF Runs
  <2>. QED
    BY <2>3, <2>4
<1>6. f[0] = s
  BY <1>4 DEF Runs
<1>7. f = Going(f)
  <2>1. ASSUME NEW k \in 0..n - 1 PROVE f[k] = Going(f)[k]
    <3>1. CASE k = 0
      BY <1>6, <3>1
    <3>2. CASE k # 0
      <4>1. k \in 1..n - 1
        BY <3>2
      <4>2. Going(f)[k] = Swapped(f[k - 1], n + 1 - k, draws[n + 1 - k])
        BY <3>2
      <4>. QED
        BY <1>5, <4>1, <4>2
    <3>. QED
      BY <3>1, <3>2
  <2>2. DOMAIN f = 0..n - 1 /\ Going(f) = [k \in 0..n - 1 |-> Going(f)[k]]
    OBVIOUS
  <2>. HIDE DEF Going, G
  <2>. QED
    BY <2>1, <2>2
<1>. HIDE DEF G
<1>8. (CHOOSE g : g = Going(g)) = Going(CHOOSE g : g = Going(g))
  BY <1>7
<1>. DEFINE after == CHOOSE g : g = Going(g)
<1>9. Shuffled(s, draws) = after[n - 1]
  BY <1>1 DEF Shuffled
<1>10. after = Going(after)
  BY <1>8
<1>. HIDE DEF after
<1>11. after[0] = s
  <2>1. 0 \in 0..n - 1
    OBVIOUS
  <2>. QED
    BY <1>10, <2>1
<1>12. ASSUME NEW k \in 1..n - 1
       PROVE  after[k] = Swapped(after[k - 1], n + 1 - k, draws[n + 1 - k])
  <2>1. k \in 0..n - 1 /\ k # 0
    OBVIOUS
  <2>. QED
    BY <1>10, <2>1
<1>. DEFINE U == {k \in 0..n - 1 : after[k] = f[k]}
<1>13. 0 \in U
  BY <1>1, <1>6, <1>11
<1>14. ASSUME NEW k \in 1..n - 1, k - 1 \in U PROVE k \in U
  BY <1>5, <1>12, <1>14
<1>. HIDE DEF U
<1>15. \A k \in 0..n - 1 : k \in U
  BY <1>1, <1>13, <1>14, Upwards
<1>16. after[n - 1] = f[n - 1]
  BY <1>1, <1>15 DEF U
<1>17. Shuffles(f, s, draws, n, X)
  BY <1>4, <1>5, <1>6 DEF Shuffles, Seqs
<1>. QED
  BY <1>9, <1>16, <1>17

(* Two runs on the same draws are the same run.                             *)
LEMMA ShufflesOnce ==
  ASSUME NEW X, NEW n \in Nat \ {0}, NEW s, NEW draws, NEW f, NEW g,
         Shuffles(f, s, draws, n, X), Shuffles(g, s, draws, n, X)
  PROVE  f[n - 1] = g[n - 1]
<1>. DEFINE U == {k \in 0..n - 1 : f[k] = g[k]}
<1>1. n - 1 \in Nat /\ n - 1 \in 0..n - 1
  OBVIOUS
<1>2. 0 \in U
  BY <1>1 DEF Shuffles
<1>3. ASSUME NEW k \in 1..n - 1, k - 1 \in U PROVE k \in U
  BY <1>3 DEF Shuffles
<1>. HIDE DEF U
<1>4. n - 1 \in U
  BY <1>1, <1>2, <1>3, Upwards
<1>. QED
  BY <1>4 DEF U

(* No character is lost in a shuffle.                                       *)
LEMMA SwappedRange ==
  ASSUME NEW X, NEW n, NEW s, NEW i, NEW j, Swap(s, i, j, n, X),
         NEW x, Appears(s, n, x)
  PROVE  Appears(Swapped(s, i, j), n, x)
<1>1. PICK k \in 1..n : s[k] = x
  BY DEF Appears
<1>. DEFINE t == Swapped(s, i, j)
<1>2. i \in 1..n /\ j \in 1..n
      /\ t[i] = s[j] /\ t[j] = s[i] /\ \A m \in 1..n : m # i /\ m # j => t[m] = s[m]
  BY SwappedIs DEF Swap
<1>. HIDE DEF t
<1>3. \E m \in 1..n : t[m] = x
  <2>1. CASE k = i
    BY <1>1, <1>2, <2>1
  <2>2. CASE k = j
    BY <1>1, <1>2, <2>2
  <2>3. CASE k # i /\ k # j
    BY <1>1, <1>2, <2>3
  <2>. QED
    BY <2>1, <2>2, <2>3
<1>. QED
  BY <1>3 DEF t, Appears

LEMMA SwappedApart ==
  ASSUME NEW X, NEW n, NEW s, NEW i, NEW j, Swap(s, i, j, n, X), Apart(s, n)
  PROVE  Apart(Swapped(s, i, j), n)
<1>. DEFINE t == Swapped(s, i, j)
            from == [k \in 1..n |-> IF k = i THEN j ELSE IF k = j THEN i ELSE k]
<1>1. \A k \in 1..n : t[k] = s[from[k]] /\ from[k] \in 1..n
  <2>1. i \in 1..n /\ j \in 1..n
        /\ t[i] = s[j] /\ t[j] = s[i] /\ \A m \in 1..n : m # i /\ m # j => t[m] = s[m]
    BY SwappedIs DEF Swap
  <2>. HIDE DEF t
  <2>. QED
    BY <2>1
<1>2. \A k, l \in 1..n : from[k] = from[l] => k = l
  OBVIOUS
<1>. HIDE DEF t, from
<1>3. Apart(t, n)
  BY <1>1, <1>2 DEF Apart
<1>. QED
  BY <1>3 DEF t

LEMMA ShuffledIs ==
  ASSUME NEW X, NEW n \in Nat \ {0}, NEW s \in Strings(n, X), NEW draws \in Draws(n)
  PROVE  /\ Shuffled(s, draws) \in Strings(n, X)
         /\ \A x : Appears(s, n, x) => Appears(Shuffled(s, draws), n, x)
<1>1. PICK after : Shuffles(after, s, draws, n, X) /\ Shuffled(s, draws) = after[n - 1]
  BY ShuffleRuns
<1>2. n - 1 \in Nat /\ n - 1 \in 0..n - 1
  OBVIOUS
<1>3. ASSUME NEW x, Appears(s, n, x)
      PROVE  Appears(after[n - 1], n, x)
  <2>. DEFINE U == {k \in 0..n - 1 : Appears(after[k], n, x)}
  <2>1. 0 \in U
    BY <1>1, <1>2, <1>3 DEF Shuffles
  <2>2. ASSUME NEW k \in 1..n - 1, k - 1 \in U PROVE k \in U
    <3>1. n + 1 - k \in 2..n /\ n + 1 - k \in 1..n /\ k - 1 \in 0..n - 1 /\ k \in 0..n - 1
      BY Slots
    <3>2. draws[n + 1 - k] \in 1..n
      BY <3>1, DrawIs
    <3>3. after[k - 1] \in Strings(n, X) /\ Appears(after[k - 1], n, x)
      BY <1>1, <2>2, <3>1 DEF Shuffles
    <3>. DEFINE slot == n + 1 - k
                draw == draws[slot]
                before == after[k - 1]
    <3>4. Appears(Swapped(before, slot, draw), n, x)
      <4>1. Swap(before, slot, draw, n, X) /\ Appears(before, n, x)
        BY <3>1, <3>2, <3>3 DEF Swap
      <4>. HIDE DEF slot, draw, before
      <4>. QED
        BY <4>1, SwappedRange
    <3>5. after[k] = Swapped(after[k - 1], n + 1 - k, draws[n + 1 - k])
      BY <1>1 DEF Shuffles
    <3>. QED
      BY <3>1, <3>4, <3>5
  <2>. HIDE DEF U
  <2>3. n - 1 \in U
    BY <1>2, <2>1, <2>2, Upwards
  <2>. QED
    BY <2>3 DEF U
<1>. QED
  BY <1>1, <1>2, <1>3 DEF Shuffles
-----------------------------------------------------------------------------
(* Orders *)

Onto(p, n) == \A x \in 1..n : Appears(p, n, x)

LEMMA SwapIs ==
  ASSUME NEW X, NEW n \in Nat \ {0}, NEW s, NEW draws \in Draws(n),
         NEW after, Shuffles(after, s, draws, n, X),
         NEW slot \in 2..n
  PROVE  /\ n - slot \in 0..n - 1 /\ n + 1 - slot \in 0..n - 1
         /\ after[n - slot] \in Strings(n, X) /\ after[n + 1 - slot] \in Strings(n, X)
         /\ after[n + 1 - slot] = Swapped(after[n - slot], slot, draws[slot])
<1>1. /\ n - slot \in 0..n - 1 /\ n + 1 - slot \in 0..n - 1 /\ n + 1 - slot \in 1..n - 1
      /\ (n + 1 - slot) - 1 = n - slot /\ n + 1 - (n + 1 - slot) = slot
  OBVIOUS
<1>2. /\ after \in [0..n - 1 -> Strings(n, X)]
      /\ after[n + 1 - slot] =
           Swapped(after[(n + 1 - slot) - 1], n + 1 - (n + 1 - slot), draws[n + 1 - (n + 1 - slot)])
  BY <1>1 DEF Shuffles
<1>. QED
  BY <1>1, <1>2

LEMMA StaysApart ==
  ASSUME NEW X, NEW n \in Nat \ {0}, NEW s, NEW draws \in Draws(n), Apart(s, n),
         NEW after, Shuffles(after, s, draws, n, X)
  PROVE  \A k \in 0..n - 1 : Apart(after[k], n)
<1>. DEFINE U == {k \in 0..n - 1 : Apart(after[k], n)}
<1>1. 0 \in U /\ n - 1 \in Nat
  BY DEF Shuffles
<1>2. ASSUME NEW k \in 1..n - 1, k - 1 \in U PROVE k \in U
  <2>. DEFINE slot == n + 1 - k
              draw == draws[slot]
              before == after[k - 1]
  <2>1. slot \in 2..n /\ slot \in 1..n /\ k - 1 \in 0..n - 1 /\ k \in 0..n - 1
    BY Slots
  <2>2. draw \in 1..n
    <3>. HIDE DEF slot
    <3>. QED
      BY <2>1, DrawIs
  <2>3. before \in Strings(n, X) /\ Apart(before, n) /\ after[k] = Swapped(before, slot, draw)
    BY <1>2, <2>1 DEF Shuffles
  <2>. HIDE DEF slot, draw, before
  <2>4. Apart(Swapped(before, slot, draw), n)
    <3>1. Swap(before, slot, draw, n, X)
      BY <2>1, <2>2, <2>3 DEF Swap
    <3>. QED
      BY <2>3, <3>1, SwappedApart
  <2>. QED
    BY <2>1, <2>3, <2>4
<1>. HIDE DEF U
<1>3. \A k \in 0..n - 1 : k \in U
  BY <1>1, <1>2, Upwards
<1>. QED
  BY <1>3 DEF U

(* What a slot has been given stays there: later swaps are of earlier slots. *)
LEMMA SlotSettled ==
  ASSUME NEW X, NEW n \in Nat \ {0}, NEW s, NEW draws \in Draws(n),
         NEW after, Shuffles(after, s, draws, n, X),
         NEW slot \in 2..n
  PROVE  after[n - 1][slot] = after[n - slot][draws[slot]]
<1>. DEFINE k0 == n + 1 - slot
            U == {k \in 0..n - 1 : k0 <= k => after[k][slot] = after[k0][slot]}
<1>1. k0 \in 1..n - 1 /\ k0 \in Nat /\ n - 1 \in Nat /\ 0 \in 0..n - 1 /\ n - 1 \in 0..n - 1
  OBVIOUS
<1>2. 0 \in U
  BY <1>1
<1>3. ASSUME NEW k \in 1..n - 1, k - 1 \in U PROVE k \in U
  <2>. DEFINE other == n + 1 - k
              draw == draws[other]
              before == after[k - 1]
  <2>1. other \in 2..n /\ other \in 1..n /\ k - 1 \in 0..n - 1 /\ k \in 0..n - 1
    BY Slots
  <2>2. draw \in 1..n /\ draw <= other
    <3>. HIDE DEF other
    <3>. QED
      BY <2>1, DrawIs
  <2>3. before \in Strings(n, X) /\ after[k] = Swapped(before, other, draw)
    BY <2>1 DEF Shuffles
  <2>4. CASE k0 = k
    BY <2>1, <2>4
  <2>5. CASE ~(k0 <= k)
    BY <2>1, <2>5
  <2>6. CASE k0 <= k /\ k0 # k
    <3>1. k0 <= k - 1 /\ other < slot /\ slot \in 1..n
      BY <1>1, <2>6
    <3>2. before[slot] = after[k0][slot]
      BY <1>3, <3>1
    <3>3. slot # other /\ slot # draw
      BY <2>1, <2>2, <3>1
    <3>. HIDE DEF other, draw, before, k0, U
    <3>4. \A m \in 1..n : m # other /\ m # draw => Swapped(before, other, draw)[m] = before[m]
      <4>1. Swap(before, other, draw, n, X)
        BY <2>1, <2>2, <2>3 DEF Swap
      <4>. QED
        BY <4>1, SwappedIs
    <3>5. Swapped(before, other, draw)[slot] = before[slot]
      BY <3>1, <3>3, <3>4
    <3>. QED
      BY <2>1, <2>3, <3>2, <3>5 DEF U
  <2>. QED
    BY <2>4, <2>5, <2>6
<1>4. n - 1 \in U
  <2>. HIDE DEF U
  <2>. QED
    BY <1>1, <1>2, <1>3, Upwards
<1>5. after[n - 1][slot] = after[k0][slot]
  BY <1>1, <1>4
<1>. DEFINE before == after[n - slot]
            draw == draws[slot]
<1>6. before \in Strings(n, X) /\ after[k0] = Swapped(before, slot, draw)
  BY SwapIs
<1>7. draw \in 1..n /\ slot \in 1..n
  BY DrawIs
<1>. HIDE DEF k0, U, before, draw
<1>8. Swapped(before, slot, draw)[slot] = before[draw]
  <2>1. Swap(before, slot, draw, n, X)
    BY <1>6, <1>7 DEF Swap
  <2>. QED
    BY <2>1, SwappedIs
<1>. QED
  BY <1>5, <1>6, <1>8 DEF before, draw

(* Draws that lead to one order are the same draws.                         *)
LEMMA DrawsTold ==
  ASSUME NEW X, NEW n \in Nat \ {0}, NEW s \in Strings(n, X), Apart(s, n),
         NEW d \in Draws(n), NEW e \in Draws(n), Shuffled(s, d) = Shuffled(s, e)
  PROVE  d = e
<1>1. PICK f : Shuffles(f, s, d, n, X) /\ Shuffled(s, d) = f[n - 1]
  BY ShuffleRuns
<1>2. PICK g : Shuffles(g, s, e, n, X) /\ Shuffled(s, e) = g[n - 1]
  BY ShuffleRuns
<1>3. \A slot \in 2..n : f[n - 1][slot] = f[n - slot][d[slot]]
  <2>1. Shuffles(f, s, d, n, X)
    BY <1>1
  <2>. TAKE slot \in 2..n
  <2>. QED
    BY <2>1, SlotSettled
<1>4. \A slot \in 2..n : g[n - 1][slot] = g[n - slot][e[slot]]
  <2>1. Shuffles(g, s, e, n, X)
    BY <1>2
  <2>. TAKE slot \in 2..n
  <2>. QED
    BY <2>1, SlotSettled
<1>. DEFINE U == {k \in 0..n - 1 :
              f[k] = g[k] /\ \A slot \in 2..n : n - k < slot => d[slot] = e[slot]}
<1>5. 0 \in U /\ n - 1 \in Nat
  BY <1>1, <1>2 DEF Shuffles
<1>6. ASSUME NEW k \in 1..n - 1, k - 1 \in U PROVE k \in U
  <2>. DEFINE slot == n + 1 - k
  <2>1. slot \in 2..n /\ slot \in 1..n /\ k - 1 \in 0..n - 1 /\ k \in 0..n - 1
        /\ n - slot = k - 1
    BY Slots
  <2>2. /\ f[k] = Swapped(f[k - 1], slot, d[slot]) /\ g[k] = Swapped(g[k - 1], slot, e[slot])
    BY <1>1, <1>2 DEF Shuffles
  <2>3. f[k - 1] = g[k - 1]
        /\ \A other \in 2..n : n - (k - 1) < other => d[other] = e[other]
    BY <1>6
  <2>4. f[n - 1][slot] = f[k - 1][d[slot]] /\ g[n - 1][slot] = g[k - 1][e[slot]]
    <3>. HIDE DEF slot, U
    <3>1. f[n - 1][slot] = f[n - slot][d[slot]]
      BY <1>3, <2>1
    <3>2. g[n - 1][slot] = g[n - slot][e[slot]]
      BY <1>4, <2>1
    <3>. QED
      BY <2>1, <3>1, <3>2
  <2>5. Apart(f[k - 1], n)
    BY <1>1, <2>1, StaysApart
  <2>6. d[slot] \in 1..n /\ e[slot] \in 1..n
    <3>. HIDE DEF slot
    <3>. QED
      BY <2>1, DrawIs
  <2>7. d[slot] = e[slot]
    <3>. DEFINE before == f[k - 1]
    <3>1. f[n - 1] = g[n - 1]
      BY <1>1, <1>2
    <3>. HIDE DEF slot
    <3>2. before[d[slot]] = before[e[slot]]
      BY <2>3, <2>4, <3>1
    <3>. HIDE DEF before
    <3>3. Apart(before, n)
      BY <2>5 DEF before
    <3>. QED
      BY <2>6, <3>2, <3>3 DEF Apart
  <2>8. \A other \in 2..n : n - k < other => other = slot \/ n - (k - 1) < other
    OBVIOUS
  <2>9. f[k] = g[k]
    <3>. HIDE DEF slot
    <3>. QED
      BY <2>2, <2>3, <2>7
  <2>. HIDE DEF slot
  <2>. QED
    BY <2>1, <2>3, <2>7, <2>8, <2>9
<1>7. n - 1 \in U
  <2>1. n - 1 \in 0..n - 1
    BY <1>5
  <2>. HIDE DEF U
  <2>. QED
    BY <1>5, <1>6, <2>1, Upwards
<1>8. \A slot \in 2..n : d[slot] = e[slot]
  <2>1. \A slot \in 2..n : n - (n - 1) < slot
    OBVIOUS
  <2>. QED
    BY <1>7, <2>1
<1>9. d \in [2..n -> 1..n] /\ e \in [2..n -> 1..n]
  BY DEF Draws
<1>. QED
  BY <1>8, <1>9
(* Every order is led to: by giving each slot, from the last, what it has.  *)
LEMMA Reached ==
  ASSUME NEW n \in Nat \ {0}, NEW p \in Strings(n, 1..n), Apart(p, n)
  PROVE  \E d \in Draws(n) : Shuffled([k \in 1..n |-> k], d) = p
<1>. DEFINE inOrder == [k \in 1..n |-> k]
            C == {a \in Strings(n, 1..n) : Onto(a, n)}
            Where(a, slot) == CHOOSE j \in 1..n : a[j] = p[slot]
            G == [z \in C \X (1..n - 1) |->
                    Swapped(z[1], n + 1 - z[2], Where(z[1], n + 1 - z[2]))]
<1>1. ASSUME NEW a \in C, NEW slot \in 1..n
      PROVE  /\ Where(a, slot) \in 1..n /\ a[Where(a, slot)] = p[slot]
             /\ Swapped(a, slot, Where(a, slot)) \in C
  <2>1. p[slot] \in 1..n
    BY DEF Strings
  <2>2. \E j \in 1..n : a[j] = p[slot]
    BY <2>1 DEF Onto, Appears
  <2>3. Where(a, slot) \in 1..n /\ a[Where(a, slot)] = p[slot]
    BY <2>2
  <2>. DEFINE at == Where(a, slot)
  <2>. HIDE DEF at
  <2>4. Onto(a, n) /\ Swap(a, slot, at, n, 1..n)
    BY <2>3 DEF at, Swap
  <2>5. Swapped(a, slot, at) \in Strings(n, 1..n)
    BY <2>4, SwappedIs
  <2>6. Onto(Swapped(a, slot, at), n)
    <3>1. \A x \in 1..n : Appears(a, n, x)
      BY <2>4 DEF Onto
    <3>2. \A x \in 1..n : Appears(Swapped(a, slot, at), n, x)
      BY <2>4, <3>1, SwappedRange
    <3>. QED
      BY <3>2 DEF Onto
  <2>. QED
    BY <2>3, <2>5, <2>6 DEF at
<1>2. inOrder \in C
  BY DEF Strings, Onto, Appears
<1>3. G \in [C \X (1..n - 1) -> C]
  <2>1. ASSUME NEW a \in C, NEW k \in 1..n - 1
        PROVE  Swapped(a, n + 1 - k, Where(a, n + 1 - k)) \in C
    <3>. DEFINE slot == n + 1 - k
    <3>1. slot \in 1..n
      OBVIOUS
    <3>. HIDE DEF slot, C, Where
    <3>2. Swapped(a, slot, Where(a, slot)) \in C
      BY <1>1, <3>1
    <3>. QED
      BY <3>2 DEF slot
  <2>. HIDE DEF C, Where
  <2>. QED
    BY <2>1
<1>4. n - 1 \in Nat /\ n - 1 \in 0..n - 1
  OBVIOUS
<1>5. PICK c \in [0..n - 1 -> C] : Runs(c, n - 1, inOrder, G)
  <2>. HIDE DEF C, G, inOrder
  <2>. QED
    BY <1>2, <1>3, <1>4, Recursion
<1>. HIDE DEF C, Where
<1>6. ASSUME NEW k \in 1..n - 1
      PROVE  c[k] = Swapped(c[k - 1], n + 1 - k, Where(c[k - 1], n + 1 - k))
  <2>1. k - 1 \in 0..n - 1
    BY Slots
  <2>2. c[k - 1] \in C
    <3>. HIDE DEF G
    <3>. QED
      BY <2>1
  <2>3. G[<<c[k - 1], k>>] = Swapped(c[k - 1], n + 1 - k, Where(c[k - 1], n + 1 - k))
    BY <2>2
  <2>4. c[k] = G[<<c[k - 1], k>>]
    BY <1>5 DEF Runs
  <2>. QED
    BY <2>3, <2>4
<1>7. c[0] = inOrder /\ \A k \in 0..n - 1 : c[k] \in C
  <2>. HIDE DEF G
  <2>. QED
    BY <1>5 DEF Runs
<1>8. \A a \in C : a \in Strings(n, 1..n) /\ Onto(a, n)
  BY DEF C
<1>. HIDE DEF G
<1>. DEFINE Agree(k) == \A slot \in 1..n : n - k < slot => c[k][slot] = p[slot]
            U == {k \in 0..n - 1 : Agree(k)}
<1>9. 0 \in U
  OBVIOUS
<1>10. ASSUME NEW k \in 1..n - 1, Agree(k - 1)
       PROVE  Agree(k) /\ Where(c[k - 1], n + 1 - k) <= n + 1 - k
  <2>. DEFINE slot == n + 1 - k
              a == c[k - 1]
              at == Where(a, slot)
  <2>1. slot \in 2..n /\ slot \in 1..n /\ k - 1 \in 0..n - 1 /\ k \in 0..n - 1
    BY Slots
  <2>2. \A other \in 1..n : slot < other => a[other] = p[other]
    BY <1>10
  <2>3. a \in C /\ a \in Strings(n, 1..n) /\ c[k] = Swapped(a, slot, at)
    BY <1>6, <1>7, <1>8, <2>1
  <2>4. at \in 1..n /\ a[at] = p[slot]
    <3>. HIDE DEF a, slot
    <3>. QED
      BY <1>1, <2>1, <2>3
  <2>5. \A other \in 1..n : n - k < other => other = slot \/ slot < other
    OBVIOUS
  <2>6. at <= slot
    <3>. SUFFICES ASSUME slot < at PROVE FALSE
      BY <2>1, <2>4
    <3>1. p[at] = p[slot]
      BY <2>2, <2>4
    <3>2. at = slot
      <4>. HIDE DEF at, slot
      <4>. QED
        BY <2>1, <2>4, <3>1 DEF Apart
    <3>. QED
      BY <2>1, <3>2
  <2>. HIDE DEF slot, a, at
  <2>7. /\ Swapped(a, slot, at)[slot] = a[at]
        /\ \A m \in 1..n : m # slot /\ m # at => Swapped(a, slot, at)[m] = a[m]
    <3>1. Swap(a, slot, at, n, 1..n)
      BY <2>1, <2>3, <2>4 DEF Swap
    <3>. HIDE DEF Agree, U
    <3>. QED
      BY <3>1, SwappedIs
  <2>8. ASSUME NEW other \in 1..n, slot < other PROVE Swapped(a, slot, at)[other] = p[other]
    <3>1. other # slot /\ other # at
      BY <2>1, <2>4, <2>6, <2>8
    <3>. QED
      BY <2>2, <2>7, <2>8, <3>1
  <2>9. Agree(k)
    BY <2>3, <2>4, <2>5, <2>7, <2>8
  <2>. QED
    BY <2>6, <2>9 DEF slot, a, at
<1>11. \A k \in 0..n - 1 : Agree(k)
  <2>1. ASSUME NEW k \in 1..n - 1, k - 1 \in U PROVE k \in U
    <3>1. k \in 0..n - 1
      OBVIOUS
    <3>. QED
      BY <1>10, <2>1, <3>1
  <2>. HIDE DEF U
  <2>2. \A k \in 0..n - 1 : k \in U
    BY <1>4, <1>9, <2>1, Upwards
  <2>. QED
    BY <2>2 DEF U
<1>. HIDE DEF Agree, U
<1>. DEFINE d == [slot \in 2..n |-> Where(c[n - slot], slot)]
<1>12. ASSUME NEW slot \in 2..n
       PROVE  Where(c[n - slot], slot) \in 1..n /\ Where(c[n - slot], slot) <= slot
  <2>1. /\ n + 1 - slot \in 1..n - 1 /\ (n + 1 - slot) - 1 = n - slot
        /\ n + 1 - (n + 1 - slot) = slot /\ n - slot \in 0..n - 1 /\ slot \in 1..n
    OBVIOUS
  <2>2. Agree(n - slot)
    BY <1>11, <2>1
  <2>. DEFINE k == n + 1 - slot
  <2>3. k \in 1..n - 1 /\ Agree(k - 1)
    BY <2>1, <2>2
  <2>4. Where(c[k - 1], n + 1 - k) <= n + 1 - k
    <3>. HIDE DEF k
    <3>. QED
      BY <1>10, <2>3
  <2>5. c[n - slot] \in C
    BY <1>7, <2>1
  <2>. QED
    BY <1>1, <2>1, <2>4, <2>5
<1>13. d \in Draws(n)
  BY <1>12 DEF Draws
<1>14. Shuffles(c, inOrder, d, n, 1..n)
  <2>1. c \in [0..n - 1 -> Strings(n, 1..n)]
    BY <1>5, <1>7, <1>8
  <2>2. ASSUME NEW k \in 1..n - 1
        PROVE  c[k] = Swapped(c[k - 1], n + 1 - k, d[n + 1 - k])
    <3>1. n + 1 - k \in 2..n /\ n - (n + 1 - k) = k - 1
      OBVIOUS
    <3>2. d[n + 1 - k] = Where(c[n - (n + 1 - k)], n + 1 - k)
      BY <3>1
    <3>3. d[n + 1 - k] = Where(c[k - 1], n + 1 - k)
      BY <3>1, <3>2
    <3>. HIDE DEF d
    <3>. QED
      BY <1>6, <3>3
  <2>. HIDE DEF d
  <2>. QED
    BY <1>7, <2>1, <2>2 DEF Shuffles
<1>15. c[n - 1] = p
  <2>1. c[n - 1] \in Strings(n, 1..n) /\ Onto(c[n - 1], n)
    BY <1>4, <1>7, <1>8
  <2>2. \A slot \in 1..n : slot # 1 => c[n - 1][slot] = p[slot]
    <3>1. Agree(n - 1) /\ \A slot \in 1..n : slot # 1 => n - (n - 1) < slot
      BY <1>4, <1>11
    <3>. QED
      BY <3>1 DEF Agree
  <2>. DEFINE a == c[n - 1]
  <2>. HIDE DEF a
  <2>3. a[1] = p[1]
    <3>1. 1 \in 1..n /\ p[1] \in 1..n
      BY DEF Strings
    <3>2. PICK j \in 1..n : a[j] = p[1]
      BY <2>1, <3>1 DEF Onto, Appears, a
    <3>3. j = 1
      <4>. SUFFICES ASSUME j # 1 PROVE FALSE
        OBVIOUS
      <4>1. p[j] = p[1]
        BY <2>2, <3>2 DEF a
      <4>. QED
        BY <3>1, <4>1 DEF Apart
    <3>. QED
      BY <3>2, <3>3
  <2>4. \A slot \in 1..n : a[slot] = p[slot]
    BY <2>2, <2>3 DEF a
  <2>5. a \in [1..n -> 1..n] /\ p \in [1..n -> 1..n]
    BY <2>1 DEF Strings, a
  <2>. QED
    BY <2>4, <2>5 DEF a
<1>16. inOrder \in Strings(n, 1..n)
  BY DEF Strings
<1>. HIDE DEF d, inOrder
<1>17. PICK after : Shuffles(after, inOrder, d, n, 1..n) /\ Shuffled(inOrder, d) = after[n - 1]
  BY <1>13, <1>16, ShuffleRuns
<1>18. after[n - 1] = c[n - 1]
  BY <1>14, <1>17, ShufflesOnce
<1>. QED
  BY <1>13, <1>15, <1>17, <1>18 DEF inOrder
LEMMA FiniteDraws ==
  ASSUME NEW n \in Nat
  PROVE  IsFiniteSet(Draws(n))
<1>. DEFINE Pairs == (2..n) \X (1..n)
            graph == [d \in Draws(n) |-> {z \in Pairs : z[2] = d[z[1]]}]
<1>1. IsFiniteSet(SUBSET Pairs)
  <2>1. IsFiniteSet(2..n) /\ IsFiniteSet(1..n)
    BY FS_Interval
  <2>. QED
    BY <2>1, FS_Product, FS_SUBSET
<1>2. graph \in [Draws(n) -> SUBSET Pairs]
  OBVIOUS
<1>3. ASSUME NEW d \in Draws(n), NEW e \in Draws(n), graph[d] = graph[e]
      PROVE  d = e
  <2>1. d \in [2..n -> 1..n] /\ e \in [2..n -> 1..n]
    BY DEF Draws
  <2>2. ASSUME NEW slot \in 2..n PROVE d[slot] = e[slot]
    <3>1. <<slot, d[slot]>> \in Pairs
      BY <2>1
    <3>2. <<slot, d[slot]>> \in graph[d]
      BY <3>1
    <3>3. <<slot, d[slot]>> \in graph[e]
      <4>. HIDE DEF graph
      <4>. QED
        BY <1>3, <3>2
    <3>. QED
      BY <3>3
  <2>. HIDE DEF graph
  <2>. QED
    BY <2>1, <2>2
<1>. HIDE DEF graph
<1>4. graph \in Injection(Draws(n), SUBSET Pairs)
  BY <1>2, <1>3, Fun_IsInj
<1>. HIDE DEF Pairs
<1>. QED
  BY <1>1, <1>4, FS_Injection

(* A shuffle leads to every order of n characters by as many draws: by one. *)
LEMMA FairOrders ==
  ASSUME NEW n \in Nat \ {0}
  PROVE  LET inOrder == [k \in 1..n |-> k]
             orders == {Shuffled(inOrder, draws) : draws \in Draws(n)}
         IN  /\ orders = {p \in [1..n -> 1..n] : \A j, k \in 1..n : p[j] = p[k] => j = k}
             /\ Cardinality(orders) = Cardinality(Draws(n))
<1>. DEFINE inOrder == [k \in 1..n |-> k]
            orders == {Shuffled(inOrder, draws) : draws \in Draws(n)}
            perms == {p \in [1..n -> 1..n] : \A j, k \in 1..n : p[j] = p[k] => j = k}
            to == [d \in Draws(n) |-> Shuffled(inOrder, d)]
<1>1. inOrder \in Strings(n, 1..n) /\ Apart(inOrder, n)
  BY DEF Strings, Apart
<1>2. ASSUME NEW p \in perms PROVE p \in orders
  <2>1. p \in Strings(n, 1..n) /\ Apart(p, n)
    BY DEF Strings, Apart
  <2>2. PICK d \in Draws(n) : Shuffled(inOrder, d) = p
    BY <2>1, Reached
  <2>. HIDE DEF inOrder
  <2>. QED
    BY <2>2
<1>. HIDE DEF inOrder
<1>3. ASSUME NEW d \in Draws(n) PROVE Shuffled(inOrder, d) \in perms
  <2>1. PICK after : Shuffles(after, inOrder, d, n, 1..n) /\ Shuffled(inOrder, d) = after[n - 1]
    BY <1>1, ShuffleRuns
  <2>2. n - 1 \in 0..n - 1
    OBVIOUS
  <2>3. Apart(after[n - 1], n)
    BY <1>1, <2>1, <2>2, StaysApart
  <2>4. after[n - 1] \in Strings(n, 1..n)
    BY <2>1, <2>2 DEF Shuffles
  <2>. QED
    BY <2>1, <2>3, <2>4 DEF Apart, Strings
<1>4. orders = perms
  BY <1>2, <1>3
<1>5. \A d, e \in Draws(n) : Shuffled(inOrder, d) = Shuffled(inOrder, e) => d = e
  BY <1>1, DrawsTold
<1>6. to \in Injection(Draws(n), orders)
  <2>1. to \in [Draws(n) -> orders]
    OBVIOUS
  <2>2. \A d, e \in Draws(n) : to[d] = to[e] => d = e
    BY <1>5
  <2>. HIDE DEF to, orders
  <2>. QED
    BY <2>1, <2>2, Fun_IsInj
<1>7. to \in Surjection(Draws(n), orders)
  <2>1. to \in [Draws(n) -> orders] /\ \A p \in orders : \E d \in Draws(n) : to[d] = p
    OBVIOUS
  <2>. HIDE DEF to, orders
  <2>. QED
    BY <2>1, Fun_IsSurj
<1>. HIDE DEF to, orders
<1>8. ExistsBijection(Draws(n), orders)
  BY <1>6, <1>7 DEF ExistsBijection, Bijection
<1>9. Cardinality(orders) = Cardinality(Draws(n))
  BY <1>8, FiniteDraws, FS_Bijection
<1>. QED
  BY <1>4, <1>9 DEF orders, inOrder

-----------------------------------------------------------------------------
(* Passwords *)

LEMMA EnabledIs ==
  ASSUME NEW enabled \in SUBSET DOMAIN Classes
  PROVE  /\ DOMAIN Enabled(enabled) \subseteq 1..Len(Classes) /\ Len(Classes) \in Nat
         /\ \A k \in enabled : \E m \in DOMAIN Enabled(enabled) : Enabled(enabled)[m] = k
<1>. DEFINE all == [k \in DOMAIN Classes |-> k]
            s == Kept(all, enabled)
<1>1. Len(Classes) \in Nat /\ DOMAIN Classes = 1..Len(Classes)
  BY LengthAssumption
<1>2. /\ all \in Seq(1..Len(Classes)) /\ NoneTwice(all) /\ ToSet(all) = 1..Len(Classes)
  BY <1>1 DEF NoneTwice, ToSet
<1>. HIDE DEF all
<1>3. s \in Seq(1..Len(Classes)) /\ ToSet(s) = enabled
  <2>. DEFINE numbers == 1..Len(Classes)
  <2>1. all \in Seq(numbers) /\ ToSet(all) = numbers /\ enabled \subseteq numbers
    BY <1>1, <1>2
  <2>. HIDE DEF numbers
  <2>2. s \in Seq(numbers)
    BY <2>1, KeptHas
  <2>3. ToSet(s) = ToSet(all) \cap enabled
    BY <2>1, KeptHas
  <2>4. ToSet(s) = enabled
    BY <2>1, <2>3
  <2>. QED
    BY <2>2, <2>4 DEF numbers
<1>4. NoneTwice(s)
  BY <1>2, KeptNoneTwice
<1>5. Enabled(enabled) = s
  BY DEF Enabled, all
<1>. HIDE DEF s
<1>6. Cardinality(ToSet(s)) = Len(s)
  BY <1>3, <1>4, CountNoneTwice
<1>7. Len(s) <= Len(Classes)
  <2>1. IsFiniteSet(1..Len(Classes)) /\ Cardinality(1..Len(Classes)) = Len(Classes)
    BY <1>1, FS_Interval
  <2>2. Cardinality(enabled) <= Cardinality(1..Len(Classes))
    BY <1>1, <2>1, FS_Subset
  <2>. QED
    BY <1>3, <1>6, <2>1, <2>2
<1>8. DOMAIN s = 1..Len(s) /\ Len(s) \in Nat
  BY <1>3
<1>9. DOMAIN s \subseteq 1..Len(Classes)
  BY <1>1, <1>7, <1>8
<1>10. \A k \in enabled : \E m \in DOMAIN s : s[m] = k
  BY <1>3 DEF ToSet
<1>. QED
  BY <1>1, <1>5, <1>9, <1>10

LEMMA EachClass ==
  ASSUME NEW length \in MinimumLength..MaximumLength,
         NEW enabled \in (SUBSET DOMAIN Classes) \ {{}},
         NEW characters \in Characters(length, enabled), NEW draws \in Draws(length)
  PROVE  LET password == Shuffled(characters, draws) IN
         /\ length \in Nat \ {0} /\ Len(password) = length
         /\ ToSet(password) \subseteq Alphabet(enabled)
         /\ \A k \in enabled : ToSet(password) \cap Classes[k] # {}
<1>. DEFINE password == Shuffled(characters, draws)
            X == Alphabet(enabled)
<1>1. /\ Len(Classes) \in Nat /\ DOMAIN Classes = 1..Len(Classes) /\ Len(Classes) <= MinimumLength
      /\ MinimumLength \in Nat /\ MaximumLength \in Nat
  BY LengthAssumption
<1>2. length \in Nat \ {0} /\ Len(Classes) <= length
  BY <1>1
<1>3. characters \in Strings(length, X)
  BY DEF Characters, Strings
<1>. HIDE DEF X
<1>4. /\ password \in Strings(length, X)
      /\ \A x : Appears(characters, length, x) => Appears(password, length, x)
  BY <1>2, <1>3, ShuffledIs
<1>. HIDE DEF password
<1>5. Len(password) = length /\ DOMAIN password = 1..length
  BY <1>2, <1>4 DEF Strings
<1>6. ToSet(password) \subseteq X
  BY <1>4, <1>5 DEF ToSet, Strings
<1>7. ASSUME NEW k \in enabled PROVE ToSet(password) \cap Classes[k] # {}
  <2>1. PICK m \in DOMAIN Enabled(enabled) : Enabled(enabled)[m] = k
    BY EnabledIs
  <2>2. m \in 1..length
    <3>1. m \in 1..Len(Classes)
      BY EnabledIs
    <3>. QED
      BY <1>1, <1>2, <3>1
  <2>3. characters[m] \in Classes[k]
    BY <2>1 DEF Characters
  <2>4. \E j \in 1..length : password[j] = characters[m]
    BY <1>4, <2>2 DEF Appears
  <2>5. characters[m] \in ToSet(password)
    BY <1>5, <2>4 DEF ToSet
  <2>. QED
    BY <2>3, <2>5
<1>. QED
  BY <1>2, <1>5, <1>6, <1>7 DEF X, password

(* What was last generated is what index or password returns.               *)
AsGenerated ==
  \/ generated \in {NoPassword, InvalidRecipe}
  \/ \E len \in 1..256 : generated = [selected |-> [b \in Byte |-> Selects(len, b)], of |-> len]
  \/ \E length \in MinimumLength..MaximumLength, enabled \in (SUBSET DOMAIN Classes) \ {{}} :
     \E characters \in Characters(length, enabled), draws \in Draws(length) :
       generated = [enabled |-> enabled, length |-> length,
                    password |-> Shuffled(characters, draws)]

(* Every result is one of index or of password for a recipe it accepts.     *)
THEOREM GeneratedInvariant == SpecGenerator => []AsGenerated
<1>1. InitGenerator => AsGenerated
  BY DEF InitGenerator, AsGenerated
<1>2. AsGenerated /\ [NextGenerator]_generated => AsGenerated'
  <2>. SUFFICES ASSUME AsGenerated, [NextGenerator]_generated PROVE AsGenerated'
    OBVIOUS
  <2>1. CASE Index
    BY <2>1 DEF Index, AsGenerated
  <2>2. CASE Refuse
    BY <2>2 DEF Refuse, AsGenerated
  <2>3. CASE Generate
    BY <2>3 DEF Generate, AsGenerated
  <2>4. CASE NextRecipe
    BY <2>4 DEF NextRecipe, AsGenerated
  <2>5. CASE UNCHANGED generated
    BY <2>5 DEF AsGenerated
  <2>. QED
    BY <2>1, <2>2, <2>3, <2>4, <2>5 DEF NextGenerator
<1>. QED
  BY <1>1, <1>2, PTL DEF SpecGenerator

LEMMA Fair ==
  ASSUME AsGenerated
  PROVE  PasswordsAreFair
<1>1. CASE generated \in {NoPassword, InvalidRecipe}
  BY <1>1 DEF PasswordsAreFair, IndexesAreFair, OrdersAreFair, ClassesAppear, Has
<1>2. ASSUME NEW len \in 1..256,
             generated = [selected |-> [b \in Byte |-> Selects(len, b)], of |-> len]
      PROVE  PasswordsAreFair
  <2>. DEFINE selected == [b \in Byte |-> Selects(len, b)]
  <2>1. \A b \in Byte : selected[b] = Selects(len, b)
    OBVIOUS
  <2>. HIDE DEF selected
  <2>2. generated.of = len /\ generated.selected = selected /\ DOMAIN generated = {"selected", "of"}
    BY <1>2 DEF selected
  <2>3. ASSUME NEW value \in 0..len - 1
        PROVE  Cardinality({b \in Byte : value \in generated.selected[b]}) = 256 \div len
    <3>1. {b \in Byte : value \in generated.selected[b]} = {b \in Byte : value \in Selects(len, b)}
      BY <2>1, <2>2
    <3>. QED
      BY <3>1, Selecting
  <2>4. IndexesAreFair
    BY <2>2, <2>3 DEF IndexesAreFair
  <2>5. ~Has("password")
    BY <2>2 DEF Has
  <2>. QED
    BY <2>4, <2>5 DEF PasswordsAreFair, OrdersAreFair, ClassesAppear
<1>3. ASSUME NEW length \in MinimumLength..MaximumLength,
             NEW enabled \in (SUBSET DOMAIN Classes) \ {{}},
             NEW characters \in Characters(length, enabled), NEW draws \in Draws(length),
             generated = [enabled |-> enabled, length |-> length,
                          password |-> Shuffled(characters, draws)]
      PROVE  PasswordsAreFair
  <2>. DEFINE password == Shuffled(characters, draws)
  <2>1. /\ length \in Nat \ {0} /\ Len(password) = length
        /\ ToSet(password) \subseteq Alphabet(enabled)
        /\ \A k \in enabled : ToSet(password) \cap Classes[k] # {}
    BY EachClass
  <2>. HIDE DEF password
  <2>2. /\ generated.enabled = enabled /\ generated.length = length
        /\ generated.password = password /\ DOMAIN generated = {"enabled", "length", "password"}
    BY <1>3 DEF password
  <2>3. ~Has("of")
    BY <2>2 DEF Has
  <2>4. ClassesAppear
    BY <2>1, <2>2 DEF ClassesAppear
  <2>5. OrdersAreFair
    BY <2>1, <2>2, FairOrders DEF OrdersAreFair
  <2>. QED
    BY <2>3, <2>4, <2>5 DEF PasswordsAreFair, IndexesAreFair
<1>. QED
  BY <1>1, <1>2, <1>3 DEF AsGenerated

(* For any classes and lengths: no draw favours a number, no shuffle an     *)
(* order, and a class asked for is there (generate.rs, index and password). *)
THEOREM PasswordsFair == SpecGenerator => []PasswordsAreFair
BY GeneratedInvariant, Fair, PTL
=============================================================================

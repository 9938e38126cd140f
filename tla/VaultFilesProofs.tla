-------------------------- MODULE VaultFilesProofs --------------------------
(***************************************************************************)
(* What no failure, crash or removal does to a vault's files, for any     *)
(* profiles and any number of vaults and versions, and that what was       *)
(* reported as saved is kept.                                              *)
(***************************************************************************)
EXTENDS VaultFiles, TLAPS

Written == {"sync", "copy", "syncbak", "rename"}

(* Only a save is under way while a vault is open, and it saves that vault  *)
(* to where it was opened from.                                             *)
OpenIsSaved ==
  ~Locked =>
    /\ job = NoJob \/ job.op = "save"
    /\ mem.is = "whole"
    /\ OpenVaultIsSelected

SaveIsOpen ==
  job.op = "save" =>
    /\ ~Locked /\ job.p = Selected /\ job.new = mem
    /\ job.at \in {"write"} \cup Written

(* A vault is created where nothing is, and registered where it was made.   *)
AddIsAlone ==
  job.op = "add" =>
    /\ job.new.is = "whole"
    /\ job.at \in {"write"} \cup Written => Live(job.p) = Missing
    /\ job.at \in {"commit", "remember"} => Live(job.p) = job.new
    /\ job.at = "remember" => registry.selected = job.p /\ job.p \in registry.vaults
    /\ job.at \in {"write", "commit", "undo", "remember"} \cup Written

(* What is renamed over a live file is what was to be written.              *)
WrittenIsNew == Saving /\ job.at \in Written => Tmp(job.p) = job.new

(* The files of a removal were moved once each, and their paths are free.   *)
Staged(at) == CASE at = "live" -> {} [] at = "bak" -> {"live"} [] at = "tmp" -> {"live", "bak"}
                [] OTHER -> Kind

MovesAreOnce ==
  job.op = "remove" =>
    /\ \A t \in job.moves :
         /\ t[1][1] = job.p /\ t[1][2] \in Staged(job.at)
         /\ t[1][2] = "live" => Live(job.p) = Missing
    /\ \A t, u \in job.moves : t[1] = u[1] => t = u

IInv == /\ TypeOK /\ OpenIsSaved /\ SaveIsOpen /\ AddIsAlone
        /\ WrittenIsNew /\ MovesAreOnce

-----------------------------------------------------------------------------
(* Types *)

LEMMA ContentTypes ==
  /\ Missing \in Content /\ Torn \in Content
  /\ \A o, v \in Nat : Sealed(o, v) \in Content
  /\ NoJob \in Job /\ Off \in Job
  /\ Empty \in Registry
BY ProfileAssumption DEF Missing, Torn, Sealed, Content, NoJob, Off, JobOf, Job, Empty, Registry

LEMMA PathTypes ==
  \A p \in Profile : {<<p, "live">>, <<p, "bak">>, <<p, "tmp">>} \subseteq Path
BY DEF Path, Kind

LEMMA LegacyType == ASSUME TypeOK, NEW reg \in Registry PROVE WithLegacy(reg) \in Registry
BY ProfileAssumption DEF WithLegacy, Registry

LEMMA LoadedType == ASSUME TypeOK PROVE Loaded \in Registry
<1>1. CASE durable # {}
  <2>1. \E reg \in Registry : durable = {reg}
    BY <1>1 DEF TypeOK
  <2>2. (CHOOSE reg \in Registry : durable = {reg}) \in Registry
    BY <2>1
  <2>. QED
    BY <1>1, <2>2, LegacyType DEF Loaded
<1>2. CASE durable = {}
  <2>1. WithLegacy(Empty).vaults \subseteq Profile
    BY LegacyType, ContentTypes DEF Registry
  <2>. DEFINE found == WithLegacy(Empty).vaults \cup {p \in Profile \ {Default} : Live(p) # Missing}
  <2>2. found \subseteq Profile
    BY <2>1
  <2>3. \A S : (\E p \in Profile : S = {p}) => (CHOOSE p \in Profile : S = {p}) \in Profile
    OBVIOUS
  <2>4. Loaded = [vaults |-> found,
           selected |->
             IF Default \in found THEN Default
             ELSE IF \E p \in Profile : found = {p}
               THEN CHOOSE p \in Profile : found = {p}
             ELSE NoProfile]
    BY <1>2 DEF Loaded
  <2>. QED
    BY <2>2, <2>3, <2>4, ProfileAssumption DEF Registry
<1>. QED
  BY <1>1, <1>2

LEMMA TypeInit == Init => TypeOK
<1>. SUFFICES ASSUME Init PROVE TypeOK
  OBVIOUS
<1>1. Sealed(1, 1) \in Content
  BY ContentTypes
<1>. QED
  BY <1>1, ContentTypes DEF Init, TypeOK

Starting == Launch \/ (\E t \in job.moves : Reconcile(t)) \/ Reconciled \/ Crash
Persisting == WriteTmp \/ SyncTmp \/ CopyBackup \/ SyncBackup \/ Rename
Adding == (\E p \in Profile : BeginAdd(p)) \/ CommitAdd \/ UndoAdd \/ FinishAdd
Using == Open \/ Lock \/ Edit \/ (\E p \in Profile : Select(p)) \/ Deselect
Recovering == Recover \/ SyncRecovered
Removing == (\E p \in Profile : BeginRemove(p)) \/ Stage \/ Undo \/ CommitRemove \/ Clean

LEMMA NextCases ==
  [Next]_vars => \/ UNCHANGED vars \/ Starting \/ Persisting
                 \/ Adding \/ Using \/ Recovering \/ Removing
BY DEF Next, Starting, Persisting, Adding, Using, Recovering, Removing

(* A tombstone named by a job has a path and a content.                     *)
LEMMA MoveType ==
  ASSUME TypeOK, NEW t \in job.moves
  PROVE  t[1] \in Path /\ t[2] \in Content /\ t = <<t[1], t[2]>>
BY DEF TypeOK, Job

(* The parts of a job change within their types.                            *)
LEMMA JobParts ==
  ASSUME TypeOK
  PROVE  /\ job.p \in Profile /\ job.new \in Content /\ job.moves \subseteq Path \X Content
         /\ \A step \in {"none", "write", "sync", "copy", "syncbak", "rename", "commit",
                         "undo", "remember", "clean"} \cup Kind :
              [job EXCEPT !.at = step] \in Job
         /\ \A t : [job EXCEPT !.moves = @ \ {t}] \in Job
BY DEF TypeOK, Job

LEMMA JobWith ==
  ASSUME NEW j \in Job, NEW moves \in SUBSET (Path \X Content),
         NEW step \in {"none", "write", "sync", "copy", "syncbak", "rename", "commit",
                       "undo", "remember", "clean"} \cup Kind
  PROVE  [j EXCEPT !.at = step, !.moves = moves] \in Job
BY DEF Job

LEMMA StartingType == ASSUME TypeOK, Starting PROVE TypeOK'
<1>1. CASE Launch
  <2>. DEFINE moves == {t \in Path \X UNION {tombs[p] : p \in Path} : t[2] \in tombs[t[1]]}
  <2>1. moves \subseteq Path \X Content
    BY DEF TypeOK
  <2>2. JobOf("reconcile", "none", Default, Missing, moves) \in Job
    BY <2>1, ContentTypes, ProfileAssumption DEF JobOf, Job
  <2>. QED
    BY <1>1, <2>2, LoadedType DEF Launch, TypeOK, diskVars
<1>2. ASSUME NEW t \in job.moves, Reconcile(t) PROVE TypeOK'
  <2>1. job' \in Job
    BY <1>2, JobParts DEF Reconcile
  <2>2. file' \in [Path -> Content]
    BY <1>2, MoveType DEF Reconcile, TypeOK
  <2>3. tombs' \in [Path -> SUBSET Content]
    BY <1>2, MoveType DEF Reconcile, TypeOK
  <2>. QED
    BY <1>2, <2>1, <2>2, <2>3 DEF Reconcile, TypeOK
<1>3. CASE Reconciled
  BY <1>3, ContentTypes DEF Reconciled, TypeOK, diskVars
<1>4. CASE Crash
  BY <1>4, ContentTypes DEF Crash, TypeOK
<1>. QED
  BY <1>1, <1>2, <1>3, <1>4 DEF Starting

LEMMA PersistingType == ASSUME TypeOK, Persisting PROVE TypeOK'
<1>. USE JobParts, ContentTypes, PathTypes
<1>1. CASE WriteTmp
  <2>1. Tmp(job.p) \in Content
    BY DEF Tmp, TypeOK
  <2>. DEFINE tmp == <<job.p, "tmp">>
  <2>2. tmp \in Path /\ file \in [Path -> Content] /\ unsynced \in SUBSET Path
    BY DEF TypeOK
  <2>3. \E left \in {job.new, Tmp(job.p), Torn} : file' = [file EXCEPT ![tmp] = left]
    BY <1>1 DEF WriteTmp
  <2>4. unsynced' \in {unsynced, unsynced \cup {tmp}}
    BY <1>1 DEF WriteTmp
  <2>5. file' \in [Path -> Content] /\ unsynced' \in SUBSET Path
    <3>. HIDE DEF tmp
    <3>. QED
      BY <2>1, <2>2, <2>3, <2>4
  <2>6. job' \in Job
    BY <1>1 DEF WriteTmp, GiveUp, GoOn
  <2>. QED
    BY <1>1, <2>5, <2>6 DEF WriteTmp, GiveUp, TypeOK
<1>2. CASE SyncTmp
  <2>1. job' \in Job
    BY <1>2 DEF SyncTmp, GiveUp, GoOn
  <2>2. file' = file /\ unsynced' \in SUBSET Path
    BY <1>2 DEF SyncTmp, TypeOK
  <2>. QED
    BY <1>2, <2>1, <2>2 DEF SyncTmp, GiveUp, TypeOK
<1>3. CASE CopyBackup
  <2>1. Bak(job.p) \in Content /\ Live(job.p) \in Content
    BY DEF Bak, Live, TypeOK
  <2>. DEFINE bak == <<job.p, "bak">>
  <2>2. bak \in Path /\ file \in [Path -> Content] /\ unsynced \in SUBSET Path
    BY DEF TypeOK
  <2>3. \E left \in {Live(job.p), Bak(job.p), Torn} : file' = [file EXCEPT ![bak] = left]
    BY <1>3 DEF CopyBackup
  <2>4. unsynced' \in {unsynced, unsynced \cup {bak}}
    BY <1>3 DEF CopyBackup
  <2>5. file' \in [Path -> Content] /\ unsynced' \in SUBSET Path
    <3>. HIDE DEF bak
    <3>. QED
      BY <2>1, <2>2, <2>3, <2>4
  <2>6. job' \in Job
    BY <1>3 DEF CopyBackup, GiveUp, GoOn
  <2>. QED
    BY <1>3, <2>5, <2>6 DEF CopyBackup, GiveUp, TypeOK
<1>4. CASE SyncBackup
  BY <1>4 DEF SyncBackup, GiveUp, GoOn, TypeOK
<1>5. CASE Rename
  <2>1. Tmp(job.p) \in Content
    BY DEF Tmp, TypeOK
  <2>2. job' \in Job
    BY <1>5 DEF Rename, GiveUp, GoOn
  <2>3. file' \in [Path -> Content] /\ unsynced' \in SUBSET Path
    <3>. DEFINE tmp == <<job.p, "tmp">>  live == <<job.p, "live">>
    <3>1. /\ file' \in {file, [file EXCEPT ![live] = Tmp(job.p), ![tmp] = Missing]}
          /\ \/ unsynced' = unsynced
             \/ unsynced' = (unsynced \ {tmp, live}) \cup IF tmp \in unsynced THEN {live} ELSE {}
      BY <1>5 DEF Rename
    <3>2. tmp \in Path /\ live \in Path /\ Missing \in Content
      OBVIOUS
    <3>3. file \in [Path -> Content] /\ unsynced \in SUBSET Path
      BY DEF TypeOK
    <3>. HIDE DEF tmp, live
    <3>. QED
      BY <2>1, <3>1, <3>2, <3>3
  <2>4. saved' \in [Owner -> Nat]
    BY <1>5 DEF Rename, GiveUp, TypeOK, Content
  <2>. QED
    BY <1>5, <2>2, <2>3, <2>4 DEF Rename, GiveUp, TypeOK
<1>. QED
  BY <1>1, <1>2, <1>3, <1>4, <1>5 DEF Persisting

LEMMA AddingType == ASSUME TypeOK, Adding PROVE TypeOK'
<1>. USE JobParts, ContentTypes, PathTypes
<1>1. ASSUME NEW p \in Profile, BeginAdd(p) PROVE TypeOK'
  <2>1. JobOf("add", "write", p, Sealed(born + 1, 1), {}) \in Job
    BY DEF JobOf, Job, TypeOK
  <2>. QED
    BY <1>1, <2>1 DEF BeginAdd, TypeOK, diskVars
<1>2. CASE CommitAdd
  <2>1. [selected |-> job.p, vaults |-> registry.vaults \cup {job.p}] \in Registry
    BY DEF TypeOK, Registry
  <2>2. saved' \in [Owner -> Nat]
    BY <1>2 DEF CommitAdd, TypeOK, Content
  <2>3. job' \in Job
    BY <1>2 DEF CommitAdd, GoOn
  <2>. QED
    BY <1>2, <2>1, <2>2, <2>3 DEF CommitAdd, Commit, TypeOK
<1>3. CASE UndoAdd
  BY <1>3 DEF UndoAdd, GiveUp, TypeOK
<1>4. CASE FinishAdd
  BY <1>4 DEF FinishAdd, TypeOK, diskVars
<1>. QED
  BY <1>1, <1>2, <1>3, <1>4 DEF Adding

LEMMA SelectedType == ASSUME TypeOK PROVE Selected \in Profile
BY ProfileAssumption DEF Selected, TypeOK, Registry

LEMMA UsingType == ASSUME TypeOK, Using PROVE TypeOK'
<1>. USE ContentTypes, PathTypes, SelectedType
<1>1. CASE Open
  <2>1. registry.selected \in Profile
    BY <1>1 DEF Open, TypeOK, Registry
  <2>2. Live(registry.selected) \in Content
    BY <2>1 DEF Live, TypeOK
  <2>. QED
    BY <1>1, <2>2 DEF Open, Commit, TypeOK
<1>2. CASE Lock
  BY <1>2 DEF Lock, TypeOK, diskVars
<1>3. CASE Edit
  <2>1. mem' \in Content
    BY <1>3 DEF Edit, TypeOK, Content
  <2>2. job' \in Job
    BY <1>3, <2>1 DEF Edit, JobOf, Job
  <2>. QED
    BY <1>3, <2>1, <2>2 DEF Edit, TypeOK, diskVars
<1>4. ASSUME NEW p \in Profile, Select(p) PROVE TypeOK'
  <2>1. [registry EXCEPT !.selected = p] \in Registry
    BY DEF TypeOK, Registry
  <2>. QED
    BY <1>4, <2>1 DEF Select, Commit, TypeOK
<1>5. CASE Deselect
  <2>1. [registry EXCEPT !.selected = NoProfile] \in Registry
    BY DEF TypeOK, Registry
  <2>. QED
    BY <1>5, <2>1 DEF Deselect, Commit, TypeOK
<1>. QED
  BY <1>1, <1>2, <1>3, <1>4, <1>5 DEF Using

LEMMA RecoveringType == ASSUME TypeOK, Recovering PROVE TypeOK'
<1>. USE ContentTypes, PathTypes, SelectedType
<1>1. CASE Recover
  <2>1. PICK c \in {Tmp(Selected), Bak(Selected)} :
          \/ /\ file' = [file EXCEPT ![<<Selected, "live">>] = c]
             /\ unsynced' = unsynced \cup {<<Selected, "live">>}
             /\ job' = JobOf("recover", "sync", Selected, c, {})
          \/ /\ file' = [file EXCEPT ![<<Selected, "live">>] = Torn]
             /\ UNCHANGED <<unsynced, job>>
    BY <1>1 DEF Recover
  <2>2. c \in Content
    BY <2>1 DEF Tmp, Bak, TypeOK
  <2>3. JobOf("recover", "sync", Selected, c, {}) \in Job
    BY <2>2 DEF JobOf, Job
  <2>. QED
    BY <1>1, <2>1, <2>2, <2>3 DEF Recover, TypeOK
<1>2. CASE SyncRecovered
  BY <1>2 DEF SyncRecovered, TypeOK
<1>. QED
  BY <1>1, <1>2 DEF Recovering

LEMMA RemovingType == ASSUME TypeOK, Removing PROVE TypeOK'
<1>. USE JobParts, ContentTypes, PathTypes
<1>1. ASSUME NEW p \in Profile, BeginRemove(p) PROVE TypeOK'
  <2>1. JobOf("remove", "live", p, Missing, {}) \in Job
    BY DEF JobOf, Job, Kind
  <2>. QED
    BY <1>1, <2>1 DEF BeginRemove, TypeOK, diskVars
<1>2. CASE Stage
  <2>. DEFINE path == <<job.p, job.at>>
  <2>1. path \in Path /\ file[path] \in Content
    BY <1>2 DEF Stage, Path, TypeOK
  <2>2. AfterStaging(job.at) \in Kind \cup {"commit"}
    BY <1>2 DEF Stage, AfterStaging, Kind
  <2>3. \A moves \in SUBSET (Path \X Content) :
          [job EXCEPT !.at = AfterStaging(@), !.moves = moves] \in Job
    <3>1. job \in Job
      BY DEF TypeOK
    <3>. DEFINE at == AfterStaging(job.at)
    <3>2. at \in {"none", "write", "sync", "copy", "syncbak", "rename", "commit",
                  "undo", "remember", "clean"} \cup Kind
      BY <2>2
    <3>. HIDE DEF path, at
    <3>3. \A moves \in SUBSET (Path \X Content) :
            [job EXCEPT !.at = at, !.moves = moves] \in Job
      BY <3>1, <3>2, JobWith
    <3>. QED
      BY <3>3 DEF at
  <2>4. [job EXCEPT !.at = AfterStaging(@), !.moves = @ \cup {<<path, file[path]>>}] \in Job
    <3>. HIDE DEF path
    <3>1. job.moves \cup {<<path, file[path]>>} \subseteq Path \X Content
      BY <2>1
    <3>. QED
      BY <2>3, <3>1
  <2>5. [job EXCEPT !.at = AfterStaging(@)] \in Job
    BY <2>2 DEF TypeOK, Job
  <2>6. job' \in Job
    BY <1>2, <2>4, <2>5 DEF Stage
  <2>. QED
    BY <1>2, <2>1, <2>6 DEF Stage, TypeOK
<1>3. CASE Undo
  <2>1. CASE job.moves = {}
    BY <1>3, <2>1 DEF Undo, TypeOK
  <2>2. ASSUME NEW t \in job.moves,
               /\ job' = [job EXCEPT !.moves = @ \ {t}]
               /\ \/ /\ file' = [file EXCEPT ![t[1]] = t[2]]
                     /\ tombs' = [tombs EXCEPT ![t[1]] = @ \ {t[2]}]
                  \/ CleanupFails /\ UNCHANGED <<file, tombs>>
        PROVE  TypeOK'
    <3>1. t[1] \in Path /\ t[2] \in Content
      BY MoveType
    <3>2. job' \in Job
      BY <2>2
    <3>3. file' \in [Path -> Content] /\ tombs' \in [Path -> SUBSET Content]
      <4>1. file \in [Path -> Content] /\ tombs \in [Path -> SUBSET Content]
        BY DEF TypeOK
      <4>. QED
        BY <2>2, <3>1, <4>1
    <3>. QED
      BY <1>3, <3>2, <3>3 DEF Undo, TypeOK
  <2>. QED
    BY <1>3, <2>1, <2>2 DEF Undo
<1>4. CASE CommitRemove
  <2>1. [selected |-> IF registry.selected = job.p THEN NoProfile ELSE registry.selected,
         vaults |-> registry.vaults \ {job.p}] \in Registry
    BY DEF TypeOK, Registry
  <2>2. gone' \in SUBSET Owner
    BY <1>4 DEF CommitRemove, TypeOK
  <2>3. job' \in Job
    BY <1>4 DEF CommitRemove
  <2>. QED
    BY <1>4, <2>1, <2>2, <2>3 DEF CommitRemove, Commit, TypeOK
<1>5. CASE Clean
  <2>1. CASE job.moves = {}
    BY <1>5, <2>1 DEF Clean, TypeOK
  <2>2. ASSUME NEW t \in job.moves,
               /\ job' = [job EXCEPT !.moves = @ \ {t}]
               /\ \/ tombs' = [tombs EXCEPT ![t[1]] = @ \ {t[2]}]
                  \/ CleanupFails /\ UNCHANGED tombs
        PROVE  TypeOK'
    BY <1>5, <2>2, MoveType DEF Clean, TypeOK
  <2>. QED
    BY <1>5, <2>1, <2>2 DEF Clean
<1>. QED
  BY <1>1, <1>2, <1>3, <1>4, <1>5 DEF Removing

LEMMA TypeStep == TypeOK /\ [Next]_vars => TypeOK'
<1>1. ASSUME TypeOK, UNCHANGED vars PROVE TypeOK'
  BY <1>1 DEF vars, diskVars, TypeOK
<1>. QED
  BY <1>1, NextCases, StartingType, PersistingType, AddingType, UsingType, RecoveringType,
     RemovingType

\* Every variable keeps its type.
THEOREM TypeCorrect == Spec => []TypeOK
BY TypeInit, TypeStep, PTL DEF Spec

-----------------------------------------------------------------------------
(* The invariant *)

Safe == OpenIsSaved /\ SaveIsOpen /\ AddIsAlone /\ WrittenIsNew /\ MovesAreOnce

LEMMA SafeInit == Init => Safe
BY DEF Init, Safe, OpenIsSaved, SaveIsOpen, AddIsAlone, WrittenIsNew, MovesAreOnce,
       Locked, Off, JobOf, Saving

(* Whatever runs with no vault open and adds, saves and removes nothing.    *)
LEMMA NothingUnderWay ==
  ASSUME mem = Missing, job.op \notin {"add", "save", "remove"}
  PROVE  Safe
BY DEF Safe, OpenIsSaved, SaveIsOpen, AddIsAlone, WrittenIsNew, MovesAreOnce, Locked, Saving

LEMMA StartingSafe == ASSUME IInv, Starting PROVE Safe'
<1>1. mem' = Missing /\ job'.op \notin {"add", "save", "remove"}
  <2>1. CASE Launch
    BY <2>1 DEF Launch, IInv, OpenIsSaved, Locked, JobOf, NoJob, Off
  <2>2. CASE \E t \in job.moves : Reconcile(t)
    BY <2>2 DEF Reconcile, IInv, TypeOK, Job, OpenIsSaved, Locked, JobOf, NoJob
  <2>3. CASE Reconciled
    BY <2>3 DEF Reconciled, IInv, OpenIsSaved, Locked, JobOf, NoJob
  <2>4. CASE Crash
    BY <2>4 DEF Crash, JobOf, Off
  <2>. QED
    BY <2>1, <2>2, <2>3, <2>4 DEF Starting
<1>2. (mem = Missing /\ job.op \notin {"add", "save", "remove"} => Safe)'
  BY NothingUnderWay, PTL
<1>. QED
  BY <1>1, <1>2

LEMMA SelectedIsRegistered ==
  ASSUME registry.selected \in registry.vaults PROVE Selected = registry.selected
BY DEF Selected

LEMMA PersistingSafe == ASSUME IInv, Persisting PROVE Safe'
<1>. USE DEF IInv, At, Saving, Written
<1>. USE PathTypes, SelectedType
<1>1. /\ TypeOK /\ job \in Job /\ job.p \in Profile /\ job.op \in {"add", "save"}
      /\ job.at \in {"write"} \cup Written
      /\ UNCHANGED <<mem, registry>>
  BY DEF Persisting, WriteTmp, SyncTmp, CopyBackup, SyncBackup, Rename, GiveUp, TypeOK, Job
<1>2. job.op = "add" => Locked
  BY <1>1 DEF OpenIsSaved, NoJob, JobOf
<1>3. ASSUME ~Locked PROVE job.op = "save" /\ job.p = Selected /\ job.new = mem
  BY <1>1, <1>2, <1>3 DEF SaveIsOpen
<1>4. ASSUME job' = NoJob,
             ~Locked => /\ Live(Selected)'.is = "whole"
                        /\ Live(Selected)'.owner = mem.owner
                        /\ Live(Selected)'.version <= mem.version
      PROVE  Safe'
  BY <1>1, <1>4 DEF Safe, OpenIsSaved, SaveIsOpen, AddIsAlone, WrittenIsNew, MovesAreOnce,
     OpenVaultIsSelected, Selected, Locked, Live, NoJob, JobOf
<1>5. ASSUME job'.op = job.op, job'.p = job.p, job'.new = job.new, job'.at \in Written,
             \A p \in Profile : Live(p)' = Live(p), Tmp(job.p)' = job.new
      PROVE  Safe'
  <2>1. Selected' = Selected /\ Live(Selected)' = Live(Selected)
    BY <1>1, <1>5 DEF Selected
  <2>2. OpenIsSaved' /\ SaveIsOpen'
    BY <1>1, <1>2, <1>3, <1>5, <2>1 DEF OpenIsSaved, SaveIsOpen, OpenVaultIsSelected, Locked, Live
  <2>3. AddIsAlone'
    BY <1>1, <1>5 DEF AddIsAlone, Live
  <2>4. WrittenIsNew'
    BY <1>5 DEF WrittenIsNew, Tmp
  <2>. QED
    BY <1>1, <1>5, <2>2, <2>3, <2>4 DEF Safe, MovesAreOnce
<1>6. ASSUME job' = NoJob, \A p \in Profile : Live(p)' = Live(p) PROVE Safe'
  <2>1. Live(Selected)' = Live(Selected)
    BY <1>1, <1>6 DEF Selected
  <2>. QED
    BY <1>4, <1>6, <2>1 DEF OpenIsSaved, OpenVaultIsSelected
<1>7. CASE WriteTmp
  <2>1. \E left \in {job.new, Tmp(job.p), Torn} : file' = [file EXCEPT ![<<job.p, "tmp">>] = left]
    BY <1>7 DEF WriteTmp
  <2>2. \A p \in Profile : Live(p)' = Live(p)
    BY <1>1, <2>1 DEF TypeOK, Live
  <2>3. CASE job' = NoJob
    BY <1>6, <2>2, <2>3
  <2>4. CASE GoOn("sync") /\ file' = [file EXCEPT ![<<job.p, "tmp">>] = job.new]
    <3>1. Tmp(job.p)' = job.new
      BY <1>1, <2>4 DEF TypeOK, Tmp, GoOn, Job
    <3>. QED
      BY <1>1, <1>5, <2>2, <2>4, <3>1 DEF GoOn, Job
  <2>. QED
    BY <1>7, <2>3, <2>4 DEF WriteTmp, GiveUp
<1>8. ASSUME UNCHANGED file, job.at \in Written,
             \/ GoOn("rename") \/ GoOn("copy") \/ job' = NoJob
      PROVE  Safe'
  <2>1. \A p \in Profile : Live(p)' = Live(p)
    BY <1>8 DEF Live
  <2>2. CASE GoOn("rename") \/ GoOn("copy")
    <3>1. job'.op = job.op /\ job'.p = job.p /\ job'.new = job.new /\ job'.at \in Written
      BY <1>1, <2>2 DEF GoOn, Job
    <3>2. Tmp(job.p)' = job.new
      BY <1>1, <1>8, <3>1 DEF WrittenIsNew, Tmp
    <3>. QED
      BY <1>5, <2>1, <3>1, <3>2
  <2>. QED
    BY <1>6, <1>8, <2>1, <2>2
<1>9. CASE SyncTmp
  BY <1>8, <1>9 DEF SyncTmp, GiveUp
<1>10. CASE CopyBackup
  <2>1. \E left \in {Live(job.p), Bak(job.p), Torn} : file' = [file EXCEPT ![<<job.p, "bak">>] = left]
    BY <1>10 DEF CopyBackup
  <2>2. \A p \in Profile : Live(p)' = Live(p)
    BY <1>1, <2>1 DEF TypeOK, Live
  <2>3. CASE job' = NoJob
    BY <1>6, <2>2, <2>3
  <2>4. CASE GoOn("syncbak")
    <3>1. Tmp(job.p)' = job.new
      BY <1>1, <1>10, <2>1, <2>4 DEF TypeOK, Tmp, GoOn, Job, CopyBackup, WrittenIsNew
    <3>. QED
      BY <1>1, <1>5, <2>2, <2>4, <3>1 DEF GoOn, Job
  <2>. QED
    BY <1>10, <2>3, <2>4 DEF CopyBackup, GiveUp
<1>11. CASE SyncBackup
  BY <1>8, <1>11 DEF SyncBackup, GiveUp
<1>12. CASE Rename
  <2>1. CASE UNCHANGED file /\ job' = NoJob
    BY <1>6, <2>1 DEF Live
  <2>2. CASE /\ file' = [file EXCEPT ![<<job.p, "live">>] = Tmp(job.p), ![<<job.p, "tmp">>] = Missing]
             /\ IF job.op = "save" THEN job' = NoJob ELSE GoOn("commit")
    <3>1. file'[<<job.p, "live">>] = job.new
      BY <1>1, <1>12, <2>2 DEF Rename, WrittenIsNew, Tmp, TypeOK
    <3>2. CASE job.op = "save"
      <4>1. Live(Selected)' = mem
        BY <1>1, <3>1, <3>2 DEF SaveIsOpen, Live, Selected
      <4>. QED
        BY <1>1, <1>4, <2>2, <3>2, <4>1 DEF OpenIsSaved, TypeOK, Content
    <3>3. CASE job.op = "add" /\ GoOn("commit")
      <4>1. job'.op = "add" /\ job'.at = "commit" /\ job'.p = job.p /\ job'.new = job.new
        BY <1>1, <3>3 DEF GoOn, Job
      <4>2. Live(job.p)' = job.new
        BY <3>1, <4>1 DEF Live
      <4>3. AddIsAlone'
        BY <1>1, <3>3, <4>1, <4>2 DEF AddIsAlone
      <4>. QED
        BY <1>1, <1>2, <3>3, <4>1, <4>3 DEF Safe, OpenIsSaved, SaveIsOpen, WrittenIsNew,
           MovesAreOnce, Locked
    <3>. QED
      BY <1>1, <2>2, <3>2, <3>3
  <2>. QED
    BY <1>12, <2>1, <2>2 DEF Rename, GiveUp
<1>. QED
  BY <1>7, <1>9, <1>10, <1>11, <1>12 DEF Persisting

LEMMA AddingSafe == ASSUME IInv, Adding PROVE Safe'
<1>. USE DEF IInv, Saving, Written
<1>. USE PathTypes
<1>0. TypeOK /\ job \in Job /\ job.p \in Profile
  BY DEF TypeOK, Job
<1>1. Locked
  BY DEF Adding, BeginAdd, CommitAdd, UndoAdd, FinishAdd, At, OpenIsSaved, NoJob, JobOf,
     Idle, SaveIsOpen, GoOn
<1>2. ASSUME NEW p \in Profile, BeginAdd(p) PROVE Safe'
  <2>1. /\ job'.op = "add" /\ job'.at = "write" /\ job'.p = p
        /\ job'.new.is = "whole" /\ mem' = Missing /\ UNCHANGED file /\ Live(p) = Missing
    BY <1>1, <1>2 DEF BeginAdd, JobOf, Sealed, Locked, StartupFor, diskVars
  <2>. QED
    BY <2>1 DEF Safe, OpenIsSaved, SaveIsOpen, AddIsAlone, WrittenIsNew, MovesAreOnce,
       Locked, Live
<1>3. CASE CommitAdd
  <2>1. /\ job.op = "add" /\ job.at = "commit"
        /\ job'.op = "add" /\ job'.at \in {"remember", "undo"} /\ job'.p = job.p
        /\ job'.new = job.new /\ mem' = Missing /\ UNCHANGED file
        /\ job'.at = "remember" => registry'.selected = job.p /\ job.p \in registry'.vaults
    BY <1>0, <1>1, <1>3 DEF CommitAdd, Commit, At, GoOn, Job, Locked, SaveIsOpen
  <2>. QED
    BY <2>1 DEF Safe, OpenIsSaved, SaveIsOpen, AddIsAlone, WrittenIsNew, MovesAreOnce,
       Locked, Live
<1>4. CASE UndoAdd
  <2>1. mem' = Missing /\ job' = NoJob
    BY <1>1, <1>4 DEF UndoAdd, GiveUp, Locked
  <2>. QED
    BY <2>1 DEF Safe, OpenIsSaved, SaveIsOpen, AddIsAlone, WrittenIsNew, MovesAreOnce,
       Locked, NoJob, JobOf
<1>5. CASE FinishAdd
  <2>1. job.op = "add" /\ job.at = "remember"
    BY <1>5 DEF FinishAdd, At, SaveIsOpen
  <2>2. /\ job.new.is = "whole" /\ Live(job.p) = job.new
        /\ registry.selected = job.p /\ job.p \in registry.vaults
    BY <2>1 DEF AddIsAlone
  <2>3. job' = NoJob /\ UNCHANGED <<file, registry>> /\ mem' \in {Missing, job.new}
    BY <1>5 DEF FinishAdd, diskVars
  <2>4. Selected' = job.p /\ file'[<<job.p, "live">>] = job.new
    BY <2>2, <2>3 DEF Selected, Live
  <2>5. OpenIsSaved'
    BY <1>0, <2>2, <2>3, <2>4 DEF OpenIsSaved, OpenVaultIsSelected, Locked, Live, TypeOK, Content, Job
  <2>. QED
    BY <2>3, <2>5 DEF Safe, SaveIsOpen, AddIsAlone, WrittenIsNew, MovesAreOnce, NoJob, JobOf
<1>. QED
  BY <1>2, <1>3, <1>4, <1>5 DEF Adding

LEMMA UsingSafe == ASSUME IInv, Using PROVE Safe'
<1>. USE DEF IInv, Saving, Written
<1>0. TypeOK /\ Idle /\ UNCHANGED file
  BY DEF Using, Open, Lock, Edit, Select, Deselect, diskVars
<1>1. ASSUME mem' = Missing, job' = NoJob PROVE Safe'
  BY <1>1 DEF Safe, OpenIsSaved, SaveIsOpen, AddIsAlone, WrittenIsNew, MovesAreOnce,
     Locked, NoJob, JobOf
<1>2. CASE Open
  <2>1. /\ registry.selected \in registry.vaults /\ mem' = Live(registry.selected)
        /\ mem'.is = "whole" /\ UNCHANGED <<registry, job>> /\ job = NoJob
    BY <1>0, <1>2 DEF Open, Commit, Idle
  <2>2. Selected = registry.selected /\ Selected' = Selected /\ Live(Selected)' = mem'
    BY <1>0, <2>1 DEF Selected, Live
  <2>3. Live(registry.selected) \in Content
    BY <1>0, <2>1 DEF Live, TypeOK, Registry, Path, Kind
  <2>4. OpenIsSaved'
    BY <2>1, <2>2, <2>3 DEF OpenIsSaved, OpenVaultIsSelected, Content
  <2>. QED
    BY <2>1, <2>4 DEF Safe, SaveIsOpen, AddIsAlone, WrittenIsNew, MovesAreOnce, NoJob, JobOf
<1>3. CASE Edit
  <2>1. /\ ~Locked /\ mem.is = "whole" /\ OpenVaultIsSelected /\ UNCHANGED registry
        /\ mem' = [mem EXCEPT !.version = @ + 1] /\ job' = JobOf("save", "write", Selected, mem', {})
    BY <1>3 DEF Edit, OpenIsSaved
  <2>2. /\ mem'.is = "whole" /\ mem'.owner = mem.owner /\ mem'.version = mem.version + 1
        /\ mem.version \in Nat
    BY <1>0, <2>1 DEF TypeOK, Content
  <2>3. Selected \in Profile
    BY <1>0, SelectedType
  <2>4. Live(Selected).version \in Nat
    BY <1>0, <2>3 DEF Live, TypeOK, Path, Kind, Content
  <2>5. Selected' = Selected /\ Live(Selected)' = Live(Selected)
    BY <1>0, <2>1 DEF Selected, Live
  <2>6. OpenVaultIsSelected' /\ ~Locked'
    BY <2>1, <2>2, <2>4, <2>5 DEF OpenVaultIsSelected, Locked, Missing
  <2>7. job'.op = "save" /\ job'.at = "write" /\ job'.p = Selected /\ job'.new = mem'
    BY <2>1 DEF JobOf
  <2>. QED
    BY <2>2, <2>5, <2>6, <2>7 DEF Safe, OpenIsSaved, SaveIsOpen, AddIsAlone, WrittenIsNew,
       MovesAreOnce
<1>4. CASE Lock \/ (\E p \in Profile : Select(p)) \/ Deselect
  BY <1>0, <1>1, <1>4 DEF Lock, Select, Deselect, Locked, Idle
<1>. QED
  BY <1>2, <1>3, <1>4 DEF Using

LEMMA RecoveringSafe == ASSUME IInv, Recovering PROVE Safe'
<1>1. mem' = Missing /\ job'.op \notin {"add", "save", "remove"}
  BY DEF Recovering, Recover, SyncRecovered, IInv, OpenIsSaved, Locked, Idle, JobOf, NoJob
<1>2. (mem = Missing /\ job.op \notin {"add", "save", "remove"} => Safe)'
  BY NothingUnderWay, PTL
<1>. QED
  BY <1>1, <1>2

LEMMA RemovingSafe == ASSUME IInv, Removing PROVE Safe'
<1>. USE DEF IInv
<1>0. /\ TypeOK /\ job \in Job /\ job.p \in Profile /\ Locked
  BY DEF Removing, BeginRemove, Stage, Undo, CommitRemove, Clean, OpenIsSaved, NoJob, JobOf,
     TypeOK, Job
<1>1. mem' = Missing
  BY <1>0 DEF Removing, BeginRemove, Stage, Undo, CommitRemove, Clean, Locked
<1>2. ASSUME job'.op \in {"none", "remove"}, MovesAreOnce' PROVE Safe'
  BY <1>1, <1>2 DEF Safe, OpenIsSaved, SaveIsOpen, AddIsAlone, WrittenIsNew, Locked, Saving
<1>3. ASSUME job' = NoJob PROVE Safe'
  BY <1>2, <1>3 DEF MovesAreOnce, NoJob, JobOf
<1>4. CASE \E p \in Profile : BeginRemove(p)
  BY <1>2, <1>4 DEF BeginRemove, MovesAreOnce, JobOf
<1>5. CASE Stage
  <2>. DEFINE path == <<job.p, job.at>>
  <2>1. /\ job.op = "remove" /\ job.at \in Kind /\ path \in Path
        /\ file \in [Path -> Content] /\ <<job.p, "live">> \in Path
    BY <1>0, <1>5 DEF Stage, TypeOK, Path, Kind
  <2>2. /\ \A t \in job.moves : /\ t[1][1] = job.p /\ t[1][2] \in Staged(job.at)
                                /\ t[1][2] = "live" => Live(job.p) = Missing
        /\ \A t, u \in job.moves : t[1] = u[1] => t = u
    BY <2>1 DEF MovesAreOnce
  <2>3. /\ Staged(job.at) \subseteq Staged(AfterStaging(job.at))
        /\ job.at \in Staged(AfterStaging(job.at)) /\ job.at \notin Staged(job.at)
        /\ Staged(job.at) \subseteq Staged("undo")
    BY <2>1 DEF Staged, AfterStaging, Kind
  <2>4. CASE UNCHANGED file /\ job' = [job EXCEPT !.at = AfterStaging(@)]
    <3>1. job'.op = "remove" /\ job'.p = job.p /\ job'.moves = job.moves
          /\ job'.at = AfterStaging(job.at)
      BY <1>0, <2>1, <2>4 DEF Job
    <3>. QED
      BY <1>2, <2>2, <2>3, <2>4, <3>1 DEF MovesAreOnce, Live
  <2>5. CASE /\ file' = [file EXCEPT ![path] = Missing]
             /\ job' = [job EXCEPT !.at = AfterStaging(@),
                                   !.moves = @ \cup {<<path, file[path]>>}]
    <3>1. /\ job'.op = "remove" /\ job'.p = job.p /\ job'.at = AfterStaging(job.at)
          /\ job'.moves = job.moves \cup {<<path, file[path]>>}
      BY <1>0, <2>1, <2>5 DEF Job
    <3>2. /\ Live(job.p) = Missing => file'[<<job.p, "live">>] = Missing
          /\ job.at = "live" => file'[<<job.p, "live">>] = Missing
      BY <2>1, <2>5 DEF Live
    <3>3. \A t \in job.moves : t[1] # path
      BY <2>2, <2>3
    <3>4. \A t \in job'.moves : /\ t[1][1] = job'.p /\ t[1][2] \in Staged(job'.at)
                                /\ t[1][2] = "live" => Live(job.p)' = Missing
      <4>. TAKE t \in job'.moves
      <4>1. CASE t \in job.moves
        BY <2>2, <2>3, <3>1, <3>2, <4>1 DEF Live
      <4>2. CASE t = <<path, file[path]>>
        BY <2>3, <3>1, <3>2, <4>2 DEF Live
      <4>. QED
        BY <3>1, <4>1, <4>2
    <3>5. \A t, u \in job'.moves : t[1] = u[1] => t = u
      <4>1. <<path, file[path]>>[1] = path
        OBVIOUS
      <4>. HIDE DEF path
      <4>. QED
        BY <2>2, <3>1, <3>3, <4>1
    <3>. QED
      BY <1>2, <3>1, <3>4, <3>5 DEF MovesAreOnce
  <2>6. CASE UNCHANGED file /\ job' = [job EXCEPT !.at = "undo"]
    <3>1. job'.op = "remove" /\ job'.p = job.p /\ job'.moves = job.moves /\ job'.at = "undo"
      BY <1>0, <2>1, <2>6 DEF Job
    <3>. QED
      BY <1>2, <2>2, <2>3, <2>6, <3>1 DEF MovesAreOnce, Live
  <2>. QED
    BY <1>5, <2>4, <2>5, <2>6 DEF Stage
<1>6. CASE Undo
  <2>1. CASE job.moves = {}
    BY <1>3, <1>6, <2>1 DEF Undo
  <2>2. ASSUME NEW t \in job.moves, job' = [job EXCEPT !.moves = @ \ {t}],
               \/ file' = [file EXCEPT ![t[1]] = t[2]]
               \/ UNCHANGED file
        PROVE  Safe'
    <3>1. /\ job.op = "remove" /\ job'.op = "remove" /\ job'.p = job.p /\ job'.at = job.at
          /\ job'.moves = job.moves \ {t}
      BY <1>0, <1>6, <2>2 DEF Undo, Job
    <3>2. /\ \A u \in job.moves : /\ u[1][1] = job.p /\ u[1][2] \in Staged(job.at)
                                  /\ u[1][2] = "live" => Live(job.p) = Missing
          /\ \A u, v \in job.moves : u[1] = v[1] => u = v
      BY <3>1 DEF MovesAreOnce
    <3>3. \A u \in job'.moves : u[1][2] = "live" => Live(job.p)' = Missing
      <4>. SUFFICES ASSUME NEW u \in job'.moves, u[1][2] = "live" PROVE Live(job.p)' = Missing
        OBVIOUS
      <4>1. u \in job.moves /\ u # t
        BY <3>1
      <4>2. u[1] # t[1] /\ u[1] = <<job.p, "live">> /\ u[1] \in Path
        BY <1>0, <3>2, <4>1, MoveType DEF Path
      <4>3. file'[u[1]] = file[u[1]]
        BY <1>0, <2>2, <4>2, MoveType DEF TypeOK
      <4>. QED
        BY <3>1, <3>2, <4>1, <4>2, <4>3 DEF Live
    <3>. QED
      BY <1>2, <3>1, <3>2, <3>3 DEF MovesAreOnce
  <2>. QED
    BY <1>6, <2>1, <2>2 DEF Undo
<1>7. CASE CommitRemove
  <2>1. /\ job.op = "remove" /\ job'.op = "remove" /\ job'.p = job.p /\ job'.moves = job.moves
        /\ Staged(job.at) \subseteq Staged(job'.at) /\ UNCHANGED file
    BY <1>0, <1>7 DEF CommitRemove, Job, Staged
  <2>. QED
    BY <1>2, <2>1 DEF MovesAreOnce, Live
<1>8. CASE Clean
  <2>1. CASE job.moves = {}
    BY <1>3, <1>8, <2>1 DEF Clean
  <2>2. ASSUME NEW t \in job.moves, job' = [job EXCEPT !.moves = @ \ {t}]
        PROVE  Safe'
    <3>1. /\ job.op = "remove" /\ job'.op = "remove" /\ job'.p = job.p /\ job'.at = job.at
          /\ job'.moves = job.moves \ {t} /\ UNCHANGED file
      BY <1>0, <1>8, <2>2 DEF Clean, Job
    <3>. QED
      BY <1>2, <3>1 DEF MovesAreOnce, Live
  <2>. QED
    BY <1>8, <2>1, <2>2 DEF Clean
<1>. QED
  BY <1>4, <1>5, <1>6, <1>7, <1>8 DEF Removing

LEMMA InvInit == Init => IInv
BY TypeInit, SafeInit DEF IInv, Safe

LEMMA InvStep == IInv /\ [Next]_vars => IInv'
<1>1. ASSUME IInv, UNCHANGED vars PROVE Safe'
  BY <1>1 DEF vars, diskVars, IInv, Safe, OpenIsSaved, SaveIsOpen, AddIsAlone, WrittenIsNew,
     MovesAreOnce, OpenVaultIsSelected, Selected, Locked, Live, Tmp, Saving
<1>2. IInv /\ [Next]_vars => Safe'
  BY <1>1, NextCases, StartingSafe, PersistingSafe, AddingSafe, UsingSafe, RecoveringSafe,
     RemovingSafe
<1>. QED
  BY <1>2, TypeStep DEF IInv, Safe

LEMMA InvHolds == Spec => []IInv
BY InvInit, InvStep, PTL DEF Spec

-----------------------------------------------------------------------------
(* What it is for *)

\* The vault in memory is the one the registry selects, its file is there and
\* holds no later version, whatever failed, crashed or was removed before.
THEOREM TheOpenVaultIsSelected == Spec => []OpenVaultIsSelected
<1>1. IInv => OpenVaultIsSelected
  BY DEF IInv, OpenIsSaved, OpenVaultIsSelected
<1>. QED
  BY <1>1, InvHolds, PTL

Forward(p) ==
  Live(p).is = "whole" /\ Live(p)'.is = "whole" =>
    Live(p)'.owner = Live(p).owner /\ Live(p)'.version >= Live(p).version

(* A step that leaves the file alone, or writes where none was.             *)
LEMMA ForwardIfFree ==
  ASSUME NEW p \in Profile, TypeOK, Live(p)' = Live(p) \/ ~(Live(p).is = "whole") \/ ~(Live(p)'.is = "whole")
  PROVE  Forward(p)
<1>1. Live(p).version \in Nat
  BY PathTypes DEF Live, TypeOK, Content
<1>. QED
  BY <1>1 DEF Forward

LEMMA PersistingForward == ASSUME IInv, Persisting, NEW p \in Profile PROVE Forward(p)
<1>. USE DEF IInv
<1>0. TypeOK /\ job.p \in Profile /\ <<p, "live">> \in Path /\ <<job.p, "tmp">> \in Path
  BY PathTypes DEF TypeOK, Job
<1>1. CASE Live(p)' = Live(p)
  BY <1>0, <1>1, ForwardIfFree
<1>2. CASE Live(p)' # Live(p)
  <2>1. /\ Rename /\ p = job.p
        /\ file' = [file EXCEPT ![<<job.p, "live">>] = Tmp(job.p), ![<<job.p, "tmp">>] = Missing]
    BY <1>0, <1>2 DEF Persisting, WriteTmp, SyncTmp, CopyBackup, SyncBackup, Rename, Live, TypeOK
  <2>2. Live(p)' = job.new
    BY <1>0, <2>1 DEF Live, Tmp, Rename, At, WrittenIsNew, Written, TypeOK
  <2>3. CASE job.op = "add"
    BY <1>0, <2>1, <2>3, ForwardIfFree DEF AddIsAlone, Rename, At, Written, Missing
  <2>4. CASE job.op = "save"
    <3>1. Live(p)' = mem /\ p = Selected /\ ~Locked
      BY <2>1, <2>2, <2>4 DEF SaveIsOpen
    <3>2. Live(p).owner = mem.owner /\ Live(p).version <= mem.version
      BY <3>1 DEF OpenIsSaved, OpenVaultIsSelected
    <3>3. Live(p).version \in Nat /\ mem.version \in Nat
      BY <1>0 DEF Live, TypeOK, Content
    <3>. QED
      BY <3>1, <3>2, <3>3 DEF Forward
  <2>. QED
    BY <2>1, <2>3, <2>4 DEF Rename, At, Saving
<1>. QED
  BY <1>1, <1>2

LEMMA ElsewhereForward ==
  ASSUME IInv, Starting \/ Adding \/ Using \/ Recovering \/ Removing, NEW p \in Profile
  PROVE  Forward(p)
<1>. USE DEF IInv
<1>0. TypeOK /\ <<p, "live">> \in Path /\ Selected \in Profile /\ job.p \in Profile
  BY PathTypes, SelectedType DEF TypeOK, Job
<1>1. SUFFICES Live(p)' = Live(p) \/ ~(Live(p).is = "whole") \/ ~(Live(p)'.is = "whole")
  BY <1>0, ForwardIfFree
<1>2. ASSUME NEW t \in job.moves, Reconcile(t)
      PROVE  Live(p)' = Live(p) \/ ~(Live(p).is = "whole")
  BY <1>0, <1>2, MoveType DEF Reconcile, Live, TypeOK, Missing
<1>3. CASE Launch \/ Reconciled
  BY <1>3 DEF Launch, Reconciled, diskVars, Live
<1>4. CASE Crash
  BY <1>0, <1>4 DEF Crash, Live, Torn
<1>5. CASE Adding
  BY <1>0, <1>5 DEF Adding, BeginAdd, CommitAdd, UndoAdd, FinishAdd, diskVars, Live, TypeOK, Missing
<1>6. CASE Using
  BY <1>6 DEF Using, Open, Lock, Edit, Select, Deselect, diskVars, Live
<1>7. CASE Recovering
  BY <1>0, <1>7 DEF Recovering, Recover, SyncRecovered, Live, TypeOK, Missing
<1>8. CASE Stage
  BY <1>0, <1>8 DEF Stage, Live, TypeOK, Missing
<1>9. CASE Undo
  <2>1. ASSUME NEW t \in job.moves, file' = [file EXCEPT ![t[1]] = t[2]]
        PROVE  Live(p)' = Live(p) \/ ~(Live(p).is = "whole")
    <3>1. t[1][1] = job.p /\ (t[1][2] = "live" => Live(job.p) = Missing)
      BY <1>9, <2>1 DEF Undo, MovesAreOnce
    <3>2. CASE t[1] = <<p, "live">>
      BY <3>1, <3>2 DEF Missing
    <3>3. CASE t[1] # <<p, "live">>
      BY <1>0, <2>1, <3>3, MoveType DEF Live, TypeOK
    <3>. QED
      BY <3>2, <3>3
  <2>. QED
    BY <1>9, <2>1 DEF Undo, Live
<1>10. CASE (\E q \in Profile : BeginRemove(q)) \/ CommitRemove \/ Clean
  BY <1>10 DEF BeginRemove, CommitRemove, Clean, diskVars, Live
<1>. QED
  BY <1>2, <1>3, <1>4, <1>5, <1>6, <1>7, <1>8, <1>9, <1>10 DEF Starting, Removing

\* A whole vault at a live path only ever gives way to a later save of the
\* same vault: not to another vault, to a backup, or to an older copy.
THEOREM NoOlderCopyReplacesOne == Spec => LiveOnlyMovesForward
<1>1. IInv /\ [Next]_vars => [\A p \in Profile : Forward(p)]_vars
  <2>1. ASSUME IInv, Next, NEW p \in Profile PROVE Forward(p)
    <3>1. CASE UNCHANGED vars
      BY <2>1, <3>1, ForwardIfFree DEF vars, diskVars, Live, IInv
    <3>2. CASE Starting \/ Persisting \/ Adding \/ Using \/ Recovering \/ Removing
      BY <2>1, <3>2, PersistingForward, ElsewhereForward
    <3>. QED
      BY <2>1, <3>1, <3>2, NextCases
  <2>. QED
    BY <2>1
<1>2. [\A p \in Profile : Forward(p)]_vars <=>
        [\A p \in Profile :
           Live(p).is = "whole" /\ Live(p)'.is = "whole" =>
             Live(p)'.owner = Live(p).owner /\ Live(p)'.version >= Live(p).version]_vars
  BY DEF Forward
<1>. QED
  BY <1>1, <1>2, InvHolds, PTL DEF Spec, LiveOnlyMovesForward

-----------------------------------------------------------------------------
(* What was reported as saved is kept, for any profiles and any number of   *)
(* vaults and versions, if cleaning up succeeds: ~CleanupFails.             *)

\* The registry in vaults.json and the one in memory are the same.
Committed == durable = {registry}

(* Where the copy of a vault that counts is: synced at the live path of a    *)
(* profile, or in a tombstone of it.                                        *)
Counts(o, c) == c.is = "whole" /\ c.owner = o /\ c.version >= saved[o]

Keeps(p, o) ==
  \/ Counts(o, Live(p)) /\ <<p, "live">> \notin unsynced
  \/ \E c \in tombs[<<p, "live">>] : Counts(o, c)

(* It is there, and the registry that the next start reads leads to it.     *)
Home(p, o) == /\ Keeps(p, o)
              /\ job.op # "off" => p \in registry.vaults
              /\ \A reg \in durable : p \in reg.vaults

SavedIsRegistered ==
  \A o \in Owner : saved[o] > 0 /\ o \notin gone => \E p \in Profile : Home(p, o)

(* Tombstones are those of the removal under way, or of one that a stop     *)
(* interrupted; what is in one is nowhere else.                             *)
TombsAreMoves ==
  /\ job.op # "off" =>
       \A q \in Path, c \in Content : c \in tombs[q] <=> <<q, c>> \in job.moves
  /\ job.op \notin {"remove", "reconcile"} => job.moves = {}

TombsAreMoved ==
  \A q \in Path : tombs[q] # {} =>
    /\ file[q] = Missing /\ q \notin unsynced /\ durable # {}
    /\ \A c, d \in tombs[q] : c = d

(* What is renamed over a live file was synced.                             *)
RenamedIsSynced ==
  /\ Saving /\ job.at \in {"copy", "syncbak", "rename"} => <<job.p, "tmp">> \notin unsynced
  /\ job.op = "add" /\ job.at = "commit" => <<job.p, "live">> \notin unsynced

(* Nobody was told of a vault that is being created; it is the newest.      *)
OwnersWereBorn ==
  /\ \A o \in Owner : o > born => saved[o] = 0
  /\ \A q \in Path : file[q].owner <= born /\ \A c \in tombs[q] : c.owner <= born

AddIsUntold ==
  job.op = "add" =>
    /\ job.new.owner \in Owner /\ job.new.owner <= born
    /\ job.at # "remember" => saved[job.new.owner] = 0
    /\ job.at = "undo" => Live(job.p) = job.new

(* A removal counts once the registry is written, and the files are out of  *)
(* the way by then.                                                         *)
RemovalIsStaged ==
  job.op = "remove" =>
    /\ durable # {}
    /\ job.at \in {"bak", "tmp", "commit"} => Live(job.p) = Missing
    /\ job.at = "clean" => job.p \notin registry.vaults
    /\ job.at \in Kind \cup {"commit", "undo", "clean"}

OpenIsCommitted ==
  /\ ~Locked => Committed
  /\ job.op = "add" /\ job.at = "remember" => Committed

Kept == /\ SavedIsRegistered /\ TombsAreMoves /\ TombsAreMoved /\ RenamedIsSynced
        /\ OwnersWereBorn /\ AddIsUntold /\ RemovalIsStaged /\ OpenIsCommitted

-----------------------------------------------------------------------------
(* The lemmas that several steps rest on *)

LEMMA KeptInit == Init => Kept
<1>. SUFFICES ASSUME Init PROVE Kept
  OBVIOUS
<1>1. SavedIsRegistered
  <2>. SUFFICES ASSUME NEW o \in Owner, saved[o] > 0 PROVE Home(Default, o)
    BY ProfileAssumption DEF SavedIsRegistered
  <2>1. Legacy /\ o = 1 /\ saved[o] = 1
    BY DEF Init
  <2>2. Live(Default) = Sealed(1, 1)
    BY <2>1, PathTypes, ProfileAssumption DEF Init, Live
  <2>. QED
    BY <2>1, <2>2 DEF Init, Home, Keeps, Counts, Sealed, Off, JobOf
<1>2. OwnersWereBorn
  BY DEF Init, OwnersWereBorn, Sealed, Missing, Owner
<1>. QED
  BY <1>1, <1>2 DEF Init, Kept, TombsAreMoves, TombsAreMoved, RenamedIsSynced, AddIsUntold,
     RemovalIsStaged, OpenIsCommitted, Off, JobOf, Saving, Locked

(* No tombstone is about while anything but a removal is going on.          *)
LEMMA NoTombs ==
  ASSUME TypeOK, Kept, job.op \notin {"off", "remove", "reconcile"}
  PROVE  \A q \in Path : tombs[q] = {}
BY DEF Kept, TombsAreMoves, TypeOK

LEMMA HomesStay ==
  ASSUME Kept, saved' = saved, gone \subseteq gone',
         \A p \in Profile, o \in Owner :
           saved[o] > 0 /\ o \notin gone' /\ Home(p, o) => Home(p, o)'
  PROVE  SavedIsRegistered'
BY DEF Kept, SavedIsRegistered

LEMMA LoadedKeeps ==
  ASSUME TypeOK, NEW p \in Profile, \A reg \in durable : p \in reg.vaults,
         durable = {} => Live(p) # Missing
  PROVE  p \in Loaded.vaults
<1>1. CASE durable # {}
  <2>1. PICK reg \in Registry : durable = {reg}
    BY <1>1 DEF TypeOK
  <2>2. (CHOOSE r \in Registry : durable = {r}) = reg
    BY <2>1
  <2>3. Loaded = WithLegacy(reg)
    BY <1>1, <2>2 DEF Loaded
  <2>. QED
    BY <2>1, <2>3 DEF WithLegacy
<1>2. CASE durable = {}
  <2>. DEFINE found == WithLegacy(Empty).vaults \cup {q \in Profile \ {Default} : Live(q) # Missing}
  <2>1. Loaded.vaults = found
    BY <1>2 DEF Loaded
  <2>2. p = Default => p \in WithLegacy(Empty).vaults
    BY <1>2 DEF WithLegacy, StartupFor, Empty
  <2>. QED
    BY <1>2, <2>1, <2>2
<1>. QED
  BY <1>1, <1>2

-----------------------------------------------------------------------------
(* The steps *)

LEMMA StartingKept == ASSUME ~CleanupFails, IInv, Kept, Starting PROVE Kept'
<1>. USE DEF IInv
<1>0. TypeOK /\ job \in Job
  BY DEF TypeOK
<1>1. CASE Launch
  <2>1. /\ job.op = "off" /\ job'.op = "reconcile" /\ registry' = Loaded /\ mem' = Missing
        /\ UNCHANGED <<file, unsynced, tombs, durable, born, saved, gone>>
    BY <1>1 DEF Launch, diskVars, Off, JobOf, OpenIsSaved, NoJob, Locked
  <2>2. SavedIsRegistered'
    <3>. SUFFICES ASSUME NEW p \in Profile, NEW o \in Owner, Home(p, o) PROVE Home(p, o)'
      BY <2>1, HomesStay
    <3>0. <<p, "live">> \in Path
      BY PathTypes
    <3>1. durable = {} => Live(p) # Missing
      BY <3>0 DEF Home, Keeps, Counts, Missing, Kept, TombsAreMoved
    <3>2. p \in Loaded.vaults
      BY <1>0, <3>1, LoadedKeeps DEF Home
    <3>. QED
      BY <2>1, <3>2 DEF Home, Keeps, Counts, Live
  <2>3. TombsAreMoves'
    <3>1. job'.moves = {t \in Path \X UNION {tombs[p] : p \in Path} : t[2] \in tombs[t[1]]}
      BY <1>1 DEF Launch, JobOf
    <3>2. \A q \in Path, c \in Content : c \in tombs[q] <=> <<q, c>> \in job'.moves
      BY <3>1
    <3>. QED
      BY <2>1, <3>2 DEF TombsAreMoves
  <2>4. TombsAreMoved' /\ OwnersWereBorn'
    BY <2>1 DEF Kept, TombsAreMoved, OwnersWereBorn
  <2>. QED
    BY <2>1, <2>2, <2>3, <2>4 DEF Kept, RenamedIsSynced, AddIsUntold, RemovalIsStaged,
       OpenIsCommitted, Saving, Locked
<1>2. ASSUME NEW t \in job.moves, Reconcile(t) PROVE Kept'
  <2>. DEFINE q == t[1]
              c == t[2]
  <2>1. q \in Path /\ c \in Content /\ t = <<q, c>> /\ <<q, c>> \in job.moves
    BY <1>0, <1>2, MoveType
  <2>2. /\ job.op = "reconcile" /\ job'.op = "reconcile" /\ job'.moves = job.moves \ {t}
        /\ mem' = Missing /\ UNCHANGED <<unsynced, durable, registry, mem, born, saved, gone>>
    BY <1>0, <1>2 DEF Reconcile, Job, OpenIsSaved, NoJob, JobOf, Locked
  <2>3. c \in tombs[q] /\ file[q] = Missing /\ q \notin unsynced /\ durable # {}
        /\ \A d \in tombs[q] : d = c
    BY <2>1, <2>2 DEF Kept, TombsAreMoves, TombsAreMoved
  <2>4. /\ tombs' = [tombs EXCEPT ![q] = @ \ {c}]
        /\ IF q[1] \in registry.vaults THEN file' = [file EXCEPT ![q] = c] ELSE file' = file
    BY <1>2, <2>3 DEF Reconcile
  <2>. HIDE DEF q, c
  <2>5. /\ tombs'[q] = {} /\ \A r \in Path : r # q => tombs'[r] = tombs[r] /\ file'[r] = file[r]
        /\ q[1] \in registry.vaults => file'[q] = c
        /\ q[1] \notin registry.vaults => file'[q] = file[q]
    BY <1>0, <2>1, <2>3, <2>4 DEF TypeOK
  <2>6. SavedIsRegistered'
    <3>. SUFFICES ASSUME NEW p \in Profile, NEW o \in Owner, Home(p, o) PROVE Home(p, o)'
      BY <2>2, HomesStay
    <3>1. p \in registry.vaults /\ <<p, "live">> \in Path
      BY <2>2, PathTypes DEF Home
    <3>2. CASE q = <<p, "live">>
      <4>1. Counts(o, c)
        BY <2>3, <3>2 DEF Home, Keeps, Counts, Live, Missing
      <4>2. file'[<<p, "live">>] = c
        BY <2>5, <3>1, <3>2
      <4>. QED
        BY <2>2, <2>3, <3>1, <3>2, <4>1, <4>2 DEF Home, Keeps, Counts, Live
    <3>3. CASE q # <<p, "live">>
      BY <2>2, <2>5, <3>1, <3>3 DEF Home, Keeps, Counts, Live
    <3>. QED
      BY <3>2, <3>3
  <2>7. TombsAreMoves'
    BY <2>1, <2>2, <2>3, <2>5 DEF Kept, TombsAreMoves
  <2>8. TombsAreMoved'
    BY <2>1, <2>2, <2>3, <2>5 DEF Kept, TombsAreMoved
  <2>9. OwnersWereBorn'
    <3>1. c.owner <= born
      BY <2>1, <2>3 DEF Kept, OwnersWereBorn
    <3>. QED
      BY <2>1, <2>2, <2>3, <2>5, <3>1 DEF Kept, OwnersWereBorn
  <2>. QED
    BY <2>2, <2>6, <2>7, <2>8, <2>9 DEF Kept, RenamedIsSynced, AddIsUntold, RemovalIsStaged,
       OpenIsCommitted, Saving, Locked
<1>3. CASE Reconciled
  <2>1. /\ job.op = "reconcile" /\ job' = NoJob /\ job.moves = {} /\ mem' = Missing
        /\ UNCHANGED <<file, unsynced, tombs, durable, registry, born, saved, gone>>
    BY <1>3 DEF Reconciled, diskVars, OpenIsSaved, NoJob, JobOf, Locked
  <2>2. SavedIsRegistered'
    <3>. SUFFICES ASSUME NEW p \in Profile, NEW o \in Owner, Home(p, o) PROVE Home(p, o)'
      BY <2>1, HomesStay
    <3>. QED
      BY <2>1 DEF Home, Keeps, Counts, Live, NoJob, JobOf
  <2>. QED
    BY <2>1, <2>2 DEF Kept, TombsAreMoves, TombsAreMoved, OwnersWereBorn, RenamedIsSynced,
       AddIsUntold, RemovalIsStaged, OpenIsCommitted, Saving, Locked, NoJob, JobOf
<1>4. CASE Crash
  <2>1. PICK torn \in SUBSET unsynced : file' = [p \in Path |-> IF p \in torn THEN Torn ELSE file[p]]
    BY <1>4 DEF Crash
  <2>2. /\ unsynced' = {} /\ mem' = Missing /\ job' = Off
        /\ UNCHANGED <<tombs, durable, registry, born, saved, gone>>
    BY <1>4 DEF Crash
  <2>3. SavedIsRegistered'
    <3>. SUFFICES ASSUME NEW p \in Profile, NEW o \in Owner, Home(p, o) PROVE Home(p, o)'
      BY <2>2, HomesStay
    <3>1. <<p, "live">> \notin unsynced => file'[<<p, "live">>] = file[<<p, "live">>]
      BY <2>1, PathTypes
    <3>. QED
      BY <2>2, <3>1 DEF Home, Keeps, Counts, Live, Off, JobOf
  <2>4. TombsAreMoved'
    BY <2>1, <2>2 DEF Kept, TombsAreMoved
  <2>5. OwnersWereBorn'
    BY <1>0, <2>1, <2>2 DEF Kept, OwnersWereBorn, Torn, TypeOK
  <2>. QED
    BY <2>2, <2>3, <2>4, <2>5 DEF Kept, TombsAreMoves, RenamedIsSynced, AddIsUntold,
       RemovalIsStaged, OpenIsCommitted, Saving, Locked, Off, JobOf
<1>. QED
  BY <1>1, <1>2, <1>3, <1>4 DEF Starting

LEMMA PersistingKept == ASSUME ~CleanupFails, IInv, Kept, Persisting PROVE Kept'
<1>. USE DEF IInv
<1>0. /\ TypeOK /\ job \in Job /\ job.p \in Profile /\ job.op \in {"add", "save"}
      /\ job.at \in {"write"} \cup Written /\ job.moves = {}
      /\ UNCHANGED <<tombs, durable, registry, mem, born, gone>>
      /\ <<job.p, "tmp">> \in Path /\ <<job.p, "bak">> \in Path /\ <<job.p, "live">> \in Path
  BY PathTypes DEF Persisting, WriteTmp, SyncTmp, CopyBackup, SyncBackup, Rename, GiveUp, TypeOK,
     Job, At, Saving, Written, Kept, TombsAreMoves
<1>1. \A q \in Path : tombs[q] = {}
  BY <1>0, NoTombs
<1>2. job.op = "save" => job.new = mem /\ ~Locked /\ job.p = Selected /\ OpenVaultIsSelected
  BY DEF SaveIsOpen, OpenIsSaved
<1>3. job.new.owner <= born
  <2>1. CASE job.op = "add"
    BY <2>1 DEF Kept, AddIsUntold
  <2>2. CASE job.op = "save"
    BY <1>0, <1>2, <2>2 DEF OpenVaultIsSelected, Kept, OwnersWereBorn, Live
  <2>. QED
    BY <1>0, <2>1, <2>2
<1>4. TombsAreMoved'
  BY <1>0, <1>1 DEF TombsAreMoved
<1>5. /\ job' = NoJob \/ (job'.op = job.op /\ job'.p = job.p /\ job'.new = job.new)
      /\ job'.moves = {} /\ job'.op # "off" /\ job'.op \notin {"remove", "reconcile"}
      /\ job'.op = "add" => job'.at \in Written \cup {"commit"}
  <2>1. job' = NoJob \/ \E step \in Written \cup {"commit"} : GoOn(step)
    BY DEF Persisting, WriteTmp, SyncTmp, CopyBackup, SyncBackup, Rename, GiveUp, Written
  <2>2. CASE job' = NoJob
    <3>1. job'.op = "none" /\ job'.moves = {}
      BY <2>2 DEF NoJob, JobOf
    <3>. QED
      BY <2>2, <3>1
  <2>3. ASSUME NEW step \in Written \cup {"commit"}, GoOn(step)
        PROVE  /\ job'.op = job.op /\ job'.p = job.p /\ job'.new = job.new
               /\ job'.moves = job.moves /\ job'.at = step
    BY <1>0, <2>3 DEF GoOn, Job
  <2>. QED
    BY <1>0, <2>1, <2>2, <2>3
<1>6. TombsAreMoves' /\ RemovalIsStaged' /\ OpenIsCommitted'
  BY <1>0, <1>1, <1>5 DEF TombsAreMoves, RemovalIsStaged, Kept, OpenIsCommitted, Committed,
     Locked, Written, NoJob, JobOf
<1>7. ASSUME UNCHANGED saved,
             \A p \in Profile : file'[<<p, "live">>] = file[<<p, "live">>],
             \A p \in Profile : <<p, "live">> \in unsynced' => <<p, "live">> \in unsynced
      PROVE  SavedIsRegistered' /\ AddIsUntold'
  <2>1. SavedIsRegistered'
    <3>. SUFFICES ASSUME NEW p \in Profile, NEW o \in Owner, Home(p, o) PROVE Home(p, o)'
      BY <1>0, <1>7, HomesStay
    <3>. QED
      BY <1>0, <1>5, <1>7 DEF Home, Keeps, Counts, Live
  <2>2. AddIsUntold'
    BY <1>0, <1>5, <1>7 DEF Kept, AddIsUntold, NoJob, JobOf, Written
  <2>. QED
    BY <2>1, <2>2
<1>8. ASSUME \A q \in Path : file'[q] = file[q] \/ file'[q] \in {job.new, Torn, Missing}
                               \/ \E r \in Path : file'[q] = file[r],
             \A o \in Owner : saved'[o] = saved[o] \/ o <= born
      PROVE  OwnersWereBorn'
  <2>1. born \in Nat
    BY <1>0 DEF TypeOK
  <2>2. \A q \in Path : file'[q].owner <= born
    BY <1>3, <1>8, <2>1 DEF Kept, OwnersWereBorn, Torn, Missing
  <2>3. \A o \in Owner : o > born => saved'[o] = 0
    BY <1>8, <2>1 DEF Kept, OwnersWereBorn, Owner
  <2>. QED
    BY <1>0, <1>1, <2>2, <2>3 DEF OwnersWereBorn
<1>9. CASE WriteTmp
  <2>1. /\ \E left \in {job.new, Tmp(job.p), Torn} : file' = [file EXCEPT ![<<job.p, "tmp">>] = left]
        /\ unsynced' \subseteq unsynced \cup {<<job.p, "tmp">>} /\ UNCHANGED saved
        /\ job' = NoJob \/ job'.at = "sync"
    BY <1>0, <1>9 DEF WriteTmp, GiveUp, GoOn, Job
  <2>2. SavedIsRegistered' /\ AddIsUntold'
    BY <1>0, <1>7, <2>1, PathTypes DEF TypeOK
  <2>3. OwnersWereBorn'
    BY <1>0, <1>8, <2>1 DEF TypeOK, Tmp
  <2>4. RenamedIsSynced'
    BY <2>1 DEF RenamedIsSynced, Saving, NoJob, JobOf
  <2>. QED
    BY <1>4, <1>6, <2>2, <2>3, <2>4 DEF Kept
<1>10. CASE CopyBackup
  <2>1. /\ \E left \in {Live(job.p), Bak(job.p), Torn} : file' = [file EXCEPT ![<<job.p, "bak">>] = left]
        /\ unsynced' \subseteq unsynced \cup {<<job.p, "bak">>} /\ UNCHANGED saved
    BY <1>10 DEF CopyBackup, GiveUp
  <2>5. job' = NoJob \/ GoOn("syncbak")
    BY <1>10 DEF CopyBackup, GiveUp
  <2>2. SavedIsRegistered' /\ AddIsUntold'
    BY <1>0, <1>7, <2>1, PathTypes DEF TypeOK
  <2>3. OwnersWereBorn'
    BY <1>0, <1>8, <2>1 DEF TypeOK, Bak, Live
  <2>4. RenamedIsSynced'
    <3>1. CASE job' = NoJob
      BY <3>1 DEF RenamedIsSynced, Saving, NoJob, JobOf
    <3>2. CASE GoOn("syncbak")
      <4>1. job'.p = job.p /\ job'.at = "syncbak" /\ <<job.p, "tmp">> \notin unsynced
        BY <1>0, <1>10, <3>2 DEF GoOn, Job, CopyBackup, At, Kept, RenamedIsSynced
      <4>. QED
        BY <2>1, <4>1 DEF RenamedIsSynced
    <3>. QED
      BY <2>5, <3>1, <3>2
  <2>. QED
    BY <1>4, <1>6, <2>2, <2>3, <2>4 DEF Kept
<1>11. CASE SyncTmp \/ SyncBackup
  <2>1. UNCHANGED <<file, saved>> /\ unsynced' \subseteq unsynced
    BY <1>11 DEF SyncTmp, SyncBackup, GiveUp
  <2>2. SavedIsRegistered' /\ AddIsUntold'
    BY <1>7, <2>1
  <2>3. OwnersWereBorn'
    BY <1>8, <2>1
  <2>4. RenamedIsSynced'
    <3>1. CASE job' = NoJob
      BY <3>1 DEF RenamedIsSynced, Saving, NoJob, JobOf
    <3>2. CASE SyncTmp /\ job' # NoJob
      BY <1>0, <3>2 DEF SyncTmp, GiveUp, GoOn, Job, RenamedIsSynced
    <3>3. CASE SyncBackup /\ job' # NoJob
      BY <1>0, <2>1, <3>3 DEF SyncBackup, GiveUp, GoOn, Job, RenamedIsSynced, Kept, At, Saving
    <3>. QED
      BY <1>11, <3>1, <3>2, <3>3
  <2>. QED
    BY <1>4, <1>6, <2>2, <2>3, <2>4 DEF Kept
<1>12. CASE Rename
  <2>1. CASE UNCHANGED <<file, unsynced>> /\ GiveUp
    <3>1. SavedIsRegistered' /\ AddIsUntold'
      BY <1>7, <2>1 DEF GiveUp
    <3>2. OwnersWereBorn'
      BY <1>8, <2>1 DEF GiveUp
    <3>3. RenamedIsSynced'
      BY <2>1 DEF GiveUp, RenamedIsSynced, Saving, NoJob, JobOf
    <3>. QED
      BY <1>4, <1>6, <3>1, <3>2, <3>3 DEF Kept
  <2>2. CASE ~(UNCHANGED <<file, unsynced>> /\ GiveUp)
    <3>. DEFINE live == <<job.p, "live">>
    <3>1. /\ file' = [file EXCEPT ![live] = Tmp(job.p), ![<<job.p, "tmp">>] = Missing]
          /\ unsynced' = (unsynced \ {<<job.p, "tmp">>, live})
                           \cup IF <<job.p, "tmp">> \in unsynced THEN {live} ELSE {}
          /\ IF job.op = "save"
               THEN /\ job' = NoJob
                    /\ saved' = [saved EXCEPT ![job.new.owner] = job.new.version]
               ELSE GoOn("commit") /\ UNCHANGED saved
      BY <1>12, <2>2 DEF Rename
    <3>2. Tmp(job.p) = job.new /\ <<job.p, "tmp">> \notin unsynced
      BY <1>12 DEF Rename, At, Written, WrittenIsNew, Kept, RenamedIsSynced
    <3>3. /\ unsynced' \subseteq unsynced /\ live \notin unsynced'
          /\ file'[live] = job.new
          /\ \A p \in Profile : p # job.p => file'[<<p, "live">>] = file[<<p, "live">>]
          /\ \A q \in Path : file'[q] = file[q] \/ file'[q] \in {job.new, Torn, Missing}
      BY <1>0, <3>1, <3>2, PathTypes DEF TypeOK
    <3>4. OwnersWereBorn'
      BY <1>0, <1>3, <1>8, <3>1, <3>3 DEF TypeOK
    <3>5. RenamedIsSynced'
      BY <1>0, <3>1, <3>3 DEF RenamedIsSynced, GoOn, Job, Saving, NoJob, JobOf
    <3>6. AddIsUntold'
      BY <1>0, <1>5, <3>1 DEF Kept, AddIsUntold, NoJob, JobOf, Written
    <3>7. SavedIsRegistered'
      <4>. SUFFICES ASSUME NEW o \in Owner, saved'[o] > 0, o \notin gone
                    PROVE  \E p \in Profile : Home(p, o)'
        BY <1>0 DEF SavedIsRegistered
      <4>1. CASE job.op = "save" /\ o = job.new.owner
        <5>1. saved'[o] = job.new.version /\ job.new.version \in Nat /\ job.new.is = "whole"
          BY <1>0, <1>2, <3>1, <4>1 DEF TypeOK, Job, Content, OpenIsSaved
        <5>2. /\ file'[live].is = "whole" /\ file'[live].owner = o
              /\ file'[live].version >= saved'[o]
          BY <3>3, <4>1, <5>1
        <5>3. job.p \in registry.vaults /\ durable = {registry}
          BY <1>2, <4>1 DEF OpenVaultIsSelected, Selected, Kept, OpenIsCommitted, Committed
        <5>4. \A p \in Profile : p = job.p => Home(p, o)'
          BY <1>0, <3>3, <5>2, <5>3 DEF Home, Keeps, Counts, Live
        <5>. QED
          BY <1>0, <5>4
      <4>2. CASE ~(job.op = "save" /\ o = job.new.owner)
        <5>1. saved'[o] = saved[o]
          BY <1>0, <3>1, <4>2 DEF TypeOK
        <5>2. PICK p \in Profile : Home(p, o)
          BY <5>1 DEF Kept, SavedIsRegistered
        <5>3. Counts(o, Live(p))
          BY <1>1, <5>2, PathTypes DEF Home, Keeps
        <5>4. p # job.p
          BY <1>0, <1>2, <1>12, <4>2, <5>3 DEF Counts, OpenVaultIsSelected, AddIsAlone, Rename, At,
             Written, Missing
        <5>. QED
          BY <1>0, <1>5, <3>3, <5>1, <5>2, <5>4 DEF Home, Keeps, Counts, Live
      <4>. QED
        BY <4>1, <4>2
    <3>. QED
      BY <1>4, <1>6, <3>4, <3>5, <3>6, <3>7 DEF Kept
  <2>. QED
    BY <2>1, <2>2
<1>. QED
  BY <1>9, <1>10, <1>11, <1>12 DEF Persisting

LEMMA AddingKept == ASSUME ~CleanupFails, IInv, Kept, Adding PROVE Kept'
<1>. USE DEF IInv
<1>0. /\ TypeOK /\ job \in Job /\ job.moves = {} /\ job.op \in {"none", "add"} /\ job.p \in Profile
      /\ UNCHANGED <<tombs, gone>>
  <2>1. TypeOK /\ job \in Job /\ job.p \in Profile
    BY DEF TypeOK, Job
  <2>2. UNCHANGED <<tombs, gone>>
    BY DEF Adding, BeginAdd, CommitAdd, UndoAdd, FinishAdd, GiveUp, diskVars
  <2>3. job.op \in {"none", "add"}
    BY DEF Adding, BeginAdd, CommitAdd, UndoAdd, FinishAdd, At, Saving, Idle, NoJob, JobOf,
       SaveIsOpen, Written
  <2>. QED
    BY <2>1, <2>2, <2>3 DEF Kept, TombsAreMoves
<1>1. \A q \in Path : tombs[q] = {}
  BY <1>0, NoTombs
<1>2. TombsAreMoved'
  BY <1>0, <1>1 DEF TombsAreMoved
<1>3. ASSUME job'.op \in {"none", "add"}, job'.moves = {} PROVE TombsAreMoves' /\ RemovalIsStaged'
  BY <1>0, <1>1, <1>3 DEF TombsAreMoves, RemovalIsStaged
<1>4. mem = Missing
  BY DEF Adding, BeginAdd, CommitAdd, UndoAdd, FinishAdd, At, OpenIsSaved, NoJob, JobOf, Locked,
     SaveIsOpen, Written, GoOn
<1>5. ASSUME NEW p \in Profile, BeginAdd(p) PROVE Kept'
  <2>1. /\ job.op = "none" /\ job'.op = "add" /\ job'.at = "write" /\ job'.moves = {}
        /\ job'.new.owner = born + 1 /\ born < MaxOwner /\ born' = born + 1 /\ mem' = Missing
        /\ UNCHANGED <<file, unsynced, durable, registry, saved>>
    BY <1>4, <1>5 DEF BeginAdd, JobOf, Sealed, diskVars, Idle, NoJob
  <2>2. SavedIsRegistered'
    <3>. SUFFICES ASSUME NEW r \in Profile, NEW o \in Owner, Home(r, o) PROVE Home(r, o)'
      BY <1>0, <2>1, HomesStay
    <3>. QED
      BY <1>0, <2>1 DEF Home, Keeps, Counts, Live
  <2>3. born \in Nat /\ MaxOwner \in Nat
    BY <1>0, BoundAssumption DEF TypeOK
  <2>4. \A q \in Path : file[q].owner \in Nat
    BY <1>0 DEF TypeOK, Content
  <2>5. OwnersWereBorn'
    BY <1>0, <1>1, <2>1, <2>3, <2>4 DEF Kept, OwnersWereBorn, Owner
  <2>6. born + 1 \in Owner /\ saved[born + 1] = 0
    BY <2>1, <2>3 DEF Kept, OwnersWereBorn, Owner
  <2>7. AddIsUntold'
    BY <2>1, <2>3, <2>6 DEF AddIsUntold
  <2>. QED
    BY <1>2, <1>3, <2>1, <2>2, <2>5, <2>7 DEF Kept, RenamedIsSynced, OpenIsCommitted, Locked
<1>6. CASE CommitAdd
  <2>1. /\ job.op = "add" /\ job.at = "commit"
        /\ job'.op = "add" /\ job'.moves = {} /\ job'.p = job.p /\ job'.new = job.new
        /\ mem' = Missing /\ UNCHANGED <<file, unsynced, born>>
        /\ \/ /\ job'.at = "remember" /\ durable' = {registry'}
              /\ registry'.vaults = registry.vaults \cup {job.p}
              /\ saved' = [saved EXCEPT ![job.new.owner] = job.new.version]
           \/ job'.at = "undo" /\ UNCHANGED <<durable, registry, saved>>
    BY <1>0, <1>4, <1>6 DEF CommitAdd, Commit, GoOn, At, Job, Saving, SaveIsOpen, Written
  <2>2. /\ job.new.owner \in Owner /\ job.new.owner <= born /\ job.new.is = "whole"
        /\ Live(job.p) = job.new /\ <<job.p, "live">> \notin unsynced
        /\ job.new.version \in Nat
    BY <1>0, <2>1 DEF Kept, AddIsUntold, AddIsAlone, RenamedIsSynced, TypeOK, Job, Content
  <2>3. SavedIsRegistered'
    <3>. SUFFICES ASSUME NEW o \in Owner, saved'[o] > 0, o \notin gone
                  PROVE  \E p \in Profile : Home(p, o)'
      BY <1>0 DEF SavedIsRegistered
    <3>1. CASE saved'[o] = saved[o]
      <4>1. PICK p \in Profile : Home(p, o)
        BY <3>1 DEF Kept, SavedIsRegistered
      <4>2. p \in registry'.vaults /\ (durable' = durable \/ durable' = {registry'})
        BY <2>1, <4>1 DEF Home
      <4>3. Keeps(p, o)'
        BY <1>0, <2>1, <3>1, <4>1 DEF Home, Keeps, Counts, Live
      <4>. QED
        BY <4>1, <4>2, <4>3 DEF Home
    <3>2. CASE saved'[o] # saved[o]
      <4>1. /\ o = job.new.owner /\ saved'[o] = job.new.version
            /\ job.p \in registry'.vaults /\ durable' = {registry'}
        BY <1>0, <2>1, <3>2 DEF TypeOK
      <4>2. Keeps(job.p, o)'
        BY <2>1, <2>2, <4>1 DEF Keeps, Counts, Live
      <4>3. \A p \in Profile : p = job.p => Home(p, o)'
        BY <2>1, <4>1, <4>2 DEF Home
      <4>. QED
        BY <1>0, <4>3
    <3>. QED
      BY <3>1, <3>2
  <2>4. OwnersWereBorn'
    <3>1. \A o \in Owner : saved'[o] = saved[o] \/ o = job.new.owner
      BY <1>0, <2>1 DEF TypeOK
    <3>2. born \in Nat
      BY <1>0 DEF TypeOK
    <3>3. \A o \in Owner : o > born => saved'[o] = 0
      BY <2>2, <3>1, <3>2 DEF Kept, OwnersWereBorn, Owner
    <3>. QED
      BY <1>0, <2>1, <3>3 DEF Kept, OwnersWereBorn
  <2>5. AddIsUntold'
    BY <2>1, <2>2 DEF Kept, AddIsUntold, Live
  <2>. QED
    BY <1>2, <1>3, <2>1, <2>3, <2>4, <2>5 DEF Kept, RenamedIsSynced, OpenIsCommitted, Committed, Locked
<1>7. CASE UndoAdd
  <2>1. /\ job.op = "add" /\ job.at = "undo" /\ job' = NoJob /\ mem' = Missing
        /\ file' = [file EXCEPT ![<<job.p, "live">>] = Missing] /\ unsynced' \subseteq unsynced
        /\ UNCHANGED <<durable, registry, saved, born>>
    BY <1>4, <1>7 DEF UndoAdd, GiveUp, At, Saving, SaveIsOpen, Written
  <2>2. Live(job.p) = job.new /\ saved[job.new.owner] = 0
    BY <2>1 DEF Kept, AddIsUntold
  <2>3. SavedIsRegistered'
    <3>. SUFFICES ASSUME NEW p \in Profile, NEW o \in Owner, saved[o] > 0, Home(p, o) PROVE Home(p, o)'
      BY <1>0, <2>1, HomesStay
    <3>1. <<p, "live">> \in Path /\ <<job.p, "live">> \in Path
      BY <1>0, PathTypes
    <3>2. Counts(o, Live(p)) /\ <<p, "live">> \notin unsynced
      BY <1>1, <3>1 DEF Home, Keeps
    <3>3. p # job.p
      BY <2>2, <3>2 DEF Counts
    <3>4. file'[<<p, "live">>] = file[<<p, "live">>]
      BY <1>0, <2>1, <3>1, <3>3 DEF TypeOK
    <3>. QED
      BY <1>0, <2>1, <3>2, <3>4 DEF Home, Keeps, Counts, Live, NoJob, JobOf
  <2>4. OwnersWereBorn'
    BY <1>0, <1>1, <2>1 DEF Kept, OwnersWereBorn, TypeOK, Missing
  <2>5. job'.op = "none" /\ job'.moves = {}
    BY <2>1 DEF NoJob, JobOf
  <2>. QED
    BY <1>2, <1>3, <2>1, <2>3, <2>4, <2>5 DEF Kept, RenamedIsSynced, OpenIsCommitted, Locked,
       AddIsUntold, Saving
<1>8. CASE FinishAdd
  <2>1. /\ job.op = "add" /\ job.at = "remember" /\ job' = NoJob
        /\ UNCHANGED <<file, unsynced, durable, registry, saved, born>>
    BY <1>8 DEF FinishAdd, At, Saving, SaveIsOpen, diskVars, Written
  <2>2. SavedIsRegistered'
    <3>. SUFFICES ASSUME NEW p \in Profile, NEW o \in Owner, Home(p, o) PROVE Home(p, o)'
      BY <1>0, <2>1, HomesStay
    <3>. QED
      BY <1>0, <2>1 DEF Home, Keeps, Counts, Live
  <2>3. job'.op = "none" /\ job'.moves = {}
    BY <2>1 DEF NoJob, JobOf
  <2>4. OpenIsCommitted'
    BY <2>1, <2>3 DEF Kept, OpenIsCommitted, Committed
  <2>5. OwnersWereBorn'
    BY <1>0, <2>1 DEF Kept, OwnersWereBorn
  <2>. QED
    BY <1>2, <1>3, <2>2, <2>3, <2>4, <2>5 DEF Kept, RenamedIsSynced, AddIsUntold, Saving
<1>. QED
  BY <1>5, <1>6, <1>7, <1>8 DEF Adding

LEMMA UsingKept == ASSUME ~CleanupFails, IInv, Kept, Using PROVE Kept'
<1>. USE DEF IInv
<1>0. /\ TypeOK /\ job = NoJob /\ job.op = "none" /\ job.moves = {}
      /\ UNCHANGED <<file, unsynced, tombs, born, saved, gone>>
  <2>1. job = NoJob
    BY DEF Using, Open, Lock, Edit, Select, Deselect, Idle
  <2>2. UNCHANGED <<file, unsynced, tombs, born, saved, gone>>
    BY DEF Using, Open, Lock, Edit, Select, Deselect, diskVars
  <2>3. job.op = "none" /\ job.moves = {}
    BY <2>1 DEF NoJob, JobOf
  <2>. QED
    BY <2>1, <2>2, <2>3
<1>1. \A q \in Path : tombs[q] = {}
  BY <1>0, NoTombs
<1>2. /\ registry'.vaults = registry.vaults
      /\ \/ durable' = {registry'} \/ UNCHANGED <<durable, registry>>
      /\ mem' # Missing => durable' = {registry'}
  <2>1. CASE Edit
    BY <2>1 DEF Edit, diskVars, Kept, OpenIsCommitted, Committed
  <2>2. CASE Lock
    BY <2>2 DEF Lock, diskVars
  <2>3. CASE Open
    BY <2>3 DEF Open, Commit
  <2>4. CASE (\E p \in Profile : Select(p)) \/ Deselect
    BY <1>0, <2>4 DEF Select, Deselect, Commit, Locked, TypeOK, Registry
  <2>. QED
    BY <2>1, <2>2, <2>3, <2>4 DEF Using
<1>3. job'.op \in {"none", "save"} /\ job'.moves = {} /\ (job'.op = "save" => job'.at = "write")
  <2>1. CASE Edit
    BY <2>1 DEF Edit, JobOf
  <2>2. CASE UNCHANGED job
    BY <1>0, <2>2
  <2>. QED
    BY <2>1, <2>2 DEF Using, Open, Lock, Select, Deselect
<1>4. SavedIsRegistered'
  <2>. SUFFICES ASSUME NEW p \in Profile, NEW o \in Owner, Home(p, o) PROVE Home(p, o)'
    BY <1>0, HomesStay
  <2>. QED
    BY <1>0, <1>2 DEF Home, Keeps, Counts, Live
<1>5. TombsAreMoved' /\ TombsAreMoves' /\ OwnersWereBorn'
  BY <1>0, <1>1, <1>3 DEF TombsAreMoved, TombsAreMoves, Kept, OwnersWereBorn
<1>. QED
  BY <1>2, <1>3, <1>4, <1>5 DEF Kept, RenamedIsSynced, AddIsUntold, RemovalIsStaged,
     OpenIsCommitted, Committed, Saving, Locked

LEMMA RecoveringKept == ASSUME ~CleanupFails, IInv, Kept, Recovering PROVE Kept'
<1>. USE DEF IInv
<1>0. /\ TypeOK /\ job.op \in {"none", "recover"} /\ job.moves = {} /\ Selected \in Profile
      /\ mem' = Missing /\ UNCHANGED <<tombs, durable, registry, born, saved, gone>>
      /\ job'.op \in {"none", "recover"} /\ job'.moves = {}
  BY SelectedType DEF Recovering, Recover, SyncRecovered, Idle, NoJob, JobOf, OpenIsSaved, Locked,
     Kept, TombsAreMoves
<1>1. \A q \in Path : tombs[q] = {}
  BY <1>0, NoTombs
<1>2. /\ \A q \in Path : file'[q] # file[q] =>
           /\ q = <<Selected, "live">> /\ file[q] = Missing
           /\ file'[q] = Torn \/ \E r \in Path : file'[q] = file[r]
      /\ \A q \in Path : q \in unsynced' \ unsynced => q = <<Selected, "live">> /\ file[q] = Missing
  BY <1>0, PathTypes DEF Recovering, Recover, SyncRecovered, Live, Tmp, Bak, TypeOK
<1>3. SavedIsRegistered'
  <2>. SUFFICES ASSUME NEW p \in Profile, NEW o \in Owner, Home(p, o) PROVE Home(p, o)'
    BY <1>0, HomesStay
  <2>1. <<p, "live">> \in Path /\ Counts(o, Live(p)) /\ <<p, "live">> \notin unsynced
    BY <1>1, PathTypes DEF Home, Keeps
  <2>2. file'[<<p, "live">>] = file[<<p, "live">>] /\ <<p, "live">> \notin unsynced'
    BY <1>2, <2>1 DEF Counts, Live, Missing
  <2>. QED
    BY <1>0, <2>1, <2>2 DEF Home, Keeps, Counts, Live
<1>4. OwnersWereBorn'
  <2>1. born \in Nat
    BY <1>0 DEF TypeOK
  <2>2. \A q \in Path : file'[q].owner <= born
    BY <1>2, <2>1 DEF Kept, OwnersWereBorn, Torn
  <2>. QED
    BY <1>0, <2>2 DEF Kept, OwnersWereBorn
<1>. QED
  BY <1>0, <1>1, <1>3, <1>4 DEF Kept, TombsAreMoves, TombsAreMoved, RenamedIsSynced, AddIsUntold,
     RemovalIsStaged, OpenIsCommitted, Saving, Locked

LEMMA RemovingKept == ASSUME ~CleanupFails, IInv, Kept, Removing PROVE Kept'
<1>. USE DEF IInv
<1>0. /\ TypeOK /\ job \in Job /\ job.p \in Profile /\ mem' = Missing
      /\ UNCHANGED <<born, saved>> /\ gone \subseteq gone'
  BY DEF Removing, BeginRemove, Stage, Undo, CommitRemove, Clean, OpenIsSaved, NoJob, JobOf,
     TypeOK, Job, Locked
<1>1. ASSUME job'.op \in {"none", "remove"} PROVE RenamedIsSynced' /\ AddIsUntold' /\ OpenIsCommitted'
  BY <1>0, <1>1 DEF RenamedIsSynced, AddIsUntold, OpenIsCommitted, Saving, Locked
<1>2. ASSUME UNCHANGED <<file, unsynced, tombs, durable, registry, gone>>, job.op # "off",
             job'.op \in {"none", "remove"}, job'.moves = job.moves,
             job'.op = "none" => job.moves = {}
      PROVE  SavedIsRegistered' /\ TombsAreMoves' /\ TombsAreMoved' /\ OwnersWereBorn'
  <2>1. SavedIsRegistered'
    <3>. SUFFICES ASSUME NEW p \in Profile, NEW o \in Owner, Home(p, o) PROVE Home(p, o)'
      BY <1>0, HomesStay
    <3>. QED
      BY <1>0, <1>2 DEF Home, Keeps, Counts, Live
  <2>. QED
    BY <1>0, <1>2, <2>1 DEF Kept, TombsAreMoves, TombsAreMoved, OwnersWereBorn
<1>3. ASSUME NEW p \in Profile, BeginRemove(p) PROVE Kept'
  <2>1. /\ UNCHANGED <<file, unsynced, tombs, durable, registry, gone>> /\ job.op = "none"
        /\ job.moves = {} /\ job'.op = "remove" /\ job'.moves = {} /\ job'.at = "live"
        /\ durable # {}
    BY <1>3 DEF BeginRemove, diskVars, Idle, NoJob, JobOf
  <2>2. RemovalIsStaged'
    BY <2>1 DEF RemovalIsStaged, Kind
  <2>. QED
    BY <1>1, <1>2, <2>1, <2>2 DEF Kept
<1>4. CASE Stage
  <2>. DEFINE path == <<job.p, job.at>>
  <2>1. /\ job.op = "remove" /\ job.at \in Kind /\ path \in Path
        /\ <<job.p, "live">> \in Path
        /\ UNCHANGED <<durable, registry, gone>>
    BY <1>0, <1>4, PathTypes DEF Stage, Path
  <2>2. AfterStaging(job.at) \in {"bak", "tmp", "commit"}
    BY <2>1 DEF AfterStaging, Kind
  <2>3. ASSUME UNCHANGED <<file, unsynced, tombs>>, job'.op = "remove", job'.moves = job.moves,
               job'.p = job.p,
               job'.at = "undo" \/ (job'.at = AfterStaging(job.at) /\ file[path] = Missing)
        PROVE  Kept'
    <3>1. RemovalIsStaged'
      BY <2>1, <2>2, <2>3 DEF Kept, RemovalIsStaged, Live, Kind, AfterStaging
    <3>. QED
      BY <1>1, <1>2, <2>1, <2>3, <3>1 DEF Kept
  <2>4. CASE UNCHANGED <<file, unsynced, tombs>>
    <3>1. \/ file[path] = Missing /\ job' = [job EXCEPT !.at = AfterStaging(@)]
          \/ job' = [job EXCEPT !.at = "undo"]
      BY <1>0, <1>4, <2>1, <2>4 DEF Stage, TypeOK
    <3>2. /\ job'.op = "remove" /\ job'.moves = job.moves /\ job'.p = job.p
          /\ job'.at = "undo" \/ (job'.at = AfterStaging(job.at) /\ file[path] = Missing)
      BY <1>0, <2>1, <3>1 DEF Job
    <3>. QED
      BY <2>3, <2>4, <3>2
  <2>5. CASE /\ file[path] # Missing
             /\ file' = [file EXCEPT ![path] = Missing]
             /\ unsynced' = unsynced \ {path}
             /\ tombs' = [tombs EXCEPT ![path] = @ \cup {file[path]}]
             /\ job' = [job EXCEPT !.at = AfterStaging(@),
                                   !.moves = @ \cup {<<path, file[path]>>}]
    <3>. DEFINE c == file[path]
    <3>1. /\ job'.op = "remove" /\ job'.p = job.p /\ job'.at = AfterStaging(job.at)
          /\ job'.moves = job.moves \cup {<<path, c>>}
      BY <1>0, <2>1, <2>5 DEF Job
    <3>2. tombs[path] = {} /\ c \in Content /\ durable # {}
      BY <1>0, <2>1, <2>5 DEF Kept, TombsAreMoved, RemovalIsStaged, TypeOK
    <3>3. /\ tombs'[path] = {c} /\ file'[path] = Missing
          /\ \A q \in Path : q # path => tombs'[q] = tombs[q] /\ file'[q] = file[q]
      BY <1>0, <2>1, <2>5, <3>2 DEF TypeOK
    <3>4. SavedIsRegistered'
      <4>. SUFFICES ASSUME NEW p \in Profile, NEW o \in Owner, Home(p, o) PROVE Home(p, o)'
        BY <1>0, HomesStay
      <4>. HIDE DEF path
      <4>1. CASE path = <<p, "live">>
        BY <1>0, <2>1, <3>1, <3>2, <3>3, <4>1 DEF Home, Keeps, Counts, Live
      <4>2. CASE path # <<p, "live">>
        BY <1>0, <2>1, <2>5, <3>1, <3>3, <4>2, PathTypes DEF Home, Keeps, Counts, Live
      <4>. QED
        BY <4>1, <4>2
    <3>5. TombsAreMoves' /\ TombsAreMoved' /\ OwnersWereBorn'
      <4>1. c.owner <= born
        BY <2>1 DEF Kept, OwnersWereBorn
      <4>2. 0 <= born
        BY <1>0 DEF TypeOK
      <4>. HIDE DEF path, c
      <4>3. TombsAreMoves'
        BY <2>1, <3>1, <3>2, <3>3 DEF Kept, TombsAreMoves
      <4>4. TombsAreMoved'
        BY <2>1, <2>5, <3>2, <3>3 DEF Kept, TombsAreMoved
      <4>5. OwnersWereBorn'
        BY <1>0, <2>1, <3>3, <4>1, <4>2 DEF Kept, OwnersWereBorn, Missing
      <4>. QED
        BY <4>3, <4>4, <4>5
    <3>6. RemovalIsStaged'
      BY <2>1, <2>2, <3>1, <3>2, <3>3 DEF Kept, RemovalIsStaged, Live, Kind, AfterStaging
    <3>. QED
      BY <1>1, <3>1, <3>4, <3>5, <3>6 DEF Kept
  <2>. QED
    BY <1>4, <2>4, <2>5 DEF Stage
<1>5. CASE Undo
  <2>1. /\ job.op = "remove" /\ job.at = "undo"
        /\ UNCHANGED <<unsynced, durable, registry, gone>>
    BY <1>5 DEF Undo
  <2>2. CASE job.moves = {}
    <3>1. UNCHANGED <<file, tombs>> /\ job'.op = "none" /\ job'.moves = {}
      BY <1>5, <2>2 DEF Undo, NoJob, JobOf
    <3>. QED
      BY <1>1, <1>2, <2>1, <2>2, <3>1 DEF Kept, RemovalIsStaged
  <2>3. ASSUME NEW t \in job.moves, job' = [job EXCEPT !.moves = @ \ {t}],
               file' = [file EXCEPT ![t[1]] = t[2]], tombs' = [tombs EXCEPT ![t[1]] = @ \ {t[2]}]
        PROVE  Kept'
    <3>. DEFINE q == t[1]
                c == t[2]
    <3>1. q \in Path /\ c \in Content /\ t = <<q, c>>
      BY <1>0, MoveType
    <3>2. /\ job'.op = "remove" /\ job'.p = job.p /\ job'.at = "undo"
          /\ job'.moves = job.moves \ {t}
      BY <1>0, <2>1, <2>3 DEF Job
    <3>3. c \in tombs[q] /\ q \notin unsynced /\ durable # {} /\ \A d \in tombs[q] : d = c
      BY <2>1, <3>1 DEF Kept, TombsAreMoves, TombsAreMoved
    <3>4. /\ tombs'[q] = {} /\ file'[q] = c
          /\ \A r \in Path : r # q => tombs'[r] = tombs[r] /\ file'[r] = file[r]
      BY <1>0, <2>3, <3>1, <3>3 DEF TypeOK
    <3>. HIDE DEF q, c
    <3>5. SavedIsRegistered'
      <4>. SUFFICES ASSUME NEW p \in Profile, NEW o \in Owner, Home(p, o) PROVE Home(p, o)'
        BY <1>0, <2>1, HomesStay
      <4>1. <<p, "live">> \in Path
        BY PathTypes
      <4>2. CASE q = <<p, "live">>
        <5>1. Counts(o, c)
          BY <1>0, <2>1, <3>1, <3>3, <4>1, <4>2 DEF Home, Keeps, Counts, Live, Missing,
             Kept, TombsAreMoved
        <5>. QED
          BY <1>0, <2>1, <3>2, <3>3, <3>4, <4>1, <4>2, <5>1 DEF Home, Keeps, Counts, Live
      <4>3. CASE q # <<p, "live">>
        BY <1>0, <2>1, <3>2, <3>4, <4>1, <4>3 DEF Home, Keeps, Counts, Live
      <4>. QED
        BY <4>2, <4>3
    <3>6. TombsAreMoves'
      BY <2>1, <3>1, <3>2, <3>3, <3>4 DEF Kept, TombsAreMoves
    <3>7. TombsAreMoved'
      BY <2>1, <3>1, <3>3, <3>4 DEF Kept, TombsAreMoved
    <3>8. OwnersWereBorn'
      <4>1. c.owner <= born
        BY <3>1, <3>3 DEF Kept, OwnersWereBorn
      <4>. QED
        BY <1>0, <3>1, <3>4, <4>1 DEF Kept, OwnersWereBorn
    <3>9. RemovalIsStaged'
      BY <2>1, <3>2 DEF Kept, RemovalIsStaged, Kind
    <3>. QED
      BY <1>1, <3>2, <3>5, <3>6, <3>7, <3>8, <3>9 DEF Kept
  <2>. QED
    BY <1>5, <2>2, <2>3 DEF Undo
<1>6. CASE CommitRemove
  <2>1. /\ job.op = "remove" /\ job.at = "commit" /\ UNCHANGED <<file, unsynced, tombs>>
        /\ job'.op = "remove" /\ job'.moves = job.moves /\ job'.p = job.p
        /\ Live(job.p) = Missing
    BY <1>0, <1>6 DEF CommitRemove, Job, Kept, RemovalIsStaged
  <2>2. CASE UNCHANGED <<durable, registry, gone>> /\ job' = [job EXCEPT !.at = "undo"]
    <3>1. job'.at = "undo"
      BY <1>0, <2>2 DEF Job
    <3>2. RemovalIsStaged'
      BY <2>1, <2>2, <3>1 DEF Kept, RemovalIsStaged, Kind
    <3>. QED
      BY <1>1, <1>2, <2>1, <2>2, <3>2 DEF Kept
  <2>3. CASE /\ durable' = {registry'} /\ registry'.vaults = registry.vaults \ {job.p}
             /\ gone' = gone \cup {o \in Owner : \E k \in Kind : \E c \in tombs[<<job.p, k>>] :
                                    c.owner = o}
             /\ job'.at = "clean"
    <3>1. SavedIsRegistered'
      <4>. SUFFICES ASSUME NEW p \in Profile, NEW o \in Owner, o \notin gone', Home(p, o)
                    PROVE  Home(p, o)'
        BY <1>0, HomesStay
      <4>1. p # job.p
        BY <2>1, <2>3 DEF Home, Keeps, Counts, Live, Missing, Kind
      <4>2. p \in registry'.vaults
        BY <2>1, <2>3, <4>1 DEF Home
      <4>. QED
        BY <1>0, <2>1, <2>3, <4>2 DEF Home, Keeps, Counts, Live
    <3>2. TombsAreMoves' /\ TombsAreMoved' /\ OwnersWereBorn'
      BY <1>0, <2>1, <2>3 DEF Kept, TombsAreMoves, TombsAreMoved, OwnersWereBorn
    <3>3. RemovalIsStaged'
      BY <2>1, <2>3 DEF RemovalIsStaged
    <3>. QED
      BY <1>1, <2>1, <3>1, <3>2, <3>3 DEF Kept
  <2>. QED
    BY <1>0, <1>6, <2>2, <2>3 DEF CommitRemove, Commit, Job
<1>7. CASE Clean
  <2>1. /\ job.op = "remove" /\ job.at = "clean" /\ job.p \notin registry.vaults
        /\ UNCHANGED <<file, unsynced, durable, registry, gone>>
    BY <1>7 DEF Clean, Kept, RemovalIsStaged
  <2>2. CASE job.moves = {}
    <3>1. UNCHANGED tombs /\ job'.op = "none" /\ job'.moves = {}
      BY <1>7, <2>2 DEF Clean, NoJob, JobOf
    <3>. QED
      BY <1>1, <1>2, <2>1, <2>2, <3>1 DEF Kept, RemovalIsStaged
  <2>3. ASSUME NEW t \in job.moves, job' = [job EXCEPT !.moves = @ \ {t}],
               tombs' = [tombs EXCEPT ![t[1]] = @ \ {t[2]}]
        PROVE  Kept'
    <3>. DEFINE q == t[1]
                c == t[2]
    <3>1. q \in Path /\ c \in Content /\ t = <<q, c>> /\ q[1] = job.p
      BY <1>0, <2>1, MoveType DEF MovesAreOnce
    <3>2. /\ job'.op = "remove" /\ job'.p = job.p /\ job'.at = "clean"
          /\ job'.moves = job.moves \ {t}
      BY <1>0, <2>1, <2>3 DEF Job
    <3>3. /\ tombs'[q] = tombs[q] \ {c}
          /\ \A r \in Path : r # q => tombs'[r] = tombs[r]
      BY <1>0, <2>3, <3>1 DEF TypeOK
    <3>. HIDE DEF q, c
    <3>4. SavedIsRegistered'
      <4>. SUFFICES ASSUME NEW p \in Profile, NEW o \in Owner, Home(p, o) PROVE Home(p, o)'
        BY <1>0, <2>1, HomesStay
      <4>1. p # job.p /\ <<p, "live">> \in Path
        BY <2>1, PathTypes DEF Home
      <4>. QED
        BY <1>0, <2>1, <3>1, <3>2, <3>3, <4>1 DEF Home, Keeps, Counts, Live
    <3>5. TombsAreMoves'
      BY <2>1, <3>1, <3>2, <3>3 DEF Kept, TombsAreMoves
    <3>6. TombsAreMoved' /\ OwnersWereBorn'
      <4>1. \A r \in Path : tombs'[r] \subseteq tombs[r]
        BY <3>3
      <4>. QED
        BY <1>0, <2>1, <4>1 DEF Kept, TombsAreMoved, OwnersWereBorn
    <3>7. RemovalIsStaged'
      BY <2>1, <3>2 DEF Kept, RemovalIsStaged
    <3>. QED
      BY <1>1, <3>2, <3>4, <3>5, <3>6, <3>7 DEF Kept
  <2>. QED
    BY <1>7, <2>2, <2>3 DEF Clean
<1>. QED
  BY <1>3, <1>4, <1>5, <1>6, <1>7 DEF Removing

-----------------------------------------------------------------------------
LEMMA KeptStep == ASSUME ~CleanupFails PROVE IInv /\ Kept /\ [Next]_vars => Kept'
<1>1. ASSUME Kept, UNCHANGED vars PROVE Kept'
  BY <1>1 DEF vars, diskVars, Kept, SavedIsRegistered, Home, Keeps, Counts, Live, TombsAreMoves,
     TombsAreMoved, RenamedIsSynced, Saving, OwnersWereBorn, AddIsUntold, RemovalIsStaged,
     OpenIsCommitted, Committed, Locked
<1>. QED
  BY <1>1, NextCases, StartingKept, PersistingKept, AddingKept, UsingKept, RecoveringKept,
     RemovingKept

\* If nothing fails that nobody looks at, then every vault that was reported
\* as saved, and whose removal was not committed, is at the live path of a
\* profile or in a tombstone of it, at that version or a later one: through
\* failed operations, stops and losses of power at any point.
THEOREM SavedVaultsAreKept == ASSUME ~CleanupFails PROVE Spec => []NothingSavedIsLost
<1>1. Kept => NothingSavedIsLost
  BY DEF Kept, SavedIsRegistered, Home, Keeps, Counts, NothingSavedIsLost
<1>2. IInv /\ Kept /\ [Next]_vars => Kept'
  BY KeptStep
<1>. QED
  BY <1>1, <1>2, KeptInit, InvHolds, PTL DEF Spec
=============================================================================

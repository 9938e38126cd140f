----------------------------- MODULE VaultFiles -----------------------------
(***************************************************************************)
(* The files of the desktop app: apps/desktop/src-tauri/src/state.rs.      *)
(*                                                                         *)
(* A vault is one sealed file, with a backup and a temporary file beside   *)
(* it; a registry says which vaults there are and which one is selected.   *)
(* Creating, saving, recovering and removing a vault are several file      *)
(* operations each.  Any of them may fail, and the process may stop, or    *)
(* the machine lose power, between any two.  No two of these jobs overlap: *)
(* a save holds the vault's mutex, and the others run on the main thread   *)
(* while nothing is unlocked.                                              *)
(*                                                                         *)
(* A sealed file is the vault it belongs to and how many changes it has    *)
(* seen.  Rename and remove are atomic and stay in order.  Bytes that were *)
(* written and not synced may be torn by a loss of power; a write that     *)
(* fails half-way leaves the file torn.  A torn file does not parse.       *)
(***************************************************************************)
EXTENDS Naturals

CONSTANTS
  Profile,         \* profile ids; a profile's file name is derived from its id
  Default,         \* DEFAULT_VAULT_ID, whose file is vault.yara
  NoProfile,       \* VaultRegistry.selected = None
  MaxOwner,        \* bound: how many vaults are ever created
  MaxVersion,      \* bound: how many changes one vault sees
  Legacy,          \* whether the app starts on a vault older than the registry
  CleanupFails     \* whether an operation may fail whose error nothing acts on

ASSUME ProfileAssumption == Default \in Profile /\ NoProfile \notin Profile
ASSUME BoundAssumption == MaxOwner \in Nat \ {0} /\ MaxVersion \in Nat \ {0}
ASSUME ChoiceAssumption == Legacy \in BOOLEAN /\ CleanupFails \in BOOLEAN

Owner == 1 .. MaxOwner
Kind == {"live", "bak", "tmp"}
Path == Profile \X Kind

Sealed(o, v) == [is |-> "whole", owner |-> o, version |-> v]
Missing == [is |-> "missing", owner |-> 0, version |-> 0]
Torn == [is |-> "torn", owner |-> 0, version |-> 0]

Content == [is : {"whole", "torn", "missing"}, owner : Nat, version : Nat]

Registry == [selected : Profile \cup {NoProfile}, vaults : SUBSET Profile]

VARIABLES
  file,        \* file[p]: what is at a path
  unsynced,    \* paths whose bytes may not have reached the disk
  tombs,       \* tombs[p]: what deletion tombstones of a path hold
  durable,     \* vaults.json: the registry in it, or {} if never written
  registry,    \* AppState.registry
  mem,         \* the unlocked vault as it would be sealed; Missing if locked
  job,         \* what the process is in the middle of
  born,        \* how many vaults were ever created
  saved,       \* history: saved[o] is the last version reported as saved
  gone         \* history: vaults whose removal is committed

diskVars == <<file, unsynced, tombs, durable>>
vars == <<diskVars, registry, mem, job, born, saved, gone>>

Job == [op : {"none", "off", "add", "save", "recover", "remove", "reconcile"},
        at : {"none", "write", "sync", "copy", "syncbak", "rename", "commit",
              "undo", "remember", "clean"} \cup Kind,
        p : Profile,
        new : Content,
        moves : SUBSET (Path \X Content)]

\* A job is what it is and how far it got; what it writes and where; and the
\* files it has moved to tombstones, or finds there.
JobOf(op, at, p, new, moves) ==
  [op |-> op, at |-> at, p |-> p, new |-> new, moves |-> moves]

NoJob == JobOf("none", "none", Default, Missing, {})
Off == JobOf("off", "none", Default, Missing, {})

TypeOK ==
  /\ file \in [Path -> Content]
  /\ unsynced \in SUBSET Path
  /\ tombs \in [Path -> SUBSET Content]
  /\ durable = {} \/ \E reg \in Registry : durable = {reg}
  /\ registry \in Registry
  /\ mem \in Content
  /\ job \in Job
  /\ born \in Nat
  /\ saved \in [Owner -> Nat]
  /\ gone \in SUBSET Owner

Empty == [selected |-> NoProfile, vaults |-> {}]

Live(p) == file[<<p, "live">>]
Bak(p) == file[<<p, "bak">>]
Tmp(p) == file[<<p, "tmp">>]

\* startup_for.
StartupFor(p) ==
  IF Live(p) # Missing THEN "Locked"
  ELSE IF Bak(p) # Missing \/ Tmp(p) # Missing THEN "Recover"
  ELSE "Setup"

\* vault_path.
Selected == IF registry.selected \in registry.vaults
              THEN registry.selected ELSE Default

Idle == job = NoJob
Locked == mem = Missing

Init ==
  /\ file = [p \in Path |->
       IF Legacy /\ p = <<Default, "live">> THEN Sealed(1, 1) ELSE Missing]
  /\ unsynced = {}
  /\ tombs = [p \in Path |-> {}]
  /\ durable = {}
  /\ registry = Empty
  /\ mem = Missing
  /\ job = Off
  /\ born = IF Legacy THEN 1 ELSE 0
  /\ saved = [o \in Owner |-> IF Legacy /\ o = 1 THEN 1 ELSE 0]
  /\ gone = {}

-----------------------------------------------------------------------------
(* Starting and stopping.                                                  *)

\* add_legacy_profile_if_present.
WithLegacy(reg) ==
  IF StartupFor(Default) = "Setup" \/ Default \in reg.vaults THEN reg
  ELSE [vaults |-> reg.vaults \cup {Default},
        selected |-> IF reg.selected = NoProfile THEN Default ELSE reg.selected]

\* load_registry.  Without a registry, vault files in the directory are
\* registered under the ids in their names.
Loaded ==
  IF durable # {} THEN WithLegacy(CHOOSE reg \in Registry : durable = {reg})
  ELSE LET found == WithLegacy(Empty).vaults
                      \cup {p \in Profile \ {Default} : Live(p) # Missing}
       IN [vaults |-> found,
           selected |->
             IF Default \in found THEN Default
             ELSE IF \E p \in Profile : found = {p}
               THEN CHOOSE p \in Profile : found = {p}
             ELSE NoProfile]

\* AppState::new; reconcile_deletion_tombstones is still to come.
Launch ==
  /\ job = Off
  /\ registry' = Loaded
  /\ job' = JobOf("reconcile", "none", Default, Missing,
                  {t \in Path \X UNION {tombs[p] : p \in Path} :
                     t[2] \in tombs[t[1]]})
  /\ UNCHANGED <<diskVars, mem, born, saved, gone>>

\* One tombstone of the directory: back to its path, if a profile owns the
\* path and nothing is there, or else deleted.  Errors are ignored.
Reconcile(t) ==
  /\ job.op = "reconcile"
  /\ job' = [job EXCEPT !.moves = @ \ {t}]
  /\ IF t[1][1] \in registry.vaults /\ file[t[1]] = Missing
       THEN \/ /\ file' = [file EXCEPT ![t[1]] = t[2]]
               /\ tombs' = [tombs EXCEPT ![t[1]] = @ \ {t[2]}]
            \/ CleanupFails /\ UNCHANGED <<file, tombs>>
       ELSE /\ UNCHANGED file
            /\ \/ tombs' = [tombs EXCEPT ![t[1]] = @ \ {t[2]}]
               \/ CleanupFails /\ UNCHANGED tombs
  /\ UNCHANGED <<unsynced, durable, registry, mem, born, saved, gone>>

Reconciled ==
  /\ job.op = "reconcile" /\ job.moves = {}
  /\ job' = NoJob
  /\ UNCHANGED <<diskVars, registry, mem, born, saved, gone>>

\* The process stops, or the machine does: memory is gone, and what was not
\* synced may be torn.
Crash ==
  /\ job # Off
  /\ \E torn \in SUBSET unsynced :
       file' = [p \in Path |-> IF p \in torn THEN Torn ELSE file[p]]
  /\ unsynced' = {}
  /\ mem' = Missing
  /\ job' = Off
  /\ UNCHANGED <<tombs, durable, registry, born, saved, gone>>

-----------------------------------------------------------------------------
(* persist_at: the temporary file, the backup, the rename.                 *)

Saving == job.op \in {"add", "save"}

At(step) == Saving /\ job.at = step

GoOn(step) == job' = [job EXCEPT !.at = step]

\* An error ends the job.  Nothing cleans up after it.
GiveUp ==
  /\ job' = NoJob
  /\ UNCHANGED <<tombs, durable, registry, mem, born, saved, gone>>

\* write_durably of the temporary file, the bytes.
WriteTmp ==
  LET tmp == <<job.p, "tmp">> IN
  /\ At("write")
  /\ \/ /\ file' = [file EXCEPT ![tmp] = job.new]
        /\ unsynced' = unsynced \cup {tmp}
        /\ GoOn("sync")
        /\ UNCHANGED <<tombs, durable, registry, mem, born, saved, gone>>
     \/ /\ \E left \in {Tmp(job.p), Torn} : file' = [file EXCEPT ![tmp] = left]
        /\ UNCHANGED unsynced
        /\ GiveUp

\* Mutation of SyncTmp: the rename goes ahead with unsynced bytes.
SyncTmpSkipped ==
  /\ At("sync")
  /\ GoOn(IF Live(job.p) = Missing THEN "rename" ELSE "copy")
  /\ UNCHANGED <<diskVars, registry, mem, born, saved, gone>>

\* write_durably, the sync.
SyncTmp ==
  /\ At("sync")
  /\ UNCHANGED file
  /\ \/ /\ unsynced' = unsynced \ {<<job.p, "tmp">>}
        /\ GoOn(IF Live(job.p) = Missing THEN "rename" ELSE "copy")
        /\ UNCHANGED <<tombs, durable, registry, mem, born, saved, gone>>
     \/ UNCHANGED unsynced /\ GiveUp

\* fs::copy of the live file to the backup.
CopyBackup ==
  LET bak == <<job.p, "bak">> IN
  /\ At("copy")
  /\ \/ /\ file' = [file EXCEPT ![bak] = Live(job.p)]
        /\ unsynced' = unsynced \cup {bak}
        /\ GoOn("syncbak")
        /\ UNCHANGED <<tombs, durable, registry, mem, born, saved, gone>>
     \/ /\ \E left \in {Bak(job.p), Torn} : file' = [file EXCEPT ![bak] = left]
        /\ UNCHANGED unsynced
        /\ GiveUp

\* The sync of the backup.
SyncBackup ==
  /\ At("syncbak")
  /\ UNCHANGED file
  /\ \/ /\ unsynced' = unsynced \ {<<job.p, "bak">>}
        /\ GoOn("rename")
        /\ UNCHANGED <<tombs, durable, registry, mem, born, saved, gone>>
     \/ UNCHANGED unsynced /\ GiveUp

\* The rename over the live file.  A save is then reported as done; a new
\* vault is still to be registered.
Rename ==
  LET tmp == <<job.p, "tmp">>
      live == <<job.p, "live">>
  IN /\ At("rename")
     /\ \/ /\ file' = [file EXCEPT ![live] = Tmp(job.p), ![tmp] = Missing]
           /\ unsynced' = (unsynced \ {tmp, live})
                            \cup IF tmp \in unsynced THEN {live} ELSE {}
           /\ IF job.op = "save"
                THEN /\ job' = NoJob
                     /\ saved' = [saved EXCEPT ![job.new.owner] = job.new.version]
                ELSE GoOn("commit") /\ UNCHANGED saved
           /\ UNCHANGED <<tombs, durable, registry, mem, born, gone>>
        \/ UNCHANGED <<file, unsynced>> /\ GiveUp

-----------------------------------------------------------------------------
(* Profiles.                                                               *)

\* write_registry, which replaces vaults.json in one rename.
Commit(reg) == durable' = {reg} /\ registry' = reg

\* create_vault and add_profile.  The first vault is Default, any other gets
\* an id nobody has used.  The setup screen is shown while nothing is open.
BeginAdd(p) ==
  /\ Idle /\ Locked /\ born < MaxOwner
  /\ IF registry.vaults = {} THEN p = Default
     ELSE p # Default /\ p \notin registry.vaults
            /\ \A k \in Kind : tombs[<<p, k>>] = {}
  /\ StartupFor(p) = "Setup"
  /\ born' = born + 1
  /\ job' = JobOf("add", "write", p, Sealed(born + 1, 1), {})
  /\ UNCHANGED <<diskVars, registry, mem, saved, gone>>

\* add_profile, the registry; its failure takes the new file away again.
CommitAdd ==
  /\ At("commit")
  /\ \/ /\ Commit([selected |-> job.p, vaults |-> registry.vaults \cup {job.p}])
        /\ saved' = [saved EXCEPT ![job.new.owner] = job.new.version]
        /\ GoOn("remember")
     \/ UNCHANGED <<durable, registry, saved>> /\ GoOn("undo")
  /\ UNCHANGED <<file, unsynced, tombs, mem, born, gone>>

\* The removal of a file whose registration failed, whose own failure is
\* ignored.
UndoAdd ==
  /\ At("undo")
  /\ \/ /\ file' = [file EXCEPT ![<<job.p, "live">>] = Missing]
        /\ unsynced' = unsynced \ {<<job.p, "live">>}
     \/ CleanupFails /\ UNCHANGED <<file, unsynced>>
  /\ GiveUp

\* set_remembered, which may fail, and set_vault.
FinishAdd ==
  /\ At("remember")
  /\ mem' \in {Missing, job.new}
  /\ job' = NoJob
  /\ UNCHANGED <<diskVars, registry, born, saved, gone>>

\* unlock_vault.  set_remembered writes the registry before the vault opens.
Open ==
  /\ Idle /\ Locked
  /\ registry.selected \in registry.vaults
  /\ Live(registry.selected).is = "whole"
  /\ mem' = Live(registry.selected)
  /\ Commit(registry)
  /\ UNCHANGED <<file, unsynced, tombs, job, born, saved, gone>>

\* clear.
Lock ==
  /\ Idle /\ ~Locked
  /\ mem' = Missing
  /\ UNCHANGED <<diskVars, registry, job, born, saved, gone>>

\* Any change to the open vault, and the save that follows.
Edit ==
  /\ Idle /\ ~Locked /\ mem.version < MaxVersion
  /\ mem' = [mem EXCEPT !.version = @ + 1]
  /\ job' = JobOf("save", "write", Selected, mem', {})
  /\ UNCHANGED <<diskVars, registry, born, saved, gone>>

\* Mutation of Select: with a vault open.
SelectWhileOpen(p) ==
  /\ Idle
  /\ p \in registry.vaults
  /\ Commit([registry EXCEPT !.selected = p])
  /\ UNCHANGED <<file, unsynced, tombs, mem, job, born, saved, gone>>

\* select_profile.
Select(p) ==
  /\ Idle /\ Locked
  /\ p \in registry.vaults
  /\ Commit([registry EXCEPT !.selected = p])
  /\ UNCHANGED <<file, unsynced, tombs, mem, job, born, saved, gone>>

\* deselect_profile, after the lock of choose_another_vault.
Deselect ==
  /\ Idle /\ Locked
  /\ Commit([registry EXCEPT !.selected = NoProfile])
  /\ UNCHANGED <<file, unsynced, tombs, mem, job, born, saved, gone>>

\* Mutation of Recover: over whatever is at the live path.
RecoverOverLive ==
  LET live == <<Selected, "live">>
  IN /\ Idle /\ Locked
     /\ registry.selected \in registry.vaults
     /\ Bak(Selected).is = "whole"
     /\ file' = [file EXCEPT ![live] = Bak(Selected)]
     /\ unsynced' = unsynced \cup {live}
     /\ job' = JobOf("recover", "sync", Selected, Bak(Selected), {})
     /\ UNCHANGED <<tombs, durable, registry, mem, born, saved, gone>>

\* recover: the temporary file if it parses, or else the backup, written to
\* the live path.  The screen that offers it is shown for a selected profile.
Recover ==
  LET candidates == IF Tmp(Selected).is = "whole" THEN {Tmp(Selected)}
                    ELSE IF Bak(Selected).is = "whole" THEN {Bak(Selected)}
                    ELSE {}
      live == <<Selected, "live">>
  IN /\ Idle /\ Locked
     /\ registry.selected \in registry.vaults
     /\ Live(Selected) = Missing
     /\ \E c \in candidates :
          \/ /\ file' = [file EXCEPT ![live] = c]
             /\ unsynced' = unsynced \cup {live}
             /\ job' = JobOf("recover", "sync", Selected, c, {})
          \/ /\ file' = [file EXCEPT ![live] = Torn]
             /\ UNCHANGED <<unsynced, job>>
     /\ UNCHANGED <<tombs, durable, registry, mem, born, saved, gone>>

\* The sync of the recovered file; its failure is reported and undoes nothing.
SyncRecovered ==
  /\ job.op = "recover"
  /\ unsynced' \in {unsynced, unsynced \ {<<job.p, "live">>}}
  /\ job' = NoJob
  /\ UNCHANGED <<file, tombs, durable, registry, mem, born, saved, gone>>

-----------------------------------------------------------------------------
(* remove_profile.                                                         *)

\* The picker offers it, and the picker is only reached by way of
\* deselect_profile or an unlock, which write the registry.
BeginRemove(p) ==
  /\ Idle /\ Locked
  /\ durable # {}
  /\ p \in registry.vaults
  /\ job' = JobOf("remove", "live", p, Missing, {})
  /\ UNCHANGED <<diskVars, registry, mem, born, saved, gone>>

\* The order the three files of a vault are moved in.
Order == [live |-> 1, bak |-> 2, tmp |-> 3]

AfterStaging(k) ==
  CASE k = "live" -> "bak" [] k = "bak" -> "tmp" [] k = "tmp" -> "commit"

\* The live file, the backup and the temporary file move to tombstones, one
\* after the other; an error rolls them back.
Stage ==
  /\ job.op = "remove" /\ job.at \in Kind
  /\ LET path == <<job.p, job.at>> IN
     \/ /\ file[path] = Missing
        /\ job' = [job EXCEPT !.at = AfterStaging(@)]
        /\ UNCHANGED <<file, unsynced, tombs>>
     \/ /\ file[path] # Missing
        /\ file' = [file EXCEPT ![path] = Missing]
        /\ unsynced' = unsynced \ {path}
        /\ tombs' = [tombs EXCEPT ![path] = @ \cup {file[path]}]
        /\ job' = [job EXCEPT !.at = AfterStaging(@),
                              !.moves = @ \cup {<<path, file[path]>>}]
     \/ /\ file[path] # Missing
        /\ job' = [job EXCEPT !.at = "undo"]
        /\ UNCHANGED <<file, unsynced, tombs>>
  /\ UNCHANGED <<durable, registry, mem, born, saved, gone>>

\* rollback_staged_files, the newest move first; errors are ignored.
Undo ==
  /\ job.op = "remove" /\ job.at = "undo"
  /\ IF job.moves = {} THEN job' = NoJob /\ UNCHANGED <<file, tombs>>
     ELSE \E t \in job.moves :
            /\ \A u \in job.moves : Order[u[1][2]] <= Order[t[1][2]]
            /\ job' = [job EXCEPT !.moves = @ \ {t}]
            /\ \/ /\ file' = [file EXCEPT ![t[1]] = t[2]]
                  /\ tombs' = [tombs EXCEPT ![t[1]] = @ \ {t[2]}]
               \/ CleanupFails /\ UNCHANGED <<file, tombs>>
  /\ UNCHANGED <<unsynced, durable, registry, mem, born, saved, gone>>

\* The registry without the profile: from here on the removal counts.
CommitRemove ==
  /\ job.op = "remove" /\ job.at = "commit"
  /\ \/ /\ Commit([selected |-> IF registry.selected = job.p THEN NoProfile
                                ELSE registry.selected,
                   vaults |-> registry.vaults \ {job.p}])
        /\ gone' = gone \cup
             {o \in Owner : \E k \in Kind : \E c \in tombs[<<job.p, k>>] :
                c.owner = o}
        /\ job' = [job EXCEPT !.at = "clean"]
     \/ /\ UNCHANGED <<durable, registry, gone>>
        /\ job' = [job EXCEPT !.at = "undo"]
  /\ UNCHANGED <<file, unsynced, tombs, mem, born, saved>>

\* The tombstones go; one that cannot be deleted is reported and stays.
Clean ==
  /\ job.op = "remove" /\ job.at = "clean"
  /\ IF job.moves = {} THEN job' = NoJob /\ UNCHANGED tombs
     ELSE \E t \in job.moves :
            /\ job' = [job EXCEPT !.moves = @ \ {t}]
            /\ \/ tombs' = [tombs EXCEPT ![t[1]] = @ \ {t[2]}]
               \/ CleanupFails /\ UNCHANGED tombs
  /\ UNCHANGED <<file, unsynced, durable, registry, mem, born, saved, gone>>

-----------------------------------------------------------------------------
Next ==
  \/ Launch \/ (\E t \in job.moves : Reconcile(t)) \/ Reconciled \/ Crash
  \/ WriteTmp \/ SyncTmp \/ CopyBackup \/ SyncBackup \/ Rename
  \/ (\E p \in Profile : BeginAdd(p)) \/ CommitAdd \/ UndoAdd \/ FinishAdd
  \/ Open \/ Lock \/ Edit
  \/ (\E p \in Profile : Select(p)) \/ Deselect
  \/ Recover \/ SyncRecovered
  \/ (\E p \in Profile : BeginRemove(p))
  \/ Stage \/ Undo \/ CommitRemove \/ Clean

Spec == Init /\ [][Next]_vars
-----------------------------------------------------------------------------
(* Safety.                                                                 *)

\* What was reported as saved is there, at that version or a later one,
\* through failing operations, crashes and removals that were not committed:
\* at the live path, or in a tombstone of it that the next start puts back.
NothingSavedIsLost ==
  \A o \in Owner : saved[o] > 0 /\ o \notin gone =>
    \E p \in Profile : \E c \in {Live(p)} \cup tombs[<<p, "live">>] :
      c.is = "whole" /\ c.owner = o /\ c.version >= saved[o]

\* A whole file at a live path only ever gives way to a later save of the same
\* vault: not to another vault, a backup, or an older copy.
LiveOnlyMovesForward ==
  [][\A p \in Profile :
       Live(p).is = "whole" /\ Live(p)'.is = "whole" =>
         Live(p)'.owner = Live(p).owner /\ Live(p)'.version >= Live(p).version]_vars

\* The vault in memory is the selected one, its file is there, and no later
\* version of it is: what the next save replaces is what was opened.
OpenVaultIsSelected ==
  ~Locked =>
    /\ registry.selected \in registry.vaults
    /\ Live(Selected).is = "whole"
    /\ Live(Selected).owner = mem.owner
    /\ Live(Selected).version <= mem.version

=============================================================================

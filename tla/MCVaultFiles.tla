---------------------------- MODULE MCVaultFiles ----------------------------
(***************************************************************************)
(* Small instances of VaultFiles for TLC.                                  *)
(***************************************************************************)
EXTENDS VaultFiles, FiniteSets

\* Bound of the run in which cleaning up may fail: how many tombstones lie about
\* while no removal is going on.
FewTombs ==
  job.op # "remove" =>
    Cardinality(UNION {{path} \X tombs[path] : path \in Path}) <= 1

\* The history variables are never read by a step.
NoHistory == <<file, unsynced, tombs, durable, registry, mem, job, born>>

=============================================================================

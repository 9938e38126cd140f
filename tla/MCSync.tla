------------------------------- MODULE MCSync -------------------------------
(***************************************************************************)
(* Small instances of Sync for TLC.                                        *)
(***************************************************************************)
EXTENDS Sync, TLC

SameClock == [m \in Machine |-> 0]

OneAhead == [m \in Machine |-> IF m = CHOOSE q \in Machine : TRUE THEN 1 ELSE 0]

MachineSymmetry == Permutations(Machine)

\* What a machine does with a page takes no time for the other machines, whose
\* steps read nothing of it.  Until the last second its user changes and locks
\* the vault at any step of it.
Prompt ==
  \A m \in Machine : sync[m].pc \notin {"idle", "push"} =>
    sync'[m] # sync[m] \/ (clock < MaxClock /\ vault'[m] # vault[m])

\* Bounds: one item is put at risk; what comes of it, and of a save that failed,
\* is followed to the end of the second.
OneAtRisk ==
  /\ \A id, other \in risked' : id = other
  /\ risked # {} => bodies' = bodies
  /\ clock' = MaxClock => risked' = {}

SavedInTime ==
  clock' # clock => \A m \in Machine : sync[m].pc = "idle" => vault[m] = disk[m]

\* Bound: nothing is followed beyond the last item id.
IdsLeft == ids < MaxId

\* When a live record was written is read by nobody.
SyncView ==
  <<clock, server.rev,
    {IF r.dead THEN r ELSE [r EXCEPT !.written = 0] : r \in server.recs},
    vault, disk, sync, ids, historyVars>>

=============================================================================

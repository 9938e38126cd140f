------------------------------ MODULE MCBroker ------------------------------
(***************************************************************************)
(* Small instances of Broker and BrokerConsent for TLC.                    *)
(***************************************************************************)
EXTENDS BrokerConsent, TLC

\* Requests are interchangeable: Spec never tells one from another.  Used by
\* the runs that check no liveness.
RequestSymmetry == Permutations(Request)

\* The audit logs are written and never read back by what decides about
\* grants, so a run about grants need not tell two states apart by them.
GrantView == <<clock, open, present, ui, promptVars, grantVars,
               pc, want, now, allowed, reply>>

\* Agents of one identified program, all asking for the same thing: the
\* instance where their grants and their records meet.
SameWant ==
  /\ \A r, q \in Request : want[r] = want[q]
  /\ \A r \in Request : want[r].client \in Program

\* The same, for one command, every target with a value.
RunInit ==
  /\ Init
  /\ SameWant
  /\ \A r \in Request : want[r].scope \notin Disclosing
  /\ present = [v \in Vault |-> Target]

RunSpec == RunInit /\ [][Next]_vars

\* Bounds of the runs that follow one command: the vault is unlocked once and stays
\* open, and no field is edited.
StaysOpen == ui' # "abandon" /\ present' = present

\* Bounds of the run about consent, on top of that: requests are accesses the
\* user gets to in time.
Attended ==
  StaysOpen /\ \A r \in Request : reply'[r] \notin {"listed", "TimedOut"}
=============================================================================

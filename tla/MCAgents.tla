------------------------------ MODULE MCAgents ------------------------------
(***************************************************************************)
(* Two instances of Broker for TLC, each explored alone.  One is about     *)
(* grants, with one vault, a clock and any two requests; the other about   *)
(* the records requests leave, with two vaults and requests that ask for   *)
(* the same thing at one time.  A second vault with something in it says   *)
(* that it is the other, and keeps it.                                     *)
(***************************************************************************)
EXTENDS MCBroker

CONSTANT First   \* the vault of the first instance

InRecords == \E v \in Vault \ {First} : present[v] # {}

AgentsInit == Init /\ (InRecords => SameWant)

AgentsSpec == AgentsInit /\ [][Next]_vars

GrantsMove == open' \in {First, NoVault} /\ ~InRecords'

\* Bound of the second: a prompt is refused, dropped or answered with a window.
RecordsMove ==
  /\ InRecords' /\ clock' = clock
  /\ \A r \in Request : decision'[r] # "once" /\ reply'[r] # "TimedOut"

AgentsMove == IF InRecords THEN RecordsMove ELSE GrantsMove

\* What decides about grants never reads a log, and nothing reads the log in
\* memory.
AgentsView ==
  <<GrantView, IF InRecords THEN <<vaultLog, diskLog, newer, interrupted>> ELSE <<>>>>
=============================================================================

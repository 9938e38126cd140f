------------------------------- MODULE MCLive -------------------------------
(***************************************************************************)
(* The liveness of the broker's requests and of the pipe they come in by,  *)
(* each explored alone: `part` says which one moves.  What the other's     *)
(* fairness is about is not enabled in the state the other stays in.       *)
(***************************************************************************)
EXTENDS Broker, PipeServer

VARIABLE part

BrokerMoves == part = "broker" /\ Next /\ UNCHANGED <<part, pipeVars>>
PipeMoves == part = "pipe" /\ NextPipe /\ UNCHANGED <<part, vars>>

\* The pipe's part needs the broker in one state only.
LiveInit ==
  /\ Init /\ InitPipe
  /\ \/ part = "broker"
     \/ part = "pipe" /\ present = [v \in Vault |-> {}]

LiveSpec == LiveInit /\ [][BrokerMoves \/ PipeMoves]_<<part, vars, pipeVars>>
            /\ Fairness /\ FairPipe
=============================================================================

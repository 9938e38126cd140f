----------------------------- MODULE PipeServer -----------------------------
(***************************************************************************)
(* The named pipe that agents reach the broker through: transport.rs,      *)
(* serve, listen_again and serve_connection.                               *)
(*                                                                         *)
(* The name of the pipe exists as long as one instance of it does.  The    *)
(* loop owns the instance that listens and, for a moment, the one that was *)
(* just connected; each connection then has a task.  A client may take the *)
(* listening instance at any time, sit on it and leave at any time.        *)
(***************************************************************************)
EXTENDS Naturals

CONSTANTS Caller, Nobody,
          CreateAttempts, AcceptFailures   \* CREATE_ATTEMPTS, ACCEPT_FAILURES

ASSUME PipeAssumption ==
  Nobody \notin Caller /\ CreateAttempts \in Nat \ {0} /\ AcceptFailures \in Nat \ {0}

VARIABLES
  loop,      \* where serve is, what it owns, and what it has counted
  caller     \* each client's connection

pipeVars == <<loop, caller>>

LoopAt(step) == loop.at = step
Listener(held, by) == [held |-> held, by |-> by]
NoListener == Listener(FALSE, Nobody)
FreeListener == Listener(TRUE, Nobody)

InitPipe ==
  /\ loop = [at |-> "start", server |-> NoListener, connected |-> Nobody,
             failures |-> 0, attempt |-> 0]
  /\ caller = [c \in Caller |-> "away"]

(* Whoever is still on these instances is cut off when they are dropped.    *)
After(c, cs) == IF c \in cs /\ caller[c] = "connected" THEN "cut" ELSE caller[c]
Cut(cs) == caller' = [c \in Caller |-> After(c, cs)]

(* The task of a client that is gone ends at once.                          *)
Tasked(c) == IF caller[c] = "connected" THEN "talking" ELSE caller[c]

End(cs) ==
  /\ loop' = [loop EXCEPT !.at = "ended", !.server = NoListener, !.connected = Nobody]
  /\ Cut(cs)

-----------------------------------------------------------------------------
(* The clients *)

Arrive(c) ==
  /\ caller[c] \in {"away", "cut"} /\ c \notin {loop.server.by, loop.connected}
  /\ caller' = [caller EXCEPT ![c] = "waiting"]
  /\ UNCHANGED loop

(* Any instance that exists and is free will do, listening or not.          *)
Take(c) ==
  /\ caller[c] = "waiting" /\ loop.server = FreeListener
  /\ loop' = [loop EXCEPT !.server.by = c]
  /\ caller' = [caller EXCEPT ![c] = "connected"]

(* What it leaves stays an instance until the loop or the task drops it.    *)
HangUp(c) ==
  /\ caller[c] \in {"waiting", "connected", "talking"}
  /\ caller' = [caller EXCEPT ![c] = "away"]
  /\ UNCHANGED loop

-----------------------------------------------------------------------------
(* serve *)

OpenPipe ==
  /\ LoopAt("start")
  /\ \/ loop' = [loop EXCEPT !.at = "connect", !.server = FreeListener] /\ UNCHANGED caller
     \/ End({})

(* Mutation of Accept: the client is off before there is another instance.  *)
HandOver ==
  /\ LoopAt("connect") /\ loop.server.by # Nobody
  /\ loop' = [loop EXCEPT !.at = "reopen", !.server = NoListener,
                          !.failures = 0, !.attempt = 1]
  /\ caller' = [caller EXCEPT ![loop.server.by] = Tasked(loop.server.by)]

(* connect() returns: the instance that listened has a client.              *)
Accept ==
  /\ LoopAt("connect") /\ loop.server.by # Nobody
  /\ loop' = [loop EXCEPT !.at = "reopen", !.server = NoListener,
                          !.connected = loop.server.by,
                          !.failures = 0, !.attempt = 1]
  /\ UNCHANGED caller

(* It fails, whether there is a client on the instance or not.              *)
AcceptFails ==
  /\ LoopAt("connect")
  /\ IF loop.failures + 1 >= AcceptFailures
       THEN End({loop.server.by})
       ELSE /\ loop' = [loop EXCEPT !.at = "reopen", !.failures = @ + 1, !.attempt = 1]
            /\ UNCHANGED caller

(* Mutation of Reopen: the loop serves the client itself.                   *)
ReopenAndServe ==
  /\ LoopAt("reopen")
  /\ caller' = [c \in Caller |-> IF c = loop.connected THEN Tasked(c)
                                 ELSE After(c, {loop.server.by})]
  /\ loop' = [loop EXCEPT !.server = FreeListener, !.connected = Nobody,
       !.at = IF loop.connected = Nobody THEN "connect" ELSE "serving"]

(* The new instance replaces the one that failed, if that is why there is   *)
(* one; the connection that was accepted gets its task.                     *)
Reopen ==
  /\ LoopAt("reopen")
  /\ caller' = [c \in Caller |-> IF c = loop.connected THEN Tasked(c)
                                 ELSE After(c, {loop.server.by})]
  /\ loop' = [loop EXCEPT !.at = "connect", !.server = FreeListener, !.connected = Nobody]

(* With waits in between; the last failure ends serve and drops everything. *)
ReopenFails ==
  /\ LoopAt("reopen")
  /\ IF loop.attempt >= CreateAttempts
       THEN End({loop.server.by, loop.connected})
       ELSE loop' = [loop EXCEPT !.attempt = @ + 1] /\ UNCHANGED caller

LoopStep == Accept \/ AcceptFails \/ Reopen \/ ReopenFails

NextPipe == \/ OpenPipe \/ LoopStep
            \/ \E c \in Caller : Arrive(c) \/ Take(c) \/ HangUp(c)

SpecPipe == InitPipe /\ [][NextPipe]_pipeVars

(* connect() returns, one way or the other, once a client is there, and the *)
(* retries end.  Clients need not do anything.                              *)
ConnectReturns == (Accept \/ AcceptFails) /\ loop.server.by # Nobody
FairPipe == WF_pipeVars(ConnectReturns) /\ WF_pipeVars(Reopen \/ ReopenFails)

-----------------------------------------------------------------------------
Instances == (IF loop.server.held THEN {"server"} ELSE {})
             \cup ({loop.connected} \ {Nobody})
             \cup {c \in Caller : caller[c] = "talking"}

(* While it serves, some instance of the pipe exists: no other process gets *)
(* to create the name (transport.rs:682, "a gap here is a gap anyone can    *)
(* step into"), whichever connections fail, end or are being replaced, and  *)
(* while reopening is retried too: the instance that failed, or the client  *)
(* that was accepted, is let go of only when there is another.              *)
NameIsOwned == ~LoopAt("start") /\ ~LoopAt("ended") => Instances # {}

(* A client that connected is served, cut off by a failure or has left,     *)
(* however long the others sit on their connections (transport.rs:688).     *)
ConnectedAreServed ==
  \A c \in Caller : caller[c] = "connected" ~> caller[c] \in {"talking", "cut", "away"}

=============================================================================

----------------------------- MODULE Clipboard ------------------------------
(***************************************************************************)
(* The secret clipboard of the desktop application.                        *)
(*                                                                         *)
(* Commands run one at a time on the main thread; each copy leaves a timer *)
(* on another, which first looks whether its copy is still the newest and  *)
(* then takes the lock on what was copied.  Other programs write to the    *)
(* clipboard, or hold it, at any time.  A step is what is done under one   *)
(* lock.                                                                   *)
(***************************************************************************)
EXTENDS Naturals

CONSTANTS
  Secret,
  Nothing, Other,    \* an empty clipboard, and somebody else's text
  MaxCopies          \* the bound on copies

ASSUME BoardAssumption == MaxCopies \in Nat /\ Nothing # Other /\ {Nothing, Other} \cap Secret = {}

VARIABLES
  board,     \* what is on the clipboard, and the copy that put it there (0: none of ours)
  ours,      \* SecretClipboard.ours
  token,     \* SecretClipboard.token
  copying,   \* where copy_secret is
  timer,     \* by copy, what its timer has done
  said       \* by copy, what was reported of it; at 0 what clear_clipboard last said

clipVars == <<board, ours, token, copying, timer, said>>

Copies == 1..MaxCopies
AtRest == copying.at = "rest"

InitClipboard ==
  /\ board = [text |-> Nothing, by |-> 0]
  /\ ours = Nothing
  /\ token = 0
  /\ copying = [at |-> "rest", secret |-> Nothing]
  /\ timer = [t \in Copies |-> "none"]
  /\ said = [t \in Copies \cup {0} |-> "nothing"]

-----------------------------------------------------------------------------
(* copy: the board, then the token, then what was copied *)

(* The clipboard may not open, or be emptied and then refuse the text.      *)
Write == \E s \in Secret :
  /\ AtRest /\ token < MaxCopies
  /\ \/ /\ board' = [text |-> s, by |-> token + 1]
        /\ copying' = [at |-> "written", secret |-> s]
        /\ said' = [said EXCEPT ![0] = "nothing"]
     \/ /\ board' = [text |-> Nothing, by |-> 0]
        /\ UNCHANGED <<copying, said>>
  /\ UNCHANGED <<ours, token, timer>>

Count ==
  /\ copying.at = "written"
  /\ token' = token + 1
  /\ copying' = [copying EXCEPT !.at = "counted"]
  /\ UNCHANGED <<board, ours, timer, said>>

(* Mutation of Record: the copy before is kept in mind.                     *)
RecordIfNone ==
  /\ copying.at = "counted"
  /\ ours' = IF ours = Nothing THEN copying.secret ELSE ours
  /\ timer' = [timer EXCEPT ![token] = "waiting"]
  /\ copying' = [at |-> "rest", secret |-> Nothing]
  /\ UNCHANGED <<board, token, said>>

(* Mutation of Record: the timer is for the copy before.                    *)
RecordOneEarly ==
  /\ copying.at = "counted"
  /\ ours' = copying.secret
  /\ timer' = [t \in Copies |-> IF t = token - 1 THEN "waiting" ELSE timer[t]]
  /\ copying' = [at |-> "rest", secret |-> Nothing]
  /\ UNCHANGED <<board, token, said>>

Record ==
  /\ copying.at = "counted"
  /\ ours' = copying.secret
  /\ timer' = [timer EXCEPT ![token] = "waiting"]
  /\ copying' = [at |-> "rest", secret |-> Nothing]
  /\ UNCHANGED <<board, token, said>>

-----------------------------------------------------------------------------
(* wipe, and the two who call it *)

(* Mutation of Wipe: forgotten before the clipboard could be opened.        *)
WipeAndForget(t) ==
  \/ /\ ours # Nothing
     /\ said' = [said EXCEPT ![t] = "failed"]
     /\ ours' = Nothing
     /\ UNCHANGED board
  \/ /\ ours' = Nothing
     /\ board' = IF ours # Nothing /\ board.text = ours
                   THEN [text |-> Nothing, by |-> 0] ELSE board
     /\ said' = [said EXCEPT ![t] =
          IF ours # Nothing /\ board.text = ours THEN "wiped" ELSE "gone"]

(* Nothing to remove; or a clipboard that does not open; or what is there   *)
(* is compared and removed under one hold.  Only a failure remembers.       *)
Wipe(t) ==
  \/ /\ ours # Nothing
     /\ said' = [said EXCEPT ![t] = "failed"]
     /\ UNCHANGED <<board, ours>>
  \/ /\ ours' = Nothing
     /\ board' = IF ours # Nothing /\ board.text = ours
                   THEN [text |-> Nothing, by |-> 0] ELSE board
     /\ said' = [said EXCEPT ![t] =
          IF ours # Nothing /\ board.text = ours THEN "wiped" ELSE "gone"]

(* The timer's time is up: a later copy has a timer of its own.             *)
ClearCopy(t) ==
  /\ timer[t] = "waiting"
  /\ IF token = t
       THEN timer' = [timer EXCEPT ![t] = "clearing"] /\ UNCHANGED said
       ELSE /\ timer' = [timer EXCEPT ![t] = "done"]
            /\ said' = [said EXCEPT ![t] = "gone"]
  /\ UNCHANGED <<board, ours, token, copying>>

TimerWipes(t) ==
  /\ timer[t] = "clearing"
  /\ Wipe(t)
  /\ timer' = [timer EXCEPT ![t] = "done"]
  /\ UNCHANGED <<token, copying>>

(* Lock, exit, reload and "clear now".                                      *)
ClearNow ==
  /\ AtRest
  /\ Wipe(0)
  /\ UNCHANGED <<token, copying, timer>>

(* Another program copies, maybe the same text.                             *)
Others == \E text \in Secret \cup {Other} :
  /\ board' = [text |-> text, by |-> 0]
  /\ UNCHANGED <<ours, token, copying, timer, said>>

NextClipboard ==
  \/ Write \/ Count \/ Record \/ ClearNow \/ Others
  \/ \E t \in Copies : ClearCopy(t) \/ TimerWipes(t)

SpecClipboard == InitClipboard /\ [][NextClipboard]_clipVars

-----------------------------------------------------------------------------
(* As long as a copied secret is on the clipboard the application remembers *)
(* what to compare with, whichever timers ran, failed or were overtaken     *)
(* (clipboard.rs:178): a lock still has something to take off.              *)
NeverForgotten == board.by # 0 => ours = board.text \/ ~AtRest

(* Nothing is reported off the clipboard, by its own timer or by a lock     *)
(* since the last copy, that is on it (clipboard.rs:55).                    *)
HonestReports ==
  board.by # 0 => \A t \in {0, board.by} : said[t] \notin {"wiped", "gone"}

(* A secret on the clipboard still has its timer to come, or its timer said *)
(* that it is still there (lib.rs:811).                                     *)
StillWatched ==
  board.by # 0 => \/ ~AtRest
                  \/ timer[board.by] \in {"waiting", "clearing"}
                  \/ said[board.by] = "failed"
=============================================================================

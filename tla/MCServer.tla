------------------------------ MODULE MCServer ------------------------------
(***************************************************************************)
(* Instances of the two machines of the sync server for TLC.  They share   *)
(* no state, so each is explored alone: `part` says which one moves.  The  *)
(* accounts are explored twice, as the two together would be too many:     *)
(* every mix of three messages within two seconds, from clients whose      *)
(* clocks are right and served within a second, and, for as long as MaxClock *)
(* says, from clients that are ahead and with handlers that take their     *)
(* time, what attaches devices and every mix of two messages.              *)
(***************************************************************************)
EXTENDS Accounts, Icons, TLC

VARIABLE part

Sent == {n \in Nonce : sent[n] # NoMessage}

AccountsMove ==
  /\ part = "accounts" /\ Next /\ UNCHANGED <<part, iconVars>>
  /\ \A n \in Sent' \ Sent : sent'[n].time = clock
  /\ clock' # clock => clock' = 1 /\ \A h \in Handler : At(h, "idle")

TimesMove ==
  /\ part = "times" /\ Next /\ UNCHANGED <<part, iconVars>>
  /\ \/ \A n \in Sent' : sent'[n].kind \in {"enrol", "claim", "register"}
     \/ Cardinality(Sent') <= 2

IconsMove == part = "icons" /\ NextIcons /\ UNCHANGED <<part, vars>>

\* The bounds on time and requests are reached, and nothing is under way.
IconsRest ==
  /\ part = "icons" /\ window = LastWindow /\ requests = MaxRequests
  /\ \A h \in Serving : serving[h] = Free
  /\ UNCHANGED <<part, vars, iconVars>>

ServerInit == part \in {"accounts", "times", "icons"} /\ Init /\ InitIcons

SpecServer ==
  /\ ServerInit
  /\ [][AccountsMove \/ TimesMove \/ IconsMove \/ IconsRest]_<<part, vars, iconVars>>

Symmetric == Permutations(Nonce) \cup Permutations(Handler)
             \cup Permutations(Device) \cup Permutations(Invite)
=============================================================================

------------------------------ MODULE Consent -------------------------------
(***************************************************************************)
(* What the broker promises the user, and nothing of how: an answer buys a *)
(* number of uses of one key - a target, a scope and a program - and no    *)
(* key is ever used more often than the answers bought.                    *)
(***************************************************************************)
EXTENDS Naturals

CONSTANTS
  Key,        \* what an answer is about
  Single,     \* keys that disclose: one answer, one use
  Unshared,   \* keys of unidentified clients: nobody but the asker
  MaxUses     \* the most uses one answer can buy

VARIABLES
  granted,    \* granted[k]: the uses the user has agreed to
  used        \* used[k]: the requests let through

vars == <<granted, used>>

Init ==
  /\ granted = [k \in Key |-> 0]
  /\ used = [k \in Key |-> 0]

\* The user answers a prompt; the request that asked takes the first use.
Approve(k, uses) ==
  /\ k \in Single => uses = 1
  /\ granted' = [granted EXCEPT ![k] = @ + uses]
  /\ used' = [used EXCEPT ![k] = @ + 1]

\* A later request goes through on what is left.
Reuse(k) ==
  /\ k \notin Unshared
  /\ used[k] < granted[k]
  /\ used' = [used EXCEPT ![k] = @ + 1]
  /\ UNCHANGED granted

Next == \E k \in Key : Reuse(k) \/ \E uses \in 1 .. MaxUses : Approve(k, uses)

Spec == Init /\ [][Next]_vars

=============================================================================

-------------------------------- MODULE Lists --------------------------------
(***************************************************************************)
(* What Vec::retain and Iterator::filter do: the code leaves elements out  *)
(* of its lists and keeps the others in their order.                       *)
(***************************************************************************)
EXTENDS Naturals, Sequences

(* The elements of s that are in S, in their order.                         *)
Kept(s, S) ==
  LET kept[n \in 0..Len(s)] ==
        IF n = 0 THEN <<>>
        ELSE IF s[n] \in S THEN Append(kept[n - 1], s[n]) ELSE kept[n - 1]
  IN  kept[Len(s)]
=============================================================================

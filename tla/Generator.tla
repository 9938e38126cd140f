------------------------------ MODULE Generator ------------------------------
(***************************************************************************)
(* Generating a password (crates/yara-core/src/generate.rs) from bytes that *)
(* are all as likely: that no test could see a bias is the reason to state  *)
(* here that there is none.  The machine makes one password, or looks at    *)
(* what every byte selects from one length, and goes on to another.         *)
(***************************************************************************)
EXTENDS Integers, Lists, SequencesExt, FiniteSets

CONSTANTS
  Classes,        \* the character classes, in the order they are asked for
  MinimumLength, MaximumLength,
  NoPassword, InvalidRecipe

ASSUME LengthAssumption ==
  /\ MinimumLength \in Nat /\ MaximumLength \in Nat /\ MaximumLength <= 256
  /\ Classes \in Seq({Classes[k] : k \in DOMAIN Classes}) /\ Len(Classes) <= MinimumLength

VARIABLE generated

Byte == 0..255

(* Mutation of Accepted: no byte is drawn again.                            *)
AcceptAll(len) == 256

(* index: bytes from here on are drawn again *)
Accepted(len) == 256 - (256 % len)

Selects(len, byte) == IF byte < Accepted(len) THEN {byte % len} ELSE {}

(* For each slot but the first, from the last one down, what it is swapped  *)
(* with: itself or one before it.                                           *)
Draws(n) == {d \in [2..n -> 1..n] : \A upper \in 2..n : d[upper] <= upper}

Swapped(s, i, j) == [s EXCEPT ![i] = s[j], ![j] = s[i]]
Shuffled(s, draws) ==
  LET after[k \in 0..Len(s) - 1] ==
        IF k = 0 THEN s
        ELSE Swapped(after[k - 1], Len(s) + 1 - k, draws[Len(s) + 1 - k])
  IN  after[Len(s) - 1]

Alphabet(enabled) == UNION {Classes[k] : k \in enabled}
Enabled(enabled) == Kept([k \in DOMAIN Classes |-> k], enabled)

(* One of every class that is enabled, then any.                            *)
Characters(length, enabled) ==
  {s \in [1..length -> Alphabet(enabled)] :
     \A k \in DOMAIN Enabled(enabled) : s[k] \in Classes[Enabled(enabled)[k]]}

InitGenerator == generated = NoPassword

Index ==
  /\ generated = NoPassword
  /\ \E len \in 1..256 : generated' = [selected |-> [b \in Byte |-> Selects(len, b)], of |-> len]

Refuse ==
  /\ generated = NoPassword
  /\ \E length \in MinimumLength - 1..MaximumLength + 1, enabled \in SUBSET DOMAIN Classes :
       /\ length \notin MinimumLength..MaximumLength \/ enabled = {}
       /\ generated' = InvalidRecipe

Generate ==
  /\ generated = NoPassword
  /\ \E length \in MinimumLength..MaximumLength, enabled \in (SUBSET DOMAIN Classes) \ {{}} :
     \E characters \in Characters(length, enabled), draws \in Draws(length) :
       generated' = [enabled |-> enabled, length |-> length,
                     password |-> Shuffled(characters, draws)]

NextRecipe == generated # NoPassword /\ generated' = NoPassword

NextGenerator == Index \/ Refuse \/ Generate \/ NextRecipe

SpecGenerator == InitGenerator /\ [][NextGenerator]_generated

-----------------------------------------------------------------------------
Has(member) == generated \notin {NoPassword, InvalidRecipe} /\ member \in DOMAIN generated

(* Every number below a length is selected by as many bytes as every other. *)
IndexesAreFair ==
  Has("of") => \A value \in 0..generated.of - 1 :
    Cardinality({b \in Byte : value \in generated.selected[b]}) = 256 \div generated.of

(* Each class that was enabled is in the password, and no other character,  *)
(* wherever the shuffle took them.                                          *)
ClassesAppear ==
  Has("password") =>
    /\ Len(generated.password) = generated.length
    /\ ToSet(generated.password) \subseteq Alphabet(generated.enabled)
    /\ \A k \in generated.enabled : ToSet(generated.password) \cap Classes[k] # {}

(* The draws of a shuffle lead to every order of the characters, each by as *)
(* many draws as any other: by one (generate.rs:231).                       *)
OrdersAreFair ==
  Has("password") =>
    LET slots == 1..generated.length
        inOrder == [k \in slots |-> k]
        orders == {Shuffled(inOrder, draws) : draws \in Draws(generated.length)}
    IN  /\ orders = {p \in [slots -> slots] : \A j, k \in slots : p[j] = p[k] => j = k}
        /\ Cardinality(orders) = Cardinality(Draws(generated.length))

(* What no test of single passwords would show: no draw favours a number,   *)
(* no shuffle an order, and a class asked for is there (generate.rs:60).    *)
PasswordsAreFair == IndexesAreFair /\ OrdersAreFair /\ ClassesAppear
=============================================================================

------------------------------ MODULE MCDesktop -----------------------------
(***************************************************************************)
(* Instances of five machines of the desktop process for TLC: the secret  *)
(* clipboard, enrolling for sync, what an open vault holds, reading the    *)
(* exports of other programs, and generating passwords.  No action of one  *)
(* reads what another changes, so each is explored alone: `part` says      *)
(* which one moves.                                                        *)
(***************************************************************************)
EXTENDS Clipboard, Enrolment, VaultItems, Importer, Generator, TLC

CONSTANTS name1, name2, seed1, seed2, folder1, folder2

Exports ==
  {[kind |-> "pass", entries |->
      <<[name |-> name1, seed |-> seed1, folder |-> NoFolder],
        [name |-> name2, seed |-> seed1, folder |-> folder2]>>],
   [kind |-> "authenticator", entries |-> <<[name |-> name1, seed |-> seed1, folder |-> NoFolder]>>]}

CONSTANTS
  a, b,               \* words
  uri, poor, bare,    \* words that are URIs: named, named by blanks, unnamed
  whole, empty,       \* words that are cards: of six members, of none
  number, code, pin, day

WordsOf == {a, b, uri, poor, bare, whole, empty, number, code, pin, day}

Spaces == [word |-> NoWord, pad |-> TRUE]
Around(word) == [word |-> word, pad |-> TRUE]

Uris == (uri :> [issuer |-> Text(a), account |-> Text(b)]) @@
        (poor :> [issuer |-> Spaces, account |-> Around(b)]) @@
        (bare :> [issuer |-> NoText, account |-> NoText])

NoCard == [holder |-> NoText, type |-> NoText, number |-> NoText, code |-> NoText,
           expires |-> NoText, pin |-> NoText, note |-> NoText]
WholeCard == [holder |-> Around(a), type |-> Text(b), number |-> Around(number),
              code |-> Text(code), expires |-> Text(day), pin |-> Text(pin), note |-> Spaces]
CardJson == (whole :> WholeCard) @@ (empty :> NoCard)
Numbers == {day}

EmptyRow(type, name) ==
  [type |-> type, name |-> name, vault |-> NoText, url |-> NoText,
   autofill |-> <<>>, email |-> NoText, username |-> NoText, password |-> NoText,
   note |-> NoText, totp |-> NoText, createTime |-> NoText, modifyTime |-> NoText]

Kinds == {"login", "alias", "custom", "creditcard", "identity", ""}
Some == {NoText, Spaces, Text(a), Around(a)}
Whose == {NoText, Text(a), Around(b)}

\* Rows that differ in whose they are and where they lead, and rows that
\* differ in what they keep.
CsvRows ==
  {[EmptyRow(k, Text(a)) EXCEPT !.url = u, !.autofill = urls, !.email = e, !.username = w,
                                !.vault = v] :
     k \in {"login", "custom", "creditcard"}, u, e, w, v \in Whose,
     urls \in {<<>>, <<Text(a)>>, <<Around(a), Text(a)>>, <<Text(a), Spaces, Around(b)>>,
              <<Text(b), Text(a), Text(day)>>}}
  \cup
  {[EmptyRow(k, w) EXCEPT !.password = p, !.note = x, !.totp = c,
                          !.createTime = from, !.modifyTime = to] :
     k \in Kinds, w \in {Spaces, Around(a)}, p \in {NoText, Spaces, Around(pin)},
     x \in {NoText, Spaces, Around(b), Text(whole), Around(whole), Text(empty)},
     c \in {NoText, Around(uri), Text(pin)}, from, to \in {NoText, Spaces, Text(day), Text(b)}}

JsonEntries ==
  [readable : BOOLEAN, type : {"totp", "steam"}, name : Some, note : Some,
   uri : {Text(uri), Text(poor), Text(bare), Text(b)}]

ClassesOf == <<{a, b}, {number}, {code}>>

VARIABLE part

OneOwner == \A v, w \in Vault : own[v] = own[w]

allVars == <<part, clipVars, enrolVars, itemVars, reading, generated>>

ClipboardMoves == part = "clipboard" /\ NextClipboard
  /\ UNCHANGED <<part, enrolVars, itemVars, reading, generated>>
EnrolmentMoves == part = "enrolment" /\ NextEnrolment
  /\ UNCHANGED <<part, clipVars, itemVars, reading, generated>>
ItemsMove == part = "items" /\ NextItems
  /\ UNCHANGED <<part, clipVars, enrolVars, reading, generated>>
ImporterMoves == part = "importer" /\ NextImporter
  /\ UNCHANGED <<part, clipVars, enrolVars, itemVars, generated>>
GeneratorMoves == part = "generator" /\ NextGenerator
  /\ UNCHANGED <<part, clipVars, enrolVars, itemVars, reading>>

DesktopInit ==
  /\ InitClipboard /\ InitEnrolment /\ InitItems /\ InitImporter /\ InitGenerator
  /\ \/ part = "clipboard" /\ OneOwner /\ export.kind = "pass"
     \/ part = "enrolment" /\ export.kind = "pass"
     \/ part = "items" /\ OneOwner
     \/ part \in {"importer", "generator"} /\ OneOwner /\ export.kind = "pass"

SpecDesktop ==
  /\ DesktopInit
  /\ [][ClipboardMoves \/ EnrolmentMoves \/ ItemsMove \/ ImporterMoves
         \/ GeneratorMoves]_allVars

Symmetric == Permutations(Vault) \cup Permutations(Task) \cup Permutations(Password)
=============================================================================

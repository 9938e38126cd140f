------------------------------ MODULE Importer ------------------------------
(***************************************************************************)
(* Reading the exports of other programs (crates/yara-core/src/import.rs). *)
(* Rows do not depend on each other, so the machine reads one, shows what  *)
(* became of it, and goes on to another.                                   *)
(*                                                                         *)
(* A text is a word with or without blanks around it; blanks alone are a   *)
(* text without a word.  No text at all and an empty one are the same.     *)
(***************************************************************************)
EXTENDS Naturals, Sequences, SequencesExt

CONSTANTS
  Word, NoWord,
  CsvRow,        \* the columns of a Proton Pass row, as serde reads them
  JsonEntry,     \* the entries of a Proton Authenticator backup
  Codes,         \* the words that are otpauth URIs: their issuer and account
  Cards,         \* the words that are the JSON of a card: its members
  Times,         \* the words that are positive numbers
  NoReading

Texts == [word : Word \cup {NoWord}, pad : BOOLEAN]
PassRow ==
  [type : STRING, name : Texts, vault : Texts, url : Texts, autofill : Seq(Texts),
   email : Texts, username : Texts, password : Texts, note : Texts, totp : Texts,
   createTime : Texts, modifyTime : Texts]

ASSUME ExportsAssumption ==
  /\ CsvRow \subseteq PassRow
  /\ JsonEntry \subseteq
       [readable : BOOLEAN, type : STRING, name : Texts, note : Texts, uri : Texts]
  /\ Codes \in [DOMAIN Codes -> [issuer : Texts, account : Texts]] /\ DOMAIN Codes \subseteq Word
  /\ Cards \in [DOMAIN Cards -> [holder : Texts, type : Texts, number : Texts, expires : Texts,
                                 code : Texts, pin : Texts, note : Texts]]
  /\ DOMAIN Cards \subseteq Word /\ Times \subseteq Word
ASSUME WordAssumption ==
  NoWord \notin Word \cup {"Unnamed item", "Untitled", "entry 1", "CSV row 2"}

VARIABLE reading     \* the row last read and what became of it

Text(word) == [word |-> word, pad |-> FALSE]
NoText == Text(NoWord)
Blank(text) == text.word = NoWord

Plain(text) == Text(text.word)

Exact(text) == text

NoCode == NoText

-----------------------------------------------------------------------------
(* Proton Pass *)

Label(name) == <<name, 1>>

Field(label, value, secret) ==
  IF value = NoText THEN <<>>
  ELSE <<[label |-> label, value |-> value, secret |-> secret]>>

PushPlain(name, text) == Field(Label(name), Plain(text), FALSE)
PushSecret(name, text) == Field(Label(name), Exact(text), TRUE)

(* The URLs a row lists, in order, but for repetitions of one or of its url *)
Distinct(url, texts) ==
  LET seen[n \in 0..Len(texts)] ==
        IF n = 0 THEN <<>>
        ELSE IF Plain(texts[n]) \in ToSet(seen[n - 1]) \cup {NoText, url} THEN seen[n - 1]
        ELSE Append(seen[n - 1], Plain(texts[n]))
  IN  seen[Len(texts)]

AutofillFields(row) ==
  LET urls == Distinct(Plain(row.url), row.autofill)
  IN  [n \in DOMAIN urls |->
         [label |-> <<"Additional URL", n>>, value |-> urls[n], secret |-> FALSE]]

Totp(row) == IF row.totp.word \in DOMAIN Codes THEN Plain(row.totp) ELSE NoCode
Unread(row) == IF Blank(row.totp) \/ row.totp.word \in DOMAIN Codes THEN {} ELSE {"code"}

Stamp(cell) == IF cell.word \in Times THEN Plain(cell) ELSE NoText
Unstamped(column, cell) ==
  IF Blank(cell) \/ cell.word \in Times THEN {} ELSE {column}

(* Item::new, the vault's name as a folder, the times.                      *)
Bare(row, kind) ==
  [kind |-> kind, name |-> Plain(row.name), folder |-> Plain(row.vault),
   username |-> NoText, url |-> Plain(row.url), password |-> Exact(row.password),
   notes |-> NoText, totp |-> Totp(row), fields |-> <<>>,
   created |-> Stamp(row.createTime), updated |-> Stamp(row.modifyTime)]

Common(row, kind) ==
  LET email == Plain(row.email)  username == Plain(row.username)
  IN  [Bare(row, kind) EXCEPT
        !.username = IF username # NoText THEN username ELSE email,
        !.notes = Exact(row.note),
        !.fields = (IF username = NoText \/ email = username
                      THEN <<>> ELSE PushPlain("Email", email)) \o AutofillFields(row)]

(* The note of a card is its JSON; what is not one is kept as a note.       *)
CardFields(card) ==
  PushPlain("Cardholder", card.holder) \o PushPlain("Card type", card.type)
  \o PushSecret("Card number", card.number) \o PushSecret("Security code", card.code)
  \o PushPlain("Expiration", card.expires) \o PushSecret("PIN", card.pin)

IsCard(row) == row.note.word \in DOMAIN Cards

Card(row) ==
  [Bare(row, "Card") EXCEPT
    !.notes = IF Blank(row.note) THEN NoText
              ELSE IF IsCard(row) THEN Exact(Cards[row.note.word].note) ELSE Exact(row.note),
    !.fields = IF IsCard(row) THEN CardFields(Cards[row.note.word]) ELSE <<>>]

KindOf == [login |-> "Login", alias |-> "Login", custom |-> "Note", creditcard |-> "Card"]

Warnings(row) ==
  Unread(row) \cup Unstamped("created", row.createTime) \cup Unstamped("updated", row.modifyTime)
  \cup (IF row.type = "creditcard" /\ ~Blank(row.note) /\ ~IsCard(row) THEN {"card"} ELSE {})

Skipped(name) == [entries |-> <<>>, skipped |-> {name}, warnings |-> {}]
Entry(item, warnings) == [entries |-> <<item>>, skipped |-> {}, warnings |-> warnings]

Unnamed == Text("Unnamed item")

PassItem(row) ==
  IF Blank(row.name) THEN Skipped(Unnamed)
  ELSE IF row.type \notin DOMAIN KindOf THEN Skipped(Plain(row.name))
  ELSE Entry(IF row.type = "creditcard" THEN Card(row) ELSE Common(row, KindOf[row.type]),
             Warnings(row))

-----------------------------------------------------------------------------
(* Proton Authenticator *)

RawName(entry) == IF Blank(entry.name) THEN Text("entry 1") ELSE Plain(entry.name)

(* The entry's own name, else the issuer of its code, else the account.     *)
Names(entry) ==
  <<entry.name>> \o (IF entry.uri.word \in DOMAIN Codes
     THEN <<Codes[entry.uri.word].issuer, Codes[entry.uri.word].account>> ELSE <<>>)

(* Mutation of PickName: a name of blanks is a name.                        *)
PickPresent(entry) ==
  LET present == {k \in DOMAIN Names(entry) : Names(entry)[k] # NoText}
  IN  IF present = {} THEN Text("Untitled") ELSE Plain(Names(entry)[Min(present)])

PickName(entry) ==
  LET worded == {k \in DOMAIN Names(entry) : ~Blank(Names(entry)[k])}
  IN  IF worded = {} THEN Text("Untitled") ELSE Plain(Names(entry)[Min(worded)])

Authenticated(entry) ==
  IF ~entry.readable THEN Skipped(RawName(entry))
  ELSE IF entry.type # "totp" \/ entry.uri.word \notin DOMAIN Codes
    THEN Skipped(PickName(entry))
  ELSE Entry([name |-> PickName(entry), totp |-> Plain(entry.uri),
              notes |-> IF Blank(entry.note) THEN NoText ELSE entry.note], {})

-----------------------------------------------------------------------------
InitImporter == reading = NoReading

Read(source, row, import) ==
  reading' = [source |-> source, row |-> row, import |-> import]

ReadPassRow ==
  reading = NoReading /\ \E row \in CsvRow : Read("pass", row, PassItem(row))

(* What csv cannot read is named by its line.                               *)
ReadTornRow ==
  reading = NoReading /\ Read("torn", NoReading, Skipped(Text("CSV row 2")))

ReadEntry ==
  reading = NoReading /\ \E entry \in JsonEntry : Read("authenticator", entry, Authenticated(entry))

NextRow == reading # NoReading /\ reading' = NoReading

NextImporter == ReadPassRow \/ ReadTornRow \/ ReadEntry \/ NextRow

SpecImporter == InitImporter /\ [][NextImporter]_reading

-----------------------------------------------------------------------------
Became(source) == reading # NoReading /\ reading.source = source
Entries == ToSet(reading.import.entries)

(* What must be in an item made of a row: each text trimmed, or exactly, if *)
(* blanks are part of it.  A card has no place for a user name, an address  *)
(* or further URLs (import.rs:258 does not look at them).                   *)
PlainCells(row) ==
  {row.name, row.url, row.vault} \cup
  (IF row.type # "creditcard" THEN {row.email, row.username} \cup ToSet(row.autofill)
   ELSE IF IsCard(row) THEN LET card == Cards[row.note.word]
                            IN  {card.holder, card.type, card.expires}
   ELSE {})
SecretCells(row) ==
  {row.password} \cup
  (IF row.type = "creditcard" /\ IsCard(row)
     THEN LET card == Cards[row.note.word] IN {card.number, card.code, card.pin, card.note}
   ELSE IF row.type = "creditcard" /\ Blank(row.note) THEN {} ELSE {row.note})

Values(item, secret) == {f.value : f \in {g \in ToSet(item.fields) : g.secret = secret}}
Visible(item) == {item.name, item.folder, item.username, item.url} \cup Values(item, FALSE)
Hidden(item) == {item.password, item.notes} \cup Values(item, TRUE)

(* Nothing in a row is dropped without a word (import.rs:12): it is in the  *)
(* item, secrets with their blanks (import.rs:338), or there is a warning,  *)
(* or the row is skipped.                                                   *)
NothingLostSilently ==
  Became("pass") => \A item \in Entries :
    LET row == reading.row IN
    /\ {Plain(cell) : cell \in PlainCells(row)} \subseteq Visible(item) \cup {NoText}
    /\ SecretCells(row) \subseteq Hidden(item) \cup {NoText}
    /\ item.totp = NoCode /\ ~Blank(row.totp) => "code" \in reading.import.warnings
    /\ item.created = NoText /\ ~Blank(row.createTime) => "created" \in reading.import.warnings
    /\ item.updated = NoText /\ ~Blank(row.modifyTime) => "updated" \in reading.import.warnings

Words(texts) == {text.word : text \in texts}

(* Nothing that is a secret in the export, or is in a card that could not   *)
(* be taken apart, becomes part of what is listed without asking: names,    *)
(* folders, user names, URLs and plain fields, of entries and of reports.   *)
(* Words that a plain cell holds as well are no secrets, nor is the name    *)
(* the program gives what has none.                                         *)
SecretsStayMasked ==
  Became("pass") =>
    LET row == reading.row
        secret == Words(SecretCells(row) \cup {row.note, row.totp})
                    \ Words(PlainCells(row) \cup {NoText, Unnamed})
    IN  Words(reading.import.skipped \cup UNION {Visible(item) : item \in Entries})
          \cap secret = {}

(* The fields of an item can be told apart: an agent asks for one by label. *)
LabelsDistinct ==
  Became("pass") => \A item \in Entries : \A j, k \in DOMAIN item.fields :
    item.fields[j].label = item.fields[k].label => j = k

(* Whatever a row says, what it becomes has a name that can be read, and it *)
(* is the user's own if there was one (import.rs:491).                      *)
NamedAsExported ==
  reading # NoReading =>
    \A name \in reading.import.skipped \cup {item.name : item \in Entries} :
      /\ ~Blank(name)
      /\ Became("authenticator") /\ ~Blank(reading.row.name) => name = Plain(reading.row.name)

(* An agent asks for an entry by name and for a field by label: what an     *)
(* import makes has both, and they tell its parts apart (import.rs:245).    *)
AskedForByName == LabelsDistinct /\ NamedAsExported
=============================================================================

----------------------------- MODULE VaultItems -----------------------------
(***************************************************************************)
(* What an open vault holds: items in the user's order, folders, and the   *)
(* deletions it remembers, under the commands of the user, imports from    *)
(* files that may change, records that a sync brings, and reopening.       *)
(*                                                                         *)
(* Time is what has passed: `fresh` says that updated_at is the current    *)
(* second, and a deletion has an age.                                      *)
(***************************************************************************)
EXTENDS Lists, SequencesExt, FiniteSets

CONSTANTS
  Id, Name, Seed, FolderName, NoFolder,
  Export,          \* export files: which parser takes them, and their entries
  NoExport,
  Retention, Capacity   \* TOMBSTONE_RETENTION, TOMBSTONE_CAPACITY

Folder == FolderName \cup {NoFolder}
ExportEntry == [name : Name, seed : Seed, folder : Folder]

ASSUME TombAssumption == Retention \in Nat /\ Capacity \in Nat \ {0}
ASSUME FolderAssumption == NoFolder \notin FolderName /\ NoExport \notin Export
ASSUME ExportAssumption == \A e \in Export : e.entries \in Seq(ExportEntry)
ASSUME FiniteAssumption == IsFiniteSet(Id) /\ IsFiniteSet(FolderName)
ASSUME SeedAssumption == Seed # {}

VARIABLES
  items, folders, tombstones,
  export,      \* the export file on disk
  preview,     \* what was last previewed: the file, by its token
  brought      \* history: items whose folder no command of the user has listed

itemVars == <<items, folders, tombstones, export, preview, brought>>

Held == {items[k].id : k \in DOMAIN items}
ItemOf(i) == CHOOSE x \in ToSet(items) : x.id = i
Buried == {tombstones[k].id : k \in DOMAIN tombstones}
Listed == ToSet(folders)
Without(graves, i) == Kept(graves, {g \in ToSet(graves) : g.id # i})

InitItems ==
  /\ items = <<>> /\ folders = <<>> /\ tombstones = <<>>
  /\ export \in Export /\ preview = NoExport
  /\ brought = {}

-----------------------------------------------------------------------------
(* Items *)

NewItem(i, n, s, f) == [id |-> i, name |-> n, seed |-> s, folder |-> f, fresh |-> TRUE]

(* An id that is here is no longer recorded as deleted.                     *)
Present(i) == tombstones' = Without(tombstones, i)

Add == \E i \in Id \ (Held \cup Buried), n \in Name, s \in Seed :
  /\ items' = Append(items, NewItem(i, n, s, NoFolder))
  /\ Present(i)
  /\ UNCHANGED <<folders, export, preview, brought>>

(* Mutation of Upsert: the item's deletion is not forgotten.                *)
UpsertKeepsGrave == \E i \in Id, n \in Name, f \in Folder :
  LET x == [NewItem(i, n, CHOOSE s \in Seed : TRUE, f) EXCEPT !.fresh = FALSE] IN
  /\ items' = IF i \in Held
       THEN [k \in DOMAIN items |-> IF items[k].id = i THEN x ELSE items[k]]
       ELSE Append(items, x)
  /\ brought' = brought \cup {i}
  /\ UNCHANGED <<folders, tombstones, export, preview>>

(* What a sync brings has a time and a folder of another machine's.         *)
Upsert == \E i \in Id, n \in Name, f \in Folder :
  LET x == [NewItem(i, n, CHOOSE s \in Seed : TRUE, f) EXCEPT !.fresh = FALSE] IN
  /\ items' = IF i \in Held
       THEN [k \in DOMAIN items |-> IF items[k].id = i THEN x ELSE items[k]]
       ELSE Append(items, x)
  /\ brought' = brought \cup {i}
  /\ Present(i)
  /\ UNCHANGED <<folders, export, preview>>

Restamped(i, x) == [k \in DOMAIN items |->
  IF items[k].id = i THEN [x EXCEPT !.fresh = TRUE] ELSE items[k]]

Update == \E i \in Held, n \in Name :
  /\ items' = Restamped(i, [ItemOf(i) EXCEPT !.name = n])
  /\ UNCHANGED <<folders, tombstones, export, preview, brought>>

(* Mutation of ReorderItems: only the items listed are kept.                *)
ReorderDropsRest == \E ids \in SetToAllKPermutations(Id) :
  /\ items' = LET known == Kept(ids, Held) IN
              [k \in DOMAIN known |-> ItemOf(known[k])]
  /\ UNCHANGED <<folders, tombstones, export, preview, brought>>

(* The list the interface sends may be older than the items.                *)
ReorderItems == \E ids \in SetToAllKPermutations(Id) :
  /\ items' = LET known == Kept(ids, Held) IN
              [k \in DOMAIN known |-> ItemOf(known[k])]
              \o Kept(items, {x \in ToSet(items) : x.id \notin ToSet(ids)})
  /\ UNCHANGED <<folders, tombstones, export, preview, brought>>

Young(graves) == Kept(graves, {g \in ToSet(graves) : g.age <= Retention})
Newest(graves) == IF Len(graves) <= Capacity THEN graves
                  ELSE SubSeq(graves, Len(graves) - Capacity + 1, Len(graves))

(* Mutation of Prune: a deletion goes on its last day.                      *)
PruneEarly(graves) == Newest(Kept(graves, {g \in ToSet(graves) : g.age < Retention}))
Prune(graves) == Newest(Young(graves))

RemoveItem == \E i \in Held :
  LET grave == [id |-> i, age |-> 0] IN
  /\ items' = Kept(items, {x \in ToSet(items) : x.id # i})
  /\ tombstones' = Prune(Append(Without(tombstones, i), grave))
  /\ UNCHANGED <<folders, export, preview, brought>>

-----------------------------------------------------------------------------
(* Folders *)

CreateFolder == \E f \in FolderName \ Listed :
  /\ folders' = Append(folders, f)
  /\ UNCHANGED <<items, tombstones, export, preview, brought>>

Moved(from, to) == [k \in DOMAIN items |->
  IF items[k].folder = from THEN [items[k] EXCEPT !.folder = to, !.fresh = TRUE]
  ELSE items[k]]

(* Mutation of RenameFolder: the items moved are not stamped.               *)
RenameFolderUnstamped == \E from \in Listed, to \in FolderName \ Listed :
  /\ folders' = ReplaceAll(folders, from, to)
  /\ items' = [k \in DOMAIN items |->
       IF items[k].folder = from THEN [items[k] EXCEPT !.folder = to] ELSE items[k]]
  /\ UNCHANGED <<tombstones, export, preview, brought>>

(* Mutation of RenameFolder: the items stay where they were.                *)
RenameFolderOnly == \E from \in Listed, to \in FolderName \ Listed :
  /\ folders' = ReplaceAll(folders, from, to)
  /\ UNCHANGED <<items, tombstones, export, preview, brought>>

RenameFolder == \E from \in Listed, to \in FolderName \ Listed :
  /\ folders' = ReplaceAll(folders, from, to)
  /\ items' = Moved(from, to)
  /\ UNCHANGED <<tombstones, export, preview, brought>>

DeleteFolder == \E f \in Listed :
  /\ folders' = Kept(folders, Listed \ {f})
  /\ items' = Moved(f, NoFolder)
  /\ UNCHANGED <<tombstones, export, preview, brought>>

ReorderFolders == \E names \in SetToAllKPermutations(FolderName) :
  /\ folders' = Kept(names, Listed) \o Kept(folders, Listed \ ToSet(names))
  /\ UNCHANGED <<items, tombstones, export, preview, brought>>

SetFolder == \E i \in Held, f \in Listed \cup {NoFolder} :
  /\ items' = Restamped(i, [ItemOf(i) EXCEPT !.folder = f])
  /\ brought' = brought \ {i}
  /\ UNCHANGED <<folders, tombstones, export, preview>>

-----------------------------------------------------------------------------
(* Imports *)

FileChanges == \E e \in Export :
  /\ export' = e
  /\ UNCHANGED <<items, folders, tombstones, preview, brought>>

Preview ==
  /\ preview' = export
  /\ UNCHANGED <<items, folders, tombstones, export, brought>>

(* What an import takes for the same: the seed alone for the codes of an    *)
(* authenticator, else all but the filing.                                  *)
Same(kind, held, entry) ==
  held.seed = entry.seed /\ (kind = "pass" => held.name = entry.name)

(* The names and folders chosen for some of the entries, or for none.       *)
Edits(entries) == UNION {[D -> [name : Name, folder : Folder]] :
                         D \in SUBSET DOMAIN entries}
Edited(entries, edit) == [k \in DOMAIN entries |->
  IF k \in DOMAIN edit THEN [entries[k] EXCEPT !.name = edit[k].name, !.folder = edit[k].folder]
  ELSE entries[k]]

(* The items after the entries, one after the other; `seen` is what each    *)
(* is compared by.                                                          *)
Taken(kind, held, seen, entry, i) ==
  IF \E x \in ToSet(held) : Same(kind, x, seen) THEN held
  ELSE Append(held, NewItem(i, entry.name, entry.seed, entry.folder))

Imported(kind, seen, entries, ids) ==
  LET held[n \in 0..Len(entries)] ==
        IF n = 0 THEN items
        ELSE Taken(kind, held[n - 1], seen[n], entries[n], ids[n])
  IN  held[Len(entries)]

FiledIn(listed, x) == IF x.folder = NoFolder \/ x.folder \in ToSet(listed) THEN listed
                      ELSE Append(listed, x.folder)
Filed(listed, s) ==
  LET filed[n \in 0..Len(s)] == IF n = 0 THEN listed ELSE FiledIn(filed[n - 1], s[n])
  IN  filed[Len(s)]

Import(kind, seen, entries, ids) ==
  LET after == Imported(kind, seen, entries, ids)
      added == SubSeq(after, Len(items) + 1, Len(after))
  IN  /\ items' = after
      /\ folders' = IF kind = "pass" THEN Filed(folders, added) ELSE folders
      /\ brought' = IF kind = "pass" THEN brought
                    ELSE brought \cup {x.id : x \in ToSet(added)}

Reviewed == preview # NoExport /\ preview = export

(* Mutation of RunImport: what is there is compared before the user's edits.*)
ImportBeforeEdit == \E ids \in SetToAllKPermutations(Id \ (Held \cup Buried)),
                       edit \in Edits(export.entries) :
  /\ Reviewed /\ Len(ids) = Len(export.entries)
  /\ Import(export.kind, export.entries, Edited(export.entries, edit), ids)
  /\ preview' = NoExport
  /\ UNCHANGED <<tombstones, export>>

(* The file must be the one that was previewed.  An entry is left out if    *)
(* the credential it has become is held, by the vault or by the import.     *)
RunImport == \E ids \in SetToAllKPermutations(Id \ (Held \cup Buried)),
                edit \in Edits(export.entries) :
  LET entries == Edited(export.entries, edit) IN
  /\ Reviewed /\ Len(ids) = Len(entries)
  /\ Import(export.kind, entries, entries, ids)
  /\ preview' = NoExport
  /\ UNCHANGED <<tombstones, export>>

-----------------------------------------------------------------------------
(* Locking and opening again: folders no list has are listed, and old       *)
(* deletions go.                                                            *)
Reopen ==
  /\ folders' = Filed(folders, items)
  /\ tombstones' = Prune(tombstones)
  /\ brought' = {}
  /\ UNCHANGED <<items, export, preview>>

Tick ==
  /\ items' = [k \in DOMAIN items |-> [items[k] EXCEPT !.fresh = FALSE]]
  /\ tombstones' = [k \in DOMAIN tombstones |->
       [tombstones[k] EXCEPT !.age = IF @ > Retention THEN @ ELSE @ + 1]]
  /\ UNCHANGED <<folders, export, preview, brought>>

NextItems ==
  \/ Add \/ Upsert \/ Update \/ ReorderItems \/ RemoveItem
  \/ CreateFolder \/ RenameFolder \/ DeleteFolder \/ ReorderFolders \/ SetFolder
  \/ FileChanges \/ Preview \/ RunImport \/ Reopen \/ Tick

SpecItems == InitItems /\ [][NextItems]_itemVars

-----------------------------------------------------------------------------
(* No item is held twice, and none is also recorded as deleted, which would *)
(* ask the server to delete it (vault.rs:871).                              *)
NeverBothHereAndBuried ==
  /\ Held \cap Buried = {}
  /\ Cardinality(Held) = Len(items) /\ Cardinality(Buried) = Len(tombstones)
  /\ Cardinality(Listed) = Len(folders)

(* An item is in no folder or in one the list has (vault.rs:933), through   *)
(* renaming, deleting, reordering and importing - unless it came from a     *)
(* sync, or with the codes of an authenticator, since the vault was opened. *)
FiledWhereListed ==
  \A x \in ToSet(items) : x.id \in brought \/ x.folder \in Listed \cup {NoFolder}

(* Only a removal takes an item away, and it takes one and buries it: a     *)
(* folder that goes (vault.rs:960) or an order that is out of date          *)
(* (vault.rs:1005) costs no item.                                           *)
ItemsStay ==
  [][\/ Held \subseteq Held'
     \/ \E i \in Held : Held' = Held \ {i} /\ i \in Buried']_itemVars

(* A deletion is forgotten when its item is back, when it is older than the *)
(* retention, or when the list is full of newer ones (vault.rs:1064).       *)
ForgottenLast ==
  [][\A k \in DOMAIN tombstones :
       LET g == tombstones[k]
           newer == {n \in DOMAIN tombstones' : tombstones'[n].age <= g.age}
       IN  \/ g.id \in Buried' \/ g.id \in Held' \/ g.age > Retention
           \/ Cardinality(newer) >= Capacity]_itemVars

(* What the user changes, filing included, is stamped with the second it    *)
(* was changed in: a sync takes the newer of two (vault.rs:909, 951).       *)
ChangesAreStamped ==
  [][\A k \in DOMAIN items, n \in DOMAIN items' :
       items[k].id = items'[n].id =>
         \/ <<items'[n].name, items'[n].folder>> = <<items[k].name, items[k].folder>>
         \/ items'[n].fresh
         \/ items'[n].id \in brought']_itemVars

(* An import adds nothing that it would call the same as what is there, nor *)
(* the same twice, whatever it was renamed to (lib.rs:1514).                *)
ImportsAddNoTwins ==
  [][preview' # preview /\ preview' = NoExport =>
       \A k \in DOMAIN items', n \in DOMAIN items' :
         n > Len(items) /\ k < n => ~Same(export.kind, items'[k], items'[n])]_itemVars
=============================================================================

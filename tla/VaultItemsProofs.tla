-------------------------- MODULE VaultItemsProofs --------------------------
(***************************************************************************)
(* Theorems about what an open vault holds, for any items, folders,        *)
(* exports, retention and capacity.  Its lists are made by going over      *)
(* other lists: the lemmas about that are in ListsProofs.                  *)
(***************************************************************************)
EXTENDS VaultItems, ListsProofs

-----------------------------------------------------------------------------
(* Deletions *)

Item == [id : Id, name : Name, seed : Seed, folder : Folder, fresh : BOOLEAN]
Grave == [id : Id, age : Nat]

OldestFirst(graves) ==
  \A m, n \in DOMAIN graves : m < n => graves[n].age <= graves[m].age

LEMMA IdsOf ==
  ASSUME NEW T, NEW s \in Seq(T)
  PROVE  Ids(s) = {x.id : x \in ToSet(s)}
  BY DEF Ids, ToSet

LEMMA KeptGraves ==
  ASSUME NEW g \in Seq(Grave), NEW S, OneEach(g), OldestFirst(g)
  PROVE  /\ Kept(g, S) \in Seq(Grave) /\ OneEach(Kept(g, S)) /\ OldestFirst(Kept(g, S))
         /\ Ids(Kept(g, S)) = {x.id : x \in ToSet(g) \cap S}
<1>1. Kept(g, S) \in Seq(Grave) /\ ToSet(Kept(g, S)) = ToSet(g) \cap S
  BY KeptHas
<1>2. OneEach(Kept(g, S))
  BY KeptOneEach
<1>3. OldestFirst(Kept(g, S))
  <2>. SUFFICES ASSUME NEW m \in DOMAIN Kept(g, S), NEW n \in DOMAIN Kept(g, S), m < n
                PROVE  Kept(g, S)[n].age <= Kept(g, S)[m].age
    BY DEF OldestFirst
  <2>1. PICK i \in DOMAIN g, j \in DOMAIN g :
          i < j /\ Kept(g, S)[m] = g[i] /\ Kept(g, S)[n] = g[j]
    BY KeptOrder
  <2>. QED
    BY <2>1 DEF OldestFirst
<1>4. Ids(Kept(g, S)) = {x.id : x \in ToSet(Kept(g, S))}
  BY <1>1, IdsOf
<1>. QED
  BY <1>1, <1>2, <1>3, <1>4

LEMMA WithoutIs ==
  ASSUME NEW g \in Seq(Grave), NEW i, OneEach(g), OldestFirst(g)
  PROVE  /\ Without(g, i) \in Seq(Grave)
         /\ OneEach(Without(g, i)) /\ OldestFirst(Without(g, i))
         /\ Ids(Without(g, i)) = Ids(g) \ {i}
<1>. DEFINE S == {x \in ToSet(g) : x.id # i}
<1>1. /\ Kept(g, S) \in Seq(Grave) /\ OneEach(Kept(g, S)) /\ OldestFirst(Kept(g, S))
      /\ Ids(Kept(g, S)) = {x.id : x \in ToSet(g) \cap S}
  <2>. HIDE DEF S
  <2>. QED
    BY KeptGraves
<1>2. {x.id : x \in ToSet(g) \cap S} = {x.id : x \in ToSet(g)} \ {i}
  OBVIOUS
<1>3. Without(g, i) = Kept(g, S)
  BY DEF Without
<1>4. Ids(g) = {x.id : x \in ToSet(g)}
  BY IdsOf
<1>. QED
  BY <1>1, <1>2, <1>3, <1>4

(* Newest leaves out the first d, and none or as many as keep it full.      *)
LEMMA NewestIs ==
  ASSUME NEW g \in Seq(Grave)
  PROVE  /\ Newest(g) \in Seq(Grave)
         /\ \E d \in Nat : /\ d + Len(Newest(g)) = Len(g)
                           /\ d = 0 \/ Len(Newest(g)) = Capacity
                           /\ \A k \in 1..Len(Newest(g)) : Newest(g)[k] = g[d + k]
<1>1. Len(g) \in Nat /\ Capacity \in Nat \ {0}
  BY TombAssumption
<1>2. CASE Len(g) <= Capacity
  <2>1. Newest(g) = g
    BY <1>2 DEF Newest
  <2>2. 0 + Len(g) = Len(g) /\ \A k \in 1..Len(g) : g[k] = g[0 + k]
    BY <1>1
  <2>. QED
    BY <2>1, <2>2
<1>3. CASE ~ (Len(g) <= Capacity)
  <2>. DEFINE m == Len(g) - Capacity + 1
              t == SubSeq(g, m, Len(g))
  <2>1. Newest(g) = t
    BY <1>3 DEF Newest
  <2>2. m \in 1..Len(g) /\ Len(g) - Capacity \in Nat /\ Len(g) - m + 1 = Capacity
    BY <1>1, <1>3
  <2>3. t \in Seq(Grave)
    BY <1>1, <2>2
  <2>4. Len(t) = Capacity
    BY <1>1, <1>3
  <2>5. \A k \in 1..Capacity : t[k] = g[(Len(g) - Capacity) + k]
    BY <1>1, <1>3
  <2>6. (Len(g) - Capacity) + Capacity = Len(g)
    BY <1>1
  <2>. HIDE DEF t, m
  <2>. QED
    BY <2>1, <2>2, <2>3, <2>4, <2>5, <2>6
<1>. QED
  BY <1>2, <1>3

(* What Prune leaves out was too old, or it was not the last and Capacity   *)
(* no older ones are left.                                                  *)
LEMMA PruneIs ==
  ASSUME NEW g \in Seq(Grave), OneEach(g), OldestFirst(g)
  PROVE  /\ Prune(g) \in Seq(Grave) /\ OneEach(Prune(g)) /\ OldestFirst(Prune(g))
         /\ Ids(Prune(g)) \subseteq Ids(g)
         /\ \A k \in DOMAIN g :
              \/ g[k].id \in Ids(Prune(g))
              \/ g[k].age > Retention
              \/ /\ k # Len(g)
                 /\ Cardinality({n \in DOMAIN Prune(g) : Prune(g)[n].age <= g[k].age}) >= Capacity
<1>. DEFINE S == {x \in ToSet(g) : x.age <= Retention}
            y == Kept(g, S)
            t == Newest(y)
<1>1. y = Young(g) /\ t = Prune(g)
  BY DEF Young, Prune
<1>2. /\ y \in Seq(Grave) /\ OneEach(y) /\ OldestFirst(y)
      /\ Ids(y) = {x.id : x \in ToSet(g) \cap S}
  <2>. HIDE DEF S
  <2>. QED
    BY KeptGraves
<1>3. ToSet(y) = ToSet(g) \cap S
  <2>. HIDE DEF S
  <2>. QED
    BY KeptHas
<1>4. ASSUME NEW m \in DOMAIN y, NEW n \in DOMAIN y, m < n
       PROVE  \E i, j \in DOMAIN g : i < j /\ y[m] = g[i] /\ y[n] = g[j]
  <2>. HIDE DEF S
  <2>. QED
    BY <1>4, KeptOrder
<1>. HIDE DEF y
<1>5. PICK d \in Nat : /\ d + Len(t) = Len(y)
                       /\ d = 0 \/ Len(t) = Capacity
                       /\ \A k \in 1..Len(t) : t[k] = y[d + k]
  BY <1>2, NewestIs
<1>6. t \in Seq(Grave)
  BY <1>2, NewestIs
<1>. HIDE DEF t
<1>7. /\ DOMAIN t = 1..Len(t) /\ DOMAIN y = 1..Len(y) /\ Len(t) \in Nat /\ Len(y) \in Nat
      /\ DOMAIN g = 1..Len(g)
  BY <1>2, <1>6
<1>8. \A k \in 1..Len(t) : d + k \in 1..Len(y)
  BY <1>5, <1>7
<1>9. OneEach(t)
  <2>. SUFFICES ASSUME NEW m \in 1..Len(t), NEW n \in 1..Len(t), t[m].id = t[n].id
                PROVE  m = n
    BY <1>7 DEF OneEach
  <2>1. y[d + m].id = y[d + n].id /\ d + m \in 1..Len(y) /\ d + n \in 1..Len(y)
    BY <1>5, <1>8
  <2>2. d + m = d + n
    BY <1>2, <1>7, <2>1 DEF OneEach
  <2>. QED
    BY <2>2
<1>10. OldestFirst(t)
  <2>. SUFFICES ASSUME NEW m \in 1..Len(t), NEW n \in 1..Len(t), m < n
                PROVE  t[n].age <= t[m].age
    BY <1>7 DEF OldestFirst
  <2>1. t[m] = y[d + m] /\ t[n] = y[d + n] /\ d + m \in DOMAIN y /\ d + n \in DOMAIN y
    BY <1>5, <1>7, <1>8
  <2>2. d + m < d + n
    BY <1>7
  <2>. QED
    BY <1>2, <2>1, <2>2 DEF OldestFirst
<1>11. Ids(t) \subseteq Ids(g)
  <2>. SUFFICES ASSUME NEW k \in 1..Len(t) PROVE t[k].id \in Ids(g)
    BY <1>7 DEF Ids
  <2>1. t[k] = y[d + k] /\ d + k \in DOMAIN y
    BY <1>5, <1>7, <1>8
  <2>2. t[k] \in ToSet(g)
    BY <1>3, <2>1 DEF ToSet
  <2>. QED
    BY <2>2, IdsOf
<1>12. ASSUME NEW k \in DOMAIN g, g[k].id \notin Ids(t), ~ (g[k].age > Retention)
       PROVE  /\ k # Len(g)
              /\ Cardinality({n \in DOMAIN t : t[n].age <= g[k].age}) >= Capacity
  <2>1. g[k] \in Grave
    OBVIOUS
  <2>2. g[k].age \in Nat /\ Retention \in Nat /\ Capacity \in Nat
    BY <2>1, TombAssumption DEF Grave
  <2>3. g[k] \in ToSet(y)
    BY <1>3, <1>12, <2>2 DEF ToSet
  <2>4. PICK p \in 1..Len(y) : y[p] = g[k]
    BY <1>7, <2>3 DEF ToSet
  <2>5. p <= d
    <3>. SUFFICES ASSUME d < p PROVE FALSE
      BY <2>4
    <3>1. p - d \in 1..Len(t) /\ d + (p - d) = p
      BY <1>5, <1>7
    <3>2. t[p - d] = g[k]
      BY <1>5, <2>4, <3>1
    <3>3. g[k].id \in Ids(t)
      BY <1>7, <3>1, <3>2 DEF Ids
    <3>. QED
      BY <1>12, <3>3
  <2>6. Len(t) = Capacity
    BY <1>5, <2>4, <2>5
  <2>7. ASSUME NEW n \in 1..Len(t) PROVE t[n].age <= g[k].age
    <3>1. p < d + n /\ d + n \in DOMAIN y /\ p \in DOMAIN y
      BY <1>7, <1>8, <2>4, <2>5
    <3>2. t[n] = y[d + n]
      BY <1>5
    <3>. QED
      BY <1>2, <2>4, <3>1, <3>2 DEF OldestFirst
  <2>8. {n \in DOMAIN t : t[n].age <= g[k].age} = 1..Capacity
    BY <1>7, <2>6, <2>7
  <2>9. Cardinality(1..Capacity) = Capacity
    <3>1. Cardinality(1..Capacity) = IF 1 > Capacity THEN 0 ELSE Capacity - 1 + 1
      BY <2>2, FS_Interval
    <3>. QED
      BY <2>2, <3>1, TombAssumption
  <2>10. Cardinality({n \in DOMAIN t : t[n].age <= g[k].age}) = Capacity
    BY <2>8, <2>9, Zenon
  <2>11. k # Len(g)
    <3>1. Len(y) \in 1..Len(y) /\ p < Len(y)
      BY <1>5, <1>7, <2>4, <2>5, <2>6, TombAssumption
    <3>2. PICK i \in DOMAIN g, j \in DOMAIN g : i < j /\ y[p] = g[i] /\ y[Len(y)] = g[j]
      BY <1>7, <1>4, <3>1
    <3>3. i = k
      BY <2>4, <3>2 DEF OneEach
    <3>. QED
      BY <1>7, <3>2, <3>3
  <2>. QED
    BY <2>2, <2>10, <2>11
<1>. HIDE DEF S
<1>13. \A k \in DOMAIN g :
              \/ g[k].id \in Ids(t)
              \/ g[k].age > Retention
              \/ /\ k # Len(g)
                 /\ Cardinality({n \in DOMAIN t : t[n].age <= g[k].age}) >= Capacity
  BY <1>12
<1>. QED
  BY <1>1, <1>6, <1>9, <1>10, <1>11, <1>13

-----------------------------------------------------------------------------
(* Items *)

ItemsHeld == items \in Seq(Item) /\ OneEach(items)
GravesKept == tombstones \in Seq(Grave) /\ OneEach(tombstones) /\ OldestFirst(tombstones)
FoldersListed == folders \in Seq(FolderName) /\ NoneTwice(folders)

(* The inductive invariant.                                                 *)
ItemsInv ==
  /\ ItemsHeld /\ GravesKept /\ FoldersListed
  /\ export \in Export
  /\ Ids(items) \cap Ids(tombstones) = {}
  /\ FiledWhereListed

LEMMA Appended ==
  ASSUME NEW s \in Seq(Item), OneEach(s), NEW x \in Item, x.id \notin Ids(s)
  PROVE  /\ Append(s, x) \in Seq(Item) /\ OneEach(Append(s, x))
         /\ Ids(Append(s, x)) = Ids(s) \cup {x.id}
         /\ ToSet(Append(s, x)) = ToSet(s) \cup {x}
<1>. DEFINE u == Append(s, x)
<1>1. /\ u \in Seq(Item) /\ DOMAIN s = 1..Len(s) /\ DOMAIN u = 1..Len(s) + 1
      /\ Len(s) \in Nat
      /\ u[Len(s) + 1] = x /\ \A k \in DOMAIN s : u[k] = s[k]
  OBVIOUS
<1>. HIDE DEF u
<1>2. /\ \A k \in DOMAIN u : k \in DOMAIN s \/ k = Len(s) + 1
      /\ \A k \in DOMAIN s : k \in DOMAIN u
      /\ Len(s) + 1 \in DOMAIN u
  BY <1>1
<1>3. ToSet(u) = ToSet(s) \cup {x}
  BY <1>1, <1>2 DEF ToSet
<1>4. Ids(u) = Ids(s) \cup {x.id}
  BY <1>1, <1>2 DEF Ids
<1>5. OneEach(u)
  <2>. SUFFICES ASSUME NEW m \in DOMAIN u, NEW n \in DOMAIN u, u[m].id = u[n].id
                PROVE  m = n
    BY DEF OneEach
  <2>1. \A k \in DOMAIN s : s[k].id # x.id
    BY DEF Ids
  <2>. QED
    BY <1>1, <1>2, <2>1 DEF OneEach
<1>. QED
  BY <1>1, <1>3, <1>4, <1>5 DEF u

LEMMA Mapped ==
  ASSUME NEW T, NEW s \in Seq(T), NEW U, NEW t \in [DOMAIN s -> U]
  PROVE  t \in Seq(U) /\ Len(t) = Len(s) /\ DOMAIN t = 1..Len(s) /\ DOMAIN s = 1..Len(s)
<1>1. DOMAIN s = 1..Len(s) /\ Len(s) \in Nat
  OBVIOUS
<1>2. t \in [1..Len(s) -> U]
  BY <1>1
<1>3. t \in Seq(U)
  BY <1>1, <1>2
<1>4. DOMAIN t = 1..Len(s)
  BY <1>2
<1>5. DOMAIN t = 1..Len(t)
  BY <1>3
<1>. QED
  BY <1>1, <1>3, <1>4, <1>5

(* Each item is changed where it is.                                        *)
LEMMA InPlace ==
  ASSUME NEW s \in Seq(Item), OneEach(s), NEW t \in [DOMAIN s -> Item],
         \A k \in DOMAIN s : t[k].id = s[k].id
  PROVE  /\ t \in Seq(Item) /\ OneEach(t) /\ Ids(t) = Ids(s)
         /\ DOMAIN t = DOMAIN s
<1>1. t \in Seq(Item) /\ DOMAIN t = DOMAIN s
  BY Mapped
<1>. QED
  BY <1>1 DEF OneEach, Ids

LEMMA HeldIds == Held = Ids(items) /\ Buried = Ids(tombstones)
  BY DEF Held, Buried, Ids

LEMMA ItemOfIs ==
  ASSUME ItemsHeld, NEW i \in Held
  PROVE  ItemOf(i) \in ToSet(items) /\ ItemOf(i) \in Item /\ ItemOf(i).id = i
<1>1. PICK k \in DOMAIN items : items[k].id = i
  BY DEF Held
<1>2. items[k] \in ToSet(items)
  BY DEF ToSet
<1>3. ItemOf(i) \in ToSet(items) /\ ItemOf(i).id = i
  BY <1>1, <1>2 DEF ItemOf
<1>4. ToSet(items) \subseteq Item
  BY DEF ItemsHeld, ToSet
<1>. QED
  BY <1>3, <1>4

(* An item, with some of its members set anew.                              *)
LEMMA ItemWith ==
  ASSUME NEW x \in Item
  PROVE  /\ x.id \in Id /\ x.name \in Name /\ x.seed \in Seed /\ x.folder \in Folder
         /\ x.fresh \in BOOLEAN
         /\ \A n \in Name :
              LET y == [x EXCEPT !.name = n] IN
              y \in Item /\ y.id = x.id /\ y.name = n /\ y.folder = x.folder
         /\ \A f \in Folder :
              LET y == [x EXCEPT !.folder = f] IN
              y \in Item /\ y.id = x.id /\ y.name = x.name /\ y.folder = f
         /\ \A b \in BOOLEAN :
              LET y == [x EXCEPT !.fresh = b] IN
              /\ y \in Item /\ y.id = x.id /\ y.name = x.name /\ y.folder = x.folder
              /\ y.fresh = b
  BY DEF Item

LEMMA NewItemIs ==
  ASSUME NEW i \in Id, NEW n \in Name, NEW s \in Seed, NEW f \in Folder
  PROVE  /\ NewItem(i, n, s, f) \in Item /\ NewItem(i, n, s, f).id = i
         /\ NewItem(i, n, s, f).name = n /\ NewItem(i, n, s, f).folder = f
         /\ NewItem(i, n, s, f).seed = s
  BY DEF NewItem, Item

LEMMA FolderIs == NoFolder \in Folder /\ FolderName \subseteq Folder
  BY DEF Folder

LEMMA FiledAll ==
  FiledWhereListed <=>
    \A k \in DOMAIN items : items[k].id \in brought \/ items[k].folder \in Listed \cup {NoFolder}
  BY DEF FiledWhereListed, ToSet

LEMMA PresentStep ==
  ASSUME GravesKept, NEW i, Present(i)
  PROVE  GravesKept' /\ Ids(tombstones') = Ids(tombstones) \ {i}
  BY WithoutIs DEF GravesKept, Present

LEMMA AddStep ==
  ASSUME ItemsInv, Add
  PROVE  ItemsInv' /\ Held \subseteq Held' /\ Buried \subseteq Buried' \cup Held'
<1>1. PICK i \in Id \ (Held \cup Buried), n \in Name, s \in Seed :
        /\ items' = Append(items, NewItem(i, n, s, NoFolder))
        /\ Present(i)
        /\ UNCHANGED <<folders, export, preview, brought>>
  BY DEF Add
<1>. DEFINE x == NewItem(i, n, s, NoFolder)
<1>2. x \in Item /\ x.id = i /\ x.folder = NoFolder
  BY NewItemIs, FolderIs
<1>. HIDE DEF x
<1>3. i \notin Ids(items)
  BY HeldIds
<1>4. /\ items' \in Seq(Item) /\ OneEach(items') /\ Ids(items') = Ids(items) \cup {i}
      /\ ToSet(items') = ToSet(items) \cup {x}
  BY <1>1, <1>2, <1>3, Appended DEF ItemsInv, ItemsHeld, x
<1>5. GravesKept' /\ Ids(tombstones') = Ids(tombstones) \ {i}
  BY <1>1, PresentStep DEF ItemsInv
<1>6. Ids(items') \cap Ids(tombstones') = {}
  BY <1>4, <1>5 DEF ItemsInv
<1>7. FiledWhereListed'
  BY <1>1, <1>2, <1>4 DEF ItemsInv, FiledWhereListed, Listed
<1>8. ItemsInv'
  BY <1>1, <1>4, <1>5, <1>6, <1>7 DEF ItemsInv, ItemsHeld, FoldersListed
<1>9. Held' = Ids(items') /\ Buried' = Ids(tombstones')
  BY DEF Held, Buried, Ids
<1>. QED
  BY <1>4, <1>5, <1>8, <1>9, HeldIds

LEMMA UpsertStep ==
  ASSUME ItemsInv, Upsert
  PROVE  ItemsInv' /\ Held \subseteq Held' /\ Buried \subseteq Buried' \cup Held'
<1>. DEFINE came(i, n, f) == [NewItem(i, n, CHOOSE s \in Seed : TRUE, f) EXCEPT !.fresh = FALSE]
<1>1. PICK i \in Id, n \in Name, f \in Folder :
        /\ items' = IF i \in Held
             THEN [k \in DOMAIN items |-> IF items[k].id = i THEN came(i, n, f) ELSE items[k]]
             ELSE Append(items, came(i, n, f))
        /\ brought' = brought \cup {i}
        /\ Present(i)
        /\ UNCHANGED <<folders, export, preview>>
  BY DEF Upsert
<1>. DEFINE x == came(i, n, f)
<1>2. x \in Item /\ x.id = i
  <2>1. (CHOOSE s \in Seed : TRUE) \in Seed
    BY SeedAssumption
  <2>. DEFINE y == NewItem(i, n, CHOOSE s \in Seed : TRUE, f)
  <2>2. y \in Item /\ y.id = i
    BY <2>1, NewItemIs
  <2>. HIDE DEF y
  <2>3. [y EXCEPT !.fresh = FALSE] \in Item /\ [y EXCEPT !.fresh = FALSE].id = i
    BY <2>2, ItemWith
  <2>. QED
    BY <2>3 DEF y
<1>3. items' = IF i \in Held
             THEN [k \in DOMAIN items |-> IF items[k].id = i THEN x ELSE items[k]]
             ELSE Append(items, x)
  BY <1>1
<1>. HIDE DEF x
<1>4. GravesKept' /\ Ids(tombstones') = Ids(tombstones) \ {i}
  BY <1>1, PresentStep DEF ItemsInv
<1>5. items \in Seq(Item) /\ OneEach(items)
  BY DEF ItemsInv, ItemsHeld
<1>6. /\ ItemsHeld' /\ Ids(items') = Ids(items) \cup {i}
      /\ \A k \in DOMAIN items' : items'[k] = x \/ items'[k] \in ToSet(items)
  <2>1. CASE i \in Held
    <3>. DEFINE t == [k \in DOMAIN items |-> IF items[k].id = i THEN x ELSE items[k]]
    <3>1. items' = t
      BY <1>3, <2>1
    <3>2. t \in [DOMAIN items -> Item] /\ \A k \in DOMAIN items : t[k].id = items[k].id
      BY <1>2, <1>5
    <3>3. \A k \in DOMAIN items : t[k] = x \/ t[k] = items[k]
      OBVIOUS
    <3>. HIDE DEF t
    <3>4. t \in Seq(Item) /\ OneEach(t) /\ Ids(t) = Ids(items) /\ DOMAIN t = DOMAIN items
      BY <1>5, <3>2, InPlace
    <3>5. i \in Ids(items)
      BY <2>1, HeldIds
    <3>. QED
      BY <3>1, <3>3, <3>4, <3>5 DEF ItemsHeld, ToSet
  <2>2. CASE i \notin Held
    <3>1. items' = Append(items, x) /\ x.id \notin Ids(items)
      BY <1>2, <1>3, <2>2, HeldIds
    <3>2. /\ items' \in Seq(Item) /\ OneEach(items') /\ Ids(items') = Ids(items) \cup {i}
          /\ ToSet(items') = ToSet(items) \cup {x}
      BY <1>2, <1>5, <3>1, Appended
    <3>. QED
      BY <3>2 DEF ItemsHeld, ToSet
  <2>. QED
    BY <2>1, <2>2
<1>7. Ids(items') \cap Ids(tombstones') = {}
  BY <1>4, <1>6 DEF ItemsInv
<1>8. FiledWhereListed'
  <2>1. \A z \in ToSet(items') : z = x \/ z \in ToSet(items)
    BY <1>6 DEF ToSet
  <2>. QED
    BY <1>1, <1>2, <2>1 DEF ItemsInv, FiledWhereListed, Listed
<1>9. ItemsInv'
  BY <1>1, <1>4, <1>6, <1>7, <1>8 DEF ItemsInv, FoldersListed
<1>10. Held' = Ids(items') /\ Buried' = Ids(tombstones')
  BY DEF Held, Buried, Ids
<1>. QED
  BY <1>4, <1>6, <1>9, <1>10, HeldIds

(* An action that changes the items where they are, and files them where    *)
(* the list has a folder.                                                   *)
LEMMA InPlaceStep ==
  ASSUME ItemsInv, items' \in [DOMAIN items -> Item],
         \A k \in DOMAIN items : items'[k].id = items[k].id,
         \A k \in DOMAIN items :
           items'[k].id \in brought' \/ items'[k].folder \in Listed' \cup {NoFolder},
         FoldersListed', GravesKept', Ids(tombstones') \subseteq Ids(tombstones),
         export' = export
  PROVE  ItemsInv' /\ Held' = Held
<1>1. /\ items' \in Seq(Item) /\ OneEach(items') /\ Ids(items') = Ids(items)
      /\ DOMAIN items' = DOMAIN items
  BY InPlace DEF ItemsInv, ItemsHeld
<1>2. FiledWhereListed'
  BY <1>1 DEF FiledWhereListed, ToSet
<1>3. Held' = Ids(items') /\ Held = Ids(items)
  BY DEF Held, Ids
<1>. QED
  BY <1>1, <1>2, <1>3 DEF ItemsInv, ItemsHeld

(* One item is set anew, with the time of the change.                       *)
LEMMA RestampedIs ==
  ASSUME ItemsHeld, NEW i \in Held, NEW x \in Item, x.id = i
  PROVE  LET t == Restamped(i, x) IN
         /\ t \in [DOMAIN items -> Item]
         /\ \A k \in DOMAIN items :
              /\ t[k].id = items[k].id
              /\ items[k].id = i => t[k].folder = x.folder /\ t[k].name = x.name /\ t[k].fresh
              /\ items[k].id # i => t[k] = items[k]
<1>. DEFINE y == [x EXCEPT !.fresh = TRUE]
            t == [k \in DOMAIN items |-> IF items[k].id = i THEN y ELSE items[k]]
<1>1. y \in Item /\ y.id = i /\ y.folder = x.folder /\ y.name = x.name /\ y.fresh
  BY ItemWith
<1>2. \A k \in DOMAIN items : items[k] \in Item
  BY DEF ItemsHeld
<1>3. t = Restamped(i, x)
  BY DEF Restamped
<1>. HIDE DEF y
<1>4. t \in [DOMAIN items -> Item]
  BY <1>1, <1>2
<1>5. \A k \in DOMAIN items : t[k] = IF items[k].id = i THEN y ELSE items[k]
  OBVIOUS
<1>. HIDE DEF t
<1>. QED
  BY <1>1, <1>3, <1>4, <1>5

LEMMA UpdateStep ==
  ASSUME ItemsInv, Update
  PROVE  ItemsInv' /\ Held' = Held
<1>1. PICK i \in Held, n \in Name :
        /\ items' = Restamped(i, [ItemOf(i) EXCEPT !.name = n])
        /\ UNCHANGED <<folders, tombstones, export, preview, brought>>
  BY DEF Update
<1>. DEFINE x == [ItemOf(i) EXCEPT !.name = n]
<1>2. ItemOf(i) \in ToSet(items) /\ ItemOf(i) \in Item /\ ItemOf(i).id = i
  BY ItemOfIs DEF ItemsInv
<1>3. x \in Item /\ x.id = i /\ x.folder = ItemOf(i).folder
  BY <1>2, ItemWith
<1>4. items' = Restamped(i, x)
  BY <1>1
<1>. HIDE DEF x
<1>5. /\ items' \in [DOMAIN items -> Item]
      /\ \A k \in DOMAIN items :
           /\ items'[k].id = items[k].id
           /\ items[k].id = i => items'[k].folder = x.folder
           /\ items[k].id # i => items'[k] = items[k]
  BY <1>3, <1>4, RestampedIs DEF ItemsInv
<1>6. \A k \in DOMAIN items :
        items'[k].id \in brought' \/ items'[k].folder \in Listed' \cup {NoFolder}
  <2>1. Listed' = Listed /\ brought' = brought
    BY <1>1 DEF Listed
  <2>2. \A z \in ToSet(items) : z.id \in brought \/ z.folder \in Listed \cup {NoFolder}
    BY DEF ItemsInv, FiledWhereListed
  <2>3. \A k \in DOMAIN items : items[k] \in ToSet(items)
    BY DEF ToSet
  <2>. QED
    BY <1>2, <1>3, <1>5, <2>1, <2>2, <2>3
<1>. QED
  BY <1>1, <1>5, <1>6, InPlaceStep DEF ItemsInv, FoldersListed, GravesKept

LEMMA SetFolderStep ==
  ASSUME ItemsInv, SetFolder
  PROVE  ItemsInv' /\ Held' = Held
<1>1. PICK i \in Held, f \in Listed \cup {NoFolder} :
        /\ items' = Restamped(i, [ItemOf(i) EXCEPT !.folder = f])
        /\ brought' = brought \ {i}
        /\ UNCHANGED <<folders, tombstones, export, preview>>
  BY DEF SetFolder
<1>. DEFINE x == [ItemOf(i) EXCEPT !.folder = f]
<1>2. ItemOf(i) \in Item /\ ItemOf(i).id = i
  BY ItemOfIs DEF ItemsInv
<1>3. f \in Folder
  BY FolderIs DEF ItemsInv, FoldersListed, Listed, ToSet
<1>4. x \in Item /\ x.id = i /\ x.folder = f
  BY <1>2, <1>3, ItemWith
<1>5. items' = Restamped(i, x)
  BY <1>1
<1>. HIDE DEF x
<1>6. /\ items' \in [DOMAIN items -> Item]
      /\ \A k \in DOMAIN items :
           /\ items'[k].id = items[k].id
           /\ items[k].id = i => items'[k].folder = x.folder
           /\ items[k].id # i => items'[k] = items[k]
  BY <1>4, <1>5, RestampedIs DEF ItemsInv
<1>7. \A k \in DOMAIN items :
        items'[k].id \in brought' \/ items'[k].folder \in Listed' \cup {NoFolder}
  <2>1. Listed' = Listed
    BY <1>1 DEF Listed
  <2>2. \A z \in ToSet(items) : z.id \in brought \/ z.folder \in Listed \cup {NoFolder}
    BY DEF ItemsInv, FiledWhereListed
  <2>3. \A k \in DOMAIN items : items[k] \in ToSet(items)
    BY DEF ToSet
  <2>. QED
    BY <1>1, <1>4, <1>6, <2>1, <2>2, <2>3
<1>. QED
  BY <1>1, <1>6, <1>7, InPlaceStep DEF ItemsInv, FoldersListed, GravesKept

LEMMA TickStep ==
  ASSUME ItemsInv, Tick
  PROVE  ItemsInv' /\ Held' = Held /\ Buried' = Buried
<1>. DEFINE t == [k \in DOMAIN items |-> [items[k] EXCEPT !.fresh = FALSE]]
            g == [k \in DOMAIN tombstones |->
                    [tombstones[k] EXCEPT !.age = IF @ > Retention THEN @ ELSE @ + 1]]
<1>1. items' = t /\ tombstones' = g /\ UNCHANGED <<folders, export, preview, brought>>
  BY DEF Tick
<1>2. \A k \in DOMAIN items : items[k] \in Item
  BY DEF ItemsInv, ItemsHeld
<1>3. \A k \in DOMAIN items : t[k] = [items[k] EXCEPT !.fresh = FALSE]
  OBVIOUS
<1>4. \A k \in DOMAIN items :
        t[k] \in Item /\ t[k].id = items[k].id /\ t[k].folder = items[k].folder
  BY <1>2, <1>3, ItemWith
<1>5. t \in [DOMAIN items -> Item]
  BY <1>2, <1>4
<1>. HIDE DEF t
<1>6. \A k \in DOMAIN tombstones : tombstones[k] \in Grave
  BY DEF ItemsInv, GravesKept
<1>7. ASSUME NEW k \in DOMAIN tombstones
      PROVE  /\ g[k] \in Grave /\ g[k].id = tombstones[k].id
             /\ g[k].age = IF tombstones[k].age > Retention THEN tombstones[k].age
                           ELSE tombstones[k].age + 1
  <2>1. tombstones[k] \in Grave
    BY <1>6
  <2>2. g[k] = [tombstones[k] EXCEPT !.age = IF @ > Retention THEN @ ELSE @ + 1]
    OBVIOUS
  <2>. HIDE DEF g
  <2>. QED
    BY <2>1, <2>2 DEF Grave
<1>8. g \in [DOMAIN tombstones -> Grave]
  BY <1>7
<1>. HIDE DEF g
<1>9. /\ g \in Seq(Grave) /\ DOMAIN g = DOMAIN tombstones
  BY <1>8, Mapped DEF ItemsInv, GravesKept
<1>10. OneEach(g) /\ Ids(g) = Ids(tombstones)
  BY <1>7, <1>9 DEF ItemsInv, GravesKept, OneEach, Ids
<1>11. OldestFirst(g)
  <2>. SUFFICES ASSUME NEW m \in DOMAIN tombstones, NEW n \in DOMAIN tombstones, m < n
                PROVE  g[n].age <= g[m].age
    BY <1>9 DEF OldestFirst
  <2>1. tombstones[n].age <= tombstones[m].age
    BY DEF ItemsInv, GravesKept, OldestFirst
  <2>2. tombstones[n].age \in Nat /\ tombstones[m].age \in Nat /\ Retention \in Nat
    BY <1>6, TombAssumption DEF Grave
  <2>. QED
    BY <1>7, <2>1, <2>2
<1>12. GravesKept'
  BY <1>1, <1>9, <1>10, <1>11 DEF GravesKept
<1>13. \A k \in DOMAIN items :
        items'[k].id \in brought' \/ items'[k].folder \in Listed' \cup {NoFolder}
  <2>1. Listed' = Listed
    BY <1>1 DEF Listed
  <2>. QED
    BY <1>1, <1>4, <2>1, FiledAll DEF ItemsInv
<1>14. Buried' = Buried
  BY <1>1, <1>10 DEF Buried, Ids
<1>. QED
  BY <1>1, <1>4, <1>5, <1>10, <1>12, <1>13, <1>14, InPlaceStep DEF ItemsInv, FoldersListed

LEMMA Joined ==
  ASSUME NEW s \in Seq(Item), NEW t \in Seq(Item), OneEach(s), OneEach(t),
         Ids(s) \cap Ids(t) = {}
  PROVE  /\ s \o t \in Seq(Item) /\ OneEach(s \o t)
         /\ Ids(s \o t) = Ids(s) \cup Ids(t)
         /\ ToSet(s \o t) = ToSet(s) \cup ToSet(t)
<1>. DEFINE u == s \o t
<1>1. /\ u \in Seq(Item) /\ Len(s) \in Nat /\ Len(t) \in Nat
      /\ DOMAIN s = 1..Len(s) /\ DOMAIN t = 1..Len(t) /\ DOMAIN u = 1..Len(s) + Len(t)
      /\ \A k \in 1..Len(s) : u[k] = s[k]
  OBVIOUS
<1>2. \A k \in 1..Len(t) : u[Len(s) + k] = t[k] /\ Len(s) + k \in DOMAIN u
  BY <1>1
<1>3. \A k \in DOMAIN u : k \in 1..Len(s) \/ (k - Len(s) \in 1..Len(t) /\ u[k] = t[k - Len(s)])
  BY <1>1
<1>. HIDE DEF u
<1>4. \A k \in 1..Len(s) : k \in DOMAIN u
  BY <1>1
<1>5. ToSet(u) = ToSet(s) \cup ToSet(t)
  <2>1. ToSet(s) \subseteq ToSet(u)
    BY <1>1, <1>4 DEF ToSet
  <2>2. ToSet(t) \subseteq ToSet(u)
    BY <1>1, <1>2 DEF ToSet
  <2>3. \A k \in DOMAIN u : u[k] \in ToSet(s) \/ u[k] \in ToSet(t)
    BY <1>1, <1>3 DEF ToSet
  <2>4. ToSet(u) \subseteq ToSet(s) \cup ToSet(t)
    BY <2>3 DEF ToSet
  <2>. QED
    BY <2>1, <2>2, <2>4
<1>6. Ids(u) = {x.id : x \in ToSet(u)} /\ Ids(s) = {x.id : x \in ToSet(s)}
      /\ Ids(t) = {x.id : x \in ToSet(t)}
  BY <1>1, IdsOf
<1>7. Ids(u) = Ids(s) \cup Ids(t)
  BY <1>5, <1>6
<1>8. OneEach(u)
  <2>. SUFFICES ASSUME NEW m \in DOMAIN u, NEW n \in DOMAIN u, m < n
                PROVE  u[m].id # u[n].id
    BY <1>1, OrderedIndexes DEF OneEach
  <2>1. CASE m \in 1..Len(s) /\ n \in 1..Len(s)
    BY <1>1, <2>1 DEF OneEach
  <2>2. CASE m \in 1..Len(s) /\ n \notin 1..Len(s)
    <3>1. u[m].id \in Ids(s)
      BY <1>1, <2>2 DEF Ids
    <3>2. u[n].id \in Ids(t)
      BY <1>1, <1>3, <2>2 DEF Ids
    <3>. QED
      BY <3>1, <3>2
  <2>3. CASE m \notin 1..Len(s)
    <3>1. m - Len(s) \in 1..Len(t) /\ u[m] = t[m - Len(s)]
      BY <1>3, <2>3
    <3>2. n \notin 1..Len(s)
      BY <1>1, <2>3
    <3>3. n - Len(s) \in 1..Len(t) /\ u[n] = t[n - Len(s)]
      BY <1>3, <3>2
    <3>4. m - Len(s) # n - Len(s)
      BY <1>1
    <3>. QED
      BY <1>1, <3>1, <3>3, <3>4 DEF OneEach
  <2>. QED
    BY <2>1, <2>2, <2>3
<1>. QED
  BY <1>1, <1>5, <1>7, <1>8 DEF u

(* The same of folders, which are names.                                    *)
LEMMA JoinedNames ==
  ASSUME NEW T, NEW s \in Seq(T), NEW t \in Seq(T), NoneTwice(s), NoneTwice(t),
         ToSet(s) \cap ToSet(t) = {}
  PROVE  /\ s \o t \in Seq(T) /\ NoneTwice(s \o t)
         /\ ToSet(s \o t) = ToSet(s) \cup ToSet(t)
<1>. DEFINE u == s \o t
<1>1. /\ u \in Seq(T) /\ Len(s) \in Nat /\ Len(t) \in Nat
      /\ DOMAIN s = 1..Len(s) /\ DOMAIN t = 1..Len(t) /\ DOMAIN u = 1..Len(s) + Len(t)
      /\ \A k \in 1..Len(s) : u[k] = s[k]
  OBVIOUS
<1>2. \A k \in 1..Len(t) : u[Len(s) + k] = t[k] /\ Len(s) + k \in DOMAIN u
  BY <1>1
<1>3. \A k \in DOMAIN u : k \in 1..Len(s) \/ (k - Len(s) \in 1..Len(t) /\ u[k] = t[k - Len(s)])
  BY <1>1
<1>. HIDE DEF u
<1>4. \A k \in 1..Len(s) : k \in DOMAIN u
  BY <1>1
<1>5. ToSet(u) = ToSet(s) \cup ToSet(t)
  <2>1. ToSet(s) \subseteq ToSet(u)
    BY <1>1, <1>4 DEF ToSet
  <2>2. ToSet(t) \subseteq ToSet(u)
    BY <1>1, <1>2 DEF ToSet
  <2>3. \A k \in DOMAIN u : u[k] \in ToSet(s) \/ u[k] \in ToSet(t)
    BY <1>1, <1>3 DEF ToSet
  <2>4. ToSet(u) \subseteq ToSet(s) \cup ToSet(t)
    BY <2>3 DEF ToSet
  <2>. QED
    BY <2>1, <2>2, <2>4
<1>6. NoneTwice(u)
  <2>. SUFFICES ASSUME NEW m \in DOMAIN u, NEW n \in DOMAIN u, m < n
                PROVE  u[m] # u[n]
    BY <1>1, OrderedIndexes DEF NoneTwice
  <2>1. CASE m \in 1..Len(s) /\ n \in 1..Len(s)
    BY <1>1, <2>1 DEF NoneTwice
  <2>2. CASE m \in 1..Len(s) /\ n \notin 1..Len(s)
    <3>1. u[m] \in ToSet(s)
      BY <1>1, <2>2 DEF ToSet
    <3>2. u[n] \in ToSet(t)
      BY <1>1, <1>3, <2>2 DEF ToSet
    <3>. QED
      BY <3>1, <3>2
  <2>3. CASE m \notin 1..Len(s)
    <3>1. m - Len(s) \in 1..Len(t) /\ u[m] = t[m - Len(s)]
      BY <1>3, <2>3
    <3>2. n \notin 1..Len(s)
      BY <1>1, <2>3
    <3>3. n - Len(s) \in 1..Len(t) /\ u[n] = t[n - Len(s)]
      BY <1>3, <3>2
    <3>4. m - Len(s) # n - Len(s)
      BY <1>1
    <3>. QED
      BY <1>1, <3>1, <3>3, <3>4 DEF NoneTwice
  <2>. QED
    BY <2>1, <2>2, <2>3
<1>. QED
  BY <1>1, <1>5, <1>6 DEF u

LEMMA ReorderItemsStep ==
  ASSUME ItemsInv, ReorderItems
  PROVE  /\ ItemsInv' /\ Held' = Held
         /\ \A n \in DOMAIN items' : items'[n] \in ToSet(items)
<1>1. PICK ids \in SetToAllKPermutations(Id) :
        /\ items' = [k \in DOMAIN Kept(ids, Held) |-> ItemOf(Kept(ids, Held)[k])]
                    \o Kept(items, {x \in ToSet(items) : x.id \notin ToSet(ids)})
        /\ UNCHANGED <<folders, tombstones, export, preview, brought>>
  BY DEF ReorderItems
<1>. DEFINE known == Kept(ids, Held)
            front == [k \in DOMAIN known |-> ItemOf(known[k])]
            S == {x \in ToSet(items) : x.id \notin ToSet(ids)}
            rest == Kept(items, S)
<1>2. ids \in Seq(Id) /\ NoneTwice(ids)
  BY PermutationIs, FiniteAssumption
<1>3. known \in Seq(Id) /\ NoneTwice(known) /\ ToSet(known) = ToSet(ids) \cap Held
  BY <1>2, KeptHas, KeptNoneTwice
<1>4. items \in Seq(Item) /\ OneEach(items)
  BY DEF ItemsInv, ItemsHeld
<1>5. rest \in Seq(Item) /\ OneEach(rest) /\ ToSet(rest) = ToSet(items) \cap S
  <2>. HIDE DEF S
  <2>. QED
    BY <1>4, KeptHas, KeptOneEach
<1>6. items' = front \o rest
  BY <1>1
<1>. HIDE DEF known, rest
<1>7. ASSUME NEW k \in DOMAIN known
      PROVE  /\ front[k] \in Item /\ front[k] \in ToSet(items) /\ front[k].id = known[k]
  <2>1. known[k] \in Held
    BY <1>3 DEF ToSet
  <2>2. front[k] = ItemOf(known[k])
    OBVIOUS
  <2>. HIDE DEF front
  <2>. QED
    BY <2>1, <2>2, ItemOfIs DEF ItemsInv
<1>8. front \in [DOMAIN known -> Item]
  BY <1>7
<1>. HIDE DEF front
<1>9. front \in Seq(Item) /\ DOMAIN front = DOMAIN known
  BY <1>3, <1>8, Mapped
<1>10. OneEach(front)
  BY <1>3, <1>7, <1>9 DEF OneEach, NoneTwice
<1>11. Ids(front) = ToSet(ids) \cap Held
  <2>1. Ids(front) = ToSet(known)
    BY <1>7, <1>9 DEF Ids, ToSet
  <2>. QED
    BY <1>3, <2>1
<1>12. Ids(rest) = Held \ ToSet(ids)
  <2>1. Ids(rest) = {x.id : x \in ToSet(rest)} /\ Held = {x.id : x \in ToSet(items)}
    BY <1>4, <1>5, IdsOf, HeldIds
  <2>. QED
    BY <1>5, <2>1
<1>13. /\ items' \in Seq(Item) /\ OneEach(items')
       /\ Ids(items') = Ids(front) \cup Ids(rest)
       /\ ToSet(items') = ToSet(front) \cup ToSet(rest)
  <2>1. Ids(front) \cap Ids(rest) = {}
    BY <1>11, <1>12
  <2>. QED
    BY <1>5, <1>6, <1>9, <1>10, <2>1, Joined
<1>14. ToSet(items') \subseteq ToSet(items)
  <2>1. ToSet(front) \subseteq ToSet(items)
    BY <1>7, <1>9 DEF ToSet
  <2>. QED
    BY <1>5, <1>13, <2>1
<1>15. Ids(items') = Held
  BY <1>11, <1>12, <1>13
<1>16. Held' = Held /\ Held = Ids(items)
  BY <1>15, HeldIds DEF Held, Ids
<1>17. FiledWhereListed'
  BY <1>1, <1>14 DEF ItemsInv, FiledWhereListed, Listed
<1>18. ItemsInv'
  BY <1>1, <1>13, <1>15, <1>16, <1>17 DEF ItemsInv, ItemsHeld, GravesKept, FoldersListed
<1>. QED
  BY <1>14, <1>16, <1>18 DEF ToSet

LEMMA RemoveItemStep ==
  ASSUME ItemsInv, RemoveItem
  PROVE  /\ ItemsInv'
         /\ \E i \in Held : Held' = Held \ {i} /\ i \in Buried'
         /\ \A n \in DOMAIN items' : items'[n] \in ToSet(items)
         /\ \A k \in DOMAIN tombstones :
              \/ tombstones[k].id \in Buried' \/ tombstones[k].age > Retention
              \/ Cardinality({n \in DOMAIN tombstones' :
                                tombstones'[n].age <= tombstones[k].age}) >= Capacity
<1>. DEFINE grave(i) == [id |-> i, age |-> 0]
<1>1. PICK i \in Held :
        /\ items' = Kept(items, {x \in ToSet(items) : x.id # i})
        /\ tombstones' = Prune(Append(Without(tombstones, i), grave(i)))
        /\ UNCHANGED <<folders, export, preview, brought>>
  BY DEF RemoveItem
<1>. DEFINE S == {x \in ToSet(items) : x.id # i}
            w == Without(tombstones, i)
            g == Append(w, grave(i))
<1>2. tombstones' = Prune(g)
  BY <1>1
<1>3. items \in Seq(Item) /\ OneEach(items)
  BY DEF ItemsInv, ItemsHeld
<1>4. items' \in Seq(Item) /\ OneEach(items') /\ ToSet(items') = ToSet(items) \cap S
  <2>1. items' = Kept(items, S)
    BY <1>1
  <2>. HIDE DEF S
  <2>. QED
    BY <1>3, <2>1, KeptHas, KeptOneEach
<1>5. Ids(items') = Ids(items) \ {i}
  <2>1. Ids(items') = {x.id : x \in ToSet(items')} /\ Ids(items) = {x.id : x \in ToSet(items)}
    BY <1>3, <1>4, IdsOf
  <2>. QED
    BY <1>4, <2>1
<1>6. i \in Id
  BY ItemOfIs, ItemWith DEF ItemsInv
<1>7. w \in Seq(Grave) /\ OneEach(w) /\ OldestFirst(w) /\ Ids(w) = Ids(tombstones) \ {i}
  BY WithoutIs DEF ItemsInv, GravesKept
<1>8. ToSet(w) = {x \in ToSet(tombstones) : x.id # i}
  <2>. DEFINE R == {x \in ToSet(tombstones) : x.id # i}
  <2>1. w = Kept(tombstones, R)
    BY DEF Without
  <2>2. ToSet(w) = ToSet(tombstones) \cap R
    <3>. HIDE DEF R, w
    <3>. QED
      BY <2>1, KeptHas DEF ItemsInv, GravesKept
  <2>. QED
    BY <2>2
<1>. HIDE DEF w
<1>9. grave(i) \in Grave /\ grave(i).id = i /\ grave(i).age = 0
  BY <1>6 DEF Grave
<1>10. /\ g \in Seq(Grave) /\ Len(w) \in Nat /\ Len(g) = Len(w) + 1
      /\ DOMAIN w = 1..Len(w) /\ DOMAIN g = 1..Len(w) + 1
      /\ g[Len(w) + 1] = grave(i) /\ \A k \in 1..Len(w) : g[k] = w[k]
  BY <1>7, <1>9
<1>. HIDE DEF g, grave
<1>11. \A k \in DOMAIN g : k \in DOMAIN w \/ k = Len(w) + 1
  BY <1>10
<1>12. \A k \in DOMAIN w : w[k].id # i /\ w[k].id \in Ids(tombstones) /\ w[k].age \in Nat
  <2>. SUFFICES ASSUME NEW k \in DOMAIN w
                PROVE  w[k].id # i /\ w[k].id \in Ids(tombstones) /\ w[k].age \in Nat
    OBVIOUS
  <2>1. w[k].id \in Ids(w)
    BY DEF Ids
  <2>2. w[k] \in Grave
    BY <1>7
  <2>. QED
    BY <1>7, <2>1, <2>2 DEF Grave
<1>13. OneEach(g)
  BY <1>7, <1>9, <1>10, <1>11, <1>12 DEF OneEach
<1>14. OldestFirst(g)
  <2>. SUFFICES ASSUME NEW m \in DOMAIN g, NEW n \in DOMAIN g, m < n
                PROVE  g[n].age <= g[m].age
    BY DEF OldestFirst
  <2>1. m \in DOMAIN w
    BY <1>10
  <2>2. CASE n \in DOMAIN w
    BY <1>7, <1>10, <2>1, <2>2 DEF OldestFirst
  <2>3. CASE n = Len(w) + 1
    BY <1>9, <1>10, <1>12, <2>1, <2>3
  <2>. QED
    BY <1>11, <2>2, <2>3
<1>15. Ids(g) = (Ids(tombstones) \ {i}) \cup {i}
  <2>1. Len(w) + 1 \in DOMAIN g /\ \A k \in DOMAIN w : k \in DOMAIN g
    BY <1>10
  <2>2. Ids(g) = Ids(w) \cup {i}
    BY <1>9, <1>10, <1>11, <2>1 DEF Ids
  <2>. QED
    BY <1>7, <2>2
<1>16. /\ GravesKept' /\ Ids(tombstones') \subseteq Ids(g)
       /\ \A k \in DOMAIN g :
            \/ g[k].id \in Ids(tombstones')
            \/ g[k].age > Retention
            \/ /\ k # Len(g)
               /\ Cardinality({n \in DOMAIN tombstones' : tombstones'[n].age <= g[k].age})
                    >= Capacity
  <2>1. g \in Seq(Grave)
    BY <1>10
  <2>. QED
    BY <1>2, <1>13, <1>14, <2>1, PruneIs DEF GravesKept
<1>17. i \in Ids(tombstones')
  <2>1. Len(w) + 1 \in DOMAIN g /\ Len(w) + 1 = Len(g)
    BY <1>10
  <2>2. ~ (0 > Retention)
    BY TombAssumption
  <2>. QED
    BY <1>9, <1>10, <1>16, <2>1, <2>2
<1>18. Held' = Ids(items') /\ Buried' = Ids(tombstones')
  BY DEF Held, Buried, Ids
<1>19. FiledWhereListed'
  BY <1>1, <1>4 DEF ItemsInv, FiledWhereListed, Listed
<1>20. ItemsInv'
  <2>1. Ids(items') \cap Ids(tombstones') = {}
    BY <1>5, <1>15, <1>16 DEF ItemsInv
  <2>. QED
    BY <1>1, <1>4, <1>16, <1>19, <2>1 DEF ItemsInv, ItemsHeld, FoldersListed
<1>21. ASSUME NEW k \in DOMAIN tombstones,
              tombstones[k].id \notin Buried', ~ (tombstones[k].age > Retention)
       PROVE  Cardinality({n \in DOMAIN tombstones' :
                             tombstones'[n].age <= tombstones[k].age}) >= Capacity
  <2>1. tombstones[k] \in ToSet(tombstones) /\ tombstones[k].id # i
    BY <1>17, <1>18, <1>21 DEF ToSet
  <2>2. PICK n \in DOMAIN w : w[n] = tombstones[k]
    BY <1>8, <2>1 DEF ToSet
  <2>3. n \in DOMAIN g /\ g[n] = tombstones[k]
    BY <1>10, <2>2
  <2>. QED
    BY <1>16, <1>18, <1>21, <2>3
<1>22. Held' = Held \ {i} /\ i \in Buried'
  BY <1>5, <1>17, <1>18, HeldIds
<1>23. \A n \in DOMAIN items' : items'[n] \in ToSet(items)
  BY <1>4 DEF ToSet
<1>. QED
  BY <1>20, <1>21, <1>22, <1>23

-----------------------------------------------------------------------------
(* Folders *)

LEMMA AppendedName ==
  ASSUME NEW s \in Seq(FolderName), NoneTwice(s), NEW f \in FolderName, f \notin ToSet(s)
  PROVE  /\ Append(s, f) \in Seq(FolderName) /\ NoneTwice(Append(s, f))
         /\ ToSet(Append(s, f)) = ToSet(s) \cup {f}
<1>. DEFINE u == Append(s, f)
<1>1. /\ u \in Seq(FolderName) /\ DOMAIN s = 1..Len(s) /\ DOMAIN u = 1..Len(s) + 1
      /\ Len(s) \in Nat
      /\ u[Len(s) + 1] = f /\ \A k \in DOMAIN s : u[k] = s[k]
  OBVIOUS
<1>. HIDE DEF u
<1>2. /\ \A k \in DOMAIN u : k \in DOMAIN s \/ k = Len(s) + 1
      /\ \A k \in DOMAIN s : k \in DOMAIN u
      /\ Len(s) + 1 \in DOMAIN u
  BY <1>1
<1>3. ToSet(u) = ToSet(s) \cup {f}
  BY <1>1, <1>2 DEF ToSet
<1>4. NoneTwice(u)
  <2>1. \A k \in DOMAIN s : s[k] # f
    BY DEF ToSet
  <2>. QED
    BY <1>1, <1>2, <2>1 DEF NoneTwice
<1>. QED
  BY <1>1, <1>3, <1>4 DEF u

LEMMA CreateFolderStep ==
  ASSUME ItemsInv, CreateFolder
  PROVE  ItemsInv'
<1>1. PICK f \in FolderName \ Listed :
        folders' = Append(folders, f)
        /\ UNCHANGED <<items, tombstones, export, preview, brought>>
  BY DEF CreateFolder
<1>2. FoldersListed' /\ Listed' = Listed \cup {f}
  <2>1. /\ folders' \in Seq(FolderName) /\ NoneTwice(folders')
        /\ ToSet(folders') = ToSet(folders) \cup {f}
    BY <1>1, AppendedName DEF ItemsInv, FoldersListed, Listed
  <2>. QED
    BY <2>1 DEF FoldersListed, Listed
<1>3. FiledWhereListed'
  BY <1>1, <1>2 DEF ItemsInv, FiledWhereListed
<1>. QED
  BY <1>1, <1>2, <1>3 DEF ItemsInv, ItemsHeld, GravesKept

LEMMA RenamedList ==
  ASSUME NEW s \in Seq(FolderName), NoneTwice(s), NEW from \in ToSet(s),
         NEW to \in FolderName \ ToSet(s)
  PROVE  /\ ReplaceAll(s, from, to) \in Seq(FolderName)
         /\ NoneTwice(ReplaceAll(s, from, to))
         /\ ToSet(ReplaceAll(s, from, to)) = (ToSet(s) \ {from}) \cup {to}
<1>. DEFINE u == [k \in 1..Len(s) |-> IF s[k] = from THEN to ELSE s[k]]
<1>1. u = ReplaceAll(s, from, to)
  BY DEF ReplaceAll
<1>2. /\ DOMAIN s = 1..Len(s) /\ Len(s) \in Nat
      /\ \A k \in 1..Len(s) : s[k] \in FolderName
  OBVIOUS
<1>3. u \in [1..Len(s) -> FolderName]
  BY <1>2
<1>4. \A k \in 1..Len(s) : u[k] = IF s[k] = from THEN to ELSE s[k]
  OBVIOUS
<1>. HIDE DEF u
<1>5. u \in Seq(FolderName) /\ DOMAIN u = 1..Len(s)
  BY <1>2, <1>3
<1>6. \A k \in 1..Len(s) : s[k] # to
  BY <1>2 DEF ToSet
<1>7. NoneTwice(u)
  <2>. SUFFICES ASSUME NEW m \in 1..Len(s), NEW n \in 1..Len(s), u[m] = u[n]
                PROVE  m = n
    BY <1>5 DEF NoneTwice
  <2>1. s[m] = s[n]
    BY <1>4, <1>6
  <2>. QED
    BY <1>2, <2>1 DEF NoneTwice
<1>8. ToSet(u) \subseteq (ToSet(s) \ {from}) \cup {to}
  <2>. SUFFICES ASSUME NEW k \in 1..Len(s) PROVE u[k] \in (ToSet(s) \ {from}) \cup {to}
    BY <1>5 DEF ToSet
  <2>1. s[k] \in ToSet(s)
    BY <1>2 DEF ToSet
  <2>. QED
    BY <1>4, <2>1
<1>9. to \in ToSet(u)
  <2>1. PICK k \in 1..Len(s) : s[k] = from
    BY <1>2 DEF ToSet
  <2>2. u[k] = to
    BY <1>4, <2>1
  <2>. QED
    BY <1>5, <2>2 DEF ToSet
<1>10. ASSUME NEW x \in ToSet(s) \ {from} PROVE x \in ToSet(u)
  <2>1. PICK k \in 1..Len(s) : s[k] = x
    BY <1>2 DEF ToSet
  <2>2. u[k] = x
    BY <1>4, <2>1
  <2>. QED
    BY <1>5, <2>2 DEF ToSet
<1>. QED
  BY <1>1, <1>5, <1>7, <1>8, <1>9, <1>10

LEMMA MovedIs ==
  ASSUME ItemsHeld, NEW from, NEW to \in Folder
  PROVE  /\ Moved(from, to) \in [DOMAIN items -> Item]
         /\ \A k \in DOMAIN items :
              /\ Moved(from, to)[k].id = items[k].id
              /\ items[k].folder = from =>
                   /\ Moved(from, to)[k].folder = to /\ Moved(from, to)[k].fresh
                   /\ Moved(from, to)[k].name = items[k].name
              /\ items[k].folder # from => Moved(from, to)[k] = items[k]
<1>. DEFINE y(k) == [items[k] EXCEPT !.folder = to, !.fresh = TRUE]
            t == [k \in DOMAIN items |-> IF items[k].folder = from THEN y(k) ELSE items[k]]
<1>1. t = Moved(from, to)
  BY DEF Moved
<1>2. \A k \in DOMAIN items : items[k] \in Item
  BY DEF ItemsHeld
<1>3. ASSUME NEW k \in DOMAIN items
      PROVE  /\ y(k) \in Item /\ y(k).id = items[k].id /\ y(k).folder = to
             /\ y(k).fresh /\ y(k).name = items[k].name
  BY <1>2 DEF Item
<1>4. \A k \in DOMAIN items : t[k] = IF items[k].folder = from THEN y(k) ELSE items[k]
  OBVIOUS
<1>. HIDE DEF y
<1>5. t \in [DOMAIN items -> Item]
  BY <1>2, <1>3
<1>. HIDE DEF t
<1>6. ASSUME NEW k \in DOMAIN items
      PROVE  /\ t[k].id = items[k].id
             /\ items[k].folder = from =>
                  t[k].folder = to /\ t[k].fresh /\ t[k].name = items[k].name
             /\ items[k].folder # from => t[k] = items[k]
  BY <1>3, <1>4
<1>. QED
  BY <1>1, <1>5, <1>6

LEMMA RenameFolderStep ==
  ASSUME ItemsInv, RenameFolder
  PROVE  ItemsInv' /\ Held' = Held
<1>1. PICK from \in Listed, to \in FolderName \ Listed :
        /\ folders' = ReplaceAll(folders, from, to)
        /\ items' = Moved(from, to)
        /\ UNCHANGED <<tombstones, export, preview, brought>>
  BY DEF RenameFolder
<1>2. /\ folders' \in Seq(FolderName) /\ NoneTwice(folders')
      /\ ToSet(folders') = (ToSet(folders) \ {from}) \cup {to}
  BY <1>1, RenamedList DEF ItemsInv, FoldersListed, Listed
<1>3. FoldersListed' /\ Listed' = (Listed \ {from}) \cup {to}
  BY <1>2 DEF FoldersListed, Listed
<1>4. to \in Folder /\ ItemsHeld
  BY FolderIs DEF ItemsInv
<1>5. /\ items' \in [DOMAIN items -> Item]
      /\ \A k \in DOMAIN items :
           /\ items'[k].id = items[k].id
           /\ items[k].folder = from => items'[k].folder = to
           /\ items[k].folder # from => items'[k] = items[k]
  BY <1>1, <1>4, MovedIs
<1>6. \A k \in DOMAIN items :
        items'[k].id \in brought' \/ items'[k].folder \in Listed' \cup {NoFolder}
  <2>1. \A k \in DOMAIN items :
          items[k].id \in brought \/ items[k].folder \in Listed \cup {NoFolder}
    BY FiledAll DEF ItemsInv
  <2>. QED
    BY <1>1, <1>3, <1>5, <2>1
<1>. QED
  BY <1>1, <1>3, <1>5, <1>6, InPlaceStep DEF ItemsInv, GravesKept

LEMMA DeleteFolderStep ==
  ASSUME ItemsInv, DeleteFolder
  PROVE  ItemsInv' /\ Held' = Held
<1>1. PICK f \in Listed :
        /\ folders' = Kept(folders, Listed \ {f})
        /\ items' = Moved(f, NoFolder)
        /\ UNCHANGED <<tombstones, export, preview, brought>>
  BY DEF DeleteFolder
<1>2. /\ folders' \in Seq(FolderName) /\ NoneTwice(folders')
      /\ ToSet(folders') = ToSet(folders) \cap (Listed \ {f})
  BY <1>1, KeptHas, KeptNoneTwice DEF ItemsInv, FoldersListed
<1>3. FoldersListed' /\ Listed' = Listed \ {f}
  BY <1>2 DEF FoldersListed, Listed
<1>4. NoFolder \in Folder /\ ItemsHeld
  BY FolderIs DEF ItemsInv
<1>5. /\ items' \in [DOMAIN items -> Item]
      /\ \A k \in DOMAIN items :
           /\ items'[k].id = items[k].id
           /\ items[k].folder = f => items'[k].folder = NoFolder
           /\ items[k].folder # f => items'[k] = items[k]
  BY <1>1, <1>4, MovedIs
<1>6. \A k \in DOMAIN items :
        items'[k].id \in brought' \/ items'[k].folder \in Listed' \cup {NoFolder}
  <2>1. \A k \in DOMAIN items :
          items[k].id \in brought \/ items[k].folder \in Listed \cup {NoFolder}
    BY FiledAll DEF ItemsInv
  <2>. QED
    BY <1>1, <1>3, <1>5, <2>1
<1>. QED
  BY <1>1, <1>3, <1>5, <1>6, InPlaceStep DEF ItemsInv, GravesKept

LEMMA ReorderFoldersStep ==
  ASSUME ItemsInv, ReorderFolders
  PROVE  ItemsInv'
<1>1. PICK names \in SetToAllKPermutations(FolderName) :
        /\ folders' = Kept(names, Listed) \o Kept(folders, Listed \ ToSet(names))
        /\ UNCHANGED <<items, tombstones, export, preview, brought>>
  BY DEF ReorderFolders
<1>2. names \in Seq(FolderName) /\ NoneTwice(names)
  BY PermutationIs, FiniteAssumption
<1>3. /\ Kept(names, Listed) \in Seq(FolderName) /\ NoneTwice(Kept(names, Listed))
      /\ ToSet(Kept(names, Listed)) = ToSet(names) \cap Listed
  BY <1>2, KeptHas, KeptNoneTwice
<1>. DEFINE rest == Kept(folders, Listed \ ToSet(names))
<1>4. /\ rest \in Seq(FolderName) /\ NoneTwice(rest)
      /\ ToSet(rest) = ToSet(folders) \cap (Listed \ ToSet(names))
  BY KeptHas, KeptNoneTwice DEF ItemsInv, FoldersListed
<1>. HIDE DEF rest
<1>5. ToSet(Kept(names, Listed)) \cap ToSet(rest) = {}
  BY <1>3, <1>4
<1>6. /\ folders' \in Seq(FolderName) /\ NoneTwice(folders')
      /\ ToSet(folders') = ToSet(Kept(names, Listed)) \cup ToSet(rest)
  <2>1. folders' = Kept(names, Listed) \o rest
    BY <1>1 DEF rest
  <2>. QED
    BY <1>3, <1>4, <1>5, <2>1, JoinedNames
<1>7. FoldersListed' /\ Listed' = Listed
  BY <1>3, <1>4, <1>6 DEF FoldersListed, Listed
<1>8. FiledWhereListed'
  BY <1>1, <1>7 DEF ItemsInv, FiledWhereListed
<1>. QED
  BY <1>1, <1>7, <1>8 DEF ItemsInv, ItemsHeld, GravesKept

(* The file, and what was previewed of it, are no part of the vault.        *)
LEMMA FileStep ==
  ASSUME ItemsInv, FileChanges \/ Preview \/ UNCHANGED itemVars
  PROVE  ItemsInv'
<1>1. export' \in Export /\ UNCHANGED <<items, folders, tombstones, brought>>
  BY DEF ItemsInv, FileChanges, Preview, itemVars
<1>2. FiledWhereListed'
  BY <1>1 DEF ItemsInv, FiledWhereListed, Listed
<1>. QED
  BY <1>1, <1>2 DEF ItemsInv, ItemsHeld, GravesKept, FoldersListed

LEMMA FiledInIs ==
  ASSUME NEW l \in Seq(FolderName), NEW x \in Item
  PROVE  /\ FiledIn(l, x) \in Seq(FolderName)
         /\ NoneTwice(l) => NoneTwice(FiledIn(l, x))
         /\ ToSet(l) \subseteq ToSet(FiledIn(l, x))
         /\ x.folder \in ToSet(FiledIn(l, x)) \cup {NoFolder}
<1>1. CASE x.folder = NoFolder \/ x.folder \in ToSet(l)
  BY <1>1 DEF FiledIn
<1>2. CASE ~ (x.folder = NoFolder \/ x.folder \in ToSet(l))
  <2>1. FiledIn(l, x) = Append(l, x.folder)
    BY <1>2 DEF FiledIn
  <2>2. x.folder \in FolderName
    BY <1>2, ItemWith DEF Folder
  <2>3. DOMAIN l = 1..Len(l) /\ Len(l) \in Nat
    OBVIOUS
  <2>4. CASE NoneTwice(l)
    BY <1>2, <2>1, <2>2, <2>4, AppendedName
  <2>5. CASE ~ NoneTwice(l)
    <3>. DEFINE u == Append(l, x.folder)
    <3>1. /\ u \in Seq(FolderName) /\ DOMAIN u = 1..Len(l) + 1
          /\ u[Len(l) + 1] = x.folder /\ \A k \in DOMAIN l : u[k] = l[k]
      BY <2>2
    <3>. HIDE DEF u
    <3>2. Len(l) + 1 \in DOMAIN u /\ \A k \in DOMAIN l : k \in DOMAIN u
      BY <2>3, <3>1
    <3>3. x.folder \in ToSet(u) /\ ToSet(l) \subseteq ToSet(u)
      BY <3>1, <3>2 DEF ToSet
    <3>. QED
      BY <2>1, <2>5, <3>1, <3>3 DEF u
  <2>. QED
    BY <2>4, <2>5
<1>. QED
  BY <1>1, <1>2

FiledBy(filed, listed, s) ==
  /\ filed = [n \in 0..Len(s) |-> IF n = 0 THEN listed ELSE FiledIn(filed[n - 1], s[n])]
  /\ Filed(listed, s) = filed[Len(s)]

LEMMA FiledRuns ==
  ASSUME NEW listed \in Seq(FolderName), NEW s \in Seq(Item)
  PROVE  \E filed : FiledBy(filed, listed, s)
<1>. DEFINE Step(f) == [n \in 0..Len(s) |->
              IF n = 0 THEN listed ELSE FiledIn(f[n - 1], s[n])]
            G == [z \in Seq(FolderName) \X (1..Len(s)) |-> FiledIn(z[1], s[z[2]])]
<1>1. Len(s) \in Nat /\ \A n \in 1..Len(s) : s[n] \in Item
  OBVIOUS
<1>2. G \in [Seq(FolderName) \X (1..Len(s)) -> Seq(FolderName)]
  <2>1. ASSUME NEW z \in Seq(FolderName) \X (1..Len(s))
        PROVE  FiledIn(z[1], s[z[2]]) \in Seq(FolderName)
    <3>1. z[1] \in Seq(FolderName) /\ s[z[2]] \in Item
      BY <1>1
    <3>. QED
      BY <3>1, FiledInIs
  <2>. QED
    BY <2>1
<1>3. PICK f \in [0..Len(s) -> Seq(FolderName)] : Runs(f, Len(s), listed, G)
  <2>. HIDE DEF G
  <2>. QED
    BY <1>1, <1>2, Recursion
<1>4. f = Step(f)
  <2>1. ASSUME NEW n \in 1..Len(s) PROVE f[n] = Step(f)[n]
    <3>1. n \in 0..Len(s) /\ n # 0 /\ n - 1 \in 0..Len(s)
      BY <1>1
    <3>2. /\ n \in 0..Len(s) /\ n # 0 /\ n - 1 \in 0..Len(s)
          /\ f[n - 1] \in Seq(FolderName)
      <4>. HIDE DEF Step, G
      <4>. QED
        BY <3>1
    <3>3. G[<<f[n - 1], n>>] = FiledIn(f[n - 1], s[n])
      BY <3>2
    <3>4. Step(f)[n] = FiledIn(f[n - 1], s[n])
      BY <3>2
    <3>5. f[n] = G[<<f[n - 1], n>>]
      BY <1>3 DEF Runs
    <3>. QED
      BY <3>3, <3>4, <3>5
  <2>2. f[0] = Step(f)[0]
    BY <1>1, <1>3 DEF Runs
  <2>3. DOMAIN f = 0..Len(s) /\ DOMAIN Step(f) = 0..Len(s)
    OBVIOUS
  <2>4. \A n \in 0..Len(s) : n = 0 \/ n \in 1..Len(s)
    OBVIOUS
  <2>5. Step(f) = [n \in 0..Len(s) |-> Step(f)[n]]
    OBVIOUS
  <2>. HIDE DEF Step, G
  <2>. QED
    BY <2>1, <2>2, <2>3, <2>4, <2>5
<1>5. (CHOOSE g : g = Step(g)) = Step(CHOOSE g : g = Step(g))
  BY <1>4
<1>6. Filed(listed, s) = (CHOOSE g : g = Step(g))[Len(s)]
  BY DEF Filed
<1>7. FiledBy(CHOOSE g : g = Step(g), listed, s)
  BY <1>5, <1>6 DEF FiledBy
<1>. QED
  BY <1>7

LEMMA FiledIs ==
  ASSUME NEW listed \in Seq(FolderName), NEW s \in Seq(Item), NoneTwice(listed)
  PROVE  /\ Filed(listed, s) \in Seq(FolderName) /\ NoneTwice(Filed(listed, s))
         /\ ToSet(listed) \subseteq ToSet(Filed(listed, s))
         /\ \A k \in DOMAIN s : s[k].folder \in ToSet(Filed(listed, s)) \cup {NoFolder}
<1>1. PICK filed : FiledBy(filed, listed, s)
  BY FiledRuns
<1>2. /\ filed = [n \in 0..Len(s) |-> IF n = 0 THEN listed ELSE FiledIn(filed[n - 1], s[n])]
      /\ Filed(listed, s) = filed[Len(s)]
  BY <1>1 DEF FiledBy
<1>. DEFINE U == {n \in 0..Len(s) :
              /\ filed[n] \in Seq(FolderName) /\ NoneTwice(filed[n])
              /\ ToSet(listed) \subseteq ToSet(filed[n])
              /\ \A k \in 1..n : s[k].folder \in ToSet(filed[n]) \cup {NoFolder}}
<1>3. Len(s) \in Nat /\ 0 \in 0..Len(s) /\ DOMAIN s = 1..Len(s)
  OBVIOUS
<1>4. 0 \in U
  <2>1. filed[0] = listed
    BY <1>2, <1>3
  <2>. QED
    BY <1>3, <2>1
<1>5. ASSUME NEW n \in 1..Len(s), n - 1 \in U PROVE n \in U
  <2>1. n \in 0..Len(s) /\ n # 0 /\ s[n] \in Item
    OBVIOUS
  <2>2. filed[n] = FiledIn(filed[n - 1], s[n])
    BY <1>2, <2>1
  <2>3. /\ filed[n] \in Seq(FolderName) /\ NoneTwice(filed[n])
        /\ ToSet(filed[n - 1]) \subseteq ToSet(filed[n])
        /\ s[n].folder \in ToSet(filed[n]) \cup {NoFolder}
    BY <1>5, <2>1, <2>2, FiledInIs
  <2>4. \A k \in 1..n : k = n \/ k \in 1..n - 1
    OBVIOUS
  <2>5. \A k \in 1..n - 1 : s[k].folder \in ToSet(filed[n - 1]) \cup {NoFolder}
    BY <1>5
  <2>6. \A k \in 1..n : s[k].folder \in ToSet(filed[n]) \cup {NoFolder}
    BY <2>3, <2>4, <2>5
  <2>7. ToSet(listed) \subseteq ToSet(filed[n])
    BY <1>5, <2>3
  <2>. QED
    BY <2>1, <2>3, <2>6, <2>7
<1>. HIDE DEF U
<1>6. Len(s) \in U
  <2>1. Len(s) \in 0..Len(s)
    BY <1>3
  <2>. QED
    BY <1>3, <1>4, <1>5, <2>1, Upwards
<1>. QED
  BY <1>2, <1>3, <1>6 DEF U

LEMMA ReopenStep ==
  ASSUME ItemsInv, Reopen
  PROVE  /\ ItemsInv'
         /\ \A k \in DOMAIN tombstones :
              \/ tombstones[k].id \in Buried' \/ tombstones[k].age > Retention
              \/ Cardinality({n \in DOMAIN tombstones' :
                                tombstones'[n].age <= tombstones[k].age}) >= Capacity
<1>1. /\ folders' = Filed(folders, items) /\ tombstones' = Prune(tombstones)
      /\ UNCHANGED <<items, export, preview>>
  BY DEF Reopen
<1>2. /\ folders' \in Seq(FolderName) /\ NoneTwice(folders')
      /\ \A k \in DOMAIN items : items[k].folder \in ToSet(folders') \cup {NoFolder}
  BY <1>1, FiledIs DEF ItemsInv, ItemsHeld, FoldersListed
<1>3. /\ GravesKept' /\ Ids(tombstones') \subseteq Ids(tombstones)
      /\ \A k \in DOMAIN tombstones :
           \/ tombstones[k].id \in Ids(tombstones')
           \/ tombstones[k].age > Retention
           \/ Cardinality({n \in DOMAIN tombstones' :
                             tombstones'[n].age <= tombstones[k].age}) >= Capacity
  <2>1. tombstones \in Seq(Grave) /\ OneEach(tombstones) /\ OldestFirst(tombstones)
    BY DEF ItemsInv, GravesKept
  <2>. QED
    BY <1>1, <2>1, PruneIs DEF GravesKept
<1>4. FiledWhereListed'
  BY <1>1, <1>2 DEF FiledWhereListed, Listed, ToSet
<1>5. Buried' = Ids(tombstones')
  BY DEF Buried, Ids
<1>6. ItemsInv'
  BY <1>1, <1>2, <1>3, <1>4 DEF ItemsInv, ItemsHeld, FoldersListed
<1>. QED
  BY <1>3, <1>5, <1>6

-----------------------------------------------------------------------------
(* Imports *)

LEMMA TakenIs ==
  ASSUME NEW kind, NEW h \in Seq(Item), NEW seen, NEW entry \in ExportEntry, NEW i \in Id
  PROVE  Taken(kind, h, seen, entry, i) \in Seq(Item)
<1>1. NewItem(i, entry.name, entry.seed, entry.folder) \in Item
  BY NewItemIs DEF ExportEntry
<1>. QED
  BY <1>1 DEF Taken

ImportedBy(held, kind, seen, entries, ids) ==
  /\ held = [n \in 0..Len(entries) |->
       IF n = 0 THEN items
       ELSE Taken(kind, held[n - 1], seen[n], entries[n], ids[n])]
  /\ Imported(kind, seen, entries, ids) = held[Len(entries)]

LEMMA ImportedRuns ==
  ASSUME ItemsHeld, NEW kind, NEW seen, NEW entries \in Seq(ExportEntry),
         NEW ids \in Seq(Id), Len(ids) = Len(entries)
  PROVE  \E held : ImportedBy(held, kind, seen, entries, ids)
<1>. DEFINE Step(f) == [n \in 0..Len(entries) |->
              IF n = 0 THEN items
              ELSE Taken(kind, f[n - 1], seen[n], entries[n], ids[n])]
            G == [z \in Seq(Item) \X (1..Len(entries)) |->
                    Taken(kind, z[1], seen[z[2]], entries[z[2]], ids[z[2]])]
<1>1. /\ Len(entries) \in Nat
      /\ \A n \in 1..Len(entries) : entries[n] \in ExportEntry /\ ids[n] \in Id
  OBVIOUS
<1>2. G \in [Seq(Item) \X (1..Len(entries)) -> Seq(Item)]
  <2>1. ASSUME NEW z \in Seq(Item) \X (1..Len(entries))
        PROVE  Taken(kind, z[1], seen[z[2]], entries[z[2]], ids[z[2]]) \in Seq(Item)
    <3>1. z[1] \in Seq(Item) /\ entries[z[2]] \in ExportEntry /\ ids[z[2]] \in Id
      BY <1>1
    <3>. QED
      BY <3>1, TakenIs
  <2>. QED
    BY <2>1
<1>3. items \in Seq(Item)
  BY DEF ItemsHeld
<1>4. PICK f \in [0..Len(entries) -> Seq(Item)] : Runs(f, Len(entries), items, G)
  <2>. HIDE DEF G
  <2>. QED
    BY <1>1, <1>2, <1>3, Recursion
<1>5. f = Step(f)
  <2>1. ASSUME NEW n \in 1..Len(entries) PROVE f[n] = Step(f)[n]
    <3>1. n \in 0..Len(entries) /\ n # 0 /\ n - 1 \in 0..Len(entries)
      BY <1>1
    <3>2. /\ n \in 0..Len(entries) /\ n # 0 /\ n - 1 \in 0..Len(entries)
          /\ f[n - 1] \in Seq(Item)
      <4>. HIDE DEF Step, G
      <4>. QED
        BY <3>1
    <3>3. G[<<f[n - 1], n>>] = Taken(kind, f[n - 1], seen[n], entries[n], ids[n])
      BY <3>2
    <3>4. Step(f)[n] = Taken(kind, f[n - 1], seen[n], entries[n], ids[n])
      BY <3>2
    <3>5. f[n] = G[<<f[n - 1], n>>]
      BY <1>4 DEF Runs
    <3>. QED
      BY <3>3, <3>4, <3>5
  <2>2. f[0] = Step(f)[0]
    BY <1>1, <1>4 DEF Runs
  <2>3. DOMAIN f = 0..Len(entries) /\ DOMAIN Step(f) = 0..Len(entries)
    OBVIOUS
  <2>4. \A n \in 0..Len(entries) : n = 0 \/ n \in 1..Len(entries)
    BY <1>1
  <2>5. Step(f) = [n \in 0..Len(entries) |-> Step(f)[n]]
    OBVIOUS
  <2>. HIDE DEF Step, G
  <2>. QED
    BY <2>1, <2>2, <2>3, <2>4, <2>5
<1>6. (CHOOSE g : g = Step(g)) = Step(CHOOSE g : g = Step(g))
  BY <1>5
<1>7. Imported(kind, seen, entries, ids) = (CHOOSE g : g = Step(g))[Len(entries)]
  BY DEF Imported
<1>8. ImportedBy(CHOOSE g : g = Step(g), kind, seen, entries, ids)
  BY <1>6, <1>7 DEF ImportedBy
<1>. QED
  BY <1>8

(* h is the items and, after them, new ones with some of the first n ids,   *)
(* none of them the same as one before it.                                  *)
Grown(h, kind, ids, n) ==
  /\ h \in Seq(Item) /\ OneEach(h)
  /\ Len(items) <= Len(h) /\ \A k \in 1..Len(items) : h[k] = items[k]
  /\ \A k \in DOMAIN h \ DOMAIN items : \E j \in 1..n : h[k].id = ids[j]
  /\ \A k, m \in DOMAIN h : m > Len(items) /\ k < m => ~ Same(kind, h[k], h[m])

LEMMA GrownMore ==
  ASSUME ItemsHeld, NEW kind, NEW h, NEW ids \in Seq(Id \ (Held \cup Buried)), NoneTwice(ids),
         NEW n \in 1..Len(ids), Grown(h, kind, ids, n - 1), NEW entry \in ExportEntry
  PROVE  Grown(Taken(kind, h, entry, entry, ids[n]), kind, ids, n)
<1>1. /\ h \in Seq(Item) /\ OneEach(h) /\ Len(items) <= Len(h)
      /\ DOMAIN h = 1..Len(h) /\ Len(h) \in Nat
      /\ DOMAIN items = 1..Len(items) /\ Len(items) \in Nat
      /\ DOMAIN ids = 1..Len(ids) /\ ids[n] \in Id \ (Held \cup Buried)
  BY DEF Grown, ItemsHeld
<1>2. \A j \in 1..n - 1 : j \in 1..n
  OBVIOUS
<1>3. CASE \E x \in ToSet(h) : Same(kind, x, entry)
  <2>1. Taken(kind, h, entry, entry, ids[n]) = h
    BY <1>3 DEF Taken
  <2>2. \A k \in DOMAIN h \ DOMAIN items : \E j \in 1..n : h[k].id = ids[j]
    BY <1>2 DEF Grown
  <2>3. Grown(h, kind, ids, n)
    BY <2>2 DEF Grown
  <2>. QED
    BY <2>1, <2>3
<1>4. CASE ~ \E x \in ToSet(h) : Same(kind, x, entry)
  <2>. DEFINE x == NewItem(ids[n], entry.name, entry.seed, entry.folder)
              u == Append(h, x)
  <2>1. Taken(kind, h, entry, entry, ids[n]) = u
    BY <1>4 DEF Taken
  <2>2. x \in Item /\ x.id = ids[n] /\ x.name = entry.name /\ x.seed = entry.seed
    BY <1>1, NewItemIs DEF ExportEntry
  <2>. HIDE DEF x
  <2>3. ASSUME NEW k \in DOMAIN h PROVE h[k].id # ids[n]
    <3>1. CASE k \in DOMAIN items
      <4>1. h[k] = items[k]
        BY <1>1, <3>1 DEF Grown
      <4>2. items[k].id \in Held
        BY <3>1 DEF Held
      <4>. QED
        BY <1>1, <4>1, <4>2
    <3>2. CASE k \notin DOMAIN items
      <4>1. PICK j \in 1..n - 1 : h[k].id = ids[j]
        BY <3>2 DEF Grown
      <4>2. j \in DOMAIN ids /\ n \in DOMAIN ids /\ j # n
        BY <1>1
      <4>. QED
        BY <4>1, <4>2 DEF NoneTwice
    <3>. QED
      BY <3>1, <3>2
  <2>4. x.id \notin Ids(h)
    BY <2>2, <2>3 DEF Ids
  <2>5. u \in Seq(Item) /\ OneEach(u)
    BY <1>1, <2>2, <2>4, Appended
  <2>6. /\ DOMAIN u = 1..Len(h) + 1 /\ Len(u) = Len(h) + 1 /\ u[Len(h) + 1] = x
        /\ \A k \in DOMAIN h : u[k] = h[k]
    BY <1>1, <2>2
  <2>. HIDE DEF u
  <2>7. Len(items) <= Len(u) /\ \A k \in 1..Len(items) : u[k] = items[k]
    <3>1. \A k \in 1..Len(items) : k \in DOMAIN h /\ h[k] = items[k]
      BY <1>1 DEF Grown
    <3>. QED
      BY <1>1, <2>6, <3>1
  <2>8. ASSUME NEW k \in DOMAIN u \ DOMAIN items PROVE \E j \in 1..n : u[k].id = ids[j]
    <3>1. CASE k = Len(h) + 1
      <4>1. n \in 1..n
        OBVIOUS
      <4>. QED
        BY <2>2, <2>6, <3>1, <4>1
    <3>2. CASE k # Len(h) + 1
      <4>1. k \in DOMAIN h
        BY <1>1, <2>6, <3>2
      <4>2. PICK j \in 1..n - 1 : h[k].id = ids[j]
        BY <4>1 DEF Grown
      <4>. QED
        BY <1>2, <2>6, <4>1, <4>2
    <3>. QED
      BY <3>1, <3>2
  <2>9. ASSUME NEW k \in DOMAIN u, NEW m \in DOMAIN u, m > Len(items), k < m
        PROVE  ~ Same(kind, u[k], u[m])
    <3>1. k \in DOMAIN h
      BY <1>1, <2>6, <2>9
    <3>2. CASE m = Len(h) + 1
      <4>1. h[k] \in ToSet(h)
        BY <3>1 DEF ToSet
      <4>2. ~ Same(kind, h[k], entry)
        BY <1>4, <4>1
      <4>. QED
        BY <2>2, <2>6, <3>1, <3>2, <4>2 DEF Same
    <3>3. CASE m # Len(h) + 1
      <4>1. m \in DOMAIN h
        BY <1>1, <2>6, <3>3
      <4>. QED
        BY <2>6, <2>9, <3>1, <4>1 DEF Grown
    <3>. QED
      BY <3>2, <3>3
  <2>10. Grown(u, kind, ids, n)
    BY <2>5, <2>7, <2>8, <2>9 DEF Grown
  <2>. QED
    BY <2>1, <2>10
<1>. QED
  BY <1>3, <1>4

LEMMA ImportedIs ==
  ASSUME ItemsHeld, NEW kind, NEW ids \in Seq(Id \ (Held \cup Buried)), NoneTwice(ids),
         NEW entries \in Seq(ExportEntry), Len(ids) = Len(entries)
  PROVE  Grown(Imported(kind, entries, entries, ids), kind, ids, Len(ids))
<1>1. PICK held : ImportedBy(held, kind, entries, entries, ids)
  <2>1. ids \in Seq(Id)
    OBVIOUS
  <2>. QED
    BY <2>1, ImportedRuns
<1>2. /\ held = [n \in 0..Len(entries) |->
           IF n = 0 THEN items
           ELSE Taken(kind, held[n - 1], entries[n], entries[n], ids[n])]
      /\ Imported(kind, entries, entries, ids) = held[Len(entries)]
  BY <1>1 DEF ImportedBy
<1>. DEFINE U == {n \in 0..Len(entries) : Grown(held[n], kind, ids, n)}
<1>3. Len(entries) \in Nat /\ 0 \in 0..Len(entries) /\ Len(entries) \in 0..Len(entries)
  OBVIOUS
<1>4. 0 \in U
  <2>1. held[0] = items
    BY <1>2, <1>3
  <2>2. items \in Seq(Item) /\ OneEach(items) /\ Len(items) \in Nat /\ DOMAIN items = 1..Len(items)
    BY DEF ItemsHeld
  <2>3. Grown(items, kind, ids, 0)
    BY <2>2 DEF Grown
  <2>. QED
    BY <1>3, <2>1, <2>3
<1>5. ASSUME NEW n \in 1..Len(entries), n - 1 \in U PROVE n \in U
  <2>1. n \in 0..Len(entries) /\ n # 0 /\ n \in 1..Len(ids) /\ entries[n] \in ExportEntry
    OBVIOUS
  <2>2. held[n] = Taken(kind, held[n - 1], entries[n], entries[n], ids[n])
    BY <1>2, <2>1
  <2>3. Grown(held[n - 1], kind, ids, n - 1)
    BY <1>5
  <2>4. Grown(held[n], kind, ids, n)
    BY <2>1, <2>2, <2>3, GrownMore
  <2>. QED
    BY <2>1, <2>4
<1>. HIDE DEF U
<1>6. Len(entries) \in U
  BY <1>3, <1>4, <1>5, Upwards
<1>. QED
  BY <1>2, <1>6 DEF U

LEMMA EditedIs ==
  ASSUME NEW entries \in Seq(ExportEntry), NEW edit \in Edits(entries)
  PROVE  Edited(entries, edit) \in Seq(ExportEntry) /\ Len(Edited(entries, edit)) = Len(entries)
<1>. DEFINE E == [k \in DOMAIN entries |->
              IF k \in DOMAIN edit
              THEN [entries[k] EXCEPT !.name = edit[k].name, !.folder = edit[k].folder]
              ELSE entries[k]]
<1>1. E = Edited(entries, edit)
  BY DEF Edited
<1>2. PICK D \in SUBSET DOMAIN entries : edit \in [D -> [name : Name, folder : Folder]]
  BY DEF Edits
<1>3. \A k \in DOMAIN entries : entries[k] \in ExportEntry
  OBVIOUS
<1>4. ASSUME NEW k \in DOMAIN entries, k \in DOMAIN edit
      PROVE  [entries[k] EXCEPT !.name = edit[k].name, !.folder = edit[k].folder] \in ExportEntry
  <2>1. edit[k].name \in Name /\ edit[k].folder \in Folder
    BY <1>2, <1>4
  <2>. QED
    BY <1>3, <2>1 DEF ExportEntry
<1>5. E \in [DOMAIN entries -> ExportEntry]
  BY <1>3, <1>4
<1>. HIDE DEF E
<1>. QED
  BY <1>1, <1>5, Mapped

LEMMA RunImportStep ==
  ASSUME ItemsInv, RunImport
  PROVE  /\ ItemsInv'
         /\ Len(items) <= Len(items') /\ \A k \in DOMAIN items : items'[k] = items[k]
         /\ \A n \in DOMAIN items' \ DOMAIN items : items'[n].id \notin Held
         /\ \A k, n \in DOMAIN items' :
              n > Len(items) /\ k < n => ~ Same(export.kind, items'[k], items'[n])
         /\ tombstones' = tombstones
<1>1. PICK ids \in SetToAllKPermutations(Id \ (Held \cup Buried)),
           edit \in Edits(export.entries) :
        /\ Len(ids) = Len(Edited(export.entries, edit))
        /\ Import(export.kind, Edited(export.entries, edit), Edited(export.entries, edit), ids)
        /\ UNCHANGED <<tombstones, export>>
  BY DEF RunImport
<1>. DEFINE entries == Edited(export.entries, edit)
            after == Imported(export.kind, entries, entries, ids)
            added == SubSeq(after, Len(items) + 1, Len(after))
<1>2. IsFiniteSet(Id \ (Held \cup Buried))
  BY FiniteAssumption, FS_Subset
<1>3. ids \in Seq(Id \ (Held \cup Buried)) /\ NoneTwice(ids)
  BY <1>2, PermutationIs
<1>4. export.entries \in Seq(ExportEntry)
  BY ExportAssumption DEF ItemsInv
<1>5. entries \in Seq(ExportEntry)
  BY <1>4, EditedIs
<1>6. Grown(after, export.kind, ids, Len(ids))
  <2>1. Len(ids) = Len(entries) /\ ItemsHeld
    BY <1>1 DEF ItemsInv
  <2>. HIDE DEF entries
  <2>. QED
    BY <1>3, <1>5, <2>1, ImportedIs
<1>7. /\ items' = after
      /\ folders' = IF export.kind = "pass" THEN Filed(folders, added) ELSE folders
      /\ brought' = IF export.kind = "pass" THEN brought
                    ELSE brought \cup {x.id : x \in ToSet(added)}
  BY <1>1 DEF Import
<1>. HIDE DEF entries, after
<1>8. /\ after \in Seq(Item) /\ OneEach(after) /\ Len(items) <= Len(after)
      /\ DOMAIN after = 1..Len(after) /\ Len(after) \in Nat
      /\ DOMAIN items = 1..Len(items) /\ Len(items) \in Nat
      /\ \A k \in DOMAIN items : after[k] = items[k] /\ k \in DOMAIN after
  BY <1>6 DEF Grown, ItemsInv, ItemsHeld
<1>9. ASSUME NEW n \in DOMAIN after \ DOMAIN items
      PROVE  after[n].id \in Id \ (Held \cup Buried)
  <2>1. PICK j \in 1..Len(ids) : after[n].id = ids[j]
    BY <1>6 DEF Grown
  <2>. QED
    BY <1>3, <2>1
<1>10. /\ added \in Seq(Item)
       /\ \A n \in DOMAIN after \ DOMAIN items : after[n] \in ToSet(added)
  <2>1. /\ Len(items) + 1 \in Int /\ Len(after) \in Int
        /\ \A k \in Len(items) + 1..Len(after) : after[k] \in Item
    BY <1>8
  <2>2. /\ added \in Seq(Item)
        /\ Len(added) = IF Len(items) + 1 <= Len(after)
                        THEN Len(after) - (Len(items) + 1) + 1 ELSE 0
        /\ \A k \in 1..Len(after) - (Len(items) + 1) + 1 :
             added[k] = after[Len(items) + 1 + k - 1]
    BY <2>1, SubSeqProperties
  <2>. HIDE DEF added
  <2>3. Len(items) \in Nat /\ Len(after) \in Nat /\ Len(items) <= Len(after)
    BY <1>8
  <2>4. ASSUME Len(items) + 1 <= Len(after) PROVE Len(added) = Len(after) - Len(items)
    <3>1. Len(added) = Len(after) - (Len(items) + 1) + 1
      BY <2>2, <2>4
    <3>2. Len(after) - (Len(items) + 1) + 1 = Len(after) - Len(items)
      BY <2>3
    <3>. QED
      BY <3>1, <3>2
  <2>5. ASSUME ~ (Len(items) + 1 <= Len(after)) PROVE Len(added) = Len(after) - Len(items)
    <3>1. Len(added) = 0
      BY <2>2, <2>5
    <3>2. Len(after) - Len(items) = 0
      BY <2>5, <2>3
    <3>. QED
      BY <3>1, <3>2
  <2>6. added \in Seq(Item) /\ Len(added) = Len(after) - Len(items)
    BY <2>2, <2>4, <2>5
  <2>7. \A k \in 1..Len(after) - Len(items) : added[k] = after[Len(items) + k]
    <3>1. Len(after) - (Len(items) + 1) + 1 = Len(after) - Len(items)
      BY <1>8
    <3>2. \A k \in 1..Len(after) - Len(items) : Len(items) + 1 + k - 1 = Len(items) + k
      BY <1>8
    <3>. QED
      BY <2>2, <3>1, <3>2
  <2>8. DOMAIN added = 1..Len(after) - Len(items)
    BY <1>8, <2>6
  <2>. HIDE DEF added
  <2>9. ASSUME NEW n \in DOMAIN after \ DOMAIN items PROVE after[n] \in ToSet(added)
    <3>1. n - Len(items) \in 1..Len(after) - Len(items) /\ Len(items) + (n - Len(items)) = n
      BY <1>8
    <3>2. added[n - Len(items)] = after[n]
      BY <2>7, <3>1
    <3>. QED
      BY <2>8, <3>1, <3>2 DEF ToSet
  <2>. QED
    BY <2>6, <2>9
<1>. HIDE DEF added
<1>11. /\ FoldersListed' /\ Listed \subseteq Listed' /\ brought \subseteq brought'
       /\ \A n \in DOMAIN after \ DOMAIN items :
            after[n].id \in brought' \/ after[n].folder \in Listed' \cup {NoFolder}
  <2>1. CASE export.kind = "pass"
    <3>1. folders' = Filed(folders, added) /\ brought' = brought
      BY <1>7, <2>1
    <3>2. /\ folders' \in Seq(FolderName) /\ NoneTwice(folders')
          /\ ToSet(folders) \subseteq ToSet(folders')
          /\ \A k \in DOMAIN added : added[k].folder \in ToSet(folders') \cup {NoFolder}
      BY <1>10, <3>1, FiledIs DEF ItemsInv, FoldersListed
    <3>3. \A z \in ToSet(added) : z.folder \in ToSet(folders') \cup {NoFolder}
      BY <3>2 DEF ToSet
    <3>4. \A n \in DOMAIN after \ DOMAIN items : after[n].folder \in ToSet(folders') \cup {NoFolder}
      BY <1>10, <3>3
    <3>. QED
      BY <3>1, <3>2, <3>4 DEF FoldersListed, Listed
  <2>2. CASE export.kind # "pass"
    <3>1. folders' = folders /\ brought' = brought \cup {x.id : x \in ToSet(added)}
      BY <1>7, <2>2
    <3>2. \A n \in DOMAIN after \ DOMAIN items : after[n].id \in brought'
      BY <1>10, <3>1
    <3>. QED
      BY <3>1, <3>2 DEF FoldersListed, Listed, ItemsInv
  <2>. QED
    BY <2>1, <2>2
<1>12. FiledWhereListed'
  <2>. SUFFICES ASSUME NEW n \in DOMAIN after
                PROVE  after[n].id \in brought' \/ after[n].folder \in Listed' \cup {NoFolder}
    BY <1>7 DEF FiledWhereListed, ToSet
  <2>1. CASE n \in DOMAIN items
    <3>1. items[n].id \in brought \/ items[n].folder \in Listed \cup {NoFolder}
      BY <2>1, FiledAll DEF ItemsInv
    <3>. QED
      BY <1>8, <1>11, <2>1, <3>1
  <2>2. CASE n \notin DOMAIN items
    BY <1>11, <2>2
  <2>. QED
    BY <2>1, <2>2
<1>13. Ids(items') \cap Ids(tombstones') = {}
  <2>1. ASSUME NEW n \in DOMAIN after PROVE after[n].id \notin Ids(tombstones)
    <3>1. CASE n \in DOMAIN items
      <4>1. items[n].id \in Ids(items)
        BY <3>1 DEF Ids
      <4>. QED
        BY <1>8, <3>1, <4>1 DEF ItemsInv
    <3>2. CASE n \notin DOMAIN items
      BY <1>9, <3>2, HeldIds
    <3>. QED
      BY <3>1, <3>2
  <2>. QED
    BY <1>1, <1>7, <2>1 DEF Ids
<1>14. ItemsInv'
  BY <1>1, <1>7, <1>8, <1>11, <1>12, <1>13 DEF ItemsInv, ItemsHeld, GravesKept
<1>15. \A k, n \in DOMAIN items' :
              n > Len(items) /\ k < n => ~ Same(export.kind, items'[k], items'[n])
  BY <1>6, <1>7 DEF Grown
<1>. QED
  BY <1>1, <1>7, <1>8, <1>9, <1>14, <1>15

-----------------------------------------------------------------------------
(* Theorems *)

LEMMA ItemsInit == InitItems => ItemsInv
<1>. SUFFICES ASSUME InitItems PROVE ItemsInv
  OBVIOUS
<1>1. items = <<>> /\ folders = <<>> /\ tombstones = <<>> /\ export \in Export
  BY DEF InitItems
<1>2. /\ \A T : <<>> \in Seq(T)
      /\ DOMAIN items = {} /\ DOMAIN folders = {} /\ DOMAIN tombstones = {}
  BY <1>1
<1>3. ItemsHeld /\ GravesKept /\ FoldersListed
  BY <1>1, <1>2 DEF ItemsHeld, GravesKept, FoldersListed, OneEach, NoneTwice, OldestFirst
<1>4. Ids(items) = {} /\ ToSet(items) = {}
  BY <1>2 DEF Ids, ToSet
<1>. QED
  BY <1>1, <1>3, <1>4 DEF ItemsInv, FiledWhereListed

LEMMA ItemsNext == ItemsInv /\ [NextItems]_itemVars => ItemsInv'
<1>. SUFFICES ASSUME ItemsInv, [NextItems]_itemVars PROVE ItemsInv'
  OBVIOUS
<1>. QED
  BY AddStep, UpsertStep, UpdateStep, ReorderItemsStep, RemoveItemStep, CreateFolderStep,
     RenameFolderStep, DeleteFolderStep, ReorderFoldersStep, SetFolderStep, FileStep,
     RunImportStep, ReopenStep, TickStep DEF NextItems

(* The inductive invariant: every list of the vault holds nothing twice,    *)
(* the deletions are in the order of their age, what is here is not buried, *)
(* and every item is filed where the list has a folder.                     *)
THEOREM ItemsInvariant == SpecItems => []ItemsInv
  BY ItemsInit, ItemsNext, PTL DEF SpecItems

(* However items are added, synced, removed, reordered and imported, none   *)
(* is held twice, none is held that is recorded as deleted, and no folder   *)
(* is listed twice (vault.rs:871).                                          *)
THEOREM NeverBoth == SpecItems => []NeverBothHereAndBuried
<1>1. ItemsInv => NeverBothHereAndBuried
  <2>. SUFFICES ASSUME ItemsInv PROVE NeverBothHereAndBuried
    OBVIOUS
  <2>1. Held \cap Buried = {}
    BY HeldIds DEF ItemsInv
  <2>2. Cardinality(Held) = Len(items)
    BY HeldIds, CountOneEach DEF ItemsInv, ItemsHeld
  <2>3. Cardinality(Buried) = Len(tombstones)
    BY HeldIds, CountOneEach DEF ItemsInv, GravesKept
  <2>4. Cardinality(Listed) = Len(folders)
    BY CountNoneTwice DEF ItemsInv, FoldersListed, Listed
  <2>. QED
    BY <2>1, <2>2, <2>3, <2>4 DEF NeverBothHereAndBuried
<1>. QED
  BY <1>1, ItemsInvariant, PTL

(* Through renaming, deleting, reordering and importing, an item that no    *)
(* sync and no authenticator's export has brought is in no folder or in one *)
(* the list has (vault.rs:933).                                             *)
THEOREM FiledInList == SpecItems => []FiledWhereListed
<1>1. ItemsInv => FiledWhereListed
  BY DEF ItemsInv
<1>. QED
  BY <1>1, ItemsInvariant, PTL

(* The actions of the vault after which its deletions are what they were.   *)
LEMMA GravesAsTheyWere ==
  ASSUME \/ Update \/ ReorderItems \/ CreateFolder \/ RenameFolder \/ DeleteFolder
         \/ ReorderFolders \/ SetFolder \/ FileChanges \/ Preview \/ UNCHANGED itemVars
  PROVE  Buried' = Buried
<1>1. tombstones' = tombstones
  BY DEF Update, ReorderItems, CreateFolder, RenameFolder, DeleteFolder, ReorderFolders,
         SetFolder, FileChanges, Preview, itemVars
<1>. QED
  BY <1>1 DEF Buried

LEMMA ItemsAsTheyWere ==
  ASSUME \/ CreateFolder \/ ReorderFolders \/ FileChanges \/ Preview \/ Reopen
         \/ UNCHANGED itemVars
  PROVE  items' = items /\ Held' = Held
<1>1. items' = items
  BY DEF CreateFolder, ReorderFolders, FileChanges, Preview, Reopen, itemVars
<1>. QED
  BY <1>1 DEF Held

(* No step but a removal takes an item away, and a removal takes one and    *)
(* leaves its deletion recorded, though the list of deletions may be full   *)
(* (vault.rs:960, 1005).                                                    *)
THEOREM ItemsStayHolds == SpecItems => ItemsStay
<1>1. ASSUME ItemsInv, [NextItems]_itemVars
      PROVE  \/ Held \subseteq Held'
             \/ \E i \in Held : Held' = Held \ {i} /\ i \in Buried'
  <2>1. CASE RemoveItem
    BY <1>1, <2>1, RemoveItemStep
  <2>2. CASE RunImport
    <3>1. DOMAIN items \subseteq DOMAIN items' /\ \A k \in DOMAIN items : items'[k] = items[k]
      <4>1. /\ ItemsInv' /\ Len(items) <= Len(items')
            /\ \A k \in DOMAIN items : items'[k] = items[k]
        BY <1>1, <2>2, RunImportStep
      <4>2. items \in Seq(Item) /\ items' \in Seq(Item)
        BY <1>1, <4>1 DEF ItemsInv, ItemsHeld
      <4>3. /\ DOMAIN items = 1..Len(items) /\ DOMAIN items' = 1..Len(items')
            /\ Len(items) \in Nat /\ Len(items') \in Nat
        BY <4>2
      <4>. QED
        BY <4>1, <4>3
    <3>. QED
      BY <3>1 DEF Held
  <2>. QED
    BY <1>1, <2>1, <2>2, AddStep, UpsertStep, UpdateStep, ReorderItemsStep, RenameFolderStep,
       DeleteFolderStep, SetFolderStep, TickStep, ItemsAsTheyWere DEF NextItems
<1>. QED
  BY <1>1, ItemsInvariant, PTL DEF SpecItems, ItemsStay

(* A deletion is forgotten when its item is back, when it is older than the *)
(* retention, or when as many as the list has room for are no older         *)
(* (vault.rs:1064): the order of the list is what makes this true.          *)
THEOREM ForgottenLastHolds == SpecItems => ForgottenLast
<1>. DEFINE P(k) ==
       LET g == tombstones[k]
           newer == {n \in DOMAIN tombstones' : tombstones'[n].age <= g.age}
       IN  \/ g.id \in Buried' \/ g.id \in Held' \/ g.age > Retention
           \/ Cardinality(newer) >= Capacity
<1>1. ASSUME ItemsInv, [NextItems]_itemVars, NEW k \in DOMAIN tombstones
      PROVE  P(k)
  <2>1. tombstones[k].id \in Buried
    BY DEF Buried
  <2>2. CASE RemoveItem
    BY <1>1, <2>2, RemoveItemStep
  <2>3. CASE Reopen
    BY <1>1, <2>3, ReopenStep
  <2>4. ASSUME Buried \subseteq Buried' \cup Held' PROVE P(k)
    BY <2>1, <2>4
  <2>5. CASE RunImport
    <3>1. tombstones' = tombstones
      BY <1>1, <2>5, RunImportStep
    <3>2. Buried' = Buried
      BY <3>1 DEF Buried
    <3>. QED
      BY <2>4, <3>2
  <2>. HIDE DEF P
  <2>. QED
    BY <1>1, <2>2, <2>3, <2>4, <2>5, AddStep, UpsertStep, TickStep, GravesAsTheyWere
       DEF NextItems
<1>2. ItemsInv /\ [NextItems]_itemVars => \A k \in DOMAIN tombstones : P(k)
  BY <1>1
<1>. QED
  BY <1>2, ItemsInvariant, PTL DEF SpecItems, ForgottenLast

(* What ChangesAreStamped says of a step.                                   *)
Stamped ==
  \A k \in DOMAIN items, n \in DOMAIN items' :
    items[k].id = items'[n].id =>
      \/ <<items'[n].name, items'[n].folder>> = <<items[k].name, items[k].folder>>
      \/ items'[n].fresh
      \/ items'[n].id \in brought'

LEMMA StampedInPlace ==
  ASSUME ItemsHeld, DOMAIN items' = DOMAIN items,
         \A k \in DOMAIN items :
           /\ items'[k].id = items[k].id
           /\ \/ items'[k].name = items[k].name /\ items'[k].folder = items[k].folder
              \/ items'[k].fresh
  PROVE  Stamped
<1>. SUFFICES ASSUME NEW k \in DOMAIN items, NEW n \in DOMAIN items,
                     items[k].id = items'[n].id
              PROVE  \/ <<items'[n].name, items'[n].folder>> = <<items[k].name, items[k].folder>>
                     \/ items'[n].fresh
  BY DEF Stamped
<1>1. items[k].id = items[n].id
  OBVIOUS
<1>2. k = n
  BY <1>1 DEF ItemsHeld, OneEach
<1>. QED
  BY <1>2

(* Items that are what they were, new ones, and what was brought.           *)
LEMMA StampedElse ==
  ASSUME ItemsHeld,
         \A n \in DOMAIN items' :
           \/ items'[n] \in ToSet(items) \/ items'[n].id \notin Held
           \/ items'[n].id \in brought'
  PROVE  Stamped
<1>. SUFFICES ASSUME NEW k \in DOMAIN items, NEW n \in DOMAIN items',
                     items[k].id = items'[n].id, items'[n].id \notin brought'
              PROVE  items'[n] = items[k]
  BY DEF Stamped
<1>1. items'[n] \in ToSet(items)
  BY DEF Held
<1>2. PICK m \in DOMAIN items : items'[n] = items[m]
  BY <1>1 DEF ToSet
<1>3. m = k
  BY <1>2 DEF ItemsHeld, OneEach
<1>. QED
  BY <1>2, <1>3

LEMMA StampedRestamp ==
  ASSUME ItemsHeld, NEW i \in Held, NEW x \in Item, x.id = i, items' = Restamped(i, x)
  PROVE  Stamped
<1>1. /\ items' \in [DOMAIN items -> Item]
      /\ \A k \in DOMAIN items :
           /\ items'[k].id = items[k].id
           /\ items[k].id = i => items'[k].fresh
           /\ items[k].id # i => items'[k] = items[k]
  BY RestampedIs
<1>2. DOMAIN items' = DOMAIN items
  BY <1>1
<1>. QED
  BY <1>1, <1>2, StampedInPlace

LEMMA StampedMove ==
  ASSUME ItemsHeld, NEW from, NEW to \in Folder, items' = Moved(from, to)
  PROVE  Stamped
<1>1. /\ items' \in [DOMAIN items -> Item]
      /\ \A k \in DOMAIN items :
           /\ items'[k].id = items[k].id
           /\ items[k].folder = from => items'[k].fresh
           /\ items[k].folder # from => items'[k] = items[k]
  BY MovedIs
<1>2. DOMAIN items' = DOMAIN items
  BY <1>1
<1>. QED
  BY <1>1, <1>2, StampedInPlace

(* An item whose name or folder a step changes is stamped with the second   *)
(* of the change, or a sync or an import has brought it: renaming and       *)
(* deleting a folder stamp every item they move (vault.rs:909, 951).        *)
THEOREM ChangesAreStampedHolds == SpecItems => ChangesAreStamped
<1>1. ASSUME ItemsInv, [NextItems]_itemVars
      PROVE  Stamped
  <2>1. ItemsHeld /\ items \in Seq(Item)
    BY <1>1 DEF ItemsInv, ItemsHeld
  <2>2. CASE Add
    <3>1. PICK i \in Id \ (Held \cup Buried), n \in Name, s \in Seed :
            items' = Append(items, NewItem(i, n, s, NoFolder))
      BY <2>2 DEF Add
    <3>2. NewItem(i, n, s, NoFolder) \in Item /\ NewItem(i, n, s, NoFolder).id = i
      BY NewItemIs, FolderIs
    <3>3. i \notin Ids(items) /\ OneEach(items)
      BY <2>1, HeldIds DEF ItemsHeld
    <3>4. ToSet(items') = ToSet(items) \cup {NewItem(i, n, s, NoFolder)}
      BY <2>1, <3>1, <3>2, <3>3, Appended
    <3>5. \A k \in DOMAIN items' : items'[k] \in ToSet(items')
      BY DEF ToSet
    <3>. QED
      BY <2>1, <3>2, <3>4, <3>5, StampedElse
  <2>3. CASE Upsert
    <3>. DEFINE came(i, n, f) == [NewItem(i, n, CHOOSE s \in Seed : TRUE, f) EXCEPT !.fresh = FALSE]
    <3>1. PICK i \in Id, n \in Name, f \in Folder :
            /\ items' = IF i \in Held
                 THEN [k \in DOMAIN items |-> IF items[k].id = i THEN came(i, n, f) ELSE items[k]]
                 ELSE Append(items, came(i, n, f))
            /\ brought' = brought \cup {i}
      BY <2>3 DEF Upsert
    <3>. DEFINE x == came(i, n, f)
    <3>2. x.id = i
      BY DEF NewItem
    <3>3. items' = IF i \in Held
                 THEN [k \in DOMAIN items |-> IF items[k].id = i THEN x ELSE items[k]]
                 ELSE Append(items, x)
      BY <3>1
    <3>. HIDE DEF x
    <3>4. \A k \in DOMAIN items' : items'[k] = x \/ items'[k] \in ToSet(items)
      <4>1. CASE i \in Held
        BY <3>3, <4>1 DEF ToSet
      <4>2. CASE i \notin Held
        <5>1. items' = Append(items, x)
          BY <3>3, <4>2
        <5>2. /\ DOMAIN items' = 1..Len(items) + 1 /\ DOMAIN items = 1..Len(items)
              /\ Len(items) \in Nat
              /\ items'[Len(items) + 1] = x
              /\ \A k \in 1..Len(items) : items'[k] = items[k]
          BY <2>1, <5>1
        <5>3. \A k \in DOMAIN items' : k = Len(items) + 1 \/ k \in 1..Len(items)
          BY <5>2
        <5>. QED
          BY <5>2, <5>3 DEF ToSet
      <4>. QED
        BY <4>1, <4>2
    <3>5. i \in brought'
      BY <3>1
    <3>6. \A k \in DOMAIN items' : items'[k] \in ToSet(items) \/ items'[k].id \in brought'
      BY <3>2, <3>4, <3>5
    <3>. QED
      BY <2>1, <3>6, StampedElse
  <2>4. CASE Update
    <3>1. PICK i \in Held, n \in Name : items' = Restamped(i, [ItemOf(i) EXCEPT !.name = n])
      BY <2>4 DEF Update
    <3>2. [ItemOf(i) EXCEPT !.name = n] \in Item /\ [ItemOf(i) EXCEPT !.name = n].id = i
      BY <2>1, ItemOfIs, ItemWith
    <3>. QED
      BY <2>1, <3>1, <3>2, StampedRestamp
  <2>5. CASE SetFolder
    <3>1. PICK i \in Held, f \in Listed \cup {NoFolder} :
            items' = Restamped(i, [ItemOf(i) EXCEPT !.folder = f])
      BY <2>5 DEF SetFolder
    <3>2. f \in Folder
      BY <1>1, FolderIs DEF ItemsInv, FoldersListed, Listed, ToSet
    <3>3. [ItemOf(i) EXCEPT !.folder = f] \in Item /\ [ItemOf(i) EXCEPT !.folder = f].id = i
      BY <2>1, <3>2, ItemOfIs, ItemWith
    <3>. QED
      BY <2>1, <3>1, <3>3, StampedRestamp
  <2>6. CASE RenameFolder
    <3>1. PICK from \in Listed, to \in FolderName : items' = Moved(from, to)
      BY <2>6 DEF RenameFolder
    <3>. QED
      BY <2>1, <3>1, FolderIs, StampedMove
  <2>7. CASE DeleteFolder
    <3>1. PICK f \in Listed : items' = Moved(f, NoFolder)
      BY <2>7 DEF DeleteFolder
    <3>. QED
      BY <2>1, <3>1, FolderIs, StampedMove
  <2>8. CASE ReorderItems \/ RemoveItem
    <3>1. \A n \in DOMAIN items' : items'[n] \in ToSet(items)
      BY <1>1, <2>8, ReorderItemsStep, RemoveItemStep
    <3>. QED
      BY <2>1, <3>1, StampedElse
  <2>9. CASE RunImport
    <3>1. \A n \in DOMAIN items' :
            items'[n] \in ToSet(items) \/ items'[n].id \notin Held
      BY <1>1, <2>9, RunImportStep DEF ToSet
    <3>. QED
      BY <2>1, <3>1, StampedElse
  <2>10. CASE Tick
    <3>1. items' = [k \in DOMAIN items |-> [items[k] EXCEPT !.fresh = FALSE]]
      BY <2>10 DEF Tick
    <3>2. \A k \in DOMAIN items : items[k] \in Item
      BY <2>1
    <3>3. \A k \in DOMAIN items :
            /\ items'[k].id = items[k].id
            /\ items'[k].name = items[k].name /\ items'[k].folder = items[k].folder
      BY <3>1, <3>2, ItemWith
    <3>4. DOMAIN items' = DOMAIN items
      BY <3>1
    <3>. QED
      BY <2>1, <3>3, <3>4, StampedInPlace
  <2>11. ASSUME items' = items PROVE Stamped
    BY <2>1, <2>11, StampedElse DEF ToSet
  <2>. QED
    BY <1>1, <2>2, <2>3, <2>4, <2>5, <2>6, <2>7, <2>8, <2>9, <2>10, <2>11, ItemsAsTheyWere
       DEF NextItems
<1>2. ItemsInv /\ [NextItems]_itemVars => Stamped
  BY <1>1
<1>. QED
  BY <1>2, ItemsInvariant, PTL DEF SpecItems, ChangesAreStamped, Stamped

(* The items an import adds are, by what the import compares, the same as   *)
(* none that were held and as none it added before them, whatever the user  *)
(* has renamed (lib.rs:1514).                                               *)
THEOREM ImportsAddNoTwinsHolds == SpecItems => ImportsAddNoTwins
<1>1. ASSUME ItemsInv, [NextItems]_itemVars, preview' # preview, preview' = NoExport
      PROVE  \A k \in DOMAIN items', n \in DOMAIN items' :
               n > Len(items) /\ k < n => ~ Same(export.kind, items'[k], items'[n])
  <2>1. ~ Preview
    BY <1>1, FolderAssumption DEF Preview, ItemsInv
  <2>2. RunImport
    BY <1>1, <2>1 DEF NextItems, Add, Upsert, Update, ReorderItems, RemoveItem, CreateFolder,
       RenameFolder, DeleteFolder, ReorderFolders, SetFolder, FileChanges, Reopen, Tick,
       itemVars
  <2>. QED
    BY <1>1, <2>2, RunImportStep
<1>2. ItemsInv /\ [NextItems]_itemVars =>
        (preview' # preview /\ preview' = NoExport =>
           \A k \in DOMAIN items', n \in DOMAIN items' :
             n > Len(items) /\ k < n => ~ Same(export.kind, items'[k], items'[n]))
  BY <1>1
<1>. QED
  BY <1>2, ItemsInvariant, PTL DEF SpecItems, ImportsAddNoTwins
=============================================================================

----------------------------- MODULE ListsProofs -----------------------------
(***************************************************************************)
(* Lemmas about lists that are made by going over other lists.  What such  *)
(* a function returns is proved by induction over the indexes: on sets of  *)
(* them (Upwards) for what holds at each, and by a function that exists    *)
(* (Recursion) for what the definition names.                              *)
(***************************************************************************)
EXTENDS Lists, SequencesExt, WellFoundedInduction, FiniteSetTheorems,
        SequenceTheorems, TLAPS

(* Up to N, one after the other: what holds at 0 and of each next number.   *)
LEMMA Upwards ==
  ASSUME NEW N \in Nat, NEW T, 0 \in T, \A n \in 1..N : n - 1 \in T => n \in T
  PROVE  \A n \in 0..N : n \in T
<1>. DEFINE U == {n \in 0..N : n \notin T}
            less == {ss \in Nat \X Nat : ss[1] < ss[2]}
<1>. SUFFICES ASSUME U # {} PROVE FALSE
  OBVIOUS
<1>1. PICK n \in U : \A k \in U : ~ (<<k, n>> \in less)
  <2>1. IsWellFoundedOn(less, Nat)
    BY NatLessThanWellFounded DEF OpToRel
  <2>2. U \subseteq Nat
    OBVIOUS
  <2>. QED
    BY <2>1, <2>2, WFMin
<1>2. n \in 1..N /\ n - 1 \in 0..N
  OBVIOUS
<1>3. n - 1 \in U
  BY <1>2
<1>4. <<n - 1, n>> \in less
  BY <1>2
<1>. QED
  BY <1>1, <1>3, <1>4

(* A function may be defined by what follows from its value before.         *)
Runs(f, N, b, G) == f[0] = b /\ \A n \in 1..N : f[n] = G[<<f[n - 1], n>>]

LEMMA Recursion ==
  ASSUME NEW N \in Nat, NEW X, NEW b \in X, NEW G \in [X \X (1..N) -> X]
  PROVE  \E f \in [0..N -> X] : Runs(f, N, b, G)
<1>. DEFINE T == {n \in 0..N : \E f \in [0..n -> X] : Runs(f, n, b, G)}
<1>1. 0 \in T
  <2>. DEFINE f == [n \in 0..0 |-> b]
  <2>1. f \in [0..0 -> X] /\ f[0] = b /\ 1..0 = {} /\ 0 \in 0..N
    OBVIOUS
  <2>2. Runs(f, 0, b, G)
    BY <2>1 DEF Runs
  <2>. HIDE DEF f
  <2>. QED
    BY <2>1, <2>2
<1>2. ASSUME NEW n \in 1..N, n - 1 \in T PROVE n \in T
  <2>1. PICK f \in [0..n - 1 -> X] : Runs(f, n - 1, b, G)
    BY <1>2
  <2>. DEFINE g == [k \in 0..n |-> IF k = n THEN G[<<f[n - 1], n>>] ELSE f[k]]
  <2>2. f[n - 1] \in X
    BY <2>1
  <2>3. g \in [0..n -> X]
    BY <2>1, <2>2
  <2>4. ASSUME NEW k \in 1..n PROVE g[k] = G[<<g[k - 1], k>>]
    <3>1. k \in 0..n /\ k - 1 \in 0..n /\ k - 1 # n
      OBVIOUS
    <3>2. CASE k = n
      <4>1. g[k] = G[<<f[n - 1], n>>] /\ g[k - 1] = f[n - 1]
        BY <3>1, <3>2
      <4>. HIDE DEF g
      <4>. QED
        BY <3>2, <4>1
    <3>3. CASE k # n
      <4>1. k \in 1..n - 1
        BY <3>3
      <4>2. f[k] = G[<<f[k - 1], k>>]
        BY <2>1, <4>1 DEF Runs
      <4>3. g[k] = f[k] /\ g[k - 1] = f[k - 1]
        BY <3>1, <3>3
      <4>. HIDE DEF g
      <4>. QED
        BY <4>2, <4>3
    <3>. QED
      BY <3>2, <3>3
  <2>5. g[0] = b
    BY <2>1 DEF Runs
  <2>6. Runs(g, n, b, G)
    BY <2>4, <2>5 DEF Runs
  <2>. HIDE DEF g
  <2>. QED
    BY <2>3, <2>6
<1>. HIDE DEF T
<1>3. N \in T
  BY <1>1, <1>2, Upwards
<1>. QED
  BY <1>3 DEF T

-----------------------------------------------------------------------------
(* Filtering a sequence *)

(* The function that Kept is defined by.                                    *)
KeptBy(kept, s, S) ==
  /\ kept = [n \in 0..Len(s) |->
       IF n = 0 THEN <<>>
       ELSE IF s[n] \in S THEN Append(kept[n - 1], s[n]) ELSE kept[n - 1]]
  /\ Kept(s, S) = kept[Len(s)]

LEMMA KeptRuns ==
  ASSUME NEW T, NEW s \in Seq(T), NEW S
  PROVE  \E kept : KeptBy(kept, s, S)
<1>. DEFINE Step(f) == [n \in 0..Len(s) |->
              IF n = 0 THEN <<>>
              ELSE IF s[n] \in S THEN Append(f[n - 1], s[n]) ELSE f[n - 1]]
            G == [z \in Seq(T) \X (1..Len(s)) |->
                    IF s[z[2]] \in S THEN Append(z[1], s[z[2]]) ELSE z[1]]
<1>1. Len(s) \in Nat /\ \A n \in 1..Len(s) : s[n] \in T
  OBVIOUS
<1>2. G \in [Seq(T) \X (1..Len(s)) -> Seq(T)]
  BY <1>1
<1>3. <<>> \in Seq(T)
  OBVIOUS
<1>4. PICK f \in [0..Len(s) -> Seq(T)] : Runs(f, Len(s), <<>>, G)
  <2>. HIDE DEF G
  <2>. QED
    BY <1>1, <1>2, <1>3, Recursion
<1>5. f = Step(f)
  <2>1. ASSUME NEW n \in 1..Len(s) PROVE f[n] = Step(f)[n]
    <3>1. n \in 0..Len(s) /\ n # 0 /\ n - 1 \in 0..Len(s)
      BY <1>1
    <3>2. /\ n \in 0..Len(s) /\ n # 0 /\ n - 1 \in 0..Len(s)
          /\ f[n - 1] \in Seq(T)
      <4>. HIDE DEF Step, G
      <4>. QED
        BY <3>1
    <3>3. G[<<f[n - 1], n>>] =
             IF s[n] \in S THEN Append(f[n - 1], s[n]) ELSE f[n - 1]
      BY <3>2
    <3>4. Step(f)[n] = IF s[n] \in S THEN Append(f[n - 1], s[n]) ELSE f[n - 1]
      BY <3>2
    <3>5. f[n] = G[<<f[n - 1], n>>]
      BY <1>4 DEF Runs
    <3>. QED
      BY <3>3, <3>4, <3>5
  <2>2. f[0] = Step(f)[0]
    BY <1>1, <1>4 DEF Runs
  <2>3. DOMAIN f = 0..Len(s) /\ DOMAIN Step(f) = 0..Len(s)
    OBVIOUS
  <2>4. \A n \in 0..Len(s) : n = 0 \/ n \in 1..Len(s)
    OBVIOUS
  <2>5. Step(f) = [n \in 0..Len(s) |-> Step(f)[n]]
    OBVIOUS
  <2>. HIDE DEF Step, G
  <2>. QED
    BY <2>1, <2>2, <2>3, <2>4, <2>5
<1>6. (CHOOSE g : g = Step(g)) = Step(CHOOSE g : g = Step(g))
  BY <1>5
<1>7. Kept(s, S) = (CHOOSE g : g = Step(g))[Len(s)]
  BY DEF Kept
<1>8. KeptBy(CHOOSE g : g = Step(g), s, S)
  BY <1>6, <1>7 DEF KeptBy
<1>. QED
  BY <1>8

(* t is the elements of S among the first l of s, in their order.           *)
Picks(t, s, S, at, l) ==
  /\ at \in [1..Len(t) -> 1..l]
  /\ \A n \in 1..Len(t) : t[n] = s[at[n]] /\ t[n] \in S
  /\ \A m, n \in 1..Len(t) : m < n => at[m] < at[n]
  /\ \A k \in 1..l : s[k] \in S => \E n \in 1..Len(t) : at[n] = k

LEMMA Below ==
  ASSUME NEW l \in Nat, NEW m \in 1..l + 1, NEW n \in 1..l + 1, m < n
  PROVE  m \in 1..l
  OBVIOUS

LEMMA PicksNext ==
  ASSUME NEW T, NEW s \in Seq(T), NEW S, NEW t \in Seq(T), NEW at,
         NEW l \in 1..Len(s), Picks(t, s, S, at, l - 1)
  PROVE  LET u == IF s[l] \in S THEN Append(t, s[l]) ELSE t IN
         u \in Seq(T) /\ \E at2 : Picks(u, s, S, at2, l)
<1>1. s[l] \in T /\ Len(t) \in Nat
  OBVIOUS
<1>2. CASE s[l] \notin S
  <2>1. at \in [1..Len(t) -> 1..l]
    BY DEF Picks
  <2>2. \A k \in 1..l : k = l \/ k \in 1..l - 1
    OBVIOUS
  <2>3. Picks(t, s, S, at, l)
    BY <1>2, <2>1, <2>2 DEF Picks
  <2>. QED
    BY <1>2, <2>3
<1>3. CASE s[l] \in S
  <2>. DEFINE u == Append(t, s[l])
              at2 == [n \in 1..Len(t) + 1 |-> IF n = Len(t) + 1 THEN l ELSE at[n]]
  <2>1. /\ u \in Seq(T) /\ Len(u) = Len(t) + 1
        /\ u[Len(t) + 1] = s[l] /\ \A n \in 1..Len(t) : u[n] = t[n]
    BY <1>1
  <2>2. \A n \in 1..Len(t) : at[n] \in 1..l - 1
    BY DEF Picks
  <2>3. /\ at2 \in [1..Len(t) + 1 -> 1..l]
        /\ at2[Len(t) + 1] = l /\ \A n \in 1..Len(t) : at2[n] = at[n]
    <3>1. \A n \in 1..Len(t) + 1 : n = Len(t) + 1 \/ n \in 1..Len(t)
      BY <1>1
    <3>2. Len(t) + 1 \in 1..Len(t) + 1 /\ \A n \in 1..Len(t) : n \in 1..Len(t) + 1 /\ n # Len(t) + 1
      BY <1>1
    <3>3. \A n \in 1..Len(t) : at[n] \in 1..l
      BY <2>2
    <3>. QED
      BY <3>1, <3>2, <3>3
  <2>. HIDE DEF u, at2
  <2>4. \A n \in 1..Len(t) + 1 : n = Len(t) + 1 \/ n \in 1..Len(t)
    BY <1>1
  <2>5. \A n \in 1..Len(u) : u[n] = s[at2[n]] /\ u[n] \in S
    <3>1. s[at2[Len(t) + 1]] = s[l]
      BY <2>3
    <3>2. \A n \in 1..Len(t) : t[n] = s[at[n]] /\ t[n] \in S
      BY DEF Picks
    <3>3. ASSUME NEW n \in 1..Len(t) PROVE u[n] = s[at2[n]] /\ u[n] \in S
      BY <2>1, <2>3, <3>2
    <3>. QED
      BY <1>3, <2>1, <2>4, <3>1, <3>3
  <2>6. \A m, n \in 1..Len(u) : m < n => at2[m] < at2[n]
    <3>. SUFFICES ASSUME NEW m \in 1..Len(t) + 1, NEW n \in 1..Len(t) + 1, m < n
                  PROVE  at2[m] < at2[n]
      BY <2>1
    <3>1. m \in 1..Len(t)
      BY <1>1, Below
    <3>2. CASE n = Len(t) + 1
      BY <2>2, <2>3, <3>1, <3>2
    <3>3. CASE n \in 1..Len(t)
      <4>1. at[m] < at[n]
        BY <3>1, <3>3 DEF Picks
      <4>. QED
        BY <2>3, <3>1, <3>3, <4>1
    <3>. QED
      BY <2>4, <3>2, <3>3
  <2>7. \A k \in 1..l : s[k] \in S => \E n \in 1..Len(u) : at2[n] = k
    <3>. SUFFICES ASSUME NEW k \in 1..l, s[k] \in S
                  PROVE  \E n \in 1..Len(t) + 1 : at2[n] = k
      BY <2>1
    <3>1. CASE k = l
      <4>1. Len(t) + 1 \in 1..Len(t) + 1
        BY <1>1
      <4>. QED
        BY <2>3, <3>1, <4>1
    <3>2. CASE k # l
      <4>1. k \in 1..l - 1
        BY <3>2
      <4>2. PICK n \in 1..Len(t) : at[n] = k
        BY <4>1 DEF Picks
      <4>3. n \in 1..Len(t) + 1
        BY <1>1
      <4>. QED
        BY <2>3, <4>2, <4>3
    <3>. QED
      BY <3>1, <3>2
  <2>8. Picks(u, s, S, at2, l)
    BY <2>1, <2>3, <2>5, <2>6, <2>7 DEF Picks
  <2>. QED
    BY <1>3, <2>1, <2>8 DEF u
<1>. QED
  BY <1>2, <1>3

LEMMA KeptIs ==
  ASSUME NEW T, NEW s \in Seq(T), NEW S
  PROVE  Kept(s, S) \in Seq(T) /\ \E at : Picks(Kept(s, S), s, S, at, Len(s))
<1>1. PICK kept : KeptBy(kept, s, S)
  BY KeptRuns
<1>2. /\ kept = [n \in 0..Len(s) |->
           IF n = 0 THEN <<>>
           ELSE IF s[n] \in S THEN Append(kept[n - 1], s[n]) ELSE kept[n - 1]]
      /\ Kept(s, S) = kept[Len(s)]
  BY <1>1 DEF KeptBy
<1>. DEFINE U == {n \in 0..Len(s) : /\ kept[n] \in Seq(T)
                                    /\ \E at : Picks(kept[n], s, S, at, n)}
<1>3. Len(s) \in Nat /\ 0 \in 0..Len(s) /\ Len(s) \in 0..Len(s)
  OBVIOUS
<1>4. 0 \in U
  <2>1. kept[0] = <<>>
    BY <1>2, <1>3
  <2>. DEFINE none == [n \in 1..0 |-> 0]
  <2>2. none \in [1..Len(<<>>) -> 1..0] /\ 1..Len(<<>>) = {} /\ 1..0 = {} /\ <<>> \in Seq(T)
    OBVIOUS
  <2>3. Picks(<<>>, s, S, none, 0)
    BY <2>2 DEF Picks
  <2>. QED
    BY <1>3, <2>1, <2>2, <2>3
<1>5. ASSUME NEW n \in 1..Len(s), n - 1 \in U PROVE n \in U
  <2>1. PICK at : Picks(kept[n - 1], s, S, at, n - 1)
    BY <1>5
  <2>2. kept[n - 1] \in Seq(T)
    BY <1>5
  <2>3. n \in 0..Len(s) /\ n # 0
    OBVIOUS
  <2>4. kept[n] = IF s[n] \in S THEN Append(kept[n - 1], s[n]) ELSE kept[n - 1]
    BY <1>2, <2>3
  <2>5. /\ (IF s[n] \in S THEN Append(kept[n - 1], s[n]) ELSE kept[n - 1]) \in Seq(T)
        /\ \E at2 : Picks(IF s[n] \in S THEN Append(kept[n - 1], s[n]) ELSE kept[n - 1],
                          s, S, at2, n)
    BY <2>1, <2>2, PicksNext
  <2>. QED
    BY <2>3, <2>4, <2>5
<1>. HIDE DEF U
<1>6. Len(s) \in U
  BY <1>3, <1>4, <1>5, Upwards
<1>. QED
  BY <1>2, <1>6 DEF U

LEMMA KeptHas ==
  ASSUME NEW T, NEW s \in Seq(T), NEW S
  PROVE  Kept(s, S) \in Seq(T) /\ ToSet(Kept(s, S)) = ToSet(s) \cap S
<1>1. PICK at : Picks(Kept(s, S), s, S, at, Len(s))
  BY KeptIs
<1>2. Kept(s, S) \in Seq(T)
  BY KeptIs
<1>3. DOMAIN s = 1..Len(s) /\ DOMAIN Kept(s, S) = 1..Len(Kept(s, S))
  BY <1>2
<1>4. ASSUME NEW x \in ToSet(Kept(s, S)) PROVE x \in ToSet(s) \cap S
  <2>1. PICK n \in 1..Len(Kept(s, S)) : x = Kept(s, S)[n]
    BY <1>3 DEF ToSet
  <2>2. x = s[at[n]] /\ x \in S /\ at[n] \in 1..Len(s)
    BY <1>1, <2>1 DEF Picks
  <2>. QED
    BY <1>3, <2>2 DEF ToSet
<1>5. ASSUME NEW x \in ToSet(s) \cap S PROVE x \in ToSet(Kept(s, S))
  <2>1. PICK k \in 1..Len(s) : x = s[k]
    BY <1>3 DEF ToSet
  <2>2. PICK n \in 1..Len(Kept(s, S)) : at[n] = k
    BY <1>1, <2>1 DEF Picks
  <2>3. Kept(s, S)[n] = x
    BY <1>1, <2>1, <2>2 DEF Picks
  <2>. QED
    BY <1>3, <2>3 DEF ToSet
<1>. QED
  BY <1>2, <1>4, <1>5

LEMMA KeptOrder ==
  ASSUME NEW T, NEW s \in Seq(T), NEW S,
         NEW m \in DOMAIN Kept(s, S), NEW n \in DOMAIN Kept(s, S), m < n
  PROVE  \E i, j \in DOMAIN s : i < j /\ Kept(s, S)[m] = s[i] /\ Kept(s, S)[n] = s[j]
<1>1. PICK at : Picks(Kept(s, S), s, S, at, Len(s))
  BY KeptIs
<1>2. Kept(s, S) \in Seq(T)
  BY KeptIs
<1>3. DOMAIN s = 1..Len(s) /\ m \in 1..Len(Kept(s, S)) /\ n \in 1..Len(Kept(s, S))
  BY <1>2
<1>4. /\ at[m] \in 1..Len(s) /\ at[n] \in 1..Len(s) /\ at[m] < at[n]
      /\ Kept(s, S)[m] = s[at[m]] /\ Kept(s, S)[n] = s[at[n]]
  BY <1>1, <1>3 DEF Picks
<1>. QED
  BY <1>3, <1>4

-----------------------------------------------------------------------------
(* Sequences without repetition *)

NoneTwice(s) == \A m, n \in DOMAIN s : s[m] = s[n] => m = n

(* No two of the sequence have one id.                                      *)
OneEach(s) == \A m, n \in DOMAIN s : s[m].id = s[n].id => m = n
Ids(s) == {s[k].id : k \in DOMAIN s}

LEMMA OrderedIndexes ==
  ASSUME NEW T, NEW s \in Seq(T), NEW m \in DOMAIN s, NEW n \in DOMAIN s, m # n
  PROVE  m < n \/ n < m
  OBVIOUS

LEMMA KeptOneEach ==
  ASSUME NEW T, NEW s \in Seq(T), NEW S, OneEach(s)
  PROVE  OneEach(Kept(s, S))
<1>. SUFFICES ASSUME NEW m \in DOMAIN Kept(s, S), NEW n \in DOMAIN Kept(s, S), m < n
              PROVE  Kept(s, S)[m].id # Kept(s, S)[n].id
  BY KeptIs, OrderedIndexes DEF OneEach
<1>1. PICK i \in DOMAIN s, j \in DOMAIN s :
        i < j /\ Kept(s, S)[m] = s[i] /\ Kept(s, S)[n] = s[j]
  BY KeptOrder
<1>2. i # j
  BY <1>1
<1>. QED
  BY <1>1, <1>2 DEF OneEach

LEMMA KeptNoneTwice ==
  ASSUME NEW T, NEW s \in Seq(T), NEW S, NoneTwice(s)
  PROVE  NoneTwice(Kept(s, S))
<1>. SUFFICES ASSUME NEW m \in DOMAIN Kept(s, S), NEW n \in DOMAIN Kept(s, S), m < n
              PROVE  Kept(s, S)[m] # Kept(s, S)[n]
  BY KeptIs, OrderedIndexes DEF NoneTwice
<1>1. PICK i \in DOMAIN s, j \in DOMAIN s :
        i < j /\ Kept(s, S)[m] = s[i] /\ Kept(s, S)[n] = s[j]
  BY KeptOrder
<1>2. i # j
  BY <1>1
<1>. QED
  BY <1>1, <1>2 DEF NoneTwice

LEMMA CountOneEach ==
  ASSUME NEW T, NEW s \in Seq(T), OneEach(s)
  PROVE  Cardinality(Ids(s)) = Len(s)
<1>. DEFINE f == [k \in 1..Len(s) |-> s[k].id]
<1>1. DOMAIN s = 1..Len(s) /\ Len(s) \in Nat
  OBVIOUS
<1>2. f \in [1..Len(s) -> Ids(s)]
  BY <1>1 DEF Ids
<1>3. \A k \in 1..Len(s) : f[k] = s[k].id
  OBVIOUS
<1>. HIDE DEF f
<1>4. \A m, n \in 1..Len(s) : f[m] = f[n] => m = n
  BY <1>1, <1>3 DEF OneEach
<1>5. \A x \in Ids(s) : \E k \in 1..Len(s) : f[k] = x
  BY <1>1, <1>3 DEF Ids
<1>6. ExistsBijection(1..Len(s), Ids(s))
  <2>1. f \in Injection(1..Len(s), Ids(s))
    BY <1>2, <1>4 DEF Injection, IsInjective
  <2>2. f \in Surjection(1..Len(s), Ids(s))
    BY <1>2, <1>5 DEF Surjection
  <2>. QED
    BY <2>1, <2>2 DEF ExistsBijection, Bijection
<1>. QED
  BY <1>1, <1>6, FS_CountingElements

LEMMA CountNoneTwice ==
  ASSUME NEW T, NEW s \in Seq(T), NoneTwice(s)
  PROVE  Cardinality(ToSet(s)) = Len(s)
<1>1. DOMAIN s = 1..Len(s) /\ Len(s) \in Nat
  OBVIOUS
<1>2. s \in [1..Len(s) -> ToSet(s)]
  BY <1>1 DEF ToSet
<1>3. \A m, n \in 1..Len(s) : s[m] = s[n] => m = n
  BY <1>1 DEF NoneTwice
<1>4. \A x \in ToSet(s) : \E k \in 1..Len(s) : s[k] = x
  BY <1>1 DEF ToSet
<1>5. ExistsBijection(1..Len(s), ToSet(s))
  <2>1. s \in Injection(1..Len(s), ToSet(s))
    BY <1>2, <1>3 DEF Injection, IsInjective
  <2>2. s \in Surjection(1..Len(s), ToSet(s))
    BY <1>2, <1>4 DEF Surjection
  <2>. QED
    BY <2>1, <2>2 DEF ExistsBijection, Bijection
<1>. QED
  BY <1>1, <1>5, FS_CountingElements

LEMMA PermutationIs ==
  ASSUME NEW S, IsFiniteSet(S), NEW p \in SetToAllKPermutations(S)
  PROVE  p \in Seq(S) /\ NoneTwice(p)
<1>1. PICK s \in SUBSET S : p \in SetToSeqs(s)
  BY DEF SetToAllKPermutations
<1>2. Cardinality(s) \in Nat
  BY <1>1, FS_Subset, FS_CardinalityType
<1>3. /\ p \in [1..Cardinality(s) -> s]
      /\ \A i, j \in 1..Cardinality(s) : i # j => p[i] # p[j]
  BY <1>1 DEF SetToSeqs
<1>4. p \in [1..Cardinality(s) -> S]
  BY <1>1, <1>3
<1>5. p \in Seq(S)
  BY <1>2, <1>4
<1>6. DOMAIN p = 1..Cardinality(s)
  BY <1>3
<1>. QED
  BY <1>3, <1>5, <1>6 DEF NoneTwice
=============================================================================

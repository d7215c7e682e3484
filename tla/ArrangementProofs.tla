-------------------------- MODULE ArrangementProofs --------------------------
(***************************************************************************)
(* What Only and StableSort return, for every sequence.                    *)
(*                                                                         *)
(* Both rest on one fact about finite sets: where a strict total order     *)
(* arranges the elements of I, every number below the size of I is the     *)
(* number of those ahead of exactly one of them (ArrangedIs), since        *)
(* different elements have different numbers ahead of them.                *)
(***************************************************************************)
EXTENDS Arrangement, FiniteSetTheorems, TLAPS

StrictOrder(I, before) ==
  /\ \A i \in I : <<i, i>> \notin before
  /\ \A i, j \in I : i = j \/ <<i, j>> \in before \/ <<j, i>> \in before
  /\ \A i, j, k \in I : <<i, j>> \in before /\ <<j, k>> \in before => <<i, k>> \in before

Rank(i, I, before) == Cardinality(Ahead(i, I, before))

(* Whoever comes earlier has fewer ahead.                                  *)
LEMMA RankGrows ==
  ASSUME NEW I, IsFiniteSet(I), NEW before, StrictOrder(I, before),
         NEW i \in I, NEW j \in I, <<i, j>> \in before
  PROVE  Rank(i, I, before) < Rank(j, I, before)
<1> DEFINE A == Ahead(i, I, before)
           B == Ahead(j, I, before)
<1>1. A \subseteq B \ {i} /\ i \in B /\ B \subseteq I
  BY DEF Ahead, StrictOrder
<1>2. IsFiniteSet(B) /\ Cardinality(B) \in Nat
  BY <1>1, FS_Subset, FS_CardinalityType
<1>3. IsFiniteSet(B \ {i}) /\ Cardinality(B \ {i}) = Cardinality(B) - 1
  BY <1>1, <1>2, FS_RemoveElement
<1>4. IsFiniteSet(A) /\ Cardinality(A) <= Cardinality(B \ {i}) /\ Cardinality(A) \in Nat
  BY <1>1, <1>3, FS_Subset, FS_CardinalityType
<1> HIDE DEF A, B
<1>5. Cardinality(A) < Cardinality(B)
  BY <1>2, <1>3, <1>4
<1>6. QED BY <1>5 DEF A, B, Rank

LEMMA RankBelow ==
  ASSUME NEW I, IsFiniteSet(I), NEW before, StrictOrder(I, before), NEW i \in I
  PROVE  Cardinality(I) \in Nat /\ Rank(i, I, before) \in 0 .. Cardinality(I) - 1
<1> DEFINE A == Ahead(i, I, before)
<1>1. A \subseteq I \ {i}
  BY DEF Ahead, StrictOrder
<1>2. Cardinality(I) \in Nat /\ IsFiniteSet(I \ {i})
        /\ Cardinality(I \ {i}) = Cardinality(I) - 1
  BY FS_CardinalityType, FS_RemoveElement
<1>3. Cardinality(A) \in Nat /\ Cardinality(A) <= Cardinality(I \ {i})
  BY <1>1, <1>2, FS_Subset, FS_CardinalityType
<1> HIDE DEF A
<1>4. Cardinality(A) \in 0 .. Cardinality(I) - 1
  BY <1>2, <1>3
<1>5. QED BY <1>2, <1>4 DEF A, Rank

LEMMA RankIsUnique ==
  ASSUME NEW I, IsFiniteSet(I), NEW before, StrictOrder(I, before),
         NEW i \in I, NEW j \in I, Rank(i, I, before) = Rank(j, I, before)
  PROVE  i = j
<1>1. Rank(i, I, before) \in Int /\ Rank(j, I, before) \in Int
  BY RankBelow
<1>2. ~(<<i, j>> \in before) /\ ~(<<j, i>> \in before)
  BY <1>1, RankGrows
<1>3. QED BY <1>2 DEF StrictOrder

LEMMA EveryRankIsTaken ==
  ASSUME NEW I, IsFiniteSet(I), NEW before, StrictOrder(I, before),
         NEW k \in 1 .. Cardinality(I)
  PROVE  \E i \in I : Rank(i, I, before) = k - 1
<1> DEFINE n == Cardinality(I)
           rank == [i \in I |-> Rank(i, I, before)]
<1>1. n \in Nat
  BY FS_CardinalityType
<1>2. rank \in [I -> 0 .. n - 1]
  BY RankBelow
<1>3. rank \in Injection(I, 0 .. n - 1)
  BY <1>2, RankIsUnique DEF Injection, IsInjective
<1>4. IsFiniteSet(0 .. n - 1) /\ Cardinality(0 .. n - 1) = n
  <2> HIDE DEF n
  <2>1. 0 \in Int /\ n - 1 \in Int
    BY <1>1
  <2>2. IsFiniteSet(0 .. n - 1)
          /\ Cardinality(0 .. n - 1) = IF 0 > n - 1 THEN 0 ELSE (n - 1) - 0 + 1
    BY <2>1, FS_Interval
  <2>3. QED BY <1>1, <2>2
<1>5. rank \in Surjection(I, 0 .. n - 1)
  BY <1>3, <1>4, FS_Injection
<1>6. k - 1 \in 0 .. n - 1
  BY <1>1
<1>7. QED BY <1>5, <1>6 DEF Surjection

(* The arrangement has each element once, where its rank says.             *)
LEMMA ArrangedIs ==
  ASSUME NEW I, IsFiniteSet(I), NEW before, StrictOrder(I, before)
  PROVE  /\ Arranged(I, before) \in Seq(I)
         /\ Len(Arranged(I, before)) = Cardinality(I)
         /\ Cardinality(I) \in Nat
         /\ \A k \in 1 .. Cardinality(I) :
              /\ Arranged(I, before)[k] \in I
              /\ Rank(Arranged(I, before)[k], I, before) = k - 1
         /\ \A i \in I : /\ Rank(i, I, before) + 1 \in 1 .. Cardinality(I)
                         /\ Arranged(I, before)[Rank(i, I, before) + 1] = i
         /\ \A k, l \in 1 .. Cardinality(I) :
              k < l <=> <<Arranged(I, before)[k], Arranged(I, before)[l]>> \in before
<1> DEFINE a == Arranged(I, before)
           n == Cardinality(I)
<1>1. n \in Nat
  BY FS_CardinalityType
<1>2. DOMAIN a = 1 .. n /\ \A k \in 1 .. n :
        a[k] = CHOOSE i \in I : Rank(i, I, before) = k - 1
  BY DEF Arranged, Rank
<1>3. a = [k \in 1 .. n |-> a[k]]
  BY DEF Arranged
<1> HIDE DEF a, n
<1>4. \A k \in 1 .. n : a[k] \in I /\ Rank(a[k], I, before) = k - 1
  BY <1>2, EveryRankIsTaken DEF n
<1>5. a \in Seq(I) /\ Len(a) = n
  BY <1>1, <1>3, <1>4
<1>6. ASSUME NEW i \in I
      PROVE  Rank(i, I, before) + 1 \in 1 .. n /\ a[Rank(i, I, before) + 1] = i
  <2>1. Rank(i, I, before) \in 0 .. n - 1
    BY RankBelow DEF n
  <2>2. Rank(i, I, before) + 1 \in 1 .. n /\ (Rank(i, I, before) + 1) - 1 = Rank(i, I, before)
    BY <1>1, <2>1
  <2>3. a[Rank(i, I, before) + 1] \in I
          /\ Rank(a[Rank(i, I, before) + 1], I, before) = Rank(i, I, before)
    BY <1>4, <2>2
  <2>4. QED BY <2>2, <2>3, RankIsUnique
<1>7. ASSUME NEW k \in 1 .. n, NEW l \in 1 .. n
      PROVE  k < l <=> <<a[k], a[l]>> \in before
  <2>1. a[k] \in I /\ a[l] \in I /\ k - 1 = Rank(a[k], I, before) /\ l - 1 = Rank(a[l], I, before)
    BY <1>4
  <2>2. CASE <<a[k], a[l]>> \in before
    <3>1. k - 1 < l - 1
      BY <2>1, <2>2, RankGrows
    <3>2. QED BY <1>1, <2>2, <3>1
  <2>3. CASE <<a[l], a[k]>> \in before
    <3>1. l - 1 < k - 1
      BY <2>1, <2>3, RankGrows
    <3>2. <<a[k], a[l]>> \notin before
      BY <2>1, <2>3 DEF StrictOrder
    <3>3. QED BY <1>1, <3>1, <3>2
  <2>4. CASE a[k] = a[l]
    <3>1. k - 1 = l - 1
      BY <2>1, <2>4
    <3>2. <<a[k], a[l]>> \notin before
      BY <2>1, <2>4 DEF StrictOrder
    <3>3. QED BY <1>1, <3>1, <3>2
  <2>5. QED BY <2>1, <2>2, <2>3, <2>4 DEF StrictOrder
<1>8. QED BY <1>1, <1>4, <1>5, <1>6, <1>7 DEF a, n

-----------------------------------------------------------------------------
LEMMA PositionsAreFinite ==
  ASSUME NEW S, NEW s \in Seq(S), NEW I, I \subseteq DOMAIN s
  PROVE  IsFiniteSet(I) /\ DOMAIN s = 1 .. Len(s) /\ Len(s) \in Nat
<1>1. DOMAIN s = 1 .. Len(s) /\ Len(s) \in Nat
  OBVIOUS
<1>2. IsFiniteSet(1 .. Len(s))
  BY <1>1, FS_Interval
<1>3. QED BY <1>1, <1>2, FS_Subset

LEMMA AsListedIsStrict ==
  ASSUME NEW S, NEW s \in Seq(S), NEW I, I \subseteq DOMAIN s
  PROVE  StrictOrder(I, AsListed(s))
<1>1. I \subseteq 1 .. Len(s) /\ DOMAIN s = 1 .. Len(s) /\ Len(s) \in Nat
  OBVIOUS
<1>2. \A i, j \in I : i \in Int /\ j \in Int /\ (<<i, j>> \in AsListed(s) <=> i < j)
  BY <1>1 DEF AsListed
<1>3. QED BY <1>2 DEF StrictOrder

LEMMA ByKeyIsStrict ==
  ASSUME NEW S, NEW s \in Seq(S), NEW key \in [DOMAIN s -> Int]
  PROVE  StrictOrder(DOMAIN s, ByKey(s, key))
<1>1. DOMAIN s = 1 .. Len(s) /\ Len(s) \in Nat
  OBVIOUS
<1>2. \A i, j \in DOMAIN s :
        <<i, j>> \in ByKey(s, key) <=> (key[i] < key[j] \/ (key[i] = key[j] /\ i < j))
  BY DEF ByKey
<1>3. \A i \in DOMAIN s : i \in Int /\ key[i] \in Int
  BY <1>1
<1>4. \A i \in DOMAIN s : <<i, i>> \notin ByKey(s, key)
  BY <1>2, <1>3
<1>5. ASSUME NEW i \in DOMAIN s, NEW j \in DOMAIN s
      PROVE  i = j \/ <<i, j>> \in ByKey(s, key) \/ <<j, i>> \in ByKey(s, key)
  <2>1. i < j \/ j < i \/ i = j
    BY <1>3
  <2>2. key[i] < key[j] \/ key[j] < key[i] \/ (key[i] = key[j] /\ key[j] = key[i])
    BY <1>3
  <2>3. QED BY <1>2, <2>1, <2>2
<1>6. ASSUME NEW i \in DOMAIN s, NEW j \in DOMAIN s, NEW k \in DOMAIN s,
             <<i, j>> \in ByKey(s, key), <<j, k>> \in ByKey(s, key)
      PROVE  <<i, k>> \in ByKey(s, key)
  BY <1>2, <1>3, <1>6
<1>7. QED BY <1>4, <1>5, <1>6 DEF StrictOrder

(* Only: the positions of what is kept, ascending.                         *)
Positions(s, T) == Arranged(Where(s, T), AsListed(s))

PlaceOf(i, s, T) == Rank(i, Where(s, T), AsListed(s)) + 1

LEMMA OnlyIs ==
  ASSUME NEW S, NEW s \in Seq(S), NEW T
  PROVE  /\ Only(s, T) \in Seq(S)
         /\ Len(Only(s, T)) = Cardinality(Where(s, T))
         /\ DOMAIN Only(s, T) = 1 .. Len(Only(s, T))
         /\ \A k \in DOMAIN Only(s, T) : /\ Positions(s, T)[k] \in Where(s, T)
                                         /\ Only(s, T)[k] = s[Positions(s, T)[k]]
                                         /\ PlaceOf(Positions(s, T)[k], s, T) = k
         /\ \A i \in Where(s, T) : /\ PlaceOf(i, s, T) \in DOMAIN Only(s, T)
                                   /\ Positions(s, T)[PlaceOf(i, s, T)] = i
                                   /\ Only(s, T)[PlaceOf(i, s, T)] = s[i]
         /\ \A k, l \in DOMAIN Only(s, T) :
              k < l <=> Positions(s, T)[k] < Positions(s, T)[l]
<1> DEFINE I == Where(s, T)
           n == Cardinality(I)
           pos == Positions(s, T)
<1>1. I \subseteq DOMAIN s
  BY DEF Where
<1>2. IsFiniteSet(I) /\ DOMAIN s = 1 .. Len(s) /\ Len(s) \in Nat
  BY <1>1, PositionsAreFinite
<1>3. StrictOrder(I, AsListed(s))
  BY <1>1, AsListedIsStrict
<1>4. Only(s, T) = [k \in DOMAIN pos |-> s[pos[k]]]
  BY DEF Only, Picked, Positions
<1>5. /\ pos \in Seq(I) /\ Len(pos) = n /\ n \in Nat
      /\ \A k \in 1 .. n : pos[k] \in I /\ Rank(pos[k], I, AsListed(s)) = k - 1
      /\ \A i \in I : PlaceOf(i, s, T) \in 1 .. n /\ pos[PlaceOf(i, s, T)] = i
      /\ \A k, l \in 1 .. n : k < l <=> <<pos[k], pos[l]>> \in AsListed(s)
  BY <1>2, <1>3, ArrangedIs DEF Positions, PlaceOf
<1> HIDE DEF I, pos, n
<1>6. DOMAIN pos = 1 .. n
  BY <1>5
<1>7. \A k \in 1 .. n : Only(s, T)[k] = s[pos[k]] /\ s[pos[k]] \in S
  BY <1>1, <1>2, <1>4, <1>5, <1>6
<1>8. Only(s, T) \in Seq(S) /\ Len(Only(s, T)) = n /\ DOMAIN Only(s, T) = 1 .. n
  <2>1. PICK t : t = Only(s, T)
    OBVIOUS
  <2>2. t = [k \in 1 .. n |-> t[k]] /\ \A k \in 1 .. n : t[k] \in S
    BY <1>4, <1>6, <1>7, <2>1
  <2>3. n \in Nat
    BY <1>5
  <2>4. t \in Seq(S) /\ Len(t) = n /\ DOMAIN t = 1 .. n
    BY <2>2, <2>3
  <2>5. QED BY <2>1, <2>4
<1>9. \A k, l \in 1 .. n : k < l <=> pos[k] < pos[l]
  BY <1>1, <1>5 DEF AsListed
<1>10. \A i \in I : Only(s, T)[PlaceOf(i, s, T)] = s[i]
  BY <1>5, <1>7
<1>11. \A k \in 1 .. n : PlaceOf(pos[k], s, T) = k
  <2>1. \A k \in 1 .. n : PlaceOf(pos[k], s, T) = (k - 1) + 1
    BY <1>5 DEF PlaceOf, I
  <2>2. QED BY <1>5, <2>1
<1>12. QED BY <1>5, <1>7, <1>8, <1>9, <1>10, <1>11 DEF I, n, pos

(* So nothing else is in it, and nothing is missing.                       *)
LEMMA OnlyHolds ==
  ASSUME NEW S, NEW s \in Seq(S), NEW T
  PROVE  /\ Only(s, T) \in Seq(S)
         /\ \A k \in DOMAIN Only(s, T) :
              Only(s, T)[k] \in T /\ \E i \in DOMAIN s : Only(s, T)[k] = s[i]
         /\ \A i \in DOMAIN s : s[i] \in T =>
              \E k \in DOMAIN Only(s, T) : Only(s, T)[k] = s[i]
<1>1. Only(s, T) \in Seq(S)
  BY OnlyIs
<1>2. ASSUME NEW k \in DOMAIN Only(s, T)
      PROVE  Only(s, T)[k] \in T /\ \E i \in DOMAIN s : Only(s, T)[k] = s[i]
  <2>1. PICK i : i = Positions(s, T)[k]
    OBVIOUS
  <2>2. i \in Where(s, T) /\ Only(s, T)[k] = s[i]
    BY <2>1, OnlyIs
  <2>3. QED BY <2>2 DEF Where
<1>3. ASSUME NEW i \in DOMAIN s, s[i] \in T
      PROVE  \E k \in DOMAIN Only(s, T) : Only(s, T)[k] = s[i]
  <2>1. i \in Where(s, T)
    BY <1>3 DEF Where
  <2>2. QED BY <2>1, OnlyIs
<1>4. QED BY <1>1, <1>2, <1>3

(* What comes at or before position i decides where s[i] is.               *)
LEMMA OnlyPrefix ==
  ASSUME NEW S, NEW s \in Seq(S), NEW T, NEW U, NEW i \in DOMAIN s, s[i] \in T,
         \A j \in 1 .. i : s[j] \in T <=> s[j] \in U
  PROVE  /\ i \in Where(s, T) /\ i \in Where(s, U)
         /\ PlaceOf(i, s, T) = PlaceOf(i, s, U)
<1>1. DOMAIN s = 1 .. Len(s) /\ i \in 1 .. i /\ i \in Nat
  OBVIOUS
<1>2. i \in Where(s, T) /\ i \in Where(s, U)
  BY <1>1 DEF Where
<1>3. Ahead(i, Where(s, T), AsListed(s)) = Ahead(i, Where(s, U), AsListed(s))
  BY <1>1 DEF Ahead, AsListed, Where
<1>4. QED BY <1>2, <1>3 DEF PlaceOf, Rank

(* An element added at the end is the last, if it is kept.                 *)
LEMMA WhereGrows ==
  ASSUME NEW S, NEW s \in Seq(S), NEW x, NEW T
  PROVE  Where(Append(s, x), T) =
           IF x \in T THEN Where(s, T) \cup {Len(s) + 1} ELSE Where(s, T)
<1> DEFINE t == Append(s, x)
<1>1. /\ DOMAIN s = 1 .. Len(s) /\ DOMAIN t = 1 .. Len(s) + 1 /\ Len(s) \in Nat
      /\ \A i \in DOMAIN s : t[i] = s[i]
      /\ t[Len(s) + 1] = x
  OBVIOUS
<1> HIDE DEF t
<1>2. Where(t, T) = IF x \in T THEN Where(s, T) \cup {Len(s) + 1} ELSE Where(s, T)
  BY <1>1 DEF Where
<1>3. QED BY <1>2 DEF t

LEMMA PlaceStays ==
  ASSUME NEW S, NEW s \in Seq(S), NEW x, NEW T, NEW i \in Where(s, T)
  PROVE  PlaceOf(i, Append(s, x), T) = PlaceOf(i, s, T)
<1> DEFINE t == Append(s, x)
           I == Where(s, T)
           J == Where(t, T)
           A == Ahead(i, J, AsListed(t))
           B == Ahead(i, I, AsListed(s))
<1>1. DOMAIN s = 1 .. Len(s) /\ DOMAIN t = 1 .. Len(s) + 1 /\ Len(s) \in Nat
  OBVIOUS
<1>2. J = IF x \in T THEN I \cup {Len(s) + 1} ELSE I
  BY WhereGrows
<1>3. i \in 1 .. Len(s) /\ I \subseteq 1 .. Len(s)
  BY <1>1 DEF Where
<1> HIDE DEF I, J, t
<1>4. \A j : j \in I <=> j \in J /\ j \in 1 .. Len(s)
  <2>1. Len(s) + 1 \notin 1 .. Len(s)
    BY <1>1
  <2>2. QED BY <1>2, <1>3, <2>1
<1>5. \A j \in J : j \in 1 .. Len(s) + 1
  <2>1. \A j \in 1 .. Len(s) : j \in 1 .. Len(s) + 1
    BY <1>1
  <2>2. Len(s) + 1 \in 1 .. Len(s) + 1
    BY <1>1
  <2>3. QED BY <1>2, <1>3, <2>1, <2>2
<1>6. \A j : j \in A <=> j \in J /\ j \in 1 .. Len(s) /\ j < i
  BY <1>1, <1>3, <1>5 DEF Ahead, AsListed
<1>7. \A j : j \in B <=> j \in I /\ j < i
  BY <1>1, <1>3 DEF Ahead, AsListed
<1> HIDE DEF A, B
<1>8. A = B
  BY <1>4, <1>6, <1>7
<1>9. QED BY <1>8 DEF PlaceOf, Rank, A, B, I, J, t

LEMMA AppendIs ==
  ASSUME NEW S, NEW s \in Seq(S), NEW x
  PROVE  /\ Append(s, x) \in Seq(S \cup {x}) /\ s \in Seq(S \cup {x})
         /\ Len(Append(s, x)) = Len(s) + 1 /\ Len(s) \in Nat
         /\ DOMAIN s = 1 .. Len(s) /\ DOMAIN Append(s, x) = 1 .. Len(s) + 1
         /\ \A k \in 1 .. Len(s) : Append(s, x)[k] = s[k]
         /\ Append(s, x)[Len(s) + 1] = x
OBVIOUS

LEMMA SameSequence ==
  ASSUME NEW S, NEW s \in Seq(S), NEW t \in Seq(S), Len(s) = Len(t),
         \A k \in 1 .. Len(s) : s[k] = t[k]
  PROVE  s = t
OBVIOUS

LEMMA OnlyAppend ==
  ASSUME NEW S, NEW s \in Seq(S), NEW x, NEW T
  PROVE  Only(Append(s, x), T) = IF x \in T THEN Append(Only(s, T), x) ELSE Only(s, T)
<1> DEFINE t == Append(s, x)
           I == Where(s, T)
           J == Where(t, T)
           n == Cardinality(I)
           U == S \cup {x}
<1>1. /\ DOMAIN s = 1 .. Len(s) /\ Len(s) \in Nat /\ t \in Seq(U) /\ s \in Seq(U)
      /\ \A i \in DOMAIN s : t[i] = s[i]
      /\ DOMAIN t = 1 .. Len(s) + 1 /\ t[Len(s) + 1] = x
  BY AppendIs
<1>2. J = (IF x \in T THEN I \cup {Len(s) + 1} ELSE I) /\ I \subseteq DOMAIN s
  BY WhereGrows DEF Where
<1>3. IsFiniteSet(I) /\ n \in Nat
  BY <1>1, <1>2, PositionsAreFinite, FS_CardinalityType
<1>4. ASSUME NEW i \in I
      PROVE  PlaceOf(i, t, T) = PlaceOf(i, s, T)
  BY PlaceStays
<1>5. /\ Only(s, T) \in Seq(U) /\ Len(Only(s, T)) = n /\ DOMAIN Only(s, T) = 1 .. n
      /\ \A k \in 1 .. n : /\ Positions(s, T)[k] \in I
                           /\ Only(s, T)[k] = s[Positions(s, T)[k]]
                           /\ PlaceOf(Positions(s, T)[k], s, T) = k
  BY <1>1, OnlyIs
<1> HIDE DEF U
<1>6. Only(t, T) \in Seq(U) /\ DOMAIN Only(t, T) = 1 .. Cardinality(J)
        /\ Len(Only(t, T)) = Cardinality(J)
        /\ \A i \in J : Only(t, T)[PlaceOf(i, t, T)] = t[i]
  <2> HIDE DEF t
  <2>1. QED BY <1>1, OnlyIs
<1> HIDE DEF t
<1>7. ASSUME NEW k \in 1 .. n
      PROVE  Only(t, T)[k] = Only(s, T)[k]
  <2>1. PICK i : i = Positions(s, T)[k]
    OBVIOUS
  <2>2. i \in I /\ i \in J /\ Only(s, T)[k] = s[i] /\ PlaceOf(i, s, T) = k
    BY <1>2, <1>5, <2>1
  <2>3. PlaceOf(i, t, T) = k /\ t[i] = s[i]
    BY <1>1, <1>2, <1>4, <2>2
  <2>4. Only(t, T)[PlaceOf(i, t, T)] = t[i]
    BY <1>6, <2>2
  <2>5. QED BY <2>2, <2>3, <2>4
<1>8. CASE x \notin T
  <2>1. J = I
    BY <1>2, <1>8
  <2>2. Len(Only(t, T)) = n
    BY <1>6, <2>1
  <2> HIDE DEF I, J, n
  <2>3. Only(t, T) = Only(s, T)
    BY <1>5, <1>6, <1>7, <2>2, SameSequence
  <2>4. QED BY <1>8, <2>3 DEF t
<1>9. CASE x \in T
  <2>1. Len(s) + 1 \notin I
    BY <1>1, <1>2
  <2>2. J = I \cup {Len(s) + 1}
    BY <1>2, <1>9
  <2>3. Cardinality(J) = n + 1
    BY <1>3, <2>1, <2>2, FS_AddElement
  <2>4. PlaceOf(Len(s) + 1, t, T) = n + 1
    <3>1. Ahead(Len(s) + 1, J, AsListed(t)) = I
      BY <1>1, <1>2, <2>2 DEF Ahead, AsListed
    <3>2. QED BY <3>1 DEF PlaceOf, Rank
  <2>5. Only(t, T)[n + 1] = x
    <3>1. Only(t, T)[PlaceOf(Len(s) + 1, t, T)] = t[Len(s) + 1]
      BY <1>6, <2>2
    <3>2. QED BY <1>1, <2>4, <3>1
  <2> DEFINE a == Append(Only(s, T), x)
  <2>6. /\ a \in Seq(U \cup {x}) /\ Len(a) = Len(Only(s, T)) + 1
        /\ \A k \in 1 .. Len(Only(s, T)) : a[k] = Only(s, T)[k]
        /\ a[Len(Only(s, T)) + 1] = x
    BY <1>5, AppendIs
  <2> HIDE DEF I, J, n, a
  <2>7. /\ a \in Seq(U \cup {x}) /\ Len(a) = n + 1 /\ a[n + 1] = x
        /\ \A k \in 1 .. n : a[k] = Only(s, T)[k]
    BY <1>5, <2>6
  <2>8. Only(t, T) \in Seq(U \cup {x}) /\ Len(Only(t, T)) = n + 1
    <3>1. U \cup {x} = U
      BY DEF U
    <3>2. QED BY <1>6, <2>3, <3>1
  <2>9. ASSUME NEW k \in 1 .. n + 1 PROVE Only(t, T)[k] = a[k]
    <3>1. k \in 1 .. n \/ k = n + 1
      BY <1>3
    <3>2. QED BY <1>7, <2>5, <2>7, <3>1
  <2>10. Only(t, T) = a
    BY <2>7, <2>8, <2>9, SameSequence
  <2>11. QED BY <1>9, <2>10 DEF t, a
<1>10. QED BY <1>8, <1>9

(* Of some positions one is the last.                                      *)
LEMMA LastOf ==
  ASSUME NEW S, NEW s \in Seq(S), NEW I, I \subseteq DOMAIN s, I # {}
  PROVE  \E m \in I : \A j \in I : j <= m
<1> DEFINE a == Arranged(I, AsListed(s))
           n == Cardinality(I)
<1>1. IsFiniteSet(I) /\ StrictOrder(I, AsListed(s)) /\ n \in Nat /\ n # 0
  BY PositionsAreFinite, AsListedIsStrict, FS_CardinalityType, FS_EmptySet
<1>2. /\ \A k \in 1 .. n : a[k] \in I
      /\ \A i \in I : Rank(i, I, AsListed(s)) + 1 \in 1 .. n
                      /\ a[Rank(i, I, AsListed(s)) + 1] = i
      /\ \A k, l \in 1 .. n : k < l => <<a[k], a[l]>> \in AsListed(s)
  BY <1>1, ArrangedIs
<1>3. I \subseteq 1 .. Len(s) /\ n \in 1 .. n
  BY <1>1
<1> HIDE DEF a, n
<1>4. ASSUME NEW i \in I PROVE i <= a[n]
  <2>1. PICK k \in 1 .. n : a[k] = i
    BY <1>2
  <2>2. CASE k = n
    BY <1>3, <2>1, <2>2
  <2>3. CASE k < n
    <3>1. <<i, a[n]>> \in AsListed(s)
      BY <1>2, <1>3, <2>1, <2>3
    <3>2. i < a[n]
      BY <3>1 DEF AsListed
    <3>3. QED BY <1>2, <1>3, <3>2
  <2>4. QED BY <1>1, <2>2, <2>3
<1>5. QED BY <1>2, <1>3, <1>4

-----------------------------------------------------------------------------
(* StableSort: every position once, by key and then as they came.          *)
Sorting(s, key) == Arranged(DOMAIN s, ByKey(s, key))

SortedTo(i, s, key) == Rank(i, DOMAIN s, ByKey(s, key)) + 1

LEMMA StableSortIs ==
  ASSUME NEW S, NEW s \in Seq(S), NEW key \in [DOMAIN s -> Int]
  PROVE  /\ StableSort(s, key) \in Seq(S)
         /\ Len(StableSort(s, key)) = Len(s)
         /\ DOMAIN StableSort(s, key) = 1 .. Len(s)
         /\ \A k \in 1 .. Len(s) : /\ Sorting(s, key)[k] \in 1 .. Len(s)
                                   /\ StableSort(s, key)[k] = s[Sorting(s, key)[k]]
         /\ \A i \in 1 .. Len(s) : /\ SortedTo(i, s, key) \in 1 .. Len(s)
                                   /\ Sorting(s, key)[SortedTo(i, s, key)] = i
         /\ \A k, l \in 1 .. Len(s) : k < l =>
              \/ key[Sorting(s, key)[k]] < key[Sorting(s, key)[l]]
              \/ /\ key[Sorting(s, key)[k]] = key[Sorting(s, key)[l]]
                 /\ Sorting(s, key)[k] < Sorting(s, key)[l]
<1> DEFINE pos == Sorting(s, key)
           before == ByKey(s, key)
           I == DOMAIN s
           n == Len(s)
<1>1. I = 1 .. n /\ n \in Nat /\ IsFiniteSet(I)
  BY PositionsAreFinite
<1>2. StrictOrder(I, before)
  BY ByKeyIsStrict
<1>3. StableSort(s, key) = [k \in DOMAIN pos |-> s[pos[k]]]
  BY DEF StableSort, Picked, Sorting
<1>4. pos = Arranged(I, before)
  BY DEF Sorting
<1>5. \A i, j \in I : <<i, j>> \in before => key[i] < key[j] \/ (key[i] = key[j] /\ i < j)
  BY DEF ByKey
<1>6. \A i \in I : s[i] \in S
  OBVIOUS
<1>7. Cardinality(I) = n
  <2>1. Cardinality(1 .. n) = IF 1 > n THEN 0 ELSE n - 1 + 1
    BY <1>1, FS_Interval
  <2>2. QED BY <1>1, <2>1
<1>8. pos \in Seq(I) /\ Len(pos) = n
  BY <1>1, <1>2, <1>4, <1>7, ArrangedIs
<1>9. \A k \in 1 .. n : pos[k] \in I
  BY <1>1, <1>2, <1>4, <1>7, ArrangedIs
<1>10. \A i \in DOMAIN s : /\ SortedTo(i, s, key) \in 1 .. Cardinality(DOMAIN s)
                           /\ Sorting(s, key)[SortedTo(i, s, key)] = i
  BY <1>1, <1>2, ArrangedIs DEF Sorting, SortedTo
<1>11. \A k, l \in 1 .. n : k < l <=> <<pos[k], pos[l]>> \in before
  BY <1>1, <1>2, <1>4, <1>7, ArrangedIs
<1>12. \A i \in 1 .. n : SortedTo(i, s, key) \in 1 .. n /\ pos[SortedTo(i, s, key)] = i
  BY <1>1, <1>7, <1>10
<1> HIDE DEF pos, before, I, n
<1>13. DOMAIN pos = 1 .. n
  BY <1>8
<1>14. \A k \in 1 .. n : StableSort(s, key)[k] = s[pos[k]] /\ s[pos[k]] \in S
  BY <1>3, <1>6, <1>9, <1>13
<1>15. /\ StableSort(s, key) \in Seq(S) /\ Len(StableSort(s, key)) = n
       /\ DOMAIN StableSort(s, key) = 1 .. n
  <2>1. PICK t : t = StableSort(s, key)
    OBVIOUS
  <2>2. t = [k \in 1 .. n |-> t[k]] /\ \A k \in 1 .. n : t[k] \in S
    BY <1>3, <1>13, <1>14, <2>1
  <2>3. t \in Seq(S) /\ Len(t) = n /\ DOMAIN t = 1 .. n
    BY <1>1, <2>2
  <2>4. QED BY <2>1, <2>3
<1>16. \A k, l \in 1 .. n : k < l => \/ key[pos[k]] < key[pos[l]]
                                     \/ key[pos[k]] = key[pos[l]] /\ pos[k] < pos[l]
  BY <1>5, <1>9, <1>11
<1>17. \A k \in 1 .. n : pos[k] \in 1 .. n
  BY <1>1, <1>9
<1>18. QED BY <1>12, <1>14, <1>15, <1>16, <1>17 DEF n, pos

(* So it is a rearrangement.                                               *)
LEMMA StableSortHolds ==
  ASSUME NEW S, NEW s \in Seq(S), NEW key \in [DOMAIN s -> Int]
  PROVE  /\ StableSort(s, key) \in Seq(S)
         /\ Len(StableSort(s, key)) = Len(s)
         /\ DOMAIN StableSort(s, key) = DOMAIN s
         /\ \A k \in DOMAIN s : \E i \in DOMAIN s : StableSort(s, key)[k] = s[i]
         /\ \A i \in DOMAIN s : \E k \in DOMAIN s : StableSort(s, key)[k] = s[i]
<1>1. DOMAIN s = 1 .. Len(s)
  OBVIOUS
<1>2. ASSUME NEW k \in 1 .. Len(s)
      PROVE  /\ Sorting(s, key)[k] \in 1 .. Len(s)
             /\ StableSort(s, key)[k] = s[Sorting(s, key)[k]]
  BY StableSortIs
<1>3. ASSUME NEW i \in 1 .. Len(s)
      PROVE  \E k \in 1 .. Len(s) : StableSort(s, key)[k] = s[i]
  <2>1. SortedTo(i, s, key) \in 1 .. Len(s) /\ Sorting(s, key)[SortedTo(i, s, key)] = i
    BY StableSortIs
  <2>2. QED BY <1>2, <2>1
<1>4. \A k \in 1 .. Len(s) : \E i \in 1 .. Len(s) : StableSort(s, key)[k] = s[i]
  BY <1>2
<1>5. QED BY <1>1, <1>3, <1>4, StableSortIs

(* The same, without saying how the places are found.                      *)
LEMMA OnlyPicks ==
  ASSUME NEW S, NEW s \in Seq(S), NEW T
  PROVE  \E at : /\ Only(s, T) \in Seq(S) /\ Len(Only(s, T)) = Cardinality(Where(s, T))
                 /\ \A k \in DOMAIN Only(s, T) :
                      at[k] \in Where(s, T) /\ Only(s, T)[k] = s[at[k]]
                 /\ \A i \in Where(s, T) : \E k \in DOMAIN Only(s, T) : at[k] = i
                 /\ \A k, l \in DOMAIN Only(s, T) : k < l <=> at[k] < at[l]
<1>1. /\ Only(s, T) \in Seq(S) /\ Len(Only(s, T)) = Cardinality(Where(s, T))
      /\ \A k \in DOMAIN Only(s, T) : /\ Positions(s, T)[k] \in Where(s, T)
                                       /\ Only(s, T)[k] = s[Positions(s, T)[k]]
  BY OnlyIs
<1>2. \A i \in Where(s, T) : /\ PlaceOf(i, s, T) \in DOMAIN Only(s, T)
                             /\ Positions(s, T)[PlaceOf(i, s, T)] = i
  BY OnlyIs
<1>3. \A k, l \in DOMAIN Only(s, T) : k < l <=> Positions(s, T)[k] < Positions(s, T)[l]
  BY OnlyIs
<1>4. PICK at : at = Positions(s, T)
  OBVIOUS
<1>5. \A i \in Where(s, T) : \E k \in DOMAIN Only(s, T) : at[k] = i
  BY <1>2, <1>4
<1>6. QED BY <1>1, <1>3, <1>4, <1>5

(* t is s sorted by key: at says where in s each of t stands.              *)
Sorted(t, s, key, at) ==
  /\ Len(t) = Len(s)
  /\ \A k \in 1 .. Len(s) : at[k] \in 1 .. Len(s) /\ t[k] = s[at[k]]
  /\ \A i \in 1 .. Len(s) : \E k \in 1 .. Len(s) : at[k] = i
  /\ \A k, l \in 1 .. Len(s) : k < l =>
       key[at[k]] < key[at[l]] \/ (key[at[k]] = key[at[l]] /\ at[k] < at[l])

LEMMA SortPicks ==
  ASSUME NEW S, NEW s \in Seq(S), NEW key \in [DOMAIN s -> Int]
  PROVE  /\ StableSort(s, key) \in Seq(S)
         /\ \E at : Sorted(StableSort(s, key), s, key, at)
<1>1. /\ StableSort(s, key) \in Seq(S) /\ Len(StableSort(s, key)) = Len(s)
      /\ \A k \in 1 .. Len(s) : /\ Sorting(s, key)[k] \in 1 .. Len(s)
                                 /\ StableSort(s, key)[k] = s[Sorting(s, key)[k]]
  BY StableSortIs
<1>2. \A i \in 1 .. Len(s) : /\ SortedTo(i, s, key) \in 1 .. Len(s)
                             /\ Sorting(s, key)[SortedTo(i, s, key)] = i
  BY StableSortIs
<1>3. \A k, l \in 1 .. Len(s) : k < l =>
        \/ key[Sorting(s, key)[k]] < key[Sorting(s, key)[l]]
        \/ /\ key[Sorting(s, key)[k]] = key[Sorting(s, key)[l]]
           /\ Sorting(s, key)[k] < Sorting(s, key)[l]
  BY StableSortIs
<1>4. PICK at : at = Sorting(s, key)
  OBVIOUS
<1>5. \A i \in 1 .. Len(s) : \E k \in 1 .. Len(s) : at[k] = i
  BY <1>2, <1>4
<1>6. Sorted(StableSort(s, key), s, key, at)
  BY <1>1, <1>3, <1>4, <1>5 DEF Sorted
<1>7. QED BY <1>1, <1>6
=============================================================================

---------------------------- MODULE ReorderProofs ----------------------------
(***************************************************************************)
(* The drag reorder, for any number of attendees, signups and editors: a   *)
(* save that met no other one is a simultaneous assignment, signups alone  *)
(* never make one fail, and a deleted attendee comes back only by a save   *)
(* that changes the row and overlapped the deletion.                       *)
(***************************************************************************)
EXTENDS AttendeeReorder, FiniteSetTheorems, TLAPS

USE ReorderAssumption

-----------------------------------------------------------------------------
(* Numbers: the greatest of a finite set, and how many are before one.     *)

\* A set of natural numbers has a least one.
LEMMA LeastNat ==
  ASSUME NEW T \in SUBSET Nat, T # {}
  PROVE  \E x \in T : \A y \in T : x <= y
<1> DEFINE R == OpToRel(<, Nat)
<1>1. IsWellFoundedOn(R, Nat)
  BY NatLessThanWellFounded
<1>2. \A x, y \in Nat : y < x => <<y, x>> \in R
  BY DEF OpToRel
<1> HIDE DEF R
<1>3. PICK x \in T : \A y \in T : ~(<<y, x>> \in R)
  BY <1>1, WFMin
<1>4. ASSUME NEW y \in T PROVE x <= y
  <2>1. x \in Nat /\ y \in Nat
    OBVIOUS
  <2>2. ~(y < x)
    BY <1>2, <1>3, <2>1
  <2> QED
    BY <2>1, <2>2
<1> QED
  BY <1>4

Before(S, key, x) == {y \in S : key[y] < key[x]}

Rank(S, key, x) == Cardinality(Before(S, key, x))

IsKey(S, key) == (\A x \in S : key[x] \in Nat) /\ \A x, y \in S : key[x] = key[y] => x = y

LEMMA BeforeFinite ==
  ASSUME NEW S, IsFiniteSet(S), NEW key, NEW x
  PROVE  IsFiniteSet(Before(S, key, x)) /\ Rank(S, key, x) \in Nat
<1>1. Before(S, key, x) \in SUBSET S
  BY DEF Before
<1> QED
  BY <1>1, FS_Subset, FS_CardinalityType DEF Rank

LEMMA RankNat ==
  ASSUME NEW S, IsFiniteSet(S), NEW key, IsKey(S, key), NEW x \in S
  PROVE  Rank(S, key, x) \in 0..Cardinality(S) - 1
<1>1. IsFiniteSet(S \ {x}) /\ Cardinality(S \ {x}) = Cardinality(S) - 1 /\ Cardinality(S) \in Nat
  BY FS_RemoveElement, FS_CardinalityType
<1>2. Before(S, key, x) \in SUBSET (S \ {x})
  BY DEF Before, IsKey
<1>3. Rank(S, key, x) <= Cardinality(S) - 1
  BY <1>1, <1>2, FS_Subset DEF Rank
<1> QED
  BY <1>1, <1>3, BeforeFinite

LEMMA RankGrows ==
  ASSUME NEW S, IsFiniteSet(S), NEW key, IsKey(S, key),
         NEW x \in S, NEW y \in S, key[x] < key[y]
  PROVE  Rank(S, key, x) < Rank(S, key, y)
<1>1. /\ Before(S, key, x) \in SUBSET Before(S, key, y)
      /\ x \in Before(S, key, y) /\ x \notin Before(S, key, x)
  BY DEF Before, IsKey
<1>2. /\ IsFiniteSet(Before(S, key, y)) /\ Rank(S, key, x) \in Nat /\ Rank(S, key, y) \in Nat
  BY BeforeFinite
<1>3. /\ Rank(S, key, x) <= Rank(S, key, y)
      /\ Rank(S, key, x) # Rank(S, key, y)
  BY <1>1, <1>2, FS_Subset DEF Rank
<1> QED
  BY <1>2, <1>3

\* The ranks of n elements are 0, 1, ..., n - 1.
LEMMA RankBijection ==
  ASSUME NEW S, IsFiniteSet(S), NEW key, IsKey(S, key)
  PROVE  /\ \A x, y \in S : Rank(S, key, x) = Rank(S, key, y) => x = y
         /\ \A k \in 0..Cardinality(S) - 1 : \E x \in S : Rank(S, key, x) = k
<1> DEFINE n == Cardinality(S)
           R == [x \in S |-> Rank(S, key, x)]
<1>1. \A x, y \in S : Rank(S, key, x) = Rank(S, key, y) => x = y
  <2> TAKE x, y \in S
  <2> SUFFICES ASSUME x # y PROVE Rank(S, key, x) # Rank(S, key, y)
    OBVIOUS
  <2>1. key[x] < key[y] \/ key[y] < key[x]
    BY DEF IsKey
  <2>2. Rank(S, key, x) \in Nat /\ Rank(S, key, y) \in Nat
    BY BeforeFinite
  <2> QED
    BY <2>1, <2>2, RankGrows
<1>2. R \in Injection(S, 0..n - 1)
  <2>1. R \in [S -> 0..n - 1]
    BY RankNat
  <2> QED
    BY <1>1, <2>1 DEF Injection, IsInjective
<1>3. n \in Nat /\ IsFiniteSet(0..n - 1) /\ Cardinality(0..n - 1) = n
  <2>1. n \in Nat
    BY FS_CardinalityType
  <2> HIDE DEF n
  <2>2. 0 \in Int /\ n - 1 \in Int
    BY <2>1
  <2>3. /\ IsFiniteSet(0..n - 1)
        /\ Cardinality(0..n - 1) = IF 0 > n - 1 THEN 0 ELSE (n - 1) - 0 + 1
    BY <2>2, FS_Interval
  <2> QED
    BY <2>1, <2>3
<1>4. R \in Surjection(S, 0..n - 1)
  <2> HIDE DEF R
  <2> QED
    BY <1>2, <1>3, FS_Injection
<1>5. \A k \in 0..n - 1 : \E x \in S : R[x] = k
  <2> HIDE DEF R
  <2> QED
    BY <1>4 DEF Surjection
<1>6. \A x \in S : R[x] = Rank(S, key, x)
  OBVIOUS
<1> HIDE DEF R, n
<1> QED
  BY <1>1, <1>5, <1>6 DEF n

LEMMA RankOnto ==
  ASSUME NEW S, IsFiniteSet(S), NEW key, IsKey(S, key), NEW k \in 0..Cardinality(S) - 1
  PROVE  \E x \in S : Rank(S, key, x) = k
<1>1. \A j \in 0..Cardinality(S) - 1 : \E x \in S : Rank(S, key, x) = j
  BY RankBijection
<1> QED
  BY <1>1

After(S, f, x) == {y \in S : f[x] < f[y]}

\* One of finitely many has the greatest number.
LEMMA GreatestOf ==
  ASSUME NEW S, IsFiniteSet(S), S # {}, NEW f, \A x \in S : f[x] \in Nat
  PROVE  \E x \in S : \A y \in S : f[y] <= f[x]
<1> DEFINE D == {Cardinality(After(S, f, x)) : x \in S}
<1>1. ASSUME NEW x \in S
      PROVE  IsFiniteSet(After(S, f, x)) /\ Cardinality(After(S, f, x)) \in Nat
  <2>1. After(S, f, x) \in SUBSET S
    BY DEF After
  <2> QED
    BY <2>1, FS_Subset, FS_CardinalityType
<1>2. D \in SUBSET Nat /\ D # {}
  BY <1>1
<1>3. PICK m \in D : \A k \in D : m <= k
  <2> HIDE DEF D
  <2> QED
    BY <1>2, LeastNat
<1>4. PICK x \in S : m = Cardinality(After(S, f, x))
  OBVIOUS
<1>5. ASSUME NEW y \in S, f[x] < f[y] PROVE FALSE
  <2>1. /\ After(S, f, y) \in SUBSET After(S, f, x)
        /\ y \in After(S, f, x) /\ y \notin After(S, f, y)
    BY <1>5 DEF After
  <2>2. Cardinality(After(S, f, y)) <= Cardinality(After(S, f, x))
    BY <1>1, <2>1, FS_Subset
  <2>3. Cardinality(After(S, f, y)) # Cardinality(After(S, f, x))
    BY <1>1, <2>1, FS_Subset
  <2>4. Cardinality(After(S, f, x)) <= Cardinality(After(S, f, y))
    BY <1>3, <1>4
  <2> HIDE DEF D
  <2> QED
    BY <1>1, <2>2, <2>3, <2>4
<1> QED
  BY <1>5

LEMMA MaxIs ==
  ASSUME NEW T, NEW m \in Nat, m \in T, \A y \in T : y \in Nat /\ y <= m
  PROVE  Max(T) = m
<1>1. m \in T /\ \A y \in T : m >= y
  OBVIOUS
<1>2. Max(T) \in T /\ \A y \in T : Max(T) >= y
  BY <1>1 DEF Max
<1>3. Max(T) \in Nat /\ Max(T) <= m /\ Max(T) >= m
  BY <1>2
<1> QED
  BY <1>3

\* The greatest of a number and those of finitely many.
LEMMA MaxWith ==
  ASSUME NEW S, IsFiniteSet(S), NEW f, \A x \in S : f[x] \in Nat, NEW b \in Nat
  PROVE  LET m == Max({b} \cup {f[x] : x \in S})
         IN  m \in Nat /\ b <= m /\ \A x \in S : f[x] <= m
<1> DEFINE T == {b} \cup {f[x] : x \in S}
<1>1. \E m \in Nat : m \in T /\ \A y \in T : y \in Nat /\ y <= m
  <2>1. CASE S = {}
    BY <2>1
  <2>2. CASE S # {}
    <3>1. PICK x \in S : \A y \in S : f[y] <= f[x]
      BY <2>2, GreatestOf
    <3>2. CASE f[x] <= b
      <4>1. \A y \in S : f[y] <= b
        BY <3>1, <3>2
      <4> QED
        BY <4>1
    <3>3. CASE b < f[x]
      BY <3>1, <3>3
    <3> QED
      BY <3>2, <3>3
  <2> QED
    BY <2>1, <2>2
<1>2. PICK m \in Nat : m \in T /\ \A y \in T : y \in Nat /\ y <= m
  BY <1>1
<1>3. Max(T) = m
  <2> HIDE DEF T
  <2> QED
    BY <1>2, MaxIs
<1> QED
  BY <1>2, <1>3

\* The aggregate over the attendees' numbers.
LEMMA HighestIs ==
  ASSUME NEW numbers, \A i \in Attendees : numbers[i] \in Nat
  PROVE  Highest(numbers) \in Nat /\ \A i \in Attendees : numbers[i] <= Highest(numbers)
<1>1. {numbers[i] : i \in Attendees} \cup {0} = {0} \cup {numbers[i] : i \in Attendees}
  OBVIOUS
<1> QED
  BY <1>1, MaxWith DEF Highest

\* The counter gives a number above what it had and what was seen.
LEMMA NextNrIs ==
  ASSUME NEW count \in Nat, NEW seen \in Nat
  PROVE  NextNr(count, seen) \in Nat /\ NextNr(count, seen) > count /\ NextNr(count, seen) > seen
<1>1. PICK m \in Nat : m \in {count, seen} /\ count <= m /\ seen <= m
  OBVIOUS
<1>2. Max({count, seen}) = m
  BY <1>1, MaxIs
<1>3. (m \div 10) * 10 + 10 \in Nat /\ (m \div 10) * 10 + 10 > m
  OBVIOUS
<1> QED
  BY <1>1, <1>2, <1>3 DEF NextNr

\* The band starts above every number there is or that will be saved.
LEMMA BandBaseIs ==
  ASSUME NEW f, nr \in [Attendees -> Nat], \A i \in Attendees : f.posted[i] \in Nat
  PROVE  /\ BandBase(f) \in Nat
         /\ \A i \in Attendees : nr[i] < BandBase(f)
         /\ \A i \in WillSave(f) : f.posted[i] < BandBase(f)
<1> DEFINE ceiling == Max({Highest(nr)} \cup {f.posted[i] : i \in WillSave(f)})
<1>1. WillSave(f) \in SUBSET Attendees
  BY DEF WillSave, Present
<1>2. Highest(nr) \in Nat /\ \A i \in Attendees : nr[i] <= Highest(nr)
  BY HighestIs
<1>3. IsFiniteSet(WillSave(f))
  BY <1>1, FS_Subset
<1>4. /\ ceiling \in Nat /\ Highest(nr) <= ceiling
      /\ \A i \in WillSave(f) : f.posted[i] <= ceiling
  <2> DEFINE p == f.posted
             S == WillSave(f)
             h == Highest(nr)
  <2>1. IsFiniteSet(S) /\ (\A x \in S : p[x] \in Nat) /\ h \in Nat
    BY <1>1, <1>2, <1>3
  <2> HIDE DEF p, S, h
  <2>2. LET m == Max({h} \cup {p[x] : x \in S})
        IN  m \in Nat /\ h <= m /\ \A x \in S : p[x] <= m
    BY <2>1, MaxWith
  <2> QED
    BY <2>2 DEF p, S, h
<1> HIDE DEF ceiling
<1>5. /\ ceiling - (ceiling % 10) + 5 \in Nat
      /\ ceiling - (ceiling % 10) + 15 > ceiling
  BY <1>4
<1>6. BandBase(f) \in Nat /\ BandBase(f) > ceiling
  <2> DEFINE base == ceiling - (ceiling % 10) + 5
  <2>1. BandBase(f) = IF base > ceiling THEN base ELSE base + 10
    BY DEF BandBase, ceiling
  <2> QED
    BY <1>4, <1>5, <2>1
<1> QED
  BY <1>1, <1>2, <1>4, <1>6

\* Each of the rows once.
LEMMA SortedIs ==
  ASSUME NEW S, IsFiniteSet(S), NEW key, IsKey(S, key)
  PROVE  /\ Sorted(S, key) \in Seq(S)
         /\ \A x \in S : \E k \in DOMAIN Sorted(S, key) : Sorted(S, key)[k] = x
         /\ \A k, l \in DOMAIN Sorted(S, key) : Sorted(S, key)[k] = Sorted(S, key)[l] => k = l
<1> DEFINE n == Cardinality(S)
           z == Sorted(S, key)
<1>1. n \in Nat
  BY FS_CardinalityType
<1>2. z = [k \in 1..n |-> CHOOSE i \in S : Rank(S, key, i) = k - 1]
  BY DEF Sorted, Rank, Before
<1> HIDE DEF z
<1>3. ASSUME NEW k \in 1..n PROVE z[k] \in S /\ Rank(S, key, z[k]) = k - 1
  <2>1. k - 1 \in 0..n - 1
    BY <1>1
  <2>2. \E i \in S : Rank(S, key, i) = k - 1
    <3> HIDE DEF n
    <3>1. PICK j \in 0..n - 1 : j = k - 1
      BY <2>1
    <3>2. \E i \in S : Rank(S, key, i) = j
      BY RankOnto DEF n
    <3> QED
      BY <3>1, <3>2
  <2> QED
    BY <1>2, <2>2
<1>4. z \in Seq(S)
  <2> HIDE DEF n
  <2>1. z \in [1..n -> S]
    BY <1>2, <1>3
  <2> QED
    BY <1>1, <2>1
<1>5. ASSUME NEW x \in S PROVE \E k \in DOMAIN z : z[k] = x
  <2> DEFINE k == Rank(S, key, x) + 1
  <2>1. Rank(S, key, x) \in 0..n - 1
    BY RankNat
  <2> HIDE DEF n
  <2>2. k \in 1..n /\ Rank(S, key, x) = k - 1
    BY <1>1, <2>1
  <2> HIDE DEF k
  <2>3. z[k] \in S /\ Rank(S, key, z[k]) = Rank(S, key, x)
    BY <1>3, <2>2
  <2>4. z[k] = x
    BY <2>3, RankBijection
  <2> QED
    BY <1>2, <2>2, <2>4
<1>6. ASSUME NEW k \in DOMAIN z, NEW l \in DOMAIN z, z[k] = z[l] PROVE k = l
  <2>1. k \in 1..n /\ l \in 1..n
    BY <1>2
  <2> HIDE DEF n
  <2>2. k - 1 = l - 1
    BY <1>3, <1>6, <2>1
  <2> QED
    BY <1>1, <2>1, <2>2
<1> QED
  BY <1>4, <1>5, <1>6 DEF z

\* The counter reaches a number that is not taken.
LEMMA FreeNrIs ==
  ASSUME NEW first \in Nat, NEW taken, IsFiniteSet(taken)
  PROVE  FreeNr(first, taken) \in Nat /\ FreeNr(first, taken) >= first /\ FreeNr(first, taken) \notin taken
<1> DEFINE N == Cardinality(taken)
           D == 0..N
           h == [m \in D |-> first + 10 * m]
           all == {first + 10 * m : m \in D}
           free == all \ taken
<1>1. N \in Nat
  BY FS_CardinalityType
<1>2. IsFiniteSet(D) /\ Cardinality(D) = N + 1
  <2> HIDE DEF N
  <2>1. 0 \in Int /\ N \in Int
    BY <1>1
  <2>2. /\ IsFiniteSet(D)
        /\ Cardinality(D) = IF 0 > N THEN 0 ELSE N - 0 + 1
    BY <2>1, FS_Interval
  <2> QED
    BY <1>1, <2>2
<1>3. Cardinality(all) = N + 1
  <2>1. h \in Surjection(D, all) /\ h \in Injection(D, all)
    <3> HIDE DEF N
    <3>1. \A a, b \in D : first + 10 * a = first + 10 * b => a = b
      BY <1>1
    <3> HIDE DEF D
    <3>2. h \in [D -> all] /\ \A y \in all : \E m \in D : h[m] = y
      OBVIOUS
    <3>3. IsInjective(h)
      BY <3>1 DEF IsInjective
    <3> QED
      BY <3>2, <3>3 DEF Surjection, Injection
  <2> HIDE DEF D, h, all
  <2>2. Cardinality(all) = Cardinality(D)
    BY <1>2, <2>1, FS_Surjection
  <2> QED
    BY <1>2, <2>2
<1>4. free # {}
  <2> SUFFICES ASSUME all \in SUBSET taken PROVE FALSE
    <3> HIDE DEF all
    <3> QED
      OBVIOUS
  <2> HIDE DEF all
  <2>1. Cardinality(all) <= N
    BY FS_Subset DEF N
  <2> HIDE DEF N
  <2> QED
    BY <1>1, <1>3, <2>1
<1>5. free \in SUBSET Nat /\ \A x \in free : x >= first
  <2> HIDE DEF N
  <2> QED
    BY <1>1
<1>6. FreeNr(first, taken) = Min(free)
  BY DEF FreeNr
<1>7. free \cap taken = {}
  OBVIOUS
<1> HIDE DEF free
<1>8. PICK x \in free : \A y \in free : x <= y
  BY <1>4, <1>5, LeastNat
<1>9. Min(free) \in free
  BY <1>8 DEF Min
<1> QED
  BY <1>5, <1>6, <1>7, <1>9

-----------------------------------------------------------------------------
(* The statements of a transaction.                                        *)

Numbers == [Attendees -> Nat]

Puts == {"shift", "number", "save", "delete", "restore"}

Writes == [row : Attendees, put : Puts, nr : Nat]

\* One statement for each of the rows.
LEMMA EachIs ==
  ASSUME NEW S \in SUBSET Attendees, NEW key, IsKey(S, key), NEW put \in Puts,
         NEW numbers, \A i \in S : numbers[i] \in Nat
  PROVE  LET s == Each(S, key, put, numbers)
         IN  /\ s \in Seq(Writes)
             /\ \A k \in DOMAIN s : s[k].row \in S /\ s[k].put = put /\ s[k].nr = numbers[s[k].row]
             /\ \A i \in S : \E k \in DOMAIN s : s[k].row = i
             /\ \A k, l \in DOMAIN s : s[k].row = s[l].row => k = l
<1> DEFINE rows == Sorted(S, key)
           s == Each(S, key, put, numbers)
           W(i) == [row |-> i, put |-> put, nr |-> numbers[i]]
<1>1. IsFiniteSet(S)
  BY FS_Subset
<1>2. /\ rows \in Seq(S) /\ \A i \in S : \E k \in DOMAIN rows : rows[k] = i
      /\ \A k, l \in DOMAIN rows : rows[k] = rows[l] => k = l
  BY <1>1, SortedIs
<1>3. s = [k \in DOMAIN rows |-> W(rows[k])]
  BY DEF Each
<1>4. \A i \in S : W(i) \in Writes /\ W(i).row = i /\ W(i).put = put /\ W(i).nr = numbers[i]
  BY DEF Writes
<1> HIDE DEF rows, s, W
<1>5. \A k \in DOMAIN rows : rows[k] \in S
  BY <1>2
<1>6. s \in Seq(Writes) /\ DOMAIN s = DOMAIN rows
  <2>1. DOMAIN rows = 1..Len(rows) /\ Len(rows) \in Nat
    BY <1>2
  <2>2. s \in [1..Len(rows) -> Writes]
    BY <1>3, <1>4, <1>5, <2>1
  <2> QED
    BY <1>3, <2>1, <2>2
<1>7. \A k \in DOMAIN s : s[k] = W(rows[k]) /\ s[k].row = rows[k] /\ rows[k] \in S
  BY <1>3, <1>4, <1>5
<1>8. \A k \in DOMAIN s : s[k].row \in S /\ s[k].put = put /\ s[k].nr = numbers[s[k].row]
  BY <1>4, <1>7
<1>9. \A i \in S : \E k \in DOMAIN s : s[k].row = i
  BY <1>2, <1>6, <1>7
<1>10. \A k, l \in DOMAIN s : s[k].row = s[l].row => k = l
  BY <1>2, <1>6, <1>7
<1> QED
  BY <1>6, <1>8, <1>9, <1>10 DEF s

\* One DELETE for each row that is dropped, one UPDATE for each that is saved.
LEMMA SavesAre ==
  ASSUME NEW f, f.numbers \in Numbers, WillSave(f) \cup f.dropped \in SUBSET Attendees,
         IsKey(WillSave(f) \cup f.dropped, f.shown)
  PROVE  LET s == Saves(f)
         IN  /\ s \in Seq(Writes)
             /\ \A k \in DOMAIN s :
                  \/ s[k].row \in f.dropped /\ s[k].put = "delete" /\ s[k].nr = 0
                  \/ s[k].row \in WillSave(f) /\ s[k].put = "save" /\ s[k].nr = f.numbers[s[k].row]
             /\ \A i \in WillSave(f) \cup f.dropped : \E k \in DOMAIN s : s[k].row = i
<1> DEFINE T == WillSave(f) \cup f.dropped
           rows == Sorted(T, f.shown)
           s == Saves(f)
           W(i) == IF i \in f.dropped THEN [row |-> i, put |-> "delete", nr |-> 0]
                                      ELSE [row |-> i, put |-> "save", nr |-> f.numbers[i]]
<1>1. /\ rows \in Seq(T) /\ \A i \in T : \E k \in DOMAIN rows : rows[k] = i
      /\ T \in SUBSET Attendees
  <2>1. IsFiniteSet(T) /\ IsKey(T, f.shown) /\ T \in SUBSET Attendees
    <3>1. IsKey(T, f.shown) /\ T \in SUBSET Attendees
      OBVIOUS
    <3> HIDE DEF T
    <3> QED
      BY <3>1, FS_Subset
  <2> HIDE DEF T
  <2> QED
    BY <2>1, SortedIs
<1>2. s = [k \in DOMAIN rows |-> W(rows[k])]
  BY DEF Saves
<1>3. \A i \in T : W(i) \in Writes /\ W(i).row = i
  BY <1>1 DEF Writes, Numbers, Puts
<1>4. \A i \in T :
        \/ i \in f.dropped /\ W(i).put = "delete" /\ W(i).nr = 0
        \/ i \in WillSave(f) /\ W(i).put = "save" /\ W(i).nr = f.numbers[i]
  OBVIOUS
<1> HIDE DEF T, rows, s, W
<1>5. \A k \in DOMAIN rows : rows[k] \in T
  BY <1>1
<1>6. s \in Seq(Writes) /\ DOMAIN s = DOMAIN rows
  <2>1. DOMAIN rows = 1..Len(rows) /\ Len(rows) \in Nat
    BY <1>1
  <2>2. s \in [1..Len(rows) -> Writes]
    BY <1>2, <1>3, <1>5, <2>1
  <2> QED
    BY <1>2, <2>1, <2>2
<1>7. \A k \in DOMAIN s : s[k] = W(rows[k]) /\ s[k].row = rows[k] /\ rows[k] \in T
  BY <1>2, <1>3, <1>5
<1>8. \A k \in DOMAIN s :
        \/ s[k].row \in f.dropped /\ s[k].put = "delete" /\ s[k].nr = 0
        \/ s[k].row \in WillSave(f) /\ s[k].put = "save" /\ s[k].nr = f.numbers[s[k].row]
  BY <1>4, <1>7
<1>9. \A i \in T : \E k \in DOMAIN s : s[k].row = i
  BY <1>1, <1>6, <1>7
<1> QED
  BY <1>6, <1>8, <1>9 DEF T, s


-----------------------------------------------------------------------------
(* The invariant, of a form f beside the committed numbers n, l being the    *)
(* rows deleted since its POST.                                              *)

Forms ==
  [at : {"idle", "open", "posted", "refused", "saved", "failed"} \cup Saving,
   shown : Numbers, posted : Numbers, dropped : SUBSET Attendees, edited : SUBSET Attendees,
   loaded : Numbers, counter : Nat, moved : BOOLEAN, listed : Numbers, taken : SUBSET Nat,
   numbers : Numbers, locked : SUBSET Attendees, work : Numbers, todo : Seq(Writes)]

\* No two rows have the same number.
Distinct(numbers) ==
  \A i, j \in Attendees : numbers[i] > 0 /\ numbers[i] = numbers[j] => i = j

\* What the transaction sees.
Seen(f, n) == [i \in Attendees |-> IF i \in f.locked THEN f.work[i] ELSE n[i]]

On(f) == Present(f.posted)

\* The rows of the form that are neither saved nor deleted.
Unsaved(f) == On(f) \ (WillSave(f) \cup f.dropped)

\* The form until it is saved: a row of it that is gone was deleted since the POST.
Page(f, n, l) ==
  /\ Distinct(f.posted) /\ On(f) \subseteq Present(f.shown) /\ f.dropped \subseteq On(f)
  /\ \A i \in On(f) : n[i] = 0 => i \in l

\* No other save met it: each row has the number the POST read, or was deleted.
AsRead(f, n, l) ==
  \A i \in On(f) : f.loaded[i] > 0 /\ n[i] = IF i \in l THEN 0 ELSE f.loaded[i]

\* A row that was gone when the transaction wrote it is one that it saves.
Written(f, n) ==
  /\ f.locked \subseteq On(f) /\ Distinct(Seen(f, n))
  /\ \A i \in f.locked : n[i] = 0 /\ f.work[i] > 0 => i \in WillSave(f)

Listed(f, n) ==
  /\ Present(f.listed) \subseteq On(f) /\ Distinct(f.listed)
  /\ \A i \in On(f) : n[i] > 0 => f.listed[i] = n[i]

\* Above every number there is, and every one a saved row was sent with.
Above(f, n, v) == (\A j \in Attendees : n[j] < v) /\ \A j \in WillSave(f) : f.posted[j] < v

Band(f, n) == \A i \in f.locked : n[i] > 0 /\ Above(f, n, f.work[i])

\* The rows still there are in the band or on their way to it.
Shifting(f, n) ==
  /\ Band(f, n)
  /\ \A k \in DOMAIN f.todo :
       LET w == f.todo[k] IN
       /\ w.put = "shift" /\ w.row \in On(f) /\ Above(f, n, w.nr)
       /\ \A i \in f.locked : f.work[i] # w.nr
       /\ \A m \in DOMAIN f.todo : f.todo[m].nr = w.nr => m = k
  /\ \A i \in On(f) : n[i] > 0 => i \in f.locked \/ \E k \in DOMAIN f.todo : f.todo[k].row = i

\* The saved rows that have got their number.
Numbered(f) == {i \in WillSave(f) : \A k \in DOMAIN f.todo : f.todo[k].row # i}

\* A fresh number is above all; the number it replaces is, or was, that of a row
\* outside the form.
GoesLast(f, n, l, i) ==
  /\ \A j \in Attendees : Seen(f, n)[j] < f.numbers[i]
  /\ i \in f.locked => \E j \in Attendees \ On(f) : n[j] = f.posted[i] \/ j \in l

\* The numbers that are taken, and whose they are.
TakenBy(f, n, l) ==
  /\ IsFiniteSet(f.taken)
  /\ \A j \in Attendees \ On(f) : n[j] > 0 => n[j] \in f.taken
  /\ \A j \in Unsaved(f) : f.posted[j] \in f.taken
  /\ \A i \in Numbered(f) : f.numbers[i] \in f.taken
  /\ \A t \in f.taken :
       \/ \E j \in Attendees \ On(f) : n[j] = t \/ j \in l
       \/ \E j \in Unsaved(f) : f.posted[j] = t
       \/ \E j \in Numbered(f) : f.numbers[j] = t

\* A row that has got its number shares it with none.
Given(f, n, l) ==
  \A i \in Numbered(f) :
    /\ f.numbers[i] > 0
    /\ \A j \in Numbered(f) : f.numbers[i] = f.numbers[j] => i = j
    /\ \A j \in Unsaved(f) : f.numbers[i] # f.posted[j]
    /\ \A j \in Attendees \ On(f) : f.numbers[i] # n[j]
    /\ f.numbers[i] = f.posted[i] \/ GoesLast(f, n, l, i)

Numbering(f, n, l) ==
  /\ Band(f, n) /\ \A i \in On(f) : n[i] > 0 => i \in f.locked
  /\ \A k \in DOMAIN f.todo :
       LET w == f.todo[k] IN
       /\ w.row \in WillSave(f) /\ w.nr = f.posted[w.row]
       /\ \A m \in DOMAIN f.todo : f.todo[m].row = w.row => m = k
  /\ TakenBy(f, n, l) /\ Given(f, n, l)

Planned(f) ==
  \A k \in DOMAIN f.todo :
    LET w == f.todo[k] IN
    /\ w.row \in On(f) /\ w.put \in {"save", "delete", "restore"}
    /\ w.put = "save" => w.row \in WillSave(f)
    /\ w.put = "delete" => w.row \in f.dropped /\ w.nr = 0

\* What the save leads to: a row that is neither saved nor deleted keeps its
\* number, and stays gone when it is.
Goal(f, l) ==
  [i \in Attendees |-> IF i \in f.dropped THEN 0
                       ELSE IF i \in WillSave(f) THEN f.numbers[i]
                       ELSE IF i \in l THEN 0 ELSE f.posted[i]]

\* What is still to be written of a row is what the goal has for it; a row that
\* is dropped is deleted before it could be restored.
ToGoal(f, n, l) ==
  /\ \A i \in f.locked : f.work[i] = 0 => i \in f.dropped
  /\ \A i \in WillSave(f) : f.numbers[i] > 0
  /\ \A k \in DOMAIN f.todo :
       LET w == f.todo[k] IN
       /\ w.put = "save" => w.nr = f.numbers[w.row]
       /\ w.put = "restore" => w.row \notin WillSave(f)
       /\ w.put = "restore" /\ w.row \notin f.dropped \cup l => w.nr = f.posted[w.row]
       /\ w.put = "restore" /\ w.row \in f.dropped =>
            \/ Seen(f, n)[w.row] = 0
            \/ \E m \in 1..k - 1 : f.todo[m].row = w.row /\ f.todo[m].put = "delete"
  /\ \A i \in On(f) :
       \/ Seen(f, n)[i] = Goal(f, l)[i] /\ (i \in WillSave(f) => i \in f.locked)
       \/ \E k \in DOMAIN f.todo : f.todo[k].row = i /\ (f.todo[k].put = "restore" => i \notin f.dropped)

\* Every saved row gets the number it was dragged to, or one after all others
\* when a row outside the page has, or had, that number.
AsDragged(f, n, l) ==
  \A i \in WillSave(f) \ l :
    \/ f.numbers[i] = f.posted[i]
    \/ /\ \E j \in Attendees \ On(f) : n[j] = f.posted[i] \/ j \in l
       /\ \A j \in On(f) : Goal(f, l)[j] = f.posted[j] => f.posted[j] < f.numbers[i]
       /\ \A j \in Attendees \ On(f) : n[j] < f.numbers[i]

\* No row has, or will be given, a number that another one is to be given.
GoalFree(f, n, l) ==
  /\ \A i, j \in On(f) : Goal(f, l)[i] > 0 /\ Goal(f, l)[i] = Goal(f, l)[j] => i = j
  /\ \A i \in On(f), j \in Attendees \ On(f) : Goal(f, l)[i] > 0 => n[j] # Goal(f, l)[i]
  /\ \A i, j \in On(f) :
       Seen(f, n)[i] = Goal(f, l)[i] \/ Goal(f, l)[j] = 0 \/ Goal(f, l)[j] # Seen(f, n)[i]

\* Whatever other saves it met.
Beside(f, n, l) ==
  /\ f.at \in {"idle", "open"} => l = {}
  /\ Distinct(f.shown)
  /\ f.at \notin Saving => f.locked = {}
  /\ f.at \in Saving \cup {"posted"} => Page(f, n, l)
  /\ f.at = "posted" => f.numbers = f.posted /\ (~f.moved => f.posted = f.loaded)
  /\ f.at \in Saving => Written(f, n)
  /\ f.at \in Saving \ {"saving"} => Listed(f, n)
  /\ f.at = "listed" => f.locked = {}
  /\ f.at = "shifting" => Shifting(f, n)
  /\ f.at = "numbering" => Numbering(f, n, l)
  /\ f.at = "saving" => Planned(f)

\* While it has met none.
Alone(f, n, l) ==
  /\ f.at \in Saving \cup {"posted"} => AsRead(f, n, l)
  /\ f.at = "saving" =>
       ToGoal(f, n, l) /\ AsDragged(f, n, l) /\ (On(f) \cap l = {} => GoalFree(f, n, l))
  /\ f.at = "failed" => On(f) \cap l # {}

ReorderTypes ==
  /\ nr \in Numbers /\ counter \in Nat
  /\ signup \in [Signups -> [at : {"new", "waiting", "inserting", "done"}, seen : Nat, nr : Nat]]
  /\ form \in [Editors -> Forms]
  /\ lost \in [Editors -> SUBSET Attendees]

\* A signup that is not done has no row, and no page shows one.
SignupRows ==
  \A s \in Signups : signup[s].at # "done" =>
    nr[s] = 0 /\ \A e \in Editors : form[e].shown[s] = 0 /\ form[e].posted[s] = 0

Locked ==
  /\ \A s \in Signups : signup[s].at = "inserting" => holder = s
  /\ \A e \in Editors : form[e].at \in Saving => holder = e

FormInv(e) ==
  /\ Beside(form[e], nr, lost[e])
  /\ e \notin met => Alone(form[e], nr, lost[e])

ReorderInv ==
  ReorderTypes /\ Distinct(nr) /\ SignupRows /\ Locked /\ \A e \in Editors : FormInv(e)

LEMMA FormParts ==
  ASSUME NEW f \in Forms
  PROVE  /\ f.shown \in Numbers /\ f.posted \in Numbers /\ f.loaded \in Numbers
         /\ f.listed \in Numbers /\ f.numbers \in Numbers /\ f.work \in Numbers
         /\ f.dropped \subseteq Attendees /\ f.edited \subseteq Attendees /\ f.locked \subseteq Attendees
         /\ f.taken \subseteq Nat /\ f.counter \in Nat /\ f.moved \in BOOLEAN /\ f.todo \in Seq(Writes)
         /\ On(f) = {i \in Attendees : f.posted[i] > 0}
         /\ \A k \in DOMAIN f.todo : f.todo[k] \in Writes
<1>1. /\ f.shown \in Numbers /\ f.posted \in Numbers /\ f.loaded \in Numbers
      /\ f.listed \in Numbers /\ f.numbers \in Numbers /\ f.work \in Numbers
      /\ f.dropped \subseteq Attendees /\ f.edited \subseteq Attendees /\ f.locked \subseteq Attendees
      /\ f.taken \subseteq Nat /\ f.counter \in Nat /\ f.moved \in BOOLEAN /\ f.todo \in Seq(Writes)
  BY DEF Forms
<1>2. \A k \in DOMAIN f.todo : f.todo[k] \in Writes
  BY <1>1
<1> QED
  BY <1>1, <1>2 DEF On, Present

\* The rows of a form, and the order of its page.
LEMMA FormRows ==
  ASSUME NEW f \in Forms, NEW n, NEW l, Page(f, n, l), Distinct(f.shown)
  PROVE  /\ WillSave(f) \subseteq On(f) /\ Unsaved(f) \subseteq On(f) /\ On(f) \subseteq Attendees
         /\ WillSave(f) \cap f.dropped = {} /\ WillSave(f) \cup f.dropped \subseteq On(f)
         /\ On(f) = Unsaved(f) \cup WillSave(f) \cup f.dropped
         /\ IsFiniteSet(On(f))
         /\ \A T \in SUBSET On(f) : IsKey(T, f.shown)
<1>1. /\ WillSave(f) \subseteq On(f) /\ Unsaved(f) \subseteq On(f) /\ On(f) \subseteq Attendees
      /\ WillSave(f) \cap f.dropped = {}
  BY DEF WillSave, Unsaved, On, Present
<1>2. f.dropped \subseteq On(f) /\ On(f) \subseteq Present(f.shown)
  BY DEF Page
<1>3. \A i \in On(f) : i \in Attendees /\ f.shown[i] \in Nat /\ f.shown[i] > 0
  BY <1>1, <1>2, FormParts DEF Present, Numbers
<1>4. ASSUME NEW T \in SUBSET On(f) PROVE IsKey(T, f.shown)
  BY <1>3 DEF IsKey, Distinct
<1>5. IsFiniteSet(On(f))
  <2>1. On(f) \in SUBSET Attendees
    BY <1>1
  <2> QED
    BY <2>1, FS_Subset
<1> QED
  BY <1>1, <1>2, <1>4, <1>5 DEF Unsaved

-----------------------------------------------------------------------------
(* Steps of others.                                                        *)

\* A form without the lock of the event is kept by steps that keep its rows.
LEMMA FormKept ==
  ASSUME NEW f, NEW n, NEW m, NEW l, f.at \notin Saving, \A i \in On(f) : m[i] = n[i]
  PROVE  /\ Beside(f, n, l) => Beside(f, m, l)
         /\ Alone(f, n, l) => Alone(f, m, l)
<1>1. f.at # "listed" /\ f.at # "shifting" /\ f.at # "numbering" /\ f.at # "saving"
  BY DEF Saving
<1>2. Page(f, n, l) => Page(f, m, l)
  BY DEF Page
<1>3. AsRead(f, n, l) => AsRead(f, m, l)
  BY DEF AsRead
<1>4. Beside(f, n, l) => Beside(f, m, l)
  BY <1>1, <1>2 DEF Beside
<1>5. Alone(f, n, l) => Alone(f, m, l)
  BY <1>1, <1>3 DEF Alone
<1> QED
  BY <1>4, <1>5

\* A row that goes while the transaction has not written it: what the
\* transaction sees of the others stays.
LEMMA SeenGone ==
  ASSUME NEW f \in Forms, NEW n \in Numbers, NEW m \in Numbers, NEW i \in Attendees \ f.locked,
         m[i] = 0, \A j \in Attendees : j # i => m[j] = n[j]
  PROVE  /\ \A j \in Attendees : n[j] \in Nat /\ m[j] \in Nat /\ m[j] <= n[j]
         /\ \A j \in Attendees : Seen(f, n)[j] \in Nat /\ Seen(f, m)[j] \in Nat
         /\ \A j \in Attendees : j # i => Seen(f, m)[j] = Seen(f, n)[j]
         /\ \A j \in Attendees : Seen(f, m)[j] <= Seen(f, n)[j]
         /\ Seen(f, m)[i] = 0
<1>1. \A j \in Attendees : n[j] \in Nat /\ m[j] \in Nat /\ f.work[j] \in Nat
  BY FormParts DEF Numbers
<1>2. \A j \in Attendees : m[j] <= n[j]
  BY <1>1
<1>3. /\ \A j \in Attendees : Seen(f, n)[j] = IF j \in f.locked THEN f.work[j] ELSE n[j]
      /\ \A j \in Attendees : Seen(f, m)[j] = IF j \in f.locked THEN f.work[j] ELSE m[j]
  BY DEF Seen
<1>4. \A j \in Attendees : Seen(f, n)[j] \in Nat /\ Seen(f, m)[j] \in Nat
  BY <1>1, <1>3
<1>5. \A j \in Attendees : j # i => Seen(f, m)[j] = Seen(f, n)[j]
  BY <1>3
<1>6. Seen(f, m)[i] = 0
  BY <1>3
<1>7. \A j \in Attendees : Seen(f, m)[j] <= Seen(f, n)[j]
  BY <1>1, <1>2, <1>3
<1> QED
  BY <1>1, <1>2, <1>4, <1>5, <1>6, <1>7

LEMMA WrittenGone ==
  ASSUME NEW f \in Forms, NEW n \in Numbers, NEW m \in Numbers, NEW i \in Attendees \ f.locked,
         m[i] = 0, \A j \in Attendees : j # i => m[j] = n[j], Written(f, n)
  PROVE  Written(f, m)
<1> DEFINE a == Seen(f, n)
           b == Seen(f, m)
<1>1. \A j, k \in Attendees : a[j] > 0 /\ a[j] = a[k] => j = k
  BY DEF Written, Distinct
<1>2. \A j \in Attendees : b[j] \in Nat /\ (b[j] > 0 => b[j] = a[j])
  BY SeenGone
<1> HIDE DEF a, b
<1>3. \A j, k \in Attendees : b[j] > 0 /\ b[j] = b[k] => j = k
  BY <1>1, <1>2
<1>4. Distinct(Seen(f, m))
  BY <1>3 DEF Distinct, b
<1>5. f.locked \subseteq Attendees
  BY FormParts
<1> QED
  BY <1>4, <1>5 DEF Written

LEMMA BandGone ==
  ASSUME NEW f \in Forms, NEW n \in Numbers, NEW m \in Numbers, NEW i \in Attendees \ f.locked,
         m[i] = 0, \A j \in Attendees : j # i => m[j] = n[j]
  PROVE  /\ \A v \in Nat : Above(f, n, v) => Above(f, m, v)
         /\ Band(f, n) => Band(f, m)
         /\ Listed(f, n) => Listed(f, m)
<1>1. \A j \in Attendees : n[j] \in Nat /\ m[j] \in Nat /\ m[j] <= n[j]
  BY SeenGone
<1>2. ASSUME NEW v \in Nat, Above(f, n, v) PROVE Above(f, m, v)
  BY <1>1, <1>2 DEF Above
<1>3. \A j \in f.locked : j \in Attendees /\ f.work[j] \in Nat
  BY FormParts DEF Numbers
<1>4. Band(f, n) => Band(f, m)
  BY <1>2, <1>3 DEF Band
<1>5. On(f) \subseteq Attendees
  BY DEF On, Present
<1>6. Listed(f, n) => Listed(f, m)
  BY <1>5 DEF Listed
<1> QED
  BY <1>2, <1>4, <1>6

LEMMA ShiftingGone ==
  ASSUME NEW f \in Forms, NEW n \in Numbers, NEW m \in Numbers, NEW i \in Attendees \ f.locked,
         m[i] = 0, \A j \in Attendees : j # i => m[j] = n[j], Shifting(f, n)
  PROVE  Shifting(f, m)
<1>1. Band(f, m)
  BY BandGone DEF Shifting
<1>2. ASSUME NEW k \in DOMAIN f.todo
      PROVE  LET w == f.todo[k] IN
             /\ w.put = "shift" /\ w.row \in On(f) /\ Above(f, m, w.nr)
             /\ \A j \in f.locked : f.work[j] # w.nr
             /\ \A h \in DOMAIN f.todo : f.todo[h].nr = w.nr => h = k
  <2>1. f.todo[k].nr \in Nat
    BY FormParts DEF Writes
  <2>2. Above(f, m, f.todo[k].nr)
    BY <2>1, BandGone DEF Shifting
  <2> QED
    BY <2>2 DEF Shifting
<1>3. On(f) \subseteq Attendees
  BY DEF On, Present
<1>4. \A j \in On(f) : m[j] > 0 => j \in f.locked \/ \E k \in DOMAIN f.todo : f.todo[k].row = j
  BY <1>3 DEF Shifting
<1> QED
  BY <1>1, <1>2, <1>4 DEF Shifting

LEMMA NumberingGone ==
  ASSUME NEW f \in Forms, NEW n \in Numbers, NEW m \in Numbers, NEW i \in Attendees \ f.locked,
         m[i] = 0, \A j \in Attendees : j # i => m[j] = n[j], NEW l, Numbering(f, n, l)
  PROVE  Numbering(f, m, l \cup {i})
<1>1. Band(f, m)
  BY BandGone DEF Numbering
<1>2. On(f) \subseteq Attendees /\ Numbered(f) \subseteq Attendees
  BY DEF On, Present, Numbered, WillSave
<1>3. \A j \in On(f) : m[j] > 0 => j \in f.locked
  BY <1>2 DEF Numbering
<1>4. TakenBy(f, m, l \cup {i})
  <2>1. TakenBy(f, n, l)
    BY DEF Numbering
  <2>2. \A j \in Attendees \ On(f) : m[j] > 0 => m[j] \in f.taken
    BY <2>1 DEF TakenBy
  <2>3. ASSUME NEW t \in f.taken
        PROVE  \/ \E j \in Attendees \ On(f) : m[j] = t \/ j \in l \cup {i}
               \/ \E j \in Unsaved(f) : f.posted[j] = t
               \/ \E j \in Numbered(f) : f.numbers[j] = t
    BY <2>1 DEF TakenBy
  <2> QED
    BY <2>1, <2>2, <2>3 DEF TakenBy
<1>5. ASSUME NEW j \in Numbered(f), GoesLast(f, n, l, j) PROVE GoesLast(f, m, l \cup {i}, j)
  <2>1. \A k \in Attendees : Seen(f, m)[k] < f.numbers[j]
    <3>1. \A k \in Attendees : /\ Seen(f, n)[k] < f.numbers[j] /\ Seen(f, m)[k] <= Seen(f, n)[k]
                               /\ Seen(f, m)[k] \in Nat /\ Seen(f, n)[k] \in Nat
      BY <1>5, SeenGone DEF GoesLast
    <3>2. f.numbers[j] \in Nat
      BY <1>2, FormParts DEF Numbers
    <3> QED
      BY <3>1, <3>2
  <2>2. j \in f.locked => \E k \in Attendees \ On(f) : m[k] = f.posted[j] \/ k \in l \cup {i}
    BY <1>5 DEF GoesLast
  <2> QED
    BY <2>1, <2>2 DEF GoesLast
<1>6. Given(f, m, l \cup {i})
  <2>1. \A j \in Numbered(f) : \A k \in Attendees \ On(f) : f.numbers[j] # m[k]
    <3>1. \A j \in Numbered(f) : \A k \in Attendees \ On(f) : f.numbers[j] # n[k] /\ f.numbers[j] > 0
      BY DEF Numbering, Given
    <3> QED
      BY <3>1
  <2>2. Given(f, n, l)
    BY DEF Numbering
  <2>3. \A j \in Numbered(f) : f.numbers[j] = f.posted[j] \/ GoesLast(f, m, l \cup {i}, j)
    BY <1>5, <2>2 DEF Given
  <2> QED
    BY <2>1, <2>2, <2>3 DEF Given
<1> QED
  BY <1>1, <1>3, <1>4, <1>6 DEF Numbering

LEMMA ToGoalGone ==
  ASSUME NEW f \in Forms, NEW n \in Numbers, NEW m \in Numbers, NEW i \in Attendees \ f.locked,
         m[i] = 0, \A j \in Attendees : j # i => m[j] = n[j], NEW l, ToGoal(f, n, l)
  PROVE  ToGoal(f, m, l \cup {i})
<1>1. ASSUME NEW k \in DOMAIN f.todo
      PROVE  LET w == f.todo[k] IN
             /\ w.put = "save" => w.nr = f.numbers[w.row]
             /\ w.put = "restore" => w.row \notin WillSave(f)
             /\ w.put = "restore" /\ w.row \notin f.dropped \cup (l \cup {i}) => w.nr = f.posted[w.row]
             /\ w.put = "restore" /\ w.row \in f.dropped =>
                  \/ Seen(f, m)[w.row] = 0
                  \/ \E h \in 1..k - 1 : f.todo[h].row = w.row /\ f.todo[h].put = "delete"
  <2>1. f.todo[k].row \in Attendees
    BY FormParts DEF Writes
  <2>2. Seen(f, n)[f.todo[k].row] = 0 => Seen(f, m)[f.todo[k].row] = 0
    BY <2>1, SeenGone
  <2> QED
    BY <2>2 DEF ToGoal
<1>2. ASSUME NEW j \in On(f)
      PROVE  \/ Seen(f, m)[j] = Goal(f, l \cup {i})[j] /\ (j \in WillSave(f) => j \in f.locked)
             \/ \E k \in DOMAIN f.todo : f.todo[k].row = j /\ (f.todo[k].put = "restore" => j \notin f.dropped)
  <2>1. j \in Attendees /\ \/ Seen(f, n)[j] = Goal(f, l)[j] /\ (j \in WillSave(f) => j \in f.locked)
                           \/ \E k \in DOMAIN f.todo : f.todo[k].row = j /\ (f.todo[k].put = "restore" => j \notin f.dropped)
    BY DEF ToGoal, On, Present
  <2>2. CASE j # i
    <3>1. Goal(f, l \cup {i})[j] = Goal(f, l)[j]
      BY <2>1, <2>2 DEF Goal
    <3>2. Seen(f, m)[j] = Seen(f, n)[j]
      BY <2>1, <2>2, SeenGone
    <3> QED
      BY <2>1, <3>1, <3>2
  <2>3. CASE j = i
    <3>1. Seen(f, m)[i] = 0
      BY SeenGone
    <3>2. i \notin WillSave(f) => Goal(f, l \cup {i})[i] = 0
      BY DEF Goal
    <3> QED
      BY <2>1, <2>3, <3>1, <3>2
  <2> QED
    BY <2>1, <2>2, <2>3
<1> QED
  BY <1>1, <1>2 DEF ToGoal

LEMMA DraggedGone ==
  ASSUME NEW f \in Forms, NEW n \in Numbers, NEW m \in Numbers, NEW i \in Attendees \ f.locked,
         m[i] = 0, \A j \in Attendees : j # i => m[j] = n[j], NEW l,
         AsDragged(f, n, l)
  PROVE  AsDragged(f, m, l \cup {i})
<1> SUFFICES ASSUME NEW j \in WillSave(f) \ (l \cup {i}), f.numbers[j] # f.posted[j]
             PROVE  /\ \E k \in Attendees \ On(f) : m[k] = f.posted[j] \/ k \in l \cup {i}
                    /\ \A k \in On(f) : Goal(f, l \cup {i})[k] = f.posted[k] => f.posted[k] < f.numbers[j]
                    /\ \A k \in Attendees \ On(f) : m[k] < f.numbers[j]
  BY DEF AsDragged
<1>1. /\ \E k \in Attendees \ On(f) : n[k] = f.posted[j] \/ k \in l
      /\ \A k \in On(f) : Goal(f, l)[k] = f.posted[k] => f.posted[k] < f.numbers[j]
      /\ \A k \in Attendees \ On(f) : n[k] < f.numbers[j]
  BY DEF AsDragged
<1>2. \E k \in Attendees \ On(f) : m[k] = f.posted[j] \/ k \in l \cup {i}
  BY <1>1
<1>3. ASSUME NEW k \in On(f), Goal(f, l \cup {i})[k] = f.posted[k] PROVE f.posted[k] < f.numbers[j]
  <2>1. k \in Attendees /\ f.posted[k] # 0
    BY DEF On, Present
  <2>2. Goal(f, l \cup {i})[k] = 0 \/ Goal(f, l \cup {i})[k] = Goal(f, l)[k]
    BY <2>1 DEF Goal
  <2> QED
    BY <1>1, <1>3, <2>1, <2>2
<1>4. ASSUME NEW k \in Attendees \ On(f) PROVE m[k] < f.numbers[j]
  <2>1. n[k] < f.numbers[j] /\ m[k] <= n[k] /\ m[k] \in Nat /\ n[k] \in Nat
    BY <1>1, SeenGone
  <2>2. f.numbers[j] \in Nat
    BY FormParts DEF Numbers, WillSave, Present
  <2> QED
    BY <2>1, <2>2
<1> QED
  BY <1>2, <1>3, <1>4

\* A row outside the form goes: no number of the goal becomes another's.
LEMMA GoalFreeGone ==
  ASSUME NEW f \in Forms, NEW n \in Numbers, NEW m \in Numbers, NEW i \in Attendees \ f.locked,
         m[i] = 0, \A j \in Attendees : j # i => m[j] = n[j], NEW l,
         i \notin On(f), GoalFree(f, n, l)
  PROVE  GoalFree(f, m, l \cup {i})
<1>1. On(f) \subseteq Attendees
  BY DEF On, Present
<1>2. ASSUME NEW j \in On(f)
      PROVE  Goal(f, l \cup {i})[j] = Goal(f, l)[j] /\ Seen(f, m)[j] = Seen(f, n)[j]
  <2>1. j \in Attendees /\ j # i
    BY <1>1
  <2>2. Goal(f, l \cup {i})[j] = Goal(f, l)[j]
    BY <2>1 DEF Goal
  <2>3. Seen(f, m)[j] = Seen(f, n)[j]
    BY <2>1, SeenGone
  <2> QED
    BY <2>2, <2>3
<1>3. ASSUME NEW j \in On(f), NEW k \in Attendees \ On(f), Goal(f, l)[j] > 0
      PROVE  m[k] # Goal(f, l)[j]
  <2>1. n[k] # Goal(f, l)[j]
    BY <1>3 DEF GoalFree
  <2> QED
    BY <1>3, <2>1
<1> QED
  BY <1>2, <1>3 DEF GoalFree

LEMMA FormGone ==
  ASSUME NEW f \in Forms, NEW n \in Numbers, NEW m \in Numbers, NEW i \in Attendees \ f.locked,
         m[i] = 0, \A j \in Attendees : j # i => m[j] = n[j], NEW l, NEW k,
         k = IF f.at \in Saving \cup {"posted"} THEN l \cup {i} ELSE l,
         Beside(f, n, l)
  PROVE  /\ Beside(f, m, k)
         /\ Alone(f, n, l) => Alone(f, m, k)
<1>1. On(f) \subseteq Attendees
  BY DEF On, Present
<1>2. CASE f.at \notin Saving \cup {"posted"}
  <2>1. k = l /\ f.at \notin Saving /\ f.at # "posted"
    BY <1>2
  <2>2. f.at # "listed" /\ f.at # "shifting" /\ f.at # "numbering" /\ f.at # "saving"
    BY <1>2 DEF Saving
  <2>3. Beside(f, m, k)
    BY <1>2, <2>1, <2>2 DEF Beside
  <2>4. Alone(f, n, l) => Alone(f, m, k)
    BY <1>2, <2>1, <2>2 DEF Alone
  <2> QED
    BY <2>3, <2>4
<1>3. CASE f.at \in Saving \cup {"posted"}
  <2>1. k = l \cup {i} /\ f.at \notin {"idle", "open"} /\ f.at # "failed"
    BY <1>3 DEF Saving
  <2>2. Page(f, m, k)
    <3>1. Page(f, n, l)
      BY <1>3 DEF Beside
    <3>2. \A j \in On(f) : m[j] = 0 => j \in k
      BY <1>1, <2>1, <3>1 DEF Page
    <3> QED
      BY <3>1, <3>2 DEF Page
  <2>3. AsRead(f, n, l) => AsRead(f, m, k)
    BY <1>1, <2>1 DEF AsRead
  <2>4. f.at \in Saving => Written(f, m)
    BY WrittenGone DEF Beside
  <2>5. f.at \in Saving \ {"saving"} => Listed(f, m)
    BY BandGone DEF Beside
  <2>6. f.at = "shifting" => Shifting(f, m)
    BY ShiftingGone DEF Beside
  <2>7. f.at = "numbering" => Numbering(f, m, k)
    BY <2>1, NumberingGone DEF Beside
  <2>8. Beside(f, m, k)
    BY <2>1, <2>2, <2>4, <2>5, <2>6, <2>7 DEF Beside
  <2>9. ASSUME f.at = "saving", Alone(f, n, l)
        PROVE  ToGoal(f, m, k) /\ AsDragged(f, m, k) /\ (On(f) \cap k = {} => GoalFree(f, m, k))
    <3>1. ToGoal(f, n, l) /\ AsDragged(f, n, l) /\ (On(f) \cap l = {} => GoalFree(f, n, l))
      BY <2>9 DEF Alone
    <3>2. ToGoal(f, m, k)
      BY <2>1, <3>1, ToGoalGone
    <3>3. AsDragged(f, m, k)
      BY <2>1, <3>1, DraggedGone
    <3>4. On(f) \cap k = {} => GoalFree(f, m, k)
      BY <2>1, <3>1, GoalFreeGone
    <3> QED
      BY <3>2, <3>3, <3>4
  <2>10. Alone(f, n, l) => Alone(f, m, k)
    BY <1>3, <2>1, <2>3, <2>9 DEF Alone
  <2> QED
    BY <2>8, <2>10
<1> QED
  BY <1>2, <1>3

-----------------------------------------------------------------------------
(* The steps of a save.                                                    *)

\* What was sent, and what the POST read of it.
SameSent(f, g) ==
  /\ g.shown = f.shown /\ g.posted = f.posted /\ g.loaded = f.loaded
  /\ g.dropped = f.dropped /\ g.edited = f.edited

LEMMA SameRows ==
  ASSUME NEW f, NEW g, SameSent(f, g), NEW n, NEW l
  PROVE  /\ On(g) = On(f) /\ WillSave(g) = WillSave(f) /\ Unsaved(g) = Unsaved(f)
         /\ Page(f, n, l) => Page(g, n, l)
         /\ AsRead(f, n, l) => AsRead(g, n, l)
         /\ \A v : Above(f, n, v) <=> Above(g, n, v)
<1>1. On(g) = On(f) /\ WillSave(g) = WillSave(f)
  BY DEF SameSent, On, WillSave
<1>2. Unsaved(g) = Unsaved(f)
  BY <1>1 DEF SameSent, Unsaved
<1>3. Page(f, n, l) => Page(g, n, l)
  BY <1>1 DEF SameSent, Page
<1>4. AsRead(f, n, l) => AsRead(g, n, l)
  BY <1>1 DEF SameSent, AsRead
<1>5. \A v : Above(f, n, v) <=> Above(g, n, v)
  BY <1>1 DEF SameSent, Above
<1> QED
  BY <1>1, <1>2, <1>3, <1>4, <1>5

\* Nothing is written: the transaction sees what it saw.
LEMMA SameWritten ==
  ASSUME NEW f, NEW g, SameSent(f, g), g.locked = f.locked, g.work = f.work, NEW n
  PROVE  /\ Seen(g, n) = Seen(f, n)
         /\ Written(f, n) => Written(g, n)
         /\ Band(f, n) => Band(g, n)
<1>1. On(g) = On(f) /\ WillSave(g) = WillSave(f) /\ \A v : Above(f, n, v) <=> Above(g, n, v)
  BY SameRows
<1>2. Seen(g, n) = Seen(f, n)
  BY DEF Seen
<1>3. Written(f, n) => Written(g, n)
  BY <1>1, <1>2 DEF Written
<1>4. Band(f, n) => Band(g, n)
  BY <1>1 DEF Band
<1> QED
  BY <1>2, <1>3, <1>4

LEMMA SameListed ==
  ASSUME NEW f, NEW g, SameSent(f, g), g.listed = f.listed, NEW n, Listed(f, n)
  PROVE  Listed(g, n)
<1>1. On(g) = On(f)
  BY SameRows
<1> QED
  BY <1>1 DEF Listed

\* A reorder: the rows are read.
LEMMA ListedForm ==
  ASSUME NEW f \in Forms, NEW g, SameSent(f, g), NEW n \in Numbers, Distinct(n), NEW l,
         Beside(f, n, l), f.at = "posted", g.at = "listed", g.listed = Only(n, On(f)),
         g.locked = f.locked, g.work = f.work
  PROVE  Beside(g, n, l) /\ (Alone(f, n, l) => Alone(g, n, l))
<1>1. "listed" \in Saving /\ "posted" \notin Saving
  BY DEF Saving
<1>2. f.locked = {} /\ Page(f, n, l) /\ Distinct(f.shown)
  BY <1>1 DEF Beside
<1>3. On(g) = On(f) /\ On(f) \subseteq Attendees
  BY SameRows DEF On, Present
<1>4. \A i \in Attendees : Only(n, On(f))[i] = IF i \in On(f) THEN n[i] ELSE 0
  BY DEF Only
<1>5. Listed(g, n)
  <2>1. Present(g.listed) \subseteq On(f)
    BY <1>4 DEF Present
  <2>2. Distinct(g.listed)
    BY <1>4 DEF Distinct
  <2>3. \A i \in On(g) : n[i] > 0 => g.listed[i] = n[i]
    BY <1>3, <1>4
  <2> QED
    BY <1>3, <2>1, <2>2, <2>3 DEF Listed
<1>6. Written(g, n)
  <2>1. \A i \in Attendees : Seen(g, n)[i] = n[i]
    BY <1>2 DEF Seen
  <2>2. Distinct(Seen(g, n))
    BY <2>1 DEF Distinct
  <2> QED
    BY <1>2, <2>2 DEF Written
<1>7. Page(g, n, l) /\ (AsRead(f, n, l) => AsRead(g, n, l))
  BY <1>2, SameRows
<1>8. Distinct(g.shown) /\ g.locked = {}
  BY <1>2 DEF SameSent
<1>9. Beside(g, n, l)
  BY <1>1, <1>5, <1>6, <1>7, <1>8 DEF Beside
<1>10. Alone(f, n, l) => Alone(g, n, l)
  BY <1>1, <1>7 DEF Alone
<1> QED
  BY <1>9, <1>10

\* The rows that were read get numbers of the band, all different.
LEMMA ShiftForm ==
  ASSUME NEW f \in Forms, NEW g, SameSent(f, g), NEW n \in Numbers, NEW l,
         Beside(f, n, l), f.at = "listed", g.at = "shifting", g.listed = f.listed,
         g.locked = f.locked, g.work = f.work,
         NEW base \in Nat, Above(f, n, base), NEW band,
         \A i \in Present(f.listed) : band[i] = base + 10 * Rank(Present(f.listed), f.listed, i),
         g.todo = Each(Present(f.listed), f.listed, "shift", band)
  PROVE  /\ Beside(g, n, l) /\ (Alone(f, n, l) => Alone(g, n, l))
         /\ g.todo \in Seq(Writes)
<1> DEFINE rows == Present(f.listed)
<1>1. "listed" \in Saving \ {"saving"} /\ "shifting" \in Saving \ {"saving"}
  BY DEF Saving
<1>2. f.locked = {} /\ Page(f, n, l) /\ Distinct(f.shown) /\ Listed(f, n) /\ Written(f, n)
  BY <1>1 DEF Beside
<1>3. On(g) = On(f) /\ On(f) \subseteq Attendees /\ rows \subseteq On(f)
  BY <1>2, SameRows DEF On, Present, Listed
<1>4. rows \in SUBSET Attendees /\ IsFiniteSet(rows)
  <2>1. rows \in SUBSET Attendees
    BY DEF Present
  <2> QED
    BY <2>1, FS_Subset
<1>5. IsKey(rows, f.listed)
  <2>1. \A i \in rows : f.listed[i] \in Nat /\ f.listed[i] > 0 /\ i \in Attendees
    BY FormParts DEF Present, Numbers
  <2>2. Distinct(f.listed)
    BY <1>2 DEF Listed
  <2> QED
    BY <2>1, <2>2 DEF IsKey, Distinct
<1> HIDE DEF rows
<1>6. \A i \in rows : Rank(rows, f.listed, i) \in Nat
  BY <1>4, BeforeFinite
<1>7. \A i \in rows : band[i] = base + 10 * Rank(rows, f.listed, i)
  BY DEF rows
<1>8. \A i \in rows : band[i] \in Nat /\ band[i] >= base
  BY <1>6, <1>7
<1>9. \A i, j \in rows : band[i] = band[j] => i = j
  <2>1. \A i, j \in rows : Rank(rows, f.listed, i) = Rank(rows, f.listed, j) => i = j
    BY <1>4, <1>5, RankBijection
  <2>2. \A i, j \in rows : band[i] = band[j] => Rank(rows, f.listed, i) = Rank(rows, f.listed, j)
    BY <1>6, <1>7
  <2> QED
    BY <2>1, <2>2
<1>10. /\ g.todo \in Seq(Writes)
       /\ \A k \in DOMAIN g.todo :
            g.todo[k].row \in rows /\ g.todo[k].put = "shift" /\ g.todo[k].nr = band[g.todo[k].row]
       /\ \A i \in rows : \E k \in DOMAIN g.todo : g.todo[k].row = i
       /\ \A k, m \in DOMAIN g.todo : g.todo[k].row = g.todo[m].row => k = m
  <2>1. "shift" \in Puts /\ g.todo = Each(rows, f.listed, "shift", band)
    BY DEF Puts, rows
  <2> QED
    BY <1>4, <1>5, <1>8, <2>1, EachIs
<1>11. \A v \in Nat : v >= base => Above(g, n, v)
  <2>1. ASSUME NEW v \in Nat, v >= base PROVE Above(f, n, v)
    <3>1. \A j \in Attendees : n[j] \in Nat /\ n[j] < base
      BY DEF Above, Numbers
    <3>2. \A j \in WillSave(f) : f.posted[j] \in Nat /\ f.posted[j] < base
      BY FormParts DEF Above, WillSave, Present, Numbers
    <3> QED
      BY <2>1, <3>1, <3>2 DEF Above
  <2> QED
    BY <2>1, SameRows
<1>12. Shifting(g, n)
  <2>1. Band(g, n)
    BY <1>2 DEF Band
  <2>2. ASSUME NEW k \in DOMAIN g.todo
        PROVE  LET w == g.todo[k] IN
               /\ w.put = "shift" /\ w.row \in On(g) /\ Above(g, n, w.nr)
               /\ \A i \in g.locked : g.work[i] # w.nr
               /\ \A m \in DOMAIN g.todo : g.todo[m].nr = w.nr => m = k
    <3>1. g.todo[k].row \in rows /\ g.todo[k].put = "shift" /\ g.todo[k].nr = band[g.todo[k].row]
      BY <1>10
    <3>2. Above(g, n, g.todo[k].nr)
      BY <1>8, <1>11, <3>1
    <3>3. \A m \in DOMAIN g.todo : g.todo[m].nr = g.todo[k].nr => m = k
      BY <1>9, <1>10, <3>1
    <3> QED
      BY <1>2, <1>3, <3>1, <3>2, <3>3 DEF rows
  <2>3. \A i \in On(g) : n[i] > 0 => \E k \in DOMAIN g.todo : g.todo[k].row = i
    <3>1. \A i \in On(f) : n[i] > 0 => i \in rows
      BY <1>2, <1>3 DEF Listed, Present, rows
    <3> QED
      BY <1>3, <1>10, <3>1
  <2> QED
    BY <2>1, <2>2, <2>3 DEF Shifting
<1>13. Page(g, n, l) /\ (AsRead(f, n, l) => AsRead(g, n, l)) /\ Written(g, n) /\ Listed(g, n)
  BY <1>2, SameRows, SameWritten, SameListed
<1>14. Beside(g, n, l)
  BY <1>1, <1>2, <1>12, <1>13 DEF Beside, SameSent
<1>15. Alone(f, n, l) => Alone(g, n, l)
  BY <1>1, <1>13 DEF Alone
<1> QED
  BY <1>10, <1>14, <1>15

LEMMA ImageFinite ==
  ASSUME NEW S, IsFiniteSet(S), NEW f
  PROVE  IsFiniteSet({f[x] : x \in S})
<1> DEFINE T == {f[x] : x \in S}
           g == [x \in S |-> f[x]]
<1>1. g \in Surjection(S, T)
  BY DEF Surjection
<1> HIDE DEF T, g
<1>2. IsFiniteSet(T)
  BY <1>1, FS_Surjection
<1> QED
  BY <1>2 DEF T

\* The numbers outside the form are read; no row has got its number yet.
LEMMA ReadTakenForm ==
  ASSUME NEW f \in Forms, NEW g, SameSent(f, g), NEW l,
         Beside(f, nr, l), nr \in Numbers, f.at = "shifting", f.todo = <<>>,
         g.at = "numbering", g.listed = f.listed, g.locked = f.locked, g.work = f.work,
         g.taken = Taken(f), g.todo = Each(WillSave(f), f.shown, "number", f.posted)
  PROVE  /\ Beside(g, nr, l) /\ (Alone(f, nr, l) => Alone(g, nr, l))
         /\ g.todo \in Seq(Writes) /\ g.taken \subseteq Nat
<1>1. "shifting" \in Saving \ {"saving"} /\ "numbering" \in Saving \ {"saving"}
  BY DEF Saving
<1>2. /\ Page(f, nr, l) /\ Distinct(f.shown) /\ Listed(f, nr) /\ Written(f, nr)
      /\ Shifting(f, nr)
  BY <1>1 DEF Beside
<1>3. /\ On(g) = On(f) /\ WillSave(g) = WillSave(f) /\ Unsaved(g) = Unsaved(f)
      /\ WillSave(f) \subseteq On(f) /\ Unsaved(f) \subseteq On(f) /\ On(f) \subseteq Attendees
      /\ IsKey(WillSave(f), f.shown) /\ IsFiniteSet(On(f)) /\ Distinct(f.posted)
  BY <1>2, FormRows, SameRows DEF Page
<1>4. \A i \in On(f) : f.posted[i] \in Nat /\ f.posted[i] > 0
  BY FormParts DEF Numbers
<1>5. \A i \in Attendees : nr[i] \in Nat
  BY DEF Numbers
<1> DEFINE out == Attendees \ On(f)
           there == {j \in out : nr[j] > 0}
<1>6. g.taken = {nr[j] : j \in there} \cup {f.posted[j] : j \in Unsaved(f)}
  <2>1. Present(nr) \ Present(f.posted) = there
    BY DEF Present, On
  <2>2. Present(f.posted) \ (WillSave(f) \cup f.dropped) = Unsaved(f)
    BY DEF On, Unsaved
  <2>3. Taken(f) = {nr[j] : j \in Present(nr) \ Present(f.posted)} \cup
                   {f.posted[j] : j \in Present(f.posted) \ (WillSave(f) \cup f.dropped)}
    BY DEF Taken
  <2> HIDE DEF there
  <2> QED
    BY <2>1, <2>2, <2>3
<1>7. IsFiniteSet(g.taken) /\ g.taken \subseteq Nat
  <2>1. there \in SUBSET Attendees /\ Unsaved(f) \in SUBSET Attendees
    BY <1>3
  <2>2. IsFiniteSet(there) /\ IsFiniteSet(Unsaved(f))
    BY <2>1, FS_Subset
  <2> HIDE DEF there
  <2>3. IsFiniteSet({nr[j] : j \in there}) /\ IsFiniteSet({f.posted[j] : j \in Unsaved(f)})
    <3> DEFINE p == f.posted
    <3> HIDE DEF p
    <3>1. IsFiniteSet({nr[j] : j \in there}) /\ IsFiniteSet({p[j] : j \in Unsaved(f)})
      BY <2>2, ImageFinite
    <3> QED
      BY <3>1 DEF p
  <2>4. IsFiniteSet(g.taken)
    <3> DEFINE A == {nr[j] : j \in there}
               B == {f.posted[j] : j \in Unsaved(f)}
    <3>1. g.taken = A \cup B /\ IsFiniteSet(A) /\ IsFiniteSet(B)
      BY <1>6, <2>3
    <3> HIDE DEF A, B
    <3>2. IsFiniteSet(A \cup B)
      BY <3>1, FS_Union
    <3> QED
      BY <3>1, <3>2
  <2>5. g.taken \subseteq Nat
    BY <1>3, <1>4, <1>5, <1>6, <2>1
  <2> QED
    BY <2>4, <2>5
<1>8. /\ g.todo \in Seq(Writes)
      /\ \A k \in DOMAIN g.todo :
           g.todo[k].row \in WillSave(f) /\ g.todo[k].nr = f.posted[g.todo[k].row]
      /\ \A i \in WillSave(f) : \E k \in DOMAIN g.todo : g.todo[k].row = i
      /\ \A k, m \in DOMAIN g.todo : g.todo[k].row = g.todo[m].row => k = m
  <2> DEFINE p == f.posted
             S == WillSave(f)
             key == f.shown
             s == Each(S, key, "number", p)
  <2>1. S \in SUBSET Attendees /\ \A i \in S : p[i] \in Nat
    BY <1>3, <1>4
  <2>2. "number" \in Puts /\ IsKey(S, key)
    BY <1>3 DEF Puts
  <2> HIDE DEF p, S, key
  <2>3. /\ s \in Seq(Writes)
        /\ \A k \in DOMAIN s : s[k].row \in S /\ s[k].put = "number" /\ s[k].nr = p[s[k].row]
        /\ \A i \in S : \E k \in DOMAIN s : s[k].row = i
        /\ \A k, m \in DOMAIN s : s[k].row = s[m].row => k = m
    BY <2>1, <2>2, EachIs
  <2>4. g.todo = s
    BY DEF p, S, key
  <2> HIDE DEF s
  <2> QED
    BY <2>3, <2>4 DEF p, S
<1>9. Numbered(g) = {}
  BY <1>3, <1>8 DEF Numbered
<1>10. TakenBy(g, nr, l)
  <2>1. \A j \in Attendees \ On(g) : nr[j] > 0 => nr[j] \in g.taken
    BY <1>3, <1>6
  <2>2. \A j \in Unsaved(g) : g.posted[j] \in g.taken
    BY <1>3, <1>6 DEF SameSent
  <2>3. ASSUME NEW t \in g.taken
        PROVE  \/ \E j \in Attendees \ On(g) : nr[j] = t \/ j \in l
               \/ \E j \in Unsaved(g) : g.posted[j] = t
    BY <1>3, <1>6 DEF SameSent
  <2> QED
    BY <1>7, <1>9, <2>1, <2>2, <2>3 DEF TakenBy
<1>11. Numbering(g, nr, l)
  <2>1. Band(g, nr) /\ \A i \in On(g) : nr[i] > 0 => i \in g.locked
    <3>1. Band(f, nr) /\ \A i \in On(f) : nr[i] > 0 => i \in f.locked
      BY <1>2 DEF Shifting
    <3> QED
      BY <1>3, <3>1, SameWritten
  <2>2. Given(g, nr, l)
    BY <1>9 DEF Given
  <2>3. \A k \in DOMAIN g.todo :
          LET w == g.todo[k] IN
          /\ w.row \in WillSave(g) /\ w.nr = g.posted[w.row]
          /\ \A m \in DOMAIN g.todo : g.todo[m].row = w.row => m = k
    BY <1>3, <1>8 DEF SameSent
  <2> QED
    BY <1>10, <2>1, <2>2, <2>3 DEF Numbering
<1>12. Page(g, nr, l) /\ (AsRead(f, nr, l) => AsRead(g, nr, l)) /\ Written(g, nr) /\ Listed(g, nr)
  BY <1>2, SameRows, SameWritten, SameListed
<1>13. Beside(g, nr, l)
  BY <1>1, <1>2, <1>11, <1>12 DEF Beside, SameSent
<1>14. Alone(f, nr, l) => Alone(g, nr, l)
  BY <1>1, <1>12 DEF Alone
<1> QED
  BY <1>7, <1>8, <1>13, <1>14

\* The next row gets its number: the one it was sent with, or a fresh one.
LEMMA NumberForm ==
  ASSUME NEW f \in Forms, NEW g, SameSent(f, g), NEW n \in Numbers, NEW l,
         Beside(f, n, l), f.at = "numbering", f.todo # <<>>,
         g.at = "numbering", g.listed = f.listed, g.locked = f.locked, g.work = f.work,
         NEW row, row = Head(f.todo).row, NEW x \in Nat, x \notin f.taken,
         \/ x = f.posted[row]
         \/ f.posted[row] \in f.taken /\ \A j \in Attendees : Seen(f, n)[j] < x,
         g.numbers = [f.numbers EXCEPT ![row] = x], g.taken = f.taken \cup {x},
         g.todo = Tail(f.todo)
  PROVE  Beside(g, n, l) /\ (Alone(f, n, l) => Alone(g, n, l))
<1>1. "numbering" \in Saving \ {"saving"}
  BY DEF Saving
<1>2. /\ Page(f, n, l) /\ Distinct(f.shown) /\ Listed(f, n) /\ Written(f, n)
      /\ Numbering(f, n, l) /\ TakenBy(f, n, l) /\ Given(f, n, l) /\ Band(f, n)
  BY <1>1 DEF Beside, Numbering
<1>3. /\ On(g) = On(f) /\ WillSave(g) = WillSave(f) /\ Unsaved(g) = Unsaved(f)
      /\ WillSave(f) \subseteq On(f) /\ Unsaved(f) \subseteq On(f) /\ On(f) \subseteq Attendees
      /\ Distinct(f.posted) /\ g.posted = f.posted /\ Seen(g, n) = Seen(f, n)
      /\ WillSave(f) \cap Unsaved(f) = {}
  BY <1>2, FormRows, SameRows, SameWritten DEF Page, SameSent, Unsaved
<1>4. f.todo \in Seq(Writes) /\ f.numbers \in Numbers /\ f.posted \in Numbers /\ f.work \in Numbers
  BY FormParts
<1>5. /\ DOMAIN g.todo = 1..Len(f.todo) - 1 /\ DOMAIN f.todo = 1..Len(f.todo) /\ Len(f.todo) \in Nat
      /\ \A k \in DOMAIN g.todo : k + 1 \in DOMAIN f.todo /\ g.todo[k] = f.todo[k + 1] /\ k \in Nat
      /\ \A k \in DOMAIN f.todo : k # 1 => k - 1 \in DOMAIN g.todo /\ g.todo[k - 1] = f.todo[k]
      /\ 1 \in DOMAIN f.todo /\ Head(f.todo) = f.todo[1]
  BY <1>4
<1>6. \A k \in DOMAIN f.todo :
        /\ f.todo[k].row \in WillSave(f) /\ f.todo[k].nr = f.posted[f.todo[k].row]
        /\ \A m \in DOMAIN f.todo : f.todo[m].row = f.todo[k].row => m = k
  BY <1>2 DEF Numbering
<1>7. row \in WillSave(f) /\ row \notin Numbered(f) /\ row \in Attendees /\ f.posted[row] > 0
  BY <1>3, <1>5, <1>6 DEF Numbered, On, Present
<1>8. Numbered(g) = Numbered(f) \cup {row}
  <2>1. ASSUME NEW i \in Numbered(g), i # row PROVE i \in Numbered(f)
    <3>1. ASSUME NEW k \in DOMAIN f.todo PROVE f.todo[k].row # i
      <4>1. CASE k = 1
        BY <1>5, <2>1, <4>1
      <4>2. CASE k # 1
        <5>1. k - 1 \in DOMAIN g.todo /\ g.todo[k - 1] = f.todo[k]
          BY <1>5, <4>2
        <5>2. g.todo[k - 1].row # i
          BY <2>1, <5>1 DEF Numbered
        <5> QED
          BY <5>1, <5>2
      <4> QED
        BY <4>1, <4>2
    <3> QED
      BY <1>3, <3>1 DEF Numbered
  <2>2. ASSUME NEW i \in Numbered(f) PROVE i \in Numbered(g)
    BY <1>3, <1>5 DEF Numbered
  <2>3. row \in Numbered(g)
    <3>1. ASSUME NEW k \in DOMAIN g.todo PROVE g.todo[k].row # row
      <4>1. k + 1 \in DOMAIN f.todo /\ g.todo[k] = f.todo[k + 1] /\ k + 1 # 1
        BY <1>5
      <4> QED
        BY <1>5, <1>6, <4>1
    <3> QED
      BY <1>3, <1>7, <3>1 DEF Numbered
  <2> QED
    BY <2>1, <2>2, <2>3
<1>9. /\ \A i \in Numbered(f) : g.numbers[i] = f.numbers[i] /\ i # row /\ i \in WillSave(f)
      /\ g.numbers[row] = x
  <2>1. \A i \in Numbered(f) : i \in Attendees /\ i # row /\ i \in WillSave(f)
    BY <1>3, <1>7 DEF Numbered
  <2> QED
    BY <1>4, <1>7, <2>1 DEF Numbers
<1>10. TakenBy(g, n, l)
  <2>1. IsFiniteSet(g.taken)
    BY <1>2, FS_AddElement DEF TakenBy
  <2>2. \A j \in Attendees \ On(g) : n[j] > 0 => n[j] \in g.taken
    BY <1>2, <1>3 DEF TakenBy
  <2>3. \A j \in Unsaved(g) : g.posted[j] \in g.taken
    BY <1>2, <1>3 DEF TakenBy
  <2>4. \A i \in Numbered(g) : g.numbers[i] \in g.taken
    BY <1>2, <1>8, <1>9 DEF TakenBy
  <2>5. ASSUME NEW t \in g.taken
        PROVE  \/ \E j \in Attendees \ On(g) : n[j] = t \/ j \in l
               \/ \E j \in Unsaved(g) : g.posted[j] = t
               \/ \E j \in Numbered(g) : g.numbers[j] = t
    <3>1. CASE t = x
      BY <1>8, <1>9, <3>1
    <3>2. CASE t \in f.taken
      BY <1>2, <1>3, <1>8, <1>9, <3>2 DEF TakenBy
    <3> QED
      BY <3>1, <3>2
  <2> QED
    BY <2>1, <2>2, <2>3, <2>4, <2>5 DEF TakenBy
<1>11. x > 0
  <2>1. CASE x = f.posted[row]
    BY <1>7, <2>1
  <2>2. CASE \A j \in Attendees : Seen(f, n)[j] < x
    <3>1. Seen(f, n)[row] \in Nat
      BY <1>4, <1>7 DEF Seen, Numbers
    <3> QED
      BY <1>7, <2>2, <3>1
  <2> QED
    BY <2>1, <2>2
<1>12. /\ \A j \in Numbered(f) : f.numbers[j] # x
       /\ \A j \in Unsaved(f) : f.posted[j] # x
       /\ \A j \in Attendees \ On(f) : n[j] # x
  BY <1>2, <1>11 DEF TakenBy
<1>13. ASSUME x # f.posted[row] PROVE GoesLast(g, n, l, row)
  <2>1. f.posted[row] \in f.taken /\ \A j \in Attendees : Seen(f, n)[j] < x
    BY <1>13
  <2>2. ASSUME row \in f.locked PROVE \E j \in Attendees \ On(f) : n[j] = f.posted[row] \/ j \in l
    <3>1. \/ \E j \in Attendees \ On(f) : n[j] = f.posted[row] \/ j \in l
          \/ \E j \in Unsaved(f) : f.posted[j] = f.posted[row]
          \/ \E j \in Numbered(f) : f.numbers[j] = f.posted[row]
      BY <1>2, <2>1 DEF TakenBy
    <3>2. ASSUME NEW j \in Unsaved(f), f.posted[j] = f.posted[row] PROVE FALSE
      BY <1>3, <1>7, <3>2 DEF Distinct
    <3>3. ASSUME NEW j \in Numbered(f), f.numbers[j] = f.posted[row] PROVE FALSE
      <4>1. f.numbers[j] = f.posted[j] \/ GoesLast(f, n, l, j)
        BY <1>2 DEF Given
      <4>2. f.posted[row] < f.work[row] /\ f.work[row] = Seen(f, n)[row]
        BY <1>2, <1>7, <2>2 DEF Band, Above, Seen
      <4>3. f.posted[row] \in Nat /\ f.work[row] \in Nat
        BY <1>4, <1>7 DEF Numbers
      <4>4. CASE f.numbers[j] = f.posted[j]
        <5>1. j \in Attendees /\ j # row
          BY <1>3, <1>9, <3>3
        <5>2. f.posted[row] = f.posted[j]
          BY <3>3, <4>4
        <5> QED
          BY <1>3, <1>7, <5>1, <5>2 DEF Distinct
      <4>5. CASE GoesLast(f, n, l, j)
        <5>1. Seen(f, n)[row] < f.posted[row]
          BY <1>7, <3>3, <4>5 DEF GoesLast
        <5> QED
          BY <4>2, <4>3, <5>1
      <4> QED
        BY <4>1, <4>4, <4>5
    <3> QED
      BY <3>1, <3>2, <3>3
  <2> QED
    BY <1>3, <1>9, <2>1, <2>2 DEF GoesLast
<1>14. Given(g, n, l)
  <2>1. ASSUME NEW i \in Numbered(f)
        PROVE  /\ g.numbers[i] > 0
               /\ \A j \in Numbered(g) : g.numbers[i] = g.numbers[j] => i = j
               /\ \A j \in Unsaved(g) : g.numbers[i] # g.posted[j]
               /\ \A j \in Attendees \ On(g) : g.numbers[i] # n[j]
               /\ g.numbers[i] = g.posted[i] \/ GoesLast(g, n, l, i)
    <3>1. /\ f.numbers[i] > 0
          /\ \A j \in Numbered(f) : f.numbers[i] = f.numbers[j] => i = j
          /\ \A j \in Unsaved(f) : f.numbers[i] # f.posted[j]
          /\ \A j \in Attendees \ On(f) : f.numbers[i] # n[j]
          /\ f.numbers[i] = f.posted[i] \/ GoesLast(f, n, l, i)
      BY <1>2 DEF Given
    <3>2. GoesLast(f, n, l, i) => GoesLast(g, n, l, i)
      BY <1>3, <1>9 DEF GoesLast
    <3>3. \A j \in Numbered(g) : g.numbers[i] = g.numbers[j] => i = j
      BY <1>8, <1>9, <1>12, <3>1
    <3> QED
      BY <1>3, <1>9, <3>1, <3>2, <3>3
  <2>2. /\ g.numbers[row] > 0
        /\ \A j \in Numbered(g) : g.numbers[row] = g.numbers[j] => row = j
        /\ \A j \in Unsaved(g) : g.numbers[row] # g.posted[j]
        /\ \A j \in Attendees \ On(g) : g.numbers[row] # n[j]
        /\ g.numbers[row] = g.posted[row] \/ GoesLast(g, n, l, row)
    BY <1>3, <1>8, <1>9, <1>11, <1>12, <1>13
  <2> QED
    BY <1>8, <2>1, <2>2 DEF Given
<1>15. Numbering(g, n, l)
  <2>1. Band(g, n)
    BY <1>2, SameWritten
  <2>2. \A i \in On(g) : n[i] > 0 => i \in g.locked
    BY <1>2, <1>3 DEF Numbering
  <2>3. ASSUME NEW k \in DOMAIN g.todo
        PROVE  LET w == g.todo[k] IN
               /\ w.row \in WillSave(g) /\ w.nr = g.posted[w.row]
               /\ \A m \in DOMAIN g.todo : g.todo[m].row = w.row => m = k
    <3>1. k + 1 \in DOMAIN f.todo /\ g.todo[k] = f.todo[k + 1] /\ k \in Nat
      BY <1>5
    <3>2. ASSUME NEW m \in DOMAIN g.todo, g.todo[m].row = g.todo[k].row PROVE m = k
      <4>1. m + 1 \in DOMAIN f.todo /\ g.todo[m] = f.todo[m + 1] /\ m \in Nat
        BY <1>5
      <4>2. m + 1 = k + 1
        BY <1>6, <3>1, <3>2, <4>1
      <4> QED
        BY <3>1, <4>1, <4>2
    <3> QED
      BY <1>3, <1>6, <3>1, <3>2
  <2> QED
    BY <1>10, <1>14, <2>1, <2>2, <2>3 DEF Numbering
<1>16. Page(g, n, l) /\ (AsRead(f, n, l) => AsRead(g, n, l)) /\ Written(g, n) /\ Listed(g, n)
  BY <1>2, SameRows, SameWritten, SameListed
<1>17. Beside(g, n, l)
  BY <1>1, <1>2, <1>15, <1>16 DEF Beside, SameSent
<1>18. Alone(f, n, l) => Alone(g, n, l)
  BY <1>1, <1>16 DEF Alone
<1> QED
  BY <1>17, <1>18

\* A form that goes to its saves: what is to be shown of them.
LEMMA SavingForm ==
  ASSUME NEW f \in Forms, NEW g, SameSent(f, g), NEW n \in Numbers, NEW l,
         Page(f, n, l), Distinct(f.shown), Written(f, n),
         g.at = "saving", g.locked = f.locked, g.work = f.work, Planned(g),
         AsRead(f, n, l) => ToGoal(g, n, l) /\ AsDragged(g, n, l) /\
                            (On(g) \cap l = {} => GoalFree(g, n, l))
  PROVE  Beside(g, n, l) /\ (AsRead(f, n, l) => Alone(g, n, l))
<1>1. "saving" \in Saving
  BY DEF Saving
<1>2. Page(g, n, l) /\ (AsRead(f, n, l) => AsRead(g, n, l)) /\ Written(g, n)
  BY SameRows, SameWritten
<1>3. Beside(g, n, l)
  BY <1>1, <1>2 DEF Beside, SameSent
<1>4. AsRead(f, n, l) => Alone(g, n, l)
  BY <1>1, <1>2 DEF Alone
<1> QED
  BY <1>3, <1>4

\* Nothing was moved: the numbers that were sent are those there are.
LEMMA SaveAsIsForm ==
  ASSUME NEW f \in Forms, NEW g, SameSent(f, g), NEW n \in Numbers, Distinct(n), NEW l,
         Beside(f, n, l), f.at = "posted", ~f.moved, g.at = "saving", g.numbers = f.numbers,
         g.locked = f.locked, g.work = f.work, g.todo = Saves(f)
  PROVE  /\ Beside(g, n, l) /\ (Alone(f, n, l) => Alone(g, n, l))
         /\ g.todo \in Seq(Writes)
<1>1. "saving" \in Saving /\ "posted" \notin Saving
  BY DEF Saving
<1>2. /\ Page(f, n, l) /\ Distinct(f.shown) /\ f.locked = {}
      /\ f.numbers = f.posted /\ f.posted = f.loaded
  BY <1>1 DEF Beside
<1>3. /\ On(g) = On(f) /\ WillSave(g) = WillSave(f) /\ Unsaved(g) = Unsaved(f)
      /\ WillSave(f) \subseteq On(f) /\ On(f) \subseteq Attendees
      /\ WillSave(f) \cap f.dropped = {} /\ WillSave(f) \cup f.dropped \subseteq On(f)
      /\ On(f) = Unsaved(f) \cup WillSave(f) \cup f.dropped
      /\ IsKey(WillSave(f) \cup f.dropped, f.shown) /\ Distinct(f.posted)
      /\ g.posted = f.posted /\ g.dropped = f.dropped
  <2>1. On(g) = On(f) /\ WillSave(g) = WillSave(f) /\ Unsaved(g) = Unsaved(f)
    BY SameRows
  <2>2. g.posted = f.posted /\ g.dropped = f.dropped /\ Distinct(f.posted)
    BY <1>2 DEF Page, SameSent
  <2>3. /\ WillSave(f) \subseteq On(f) /\ On(f) \subseteq Attendees
        /\ WillSave(f) \cap f.dropped = {} /\ WillSave(f) \cup f.dropped \subseteq On(f)
        /\ On(f) = Unsaved(f) \cup WillSave(f) \cup f.dropped
        /\ \A T \in SUBSET On(f) : IsKey(T, f.shown)
    BY <1>2, FormRows
  <2> QED
    BY <2>1, <2>2, <2>3
<1>4. /\ g.todo \in Seq(Writes)
      /\ \A k \in DOMAIN g.todo :
           \/ g.todo[k].row \in f.dropped /\ g.todo[k].put = "delete" /\ g.todo[k].nr = 0
           \/ g.todo[k].row \in WillSave(f) /\ g.todo[k].put = "save"
              /\ g.todo[k].nr = f.numbers[g.todo[k].row]
      /\ \A i \in WillSave(f) \cup f.dropped : \E k \in DOMAIN g.todo : g.todo[k].row = i
  <2>1. f.numbers \in Numbers /\ WillSave(f) \cup f.dropped \in SUBSET Attendees
    BY <1>3, FormParts
  <2>2. IsKey(WillSave(f) \cup f.dropped, f.shown)
    BY <1>3
  <2> DEFINE s == Saves(f)
  <2>3. /\ s \in Seq(Writes)
        /\ \A k \in DOMAIN s :
             \/ s[k].row \in f.dropped /\ s[k].put = "delete" /\ s[k].nr = 0
             \/ s[k].row \in WillSave(f) /\ s[k].put = "save" /\ s[k].nr = f.numbers[s[k].row]
        /\ \A i \in WillSave(f) \cup f.dropped : \E k \in DOMAIN s : s[k].row = i
    BY ZenonT(40), <2>1, <2>2, SavesAre
  <2> HIDE DEF s
  <2>4. g.todo = s
    BY DEF s
  <2> QED
    BY <2>3, <2>4
<1>5. Written(f, n)
  <2>1. \A i \in Attendees : Seen(f, n)[i] = n[i]
    BY <1>2 DEF Seen
  <2> QED
    BY <1>2, <2>1 DEF Written, Distinct
<1>6. Planned(g)
  BY <1>3, <1>4 DEF Planned
<1>7. ASSUME AsRead(f, n, l)
      PROVE  ToGoal(g, n, l) /\ AsDragged(g, n, l) /\ (On(g) \cap l = {} => GoalFree(g, n, l))
  <2>1. \A i \in On(f) : f.posted[i] > 0 /\ n[i] = IF i \in l THEN 0 ELSE f.posted[i]
    BY <1>2, <1>7 DEF AsRead
  <2>2. \A i \in Attendees : Seen(g, n)[i] = n[i]
    BY <1>2 DEF Seen
  <2>3. /\ \A i \in Attendees : i \in f.dropped => Goal(g, l)[i] = 0
        /\ \A i \in WillSave(f) : Goal(g, l)[i] = f.posted[i]
        /\ \A i \in Unsaved(f) : Goal(g, l)[i] = IF i \in l THEN 0 ELSE f.posted[i]
    BY <1>2, <1>3 DEF Goal, Unsaved
  <2>4. ToGoal(g, n, l)
    <3>1. \A k \in DOMAIN g.todo :
            LET w == g.todo[k] IN (w.put = "save" => w.nr = g.numbers[w.row]) /\ w.put # "restore"
      BY <1>4
    <3>2. ASSUME NEW i \in On(g)
          PROVE  \/ Seen(g, n)[i] = Goal(g, l)[i] /\ (i \in WillSave(g) => i \in g.locked)
                 \/ \E k \in DOMAIN g.todo : g.todo[k].row = i /\ (g.todo[k].put = "restore" => i \notin g.dropped)
      <4>1. CASE i \in Unsaved(f)
        BY <1>3, <2>1, <2>2, <2>3, <3>2, <4>1 DEF Unsaved
      <4>2. CASE i \in WillSave(f) \cup f.dropped
        BY <1>4, <3>1, <4>2
      <4> QED
        BY <1>3, <4>1, <4>2
    <3>3. \A i \in WillSave(g) : g.numbers[i] > 0
      BY <1>2, <1>3, <2>1
    <3> QED
      BY <1>2, <3>1, <3>2, <3>3 DEF ToGoal
  <2>5. AsDragged(g, n, l)
    BY <1>2, <1>3 DEF AsDragged
  <2>6. ASSUME On(g) \cap l = {} PROVE GoalFree(g, n, l)
    <3>1. \A i \in On(f) : Seen(g, n)[i] = f.posted[i] /\ n[i] = f.posted[i] /\ i \in Attendees
      BY <1>3, <2>1, <2>2, <2>6
    <3>2. \A i \in On(f) : Goal(g, l)[i] = 0 \/ Goal(g, l)[i] = f.posted[i]
      BY <1>3, <2>3
    <3>3. \A i, j \in On(f) : f.posted[i] = f.posted[j] => i = j
      BY <1>3, <2>1 DEF Distinct
    <3>4. \A i \in On(f), j \in Attendees \ On(f) : n[j] # f.posted[i]
      BY <1>3, <2>1, <3>1 DEF Distinct
    <3>5. \A i \in On(f) : f.posted[i] \in Nat /\ f.posted[i] # 0
      BY <1>3, <2>1, FormParts DEF Numbers
    <3>6. \A i, j \in On(g) : Goal(g, l)[i] > 0 /\ Goal(g, l)[i] = Goal(g, l)[j] => i = j
      BY <1>3, <3>2, <3>3, <3>5
    <3>7. \A i \in On(g), j \in Attendees \ On(g) : Goal(g, l)[i] > 0 => n[j] # Goal(g, l)[i]
      BY <1>3, <3>2, <3>4, <3>5
    <3>8. \A i, j \in On(g) :
            Seen(g, n)[i] = Goal(g, l)[i] \/ Goal(g, l)[j] = 0 \/ Goal(g, l)[j] # Seen(g, n)[i]
      BY <1>3, <3>1, <3>2, <3>3
    <3> QED
      BY <3>6, <3>7, <3>8 DEF GoalFree
  <2> QED
    BY <2>4, <2>5, <2>6
<1>8. Beside(g, n, l) /\ (AsRead(f, n, l) => Alone(g, n, l))
  BY <1>2, <1>5, <1>6, <1>7, SavingForm
<1>9. Alone(f, n, l) => AsRead(f, n, l)
  BY DEF Alone
<1> QED
  BY <1>4, <1>8, <1>9

\* All rows have their numbers: the rows of the form that are still there are in
\* the band, which lies between what was sent and what is fresh.
LEMMA ResolveForm ==
  ASSUME NEW f \in Forms, NEW g, SameSent(f, g), NEW n \in Numbers, Distinct(n), NEW l,
         Beside(f, n, l), f.at = "numbering", f.todo = <<>>, g.at = "saving", g.numbers = f.numbers,
         g.locked = f.locked, g.work = f.work, g.todo = Saves(f) \o Restores(f)
  PROVE  /\ Beside(g, n, l) /\ (Alone(f, n, l) => Alone(g, n, l))
         /\ g.todo \in Seq(Writes)
<1> DEFINE W == WillSave(f)
           D == f.dropped
           s == Saves(f)
           r == Restores(f)
           kept == Present(f.listed) \ W
<1>1. "saving" \in Saving /\ "numbering" \in Saving \ {"saving"}
  BY DEF Saving
<1>2. /\ Page(f, n, l) /\ Distinct(f.shown) /\ Written(f, n) /\ Listed(f, n)
      /\ Numbering(f, n, l) /\ Band(f, n) /\ Given(f, n, l)
      /\ \A i \in On(f) : n[i] > 0 => i \in f.locked
  BY <1>1 DEF Beside, Numbering
<1>3. /\ On(g) = On(f) /\ WillSave(g) = W /\ Unsaved(g) = Unsaved(f)
      /\ W \subseteq On(f) /\ On(f) \subseteq Attendees
      /\ W \cap D = {} /\ W \cup D \subseteq On(f)
      /\ On(f) = Unsaved(f) \cup W \cup D
      /\ IsKey(W \cup D, f.shown) /\ Distinct(f.posted)
      /\ g.posted = f.posted /\ g.dropped = D
      /\ Unsaved(f) \cap W = {} /\ Unsaved(f) \cap D = {} /\ Unsaved(f) \subseteq On(f)
  <2>1. On(g) = On(f) /\ WillSave(g) = W /\ Unsaved(g) = Unsaved(f)
    BY SameRows
  <2>2. g.posted = f.posted /\ g.dropped = D /\ Distinct(f.posted)
    BY <1>2 DEF Page, SameSent
  <2>3. /\ W \subseteq On(f) /\ On(f) \subseteq Attendees /\ W \cap D = {} /\ W \cup D \subseteq On(f)
        /\ On(f) = Unsaved(f) \cup W \cup D
        /\ \A T \in SUBSET On(f) : IsKey(T, f.shown)
    BY <1>2, FormRows
  <2>4. Unsaved(f) \cap W = {} /\ Unsaved(f) \cap D = {} /\ Unsaved(f) \subseteq On(f)
    BY DEF Unsaved
  <2> QED
    BY <2>1, <2>2, <2>3, <2>4
<1>4. Numbered(f) = W
  BY DEF Numbered
<1>5. /\ s \in Seq(Writes)
      /\ \A k \in DOMAIN s :
           \/ s[k].row \in D /\ s[k].put = "delete" /\ s[k].nr = 0
           \/ s[k].row \in W /\ s[k].put = "save" /\ s[k].nr = f.numbers[s[k].row]
      /\ \A i \in W \cup D : \E k \in DOMAIN s : s[k].row = i
  <2>1. f.numbers \in Numbers /\ W \cup D \in SUBSET Attendees
    BY <1>3, FormParts
  <2> QED
    BY <1>3, <2>1, SavesAre
<1>6. /\ r \in Seq(Writes)
      /\ \A k \in DOMAIN r : r[k].row \in kept /\ r[k].put = "restore" /\ r[k].nr = f.listed[r[k].row]
      /\ \A i \in kept : \E k \in DOMAIN r : r[k].row = i
  <2> DEFINE p == f.listed
  <2>1. kept \in SUBSET Attendees /\ IsKey(kept, p) /\ \A i \in kept : p[i] \in Nat
    <3>1. \A i \in kept : i \in Attendees /\ p[i] \in Nat /\ p[i] > 0
      BY FormParts DEF Present, Numbers
    <3>2. Distinct(p)
      BY <1>2 DEF Listed
    <3> QED
      BY <3>1, <3>2 DEF IsKey, Distinct
  <2>2. "restore" \in Puts /\ r = Each(kept, p, "restore", p)
    BY DEF Puts, Restores
  <2> HIDE DEF p, kept, r
  <2>3. LET z == Each(kept, p, "restore", p)
        IN  /\ z \in Seq(Writes)
            /\ \A k \in DOMAIN z : z[k].row \in kept /\ z[k].put = "restore" /\ z[k].nr = p[z[k].row]
            /\ \A i \in kept : \E k \in DOMAIN z : z[k].row = i
            /\ \A k, m \in DOMAIN z : z[k].row = z[m].row => k = m
    BY <2>1, <2>2, EachIs
  <2> QED
    BY <2>2, <2>3 DEF p
<1>7. kept \subseteq On(f)
  BY <1>2 DEF Listed
<1> HIDE DEF s, r
<1>8. /\ g.todo \in Seq(Writes) /\ DOMAIN g.todo = 1..Len(s) + Len(r)
      /\ Len(s) \in Nat /\ Len(r) \in Nat /\ DOMAIN s = 1..Len(s) /\ DOMAIN r = 1..Len(r)
      /\ \A k \in 1..Len(s) : g.todo[k] = s[k]
      /\ \A k \in 1..Len(r) : g.todo[Len(s) + k] = r[k]
  <2>1. g.todo = s \o r
    BY DEF s, r
  <2> QED
    BY <1>5, <1>6, <2>1
<1>9. ASSUME NEW k \in DOMAIN g.todo
      PROVE  \/ k \in DOMAIN s /\ g.todo[k] = s[k]
             \/ k > Len(s) /\ k - Len(s) \in DOMAIN r /\ g.todo[k] = r[k - Len(s)]
  <2>1. CASE k <= Len(s)
    BY <1>8, <2>1
  <2>2. CASE k > Len(s)
    <3>1. k - Len(s) \in 1..Len(r) /\ Len(s) + (k - Len(s)) = k
      BY <1>8, <2>2
    <3> QED
      BY <1>8, <2>2, <3>1
  <2> QED
    BY <1>8, <2>1, <2>2
<1>10. ASSUME NEW k \in DOMAIN g.todo
       PROVE  LET w == g.todo[k] IN
              \/ w.row \in D /\ w.put = "delete" /\ w.nr = 0
              \/ w.row \in W /\ w.put = "save" /\ w.nr = f.numbers[w.row]
              \/ w.row \in kept /\ w.put = "restore" /\ w.nr = f.listed[w.row] /\ k > Len(s)
  BY SMTT(30), <1>5, <1>6, <1>9
<1>11. /\ \A i \in W \cup D :
            \E k \in 1..Len(s) : k \in DOMAIN g.todo /\ g.todo[k].row = i
               /\ (i \in D => g.todo[k].put = "delete") /\ g.todo[k].put # "restore"
       /\ \A i \in kept : \E k \in DOMAIN g.todo : g.todo[k].row = i
  <2>1. ASSUME NEW i \in W \cup D
        PROVE  \E k \in 1..Len(s) : k \in DOMAIN g.todo /\ g.todo[k].row = i
                  /\ (i \in D => g.todo[k].put = "delete") /\ g.todo[k].put # "restore"
    <3>1. PICK k \in DOMAIN s : s[k].row = i
      BY <1>5
    <3>2. k \in 1..Len(s) /\ k \in DOMAIN g.todo /\ g.todo[k] = s[k]
      BY <1>8
    <3>3. (i \in D => s[k].put = "delete") /\ s[k].put # "restore"
      BY <1>3, <1>5, <3>1
    <3> QED
      BY <3>1, <3>2, <3>3
  <2>2. ASSUME NEW i \in kept PROVE \E k \in DOMAIN g.todo : g.todo[k].row = i
    <3>1. PICK k \in DOMAIN r : r[k].row = i
      BY <1>6
    <3>2. Len(s) + k \in DOMAIN g.todo /\ g.todo[Len(s) + k] = r[k]
      BY <1>8
    <3> QED
      BY <3>1, <3>2
  <2> QED
    BY <2>1, <2>2
<1> HIDE DEF W, D, kept
<1>12. Planned(g)
  BY <1>3, <1>7, <1>10 DEF Planned
<1>13. /\ \A i \in Attendees : n[i] \in Nat /\ f.posted[i] \in Nat /\ f.numbers[i] \in Nat /\ f.work[i] \in Nat
       /\ \A i \in On(f) : f.posted[i] > 0 /\ i \in Attendees
  BY FormParts DEF Numbers
<1>14. \A i \in f.locked :
         /\ i \in On(f) /\ n[i] > 0 /\ f.work[i] > 0 /\ Seen(f, n)[i] = f.work[i]
         /\ \A j \in Attendees : n[j] < f.work[i]
         /\ \A j \in W : f.posted[j] < f.work[i]
  <2>1. \A i \in f.locked : i \in On(f)
    BY <1>2 DEF Written
  <2> QED
    BY <1>2, <1>3, <1>13, <2>1 DEF Band, Above, Seen, W
<1>15. ASSUME AsRead(f, n, l)
       PROVE  ToGoal(g, n, l) /\ AsDragged(g, n, l) /\ (On(g) \cap l = {} => GoalFree(g, n, l))
  <2>1. \A i \in On(f) : f.loaded[i] > 0 /\ n[i] = IF i \in l THEN 0 ELSE f.loaded[i]
    BY <1>15 DEF AsRead
  <2>2. Seen(g, n) = Seen(f, n)
    BY SameWritten
  <2>3. /\ \A i \in D : Goal(g, l)[i] = 0
        /\ \A i \in W : Goal(g, l)[i] = f.numbers[i]
        /\ \A i \in Unsaved(f) : Goal(g, l)[i] = IF i \in l THEN 0 ELSE f.posted[i]
    BY <1>3 DEF Goal
  <2>4. \A i \in Unsaved(f) : f.posted[i] = f.loaded[i]
    BY <1>3 DEF Unsaved, WillSave, On
  <2>5. \A i \in On(f) : i \notin l => i \in f.locked /\ f.listed[i] = f.loaded[i] /\ f.listed[i] = n[i]
    BY <1>2, <1>13, <2>1 DEF Listed
  <2>6. \A i \in Unsaved(f) : i \notin l => i \in kept /\ f.listed[i] = f.posted[i] /\ n[i] = f.posted[i]
    <3>1. ASSUME NEW i \in Unsaved(f), i \notin l
          PROVE  i \in kept /\ f.listed[i] = f.posted[i] /\ n[i] = f.posted[i]
      <4>1. i \in On(f) /\ f.listed[i] = f.posted[i] /\ n[i] = f.posted[i] /\ i \notin W
        BY <1>3, <2>4, <2>5, <3>1
      <4>2. f.listed[i] > 0 /\ i \in Attendees
        BY <1>13, <4>1
      <4> QED
        BY <4>1, <4>2 DEF kept, Present, W
    <3> QED
      BY <3>1
  <2>7. ToGoal(g, n, l)
    <3>1. ASSUME NEW k \in DOMAIN g.todo
          PROVE  LET w == g.todo[k] IN
                 /\ w.put = "save" => w.nr = g.numbers[w.row]
                 /\ w.put = "restore" => w.row \notin WillSave(g)
                 /\ w.put = "restore" /\ w.row \notin g.dropped \cup l => w.nr = g.posted[w.row]
                 /\ w.put = "restore" /\ w.row \in g.dropped =>
                      \E m \in 1..k - 1 : g.todo[m].row = w.row /\ g.todo[m].put = "delete"
      <4>1. CASE g.todo[k].put # "restore"
        BY <1>10, <4>1
      <4>2. CASE g.todo[k].put = "restore"
        <5> DEFINE i == g.todo[k].row
        <5>1. i \in kept /\ g.todo[k].nr = f.listed[i] /\ k > Len(s)
          BY <1>10, <4>2
        <5> HIDE DEF i
        <5>2. i \notin W /\ i \in On(f)
          BY <1>7, <5>1 DEF kept, W
        <5>3. i \notin D \cup l => g.todo[k].nr = f.posted[i]
          BY <1>3, <2>6, <5>1, <5>2
        <5>4. ASSUME i \in D PROVE \E m \in 1..k - 1 : g.todo[m].row = i /\ g.todo[m].put = "delete"
          <6>1. PICK m \in 1..Len(s) : g.todo[m].row = i /\ g.todo[m].put = "delete"
            BY <1>11, <5>4
          <6>2. m \in 1..k - 1
            BY <1>8, <5>1
          <6> QED
            BY <6>1, <6>2
        <5> QED
          BY <1>3, <4>2, <5>2, <5>3, <5>4 DEF i
      <4> QED
        BY <4>1, <4>2
    <3>2. ASSUME NEW i \in On(g)
          PROVE  \/ Seen(g, n)[i] = Goal(g, l)[i] /\ (i \in WillSave(g) => i \in g.locked)
                 \/ \E k \in DOMAIN g.todo : g.todo[k].row = i /\ (g.todo[k].put = "restore" => i \notin g.dropped)
      <4>1. CASE i \in W \cup D
        BY <1>11, <4>1
      <4>2. CASE i \in Unsaved(f) /\ i \notin l
        BY <1>3, <1>11, <2>6, <4>2
      <4>3. CASE i \in Unsaved(f) /\ i \in l
        <5>1. n[i] = 0 /\ i \in On(f)
          BY <1>3, <2>1, <4>3
        <5>2. i \notin f.locked
          BY <1>14, <5>1
        <5>3. Seen(f, n)[i] = 0
          BY <1>3, <5>1, <5>2 DEF Seen
        <5> QED
          BY <1>3, <2>2, <2>3, <4>3, <5>3
      <4> QED
        BY <1>3, <4>1, <4>2, <4>3
    <3>3. \A i \in g.locked : g.work[i] # 0
      BY <1>14
    <3>4. \A i \in WillSave(g) : g.numbers[i] > 0
      BY <1>2, <1>3, <1>4 DEF Given
    <3> QED
      BY <3>1, <3>2, <3>3, <3>4 DEF ToGoal
  <2>8. AsDragged(g, n, l)
    <3> SUFFICES ASSUME NEW i \in W \ l, f.numbers[i] # f.posted[i]
                 PROVE  /\ \E j \in Attendees \ On(f) : n[j] = f.posted[i] \/ j \in l
                        /\ \A j \in On(f) : Goal(g, l)[j] = f.posted[j] => f.posted[j] < f.numbers[i]
                        /\ \A j \in Attendees \ On(f) : n[j] < f.numbers[i]
      BY <1>3 DEF AsDragged
    <3>1. GoesLast(f, n, l, i) /\ i \in f.locked /\ i \in Attendees
      BY <1>2, <1>3, <1>4, <2>5 DEF Given
    <3>2. f.work[i] < f.numbers[i]
      BY <1>14, <3>1 DEF GoesLast
    <3>3. \A j \in Attendees : n[j] < f.numbers[i]
      BY <1>13, <1>14, <3>1, <3>2
    <3>4. ASSUME NEW j \in On(f), Goal(g, l)[j] = f.posted[j] PROVE f.posted[j] < f.numbers[i]
      <4>1. j \notin D
        BY <1>13, <2>3, <3>4
      <4>2. CASE j \in W
        BY <1>13, <1>14, <3>1, <3>2, <4>2
      <4>3. CASE j \in Unsaved(f)
        <5>1. j \notin l
          BY <1>13, <2>3, <3>4, <4>3
        <5> QED
          BY <1>13, <2>6, <3>3, <4>3, <5>1
      <4> QED
        BY <1>3, <4>1, <4>2, <4>3
    <3>5. \E j \in Attendees \ On(f) : n[j] = f.posted[i] \/ j \in l
      BY <3>1 DEF GoesLast
    <3> QED
      BY <3>3, <3>4, <3>5
  <2>9. ASSUME On(g) \cap l = {} PROVE GoalFree(g, n, l)
    <3>1. \A i \in On(f) : i \in f.locked /\ i \notin l /\ i \in Attendees
      BY <1>3, <1>13, <2>5, <2>9
    <3>2. \A i \in W :
            /\ f.numbers[i] > 0
            /\ \A j \in W : f.numbers[i] = f.numbers[j] => i = j
            /\ \A j \in Unsaved(f) : f.numbers[i] # f.posted[j]
            /\ \A j \in Attendees \ On(f) : f.numbers[i] # n[j]
            /\ f.numbers[i] = f.posted[i] \/ GoesLast(f, n, l, i)
      BY <1>2, <1>4 DEF Given
    <3>3. \A i \in Unsaved(f) : Goal(g, l)[i] = f.posted[i] /\ n[i] = f.posted[i] /\ i \in On(f)
      BY <1>3, <2>3, <2>6, <3>1
    <3>4. ASSUME NEW i \in On(f), NEW j \in On(f), Goal(g, l)[i] > 0, Goal(g, l)[i] = Goal(g, l)[j]
          PROVE  i = j
      <4>1. i \notin D /\ j \notin D
        BY <2>3, <3>4
      <4>2. CASE i \in W /\ j \in W
        BY <2>3, <3>2, <3>4, <4>2
      <4>3. CASE i \in W /\ j \in Unsaved(f)
        BY <2>3, <3>2, <3>3, <3>4, <4>3
      <4>4. CASE i \in Unsaved(f) /\ j \in W
        BY <2>3, <3>2, <3>3, <3>4, <4>4
      <4>5. CASE i \in Unsaved(f) /\ j \in Unsaved(f)
        <5>1. f.posted[i] > 0 /\ f.posted[i] = f.posted[j] /\ i \in Attendees /\ j \in Attendees
          BY <1>13, <3>3, <3>4, <4>5
        <5> QED
          BY <1>3, <5>1 DEF Distinct
      <4> QED
        BY <1>3, <4>1, <4>2, <4>3, <4>4, <4>5
    <3>5. ASSUME NEW i \in On(f), NEW j \in Attendees \ On(f), Goal(g, l)[i] > 0
          PROVE  n[j] # Goal(g, l)[i]
      <4>1. i \notin D
        BY <2>3, <3>5
      <4>2. CASE i \in W
        BY <2>3, <3>2, <4>2
      <4>3. CASE i \in Unsaved(f)
        <5>1. n[i] > 0 /\ Goal(g, l)[i] = n[i] /\ i # j /\ i \in Attendees
          BY <1>3, <3>3, <3>5, <4>3
        <5> QED
          BY <5>1 DEF Distinct
      <4> QED
        BY <1>3, <4>1, <4>2, <4>3
    <3>6. ASSUME NEW i \in On(f), NEW j \in On(f) PROVE Goal(g, l)[j] = 0 \/ Goal(g, l)[j] # Seen(f, n)[i]
      <4>1. /\ Seen(f, n)[i] = f.work[i] /\ (\A h \in Attendees : n[h] < f.work[i])
            /\ (\A h \in W : f.posted[h] < f.work[i]) /\ f.work[i] \in Nat
            /\ i \in Attendees /\ j \in Attendees
        BY <1>13, <1>14, <3>1
      <4>2. CASE j \in D
        BY <2>3, <4>2
      <4>3. CASE j \in W
        <5>1. Goal(g, l)[j] = f.numbers[j] /\ f.numbers[j] \in Nat /\ f.posted[j] \in Nat
          BY <1>13, <2>3, <4>1, <4>3
        <5>2. CASE f.numbers[j] = f.posted[j]
          BY <4>1, <4>3, <5>1, <5>2
        <5>3. CASE GoesLast(f, n, l, j)
          <6>1. Seen(f, n)[i] < f.numbers[j]
            BY <4>1, <5>3 DEF GoesLast
          <6> QED
            BY <4>1, <5>1, <6>1
        <5> QED
          BY <3>2, <4>3, <5>2, <5>3
      <4>4. CASE j \in Unsaved(f)
        <5>1. Goal(g, l)[j] = n[j] /\ n[j] < f.work[i] /\ n[j] \in Nat
          BY <1>13, <3>3, <4>1, <4>4
        <5> QED
          BY <4>1, <5>1
      <4> QED
        BY <1>3, <4>2, <4>3, <4>4
    <3> QED
      BY <1>3, <2>2, <3>4, <3>5, <3>6 DEF GoalFree
  <2> QED
    BY <2>7, <2>8, <2>9
<1>16. Beside(g, n, l) /\ (AsRead(f, n, l) => Alone(g, n, l))
  BY <1>2, <1>12, <1>15, SavingForm
<1>17. Alone(f, n, l) => AsRead(f, n, l)
  BY <1>1 DEF Alone
<1> QED
  BY <1>8, <1>16, <1>17

-----------------------------------------------------------------------------
(* The writes.                                                             *)

LEMMA TailIs ==
  ASSUME NEW s \in Seq(Writes), s # <<>>
  PROVE  /\ Head(s) = s[1] /\ 1 \in DOMAIN s /\ s[1] \in Writes
         /\ s[1].row \in Attendees /\ s[1].nr \in Nat
         /\ Tail(s) \in Seq(Writes)
         /\ \A k \in DOMAIN Tail(s) : k + 1 \in DOMAIN s /\ Tail(s)[k] = s[k + 1] /\ k \in Nat /\ k >= 1
         /\ \A k \in DOMAIN s : k \in Nat /\ (k # 1 => k - 1 \in DOMAIN Tail(s) /\ Tail(s)[k - 1] = s[k])
<1>1. /\ Head(s) = s[1] /\ 1 \in DOMAIN s /\ s[1] \in Writes /\ Tail(s) \in Seq(Writes)
      /\ \A k \in DOMAIN Tail(s) : k + 1 \in DOMAIN s /\ Tail(s)[k] = s[k + 1] /\ k \in Nat /\ k >= 1
      /\ \A k \in DOMAIN s : k \in Nat /\ (k # 1 => k - 1 \in DOMAIN Tail(s) /\ Tail(s)[k - 1] = s[k])
  OBVIOUS
<1>2. s[1].row \in Attendees /\ s[1].nr \in Nat
  BY <1>1 DEF Writes
<1> QED
  BY <1>1, <1>2

\* A row that is written is locked, and seen as it was written.
LEMMA PutSeen ==
  ASSUME NEW f \in Forms, NEW g, SameSent(f, g), NEW n \in Numbers, NEW w \in Writes,
         g.work = [f.work EXCEPT ![w.row] = w.nr], g.locked = f.locked \cup {w.row}
  PROVE  /\ \A i \in Attendees : Seen(g, n)[i] = IF i = w.row THEN w.nr ELSE Seen(f, n)[i]
         /\ \A i \in Attendees : g.work[i] = IF i = w.row THEN w.nr ELSE f.work[i]
         /\ Written(f, n) /\ w.row \in On(f) /\ (n[w.row] = 0 /\ w.nr > 0 => w.row \in WillSave(f))
            /\ (w.nr = 0 \/ \A i \in Attendees \ {w.row} : Seen(f, n)[i] # w.nr) => Written(g, n)
<1>1. w.row \in Attendees /\ w.nr \in Nat
  BY DEF Writes
<1>2. f.work \in [Attendees -> Nat] /\ n \in [Attendees -> Nat] /\ f.locked \subseteq Attendees
  BY FormParts DEF Numbers
<1>3. \A i \in Attendees : g.work[i] = IF i = w.row THEN w.nr ELSE f.work[i]
  BY <1>1, <1>2
<1>4. \A i \in Attendees : /\ Seen(g, n)[i] = IF i \in g.locked THEN g.work[i] ELSE n[i]
                           /\ Seen(f, n)[i] = IF i \in f.locked THEN f.work[i] ELSE n[i]
  BY DEF Seen
<1>5. \A i \in Attendees : Seen(g, n)[i] = IF i = w.row THEN w.nr ELSE Seen(f, n)[i]
  BY <1>1, <1>3, <1>4
<1>6. ASSUME Written(f, n), w.row \in On(f), n[w.row] = 0 /\ w.nr > 0 => w.row \in WillSave(f),
             w.nr = 0 \/ \A i \in Attendees \ {w.row} : Seen(f, n)[i] # w.nr
      PROVE  Written(g, n)
  <2>1. On(g) = On(f) /\ WillSave(g) = WillSave(f)
    BY SameRows
  <2>2. g.locked \subseteq On(g)
    BY <1>6, <2>1 DEF Written
  <2>3. Distinct(Seen(g, n))
    <3> DEFINE a == Seen(f, n)
               b == Seen(g, n)
    <3>1. \A i, j \in Attendees : a[i] > 0 /\ a[i] = a[j] => i = j
      BY <1>6 DEF Written, Distinct
    <3>2. \A i \in Attendees : b[i] = IF i = w.row THEN w.nr ELSE a[i]
      BY <1>5
    <3>3. w.nr = 0 \/ \A i \in Attendees \ {w.row} : a[i] # w.nr
      BY <1>6
    <3> HIDE DEF a, b
    <3>4. \A i, j \in Attendees : b[i] > 0 /\ b[i] = b[j] => i = j
      BY <1>1, <3>1, <3>2, <3>3
    <3> QED
      BY <3>4 DEF Distinct, b
  <2>4. \A i \in g.locked : n[i] = 0 /\ g.work[i] > 0 => i \in WillSave(g)
    BY <1>1, <1>2, <1>3, <1>6, <2>1 DEF Written
  <2> QED
    BY <2>2, <2>3, <2>4 DEF Written
<1> QED
  BY <1>3, <1>5, <1>6

\* A number of the band is nobody's.
LEMMA ShiftFree ==
  ASSUME NEW f \in Forms, NEW n \in Numbers, Shifting(f, n), f.todo # <<>>
  PROVE  LET w == f.todo[1] IN
         /\ w.put = "shift" /\ w.row \in On(f) /\ Above(f, n, w.nr)
         /\ \A i \in Attendees : Seen(f, n)[i] # w.nr
         /\ Seen(f, n)[w.row] = 0 => w.row \notin f.locked /\ n[w.row] = 0
         /\ Seen(f, n)[w.row] # 0 => n[w.row] > 0
<1> DEFINE w == f.todo[1]
<1>1. f.todo \in Seq(Writes)
  BY FormParts
<1>2. 1 \in DOMAIN f.todo /\ w.row \in Attendees /\ w.nr \in Nat
  BY <1>1, TailIs
<1>3. /\ w.put = "shift" /\ w.row \in On(f) /\ Above(f, n, w.nr)
      /\ \A i \in f.locked : f.work[i] # w.nr
  BY <1>2 DEF Shifting
<1>4. \A i \in Attendees : n[i] < w.nr /\ n[i] \in Nat
  BY <1>3 DEF Above, Numbers
<1>5. \A i \in Attendees : Seen(f, n)[i] = IF i \in f.locked THEN f.work[i] ELSE n[i]
  BY DEF Seen
<1>6. \A i \in f.locked : n[i] > 0 /\ n[i] < f.work[i] /\ i \in Attendees
  BY FormParts DEF Shifting, Band, Above
<1> HIDE DEF w
<1>7. \A i \in Attendees : Seen(f, n)[i] # w.nr
  BY <1>2, <1>3, <1>4, <1>5
<1>8. Seen(f, n)[w.row] = 0 => w.row \notin f.locked /\ n[w.row] = 0
  BY <1>2, <1>4, <1>5, <1>6
<1>9. Seen(f, n)[w.row] # 0 => n[w.row] > 0
  BY <1>2, <1>4, <1>5, <1>6
<1> QED
  BY <1>3, <1>7, <1>8, <1>9 DEF w

LEMMA ShiftRowForm ==
  ASSUME NEW f \in Forms, NEW g, SameSent(f, g), NEW n \in Numbers, NEW l,
         Beside(f, n, l), f.at = "shifting", f.todo # <<>>,
         g.at = "shifting", g.listed = f.listed, g.todo = Tail(f.todo), NEW w, w = f.todo[1],
         \/ Seen(f, n)[w.row] = 0 /\ g.work = f.work /\ g.locked = f.locked
         \/ /\ Seen(f, n)[w.row] # 0
            /\ g.work = [f.work EXCEPT ![w.row] = w.nr] /\ g.locked = f.locked \cup {w.row}
  PROVE  Beside(g, n, l) /\ (Alone(f, n, l) => Alone(g, n, l))
<1>1. "shifting" \in Saving \ {"saving"}
  BY DEF Saving
<1>2. Page(f, n, l) /\ Distinct(f.shown) /\ Listed(f, n) /\ Written(f, n) /\ Shifting(f, n) /\ Band(f, n)
  BY <1>1 DEF Beside, Shifting
<1>3. On(g) = On(f) /\ On(f) \subseteq Attendees /\ \A v : Above(f, n, v) <=> Above(g, n, v)
  BY ZenonT(40), SameRows DEF On, Present
<1>4. /\ w.put = "shift" /\ w.row \in On(f) /\ Above(f, n, w.nr)
      /\ \A i \in Attendees : Seen(f, n)[i] # w.nr
      /\ Seen(f, n)[w.row] = 0 => w.row \notin f.locked /\ n[w.row] = 0
      /\ Seen(f, n)[w.row] # 0 => n[w.row] > 0
  BY <1>2, ShiftFree
<1>5. f.todo \in Seq(Writes)
  BY FormParts
<1>6. /\ 1 \in DOMAIN f.todo /\ w \in Writes /\ w.row \in Attendees /\ w.nr \in Nat
      /\ \A k \in DOMAIN g.todo : k + 1 \in DOMAIN f.todo /\ g.todo[k] = f.todo[k + 1] /\ k \in Nat /\ k >= 1
      /\ \A k \in DOMAIN f.todo : k \in Nat /\ (k # 1 => k - 1 \in DOMAIN g.todo /\ g.todo[k - 1] = f.todo[k])
  BY <1>5, TailIs
<1>7. /\ f.locked \subseteq g.locked
      /\ Seen(f, n)[w.row] # 0 => w.row \in g.locked
      /\ \A i \in g.locked : \/ i \in f.locked /\ g.work[i] = f.work[i]
                             \/ i = w.row /\ g.work[i] = w.nr /\ n[i] > 0
  <2>1. CASE Seen(f, n)[w.row] = 0
    BY <2>1
  <2>2. CASE Seen(f, n)[w.row] # 0
    <3>1. \A i \in Attendees : g.work[i] = IF i = w.row THEN w.nr ELSE f.work[i]
      BY <1>6, <2>2, PutSeen
    <3>2. f.locked \subseteq Attendees
      BY FormParts
    <3> QED
      BY <1>4, <1>6, <2>2, <3>1, <3>2
  <2> QED
    BY <2>1, <2>2
<1>8. Written(g, n)
  <2>1. CASE Seen(f, n)[w.row] = 0
    BY <1>2, <2>1, SameWritten
  <2>2. CASE Seen(f, n)[w.row] # 0
    <3>1. w.nr = 0 \/ \A i \in Attendees \ {w.row} : Seen(f, n)[i] # w.nr
      BY <1>4
    <3>2. n[w.row] = 0 /\ w.nr > 0 => w.row \in WillSave(f)
      BY <1>4, <2>2
    <3> QED
      BY <1>2, <1>4, <1>6, <2>2, <3>1, <3>2, PutSeen
  <2> QED
    BY <2>1, <2>2
<1>9. Shifting(g, n)
  <2>1. Band(g, n)
    BY <1>2, <1>3, <1>4, <1>7 DEF Band
  <2>2. ASSUME NEW k \in DOMAIN g.todo
        PROVE  LET x == g.todo[k] IN
               /\ x.put = "shift" /\ x.row \in On(g) /\ Above(g, n, x.nr)
               /\ \A i \in g.locked : g.work[i] # x.nr
               /\ \A m \in DOMAIN g.todo : g.todo[m].nr = x.nr => m = k
    <3> DEFINE x == g.todo[k]
    <3>1. k + 1 \in DOMAIN f.todo /\ x = f.todo[k + 1] /\ k \in Nat /\ k >= 1
      BY <1>6
    <3>2. /\ x.put = "shift" /\ x.row \in On(f) /\ Above(f, n, x.nr)
          /\ \A i \in f.locked : f.work[i] # x.nr
          /\ \A m \in DOMAIN f.todo : f.todo[m].nr = x.nr => m = k + 1
      BY <1>2, <3>1 DEF Shifting
    <3> HIDE DEF x
    <3>3. w.nr # x.nr
      BY <1>6, <3>1, <3>2
    <3>4. \A i \in g.locked : g.work[i] # x.nr
      BY <1>7, <3>2, <3>3
    <3>5. ASSUME NEW m \in DOMAIN g.todo, g.todo[m].nr = x.nr PROVE m = k
      <4>1. m + 1 \in DOMAIN f.todo /\ f.todo[m + 1].nr = x.nr /\ m \in Nat
        BY <1>6, <3>5
      <4>2. m + 1 = k + 1
        BY <3>2, <4>1
      <4> QED
        BY <3>1, <4>1, <4>2
    <3> QED
      BY <1>3, <3>2, <3>4, <3>5 DEF x
  <2>3. ASSUME NEW i \in On(g), n[i] > 0
        PROVE  i \in g.locked \/ \E k \in DOMAIN g.todo : g.todo[k].row = i
    <3>1. CASE i \in f.locked
      BY <1>7, <3>1
    <3>2. CASE i \notin f.locked
      <4>1. PICK k \in DOMAIN f.todo : f.todo[k].row = i
        BY <1>2, <1>3, <2>3, <3>2 DEF Shifting
      <4>2. CASE k = 1
        BY <1>4, <1>7, <2>3, <4>1, <4>2
      <4>3. CASE k # 1
        BY <1>6, <4>1, <4>3
      <4> QED
        BY <4>2, <4>3
    <3> QED
      BY <3>1, <3>2
  <2> QED
    BY <2>1, <2>2, <2>3 DEF Shifting
<1>10. Page(g, n, l) /\ (AsRead(f, n, l) => AsRead(g, n, l)) /\ Listed(g, n)
  BY <1>2, SameRows, SameListed
<1>11. Beside(g, n, l)
  BY <1>1, <1>2, <1>8, <1>9, <1>10 DEF Beside, SameSent
<1>12. Alone(f, n, l) => Alone(g, n, l)
  BY <1>1, <1>10 DEF Alone
<1> QED
  BY <1>11, <1>12

\* What is written of a row is what the goal has for it, and a row that is
\* skipped has none.
LEMMA PutIsGoal ==
  ASSUME NEW f \in Forms, NEW n \in Numbers, NEW l, f.todo # <<>>, NEW w, w = f.todo[1],
         Planned(f), Written(f, n), AsRead(f, n, l), ToGoal(f, n, l)
  PROVE  /\ w.put = "save" \/ Seen(f, n)[w.row] # 0 =>
              /\ w.nr = Goal(f, l)[w.row] /\ (w.nr = 0 => w.row \in f.dropped)
              /\ n[w.row] = 0 /\ w.nr > 0 => w.row \in WillSave(f)
         /\ w.put # "save" /\ Seen(f, n)[w.row] = 0 /\ (w.put = "restore" => w.row \notin f.dropped) =>
              Goal(f, l)[w.row] = 0 /\ w.row \notin WillSave(f)
<1>1. f.todo \in Seq(Writes)
  BY FormParts
<1>2. 1 \in DOMAIN f.todo /\ w \in Writes /\ w.row \in Attendees /\ w.nr \in Nat
  BY <1>1, TailIs
<1>3. /\ w.row \in On(f) /\ w.put \in {"save", "delete", "restore"}
      /\ w.put = "save" => w.row \in WillSave(f)
      /\ w.put = "delete" => w.row \in f.dropped /\ w.nr = 0
  BY <1>2 DEF Planned
<1>4. 1..1 - 1 = {}
  OBVIOUS
<1>5. /\ w.put = "save" => w.nr = f.numbers[w.row]
      /\ w.put = "restore" => w.row \notin WillSave(f)
      /\ w.put = "restore" /\ w.row \notin f.dropped \cup l => w.nr = f.posted[w.row]
      /\ w.put = "restore" /\ w.row \in f.dropped => Seen(f, n)[w.row] = 0
      /\ \A i \in f.locked : f.work[i] = 0 => i \in f.dropped
      /\ \A i \in WillSave(f) : f.numbers[i] > 0
  BY <1>2, <1>4 DEF ToGoal
<1>6. /\ Seen(f, n)[w.row] = IF w.row \in f.locked THEN f.work[w.row] ELSE n[w.row]
      /\ f.work[w.row] \in Nat /\ n[w.row] \in Nat /\ f.posted[w.row] > 0
  BY <1>2, <1>3, FormParts DEF Seen, On, Present, Numbers
<1>7. /\ f.loaded[w.row] > 0 /\ n[w.row] = IF w.row \in l THEN 0 ELSE f.loaded[w.row]
  BY <1>3 DEF AsRead
<1>8. w.row \in f.locked /\ n[w.row] = 0 /\ f.work[w.row] > 0 => w.row \in WillSave(f)
  BY DEF Written
<1>9. WillSave(f) \cap f.dropped = {}
  BY DEF WillSave
<1>10. Goal(f, l)[w.row] = IF w.row \in f.dropped THEN 0
                           ELSE IF w.row \in WillSave(f) THEN f.numbers[w.row]
                           ELSE IF w.row \in l THEN 0 ELSE f.posted[w.row]
  BY <1>2 DEF Goal
<1>11. ASSUME w.put = "save" \/ Seen(f, n)[w.row] # 0
       PROVE  /\ w.nr = Goal(f, l)[w.row] /\ (w.nr = 0 => w.row \in f.dropped)
              /\ n[w.row] = 0 /\ w.nr > 0 => w.row \in WillSave(f)
  <2>1. CASE w.put = "save"
    BY <1>3, <1>5, <1>9, <1>10, <2>1
  <2>2. CASE w.put = "delete"
    BY <1>3, <1>10, <2>2
  <2>3. CASE w.put = "restore"
    <3>1. Seen(f, n)[w.row] # 0 /\ w.row \notin f.dropped /\ w.row \notin WillSave(f)
      BY <1>5, <1>11, <2>3
    <3>2. w.row \notin l /\ n[w.row] # 0
      BY <1>6, <1>7, <1>8, <3>1
    <3> QED
      BY <1>5, <1>6, <1>10, <2>3, <3>1, <3>2
  <2> QED
    BY <1>3, <2>1, <2>2, <2>3
<1>12. ASSUME w.put # "save", Seen(f, n)[w.row] = 0, w.put = "restore" => w.row \notin f.dropped
       PROVE  Goal(f, l)[w.row] = 0 /\ w.row \notin WillSave(f)
  <2>1. CASE w.put = "delete"
    BY <1>3, <1>9, <1>10, <2>1
  <2>2. CASE w.put = "restore"
    <3>1. w.row \notin f.dropped /\ w.row \notin WillSave(f)
      BY <1>5, <1>12, <2>2
    <3>2. n[w.row] = 0
      BY <1>5, <1>6, <1>12, <3>1
    <3> QED
      BY <1>7, <1>10, <3>1, <3>2
  <2> QED
    BY <1>3, <1>12, <2>1, <2>2
<1> QED
  BY <1>11, <1>12

\* What is left still leads to the goal.
LEMMA LeftToGoal ==
  ASSUME NEW f \in Forms, NEW g, SameSent(f, g), NEW n \in Numbers, NEW l, f.todo # <<>>,
         Planned(f), Written(f, n), AsRead(f, n, l), ToGoal(f, n, l),
         g.numbers = f.numbers, g.todo = Tail(f.todo), NEW w, w = f.todo[1],
         \/ /\ w.put # "save" /\ Seen(f, n)[w.row] = 0 /\ g.work = f.work /\ g.locked = f.locked
         \/ /\ w.put = "save" \/ Seen(f, n)[w.row] # 0
            /\ g.work = [f.work EXCEPT ![w.row] = w.nr] /\ g.locked = f.locked \cup {w.row}
  PROVE  ToGoal(g, n, l) /\ Goal(g, l) = Goal(f, l)
         /\ \A i \in Attendees : Seen(g, n)[i] = Seen(f, n)[i] \/ Seen(g, n)[i] = Goal(f, l)[i]
<1> DEFINE skip == w.put # "save" /\ Seen(f, n)[w.row] = 0
<1>1. f.todo \in Seq(Writes)
  BY FormParts
<1>2. /\ 1 \in DOMAIN f.todo /\ w \in Writes /\ w.row \in Attendees /\ w.nr \in Nat
      /\ \A k \in DOMAIN g.todo : k + 1 \in DOMAIN f.todo /\ g.todo[k] = f.todo[k + 1] /\ k \in Nat /\ k >= 1
      /\ \A k \in DOMAIN f.todo : k \in Nat /\ (k # 1 => k - 1 \in DOMAIN g.todo /\ g.todo[k - 1] = f.todo[k])
  BY <1>1, TailIs
<1>3. /\ On(g) = On(f) /\ WillSave(g) = WillSave(f) /\ On(f) \subseteq Attendees
      /\ g.dropped = f.dropped /\ g.posted = f.posted
  BY SameRows DEF SameSent, On, Present
<1>4. Goal(g, l) = Goal(f, l)
  BY <1>3 DEF Goal
<1>5. /\ ~skip => /\ w.nr = Goal(f, l)[w.row] /\ (w.nr = 0 => w.row \in f.dropped)
                  /\ n[w.row] = 0 /\ w.nr > 0 => w.row \in WillSave(f)
      /\ skip /\ (w.put = "restore" => w.row \notin f.dropped) =>
           Goal(f, l)[w.row] = 0 /\ w.row \notin WillSave(f)
  BY PutIsGoal
<1>6. skip => \A i \in Attendees : Seen(g, n)[i] = Seen(f, n)[i]
  BY DEF Seen
<1>7. ~skip => /\ \A i \in Attendees : Seen(g, n)[i] = IF i = w.row THEN w.nr ELSE Seen(f, n)[i]
               /\ \A i \in Attendees : g.work[i] = IF i = w.row THEN w.nr ELSE f.work[i]
               /\ g.locked = f.locked \cup {w.row}
  BY <1>2, PutSeen
<1>8. skip => Seen(f, n)[w.row] = 0 /\ w.put # "save" /\ g.locked = f.locked /\ g.work = f.work
  OBVIOUS
<1>9. /\ \A i \in f.locked : f.work[i] = 0 => i \in f.dropped
      /\ \A i \in WillSave(f) : f.numbers[i] > 0
      /\ f.locked \subseteq Attendees
  BY FormParts DEF ToGoal
<1> HIDE DEF skip
<1>10. \A i \in g.locked : g.work[i] = 0 => i \in g.dropped
  <2>1. CASE skip
    BY <1>3, <1>8, <1>9, <2>1
  <2>2. CASE ~skip
    <3>1. ASSUME NEW i \in g.locked, g.work[i] = 0 PROVE i \in f.dropped
      <4>1. CASE i = w.row
        BY <1>2, <1>5, <1>7, <2>2, <3>1, <4>1
      <4>2. CASE i # w.row
        BY <1>7, <1>9, <2>2, <3>1, <4>2
      <4> QED
        BY <4>1, <4>2
    <3> QED
      BY <1>3, <3>1
  <2> QED
    BY <2>1, <2>2
<1>11. \A i \in Attendees : Seen(f, n)[i] = 0 /\ i \in f.dropped => Seen(g, n)[i] = 0
  <2>1. w.row \in f.dropped => Goal(f, l)[w.row] = 0
    BY <1>2 DEF Goal
  <2> QED
    BY <1>5, <1>6, <1>7, <2>1
<1>12. ASSUME NEW k \in DOMAIN g.todo
       PROVE  LET x == g.todo[k] IN
              /\ x.put = "save" => x.nr = g.numbers[x.row]
              /\ x.put = "restore" => x.row \notin WillSave(g)
              /\ x.put = "restore" /\ x.row \notin g.dropped \cup l => x.nr = g.posted[x.row]
              /\ x.put = "restore" /\ x.row \in g.dropped =>
                   \/ Seen(g, n)[x.row] = 0
                   \/ \E m \in 1..k - 1 : g.todo[m].row = x.row /\ g.todo[m].put = "delete"
  <2> DEFINE x == g.todo[k]
  <2>1. k + 1 \in DOMAIN f.todo /\ x = f.todo[k + 1] /\ k \in Nat /\ k >= 1 /\ (k + 1) - 1 = k
    BY <1>2
  <2>2. /\ x.put = "save" => x.nr = f.numbers[x.row]
        /\ x.put = "restore" => x.row \notin WillSave(f)
        /\ x.put = "restore" /\ x.row \notin f.dropped \cup l => x.nr = f.posted[x.row]
        /\ x.put = "restore" /\ x.row \in f.dropped =>
             \/ Seen(f, n)[x.row] = 0
             \/ \E m \in 1..(k + 1) - 1 : f.todo[m].row = x.row /\ f.todo[m].put = "delete"
    BY <2>1 DEF ToGoal
  <2>3. x.row \in Attendees
    <3>1. f.todo[k + 1] \in Writes
      BY <1>1, <2>1
    <3> QED
      BY <2>1, <3>1 DEF Writes
  <2>4. ASSUME x.put = "restore", x.row \in f.dropped, Seen(g, n)[x.row] # 0
        PROVE  \E m \in 1..k - 1 : g.todo[m].row = x.row /\ g.todo[m].put = "delete"
    <3> HIDE DEF x
    <3>1. Seen(f, n)[x.row] # 0
      BY <1>11, <2>3, <2>4
    <3>2. PICK m \in 1..(k + 1) - 1 : f.todo[m].row = x.row /\ f.todo[m].put = "delete"
      BY <2>2, <2>4, <3>1
    <3>3. m # 1
      <4>1. ASSUME m = 1 PROVE FALSE
        <5>1. w.row = x.row /\ w.put = "delete"
          BY <3>2, <4>1
        <5>2. Goal(f, l)[x.row] = 0
          BY <2>3, <2>4 DEF Goal
        <5>3. ~skip
          BY <1>8, <3>1, <5>1
        <5> QED
          BY <1>5, <1>7, <2>3, <2>4, <5>1, <5>2, <5>3
      <4> QED
        BY <4>1
    <3>4. m \in DOMAIN f.todo /\ m \in Nat /\ m - 1 \in 1..k - 1
      BY <1>1, <2>1, <3>2, <3>3
    <3>5. g.todo[m - 1] = f.todo[m]
      BY <1>2, <3>3, <3>4
    <3> QED
      BY <3>2, <3>4, <3>5
  <2> HIDE DEF x
  <2> QED
    BY <1>3, <2>2, <2>4 DEF x
<1>13. ASSUME NEW i \in On(f)
       PROVE  \/ Seen(g, n)[i] = Goal(f, l)[i] /\ (i \in WillSave(f) => i \in g.locked)
              \/ \E k \in DOMAIN g.todo : g.todo[k].row = i /\ (g.todo[k].put = "restore" => i \notin f.dropped)
  <2>1. i \in Attendees
    BY <1>3
  <2>2. CASE Seen(f, n)[i] = Goal(f, l)[i] /\ (i \in WillSave(f) => i \in f.locked)
    BY <1>5, <1>6, <1>7, <1>8, <2>1, <2>2
  <2>3. CASE ~(Seen(f, n)[i] = Goal(f, l)[i] /\ (i \in WillSave(f) => i \in f.locked))
    <3>1. PICK k \in DOMAIN f.todo : f.todo[k].row = i /\ (f.todo[k].put = "restore" => i \notin f.dropped)
      BY <2>3 DEF ToGoal
    <3>2. CASE k # 1
      <4>1. k - 1 \in DOMAIN g.todo /\ g.todo[k - 1] = f.todo[k]
        BY <1>2, <3>2
      <4> QED
        BY <3>1, <4>1
    <3>3. CASE k = 1
      <4>1. i = w.row /\ (w.put = "restore" => w.row \notin f.dropped)
        BY <3>1, <3>3
      <4>2. CASE skip
        BY <1>5, <1>6, <1>8, <2>1, <4>1, <4>2
      <4>3. CASE ~skip
        BY <1>5, <1>7, <2>1, <4>1, <4>3
      <4> QED
        BY <4>2, <4>3
    <3> QED
      BY <3>2, <3>3
  <2> QED
    BY <2>2, <2>3
<1>14. ToGoal(g, n, l)
  <2>1. \A i \in WillSave(g) : g.numbers[i] > 0
    BY <1>3, <1>9
  <2> QED
    BY ZenonT(40), <1>3, <1>4, <1>10, <1>12, <1>13, <2>1 DEF ToGoal
<1>15. \A i \in Attendees : Seen(g, n)[i] = Seen(f, n)[i] \/ Seen(g, n)[i] = Goal(f, l)[i]
  BY <1>5, <1>6, <1>7
<1> QED
  BY <1>4, <1>14, <1>15

LEMMA SaveRowForm ==
  ASSUME NEW f \in Forms, NEW g, SameSent(f, g), NEW n \in Numbers, NEW l,
         Beside(f, n, l), f.at = "saving", f.todo # <<>>,
         g.at = "saving", g.numbers = f.numbers, g.todo = Tail(f.todo), NEW w, w = f.todo[1],
         w.nr = 0 \/ (w.put # "save" /\ Seen(f, n)[w.row] = 0)
                  \/ \A i \in Attendees \ {w.row} : Seen(f, n)[i] # w.nr,
         \/ /\ w.put # "save" /\ Seen(f, n)[w.row] = 0 /\ g.work = f.work /\ g.locked = f.locked
         \/ /\ w.put = "save" \/ Seen(f, n)[w.row] # 0
            /\ g.work = [f.work EXCEPT ![w.row] = w.nr] /\ g.locked = f.locked \cup {w.row}
  PROVE  Beside(g, n, l) /\ (Alone(f, n, l) => Alone(g, n, l))
<1>1. "saving" \in Saving
  BY DEF Saving
<1>2. Page(f, n, l) /\ Distinct(f.shown) /\ Written(f, n) /\ Planned(f)
  BY <1>1 DEF Beside
<1>3. On(g) = On(f) /\ WillSave(g) = WillSave(f) /\ On(f) \subseteq Attendees /\ g.dropped = f.dropped
  BY SameRows DEF SameSent, On, Present
<1>4. f.todo \in Seq(Writes)
  BY FormParts
<1>5. /\ 1 \in DOMAIN f.todo /\ w \in Writes /\ w.row \in Attendees /\ w.nr \in Nat
      /\ \A k \in DOMAIN g.todo : k + 1 \in DOMAIN f.todo /\ g.todo[k] = f.todo[k + 1] /\ k \in Nat /\ k >= 1
  BY <1>4, TailIs
<1>6. Planned(g)
  BY <1>2, <1>3, <1>5 DEF Planned
<1>7. Written(g, n)
  <2>1. CASE w.put # "save" /\ Seen(f, n)[w.row] = 0
    BY <1>2, <2>1, SameWritten
  <2>2. CASE w.put = "save" \/ Seen(f, n)[w.row] # 0
    <3>1. w.row \in On(f) /\ (w.put = "save" => w.row \in WillSave(f))
      BY <1>2, <1>5 DEF Planned
    <3>2. n[w.row] = 0 /\ w.nr > 0 => w.row \in WillSave(f)
      <4>1. Seen(f, n)[w.row] = IF w.row \in f.locked THEN f.work[w.row] ELSE n[w.row]
        BY <1>5 DEF Seen
      <4>2. f.work[w.row] \in Nat
        BY <1>5, FormParts DEF Numbers
      <4>3. w.row \in f.locked /\ n[w.row] = 0 /\ f.work[w.row] > 0 => w.row \in WillSave(f)
        BY <1>2 DEF Written
      <4> QED
        BY <2>2, <3>1, <4>1, <4>2, <4>3
    <3>3. w.nr = 0 \/ \A i \in Attendees \ {w.row} : Seen(f, n)[i] # w.nr
      BY <2>2
    <3> QED
      BY <1>2, <1>5, <2>2, <3>1, <3>2, <3>3, PutSeen
  <2> QED
    BY <2>1, <2>2
<1>8. Page(g, n, l) /\ (AsRead(f, n, l) => AsRead(g, n, l))
  BY <1>2, SameRows
<1>9. Beside(g, n, l)
  BY <1>1, <1>2, <1>6, <1>7, <1>8 DEF Beside, SameSent
<1>10. ASSUME Alone(f, n, l) PROVE Alone(g, n, l)
  <2>1. /\ AsRead(f, n, l) /\ ToGoal(f, n, l) /\ AsDragged(f, n, l)
        /\ On(f) \cap l = {} => GoalFree(f, n, l)
    BY <1>1, <1>10 DEF Alone
  <2>2. /\ ToGoal(g, n, l) /\ Goal(g, l) = Goal(f, l)
        /\ \A i \in Attendees : Seen(g, n)[i] = Seen(f, n)[i] \/ Seen(g, n)[i] = Goal(f, l)[i]
    BY <1>2, <2>1, LeftToGoal
  <2>3. AsDragged(g, n, l)
    <3>1. g.posted = f.posted
      BY DEF SameSent
    <3> QED
      BY <1>3, <2>1, <2>2, <3>1 DEF AsDragged
  <2>4. On(g) \cap l = {} => GoalFree(g, n, l)
    BY <1>3, <2>1, <2>2 DEF GoalFree
  <2> QED
    BY <1>1, <1>8, <2>1, <2>2, <2>3, <2>4 DEF Alone
<1> QED
  BY <1>9, <1>10

\* Without a deletion of its rows no number of the goal is anyone else's.
LEMMA ClashIsLost ==
  ASSUME NEW f \in Forms, NEW n \in Numbers, NEW l, Beside(f, n, l), Alone(f, n, l),
         f.at = "saving", f.todo # <<>>, NEW w, w = f.todo[1],
         w.put = "save" \/ Seen(f, n)[w.row] # 0,
         w.nr > 0, NEW i \in Attendees \ {w.row}, Seen(f, n)[i] = w.nr
  PROVE  On(f) \cap l # {}
<1> SUFFICES ASSUME On(f) \cap l = {} PROVE FALSE
  OBVIOUS
<1>1. "saving" \in Saving
  BY DEF Saving
<1>2. Written(f, n) /\ Planned(f) /\ AsRead(f, n, l) /\ ToGoal(f, n, l) /\ GoalFree(f, n, l)
  BY <1>1 DEF Beside, Alone
<1>3. w.nr = Goal(f, l)[w.row]
  BY <1>2, PutIsGoal
<1>4. w.row \in On(f)
  <2>1. 1 \in DOMAIN f.todo
    BY FormParts, TailIs
  <2> QED
    BY <1>2, <2>1 DEF Planned
<1>5. CASE i \in On(f)
  BY <1>2, <1>3, <1>4, <1>5 DEF GoalFree
<1>6. CASE i \notin On(f)
  <2>1. Seen(f, n)[i] = n[i]
    BY <1>2, <1>6 DEF Seen, Written
  <2> QED
    BY <1>2, <1>3, <1>4, <1>6, <2>1 DEF GoalFree
<1> QED
  BY <1>5, <1>6

-----------------------------------------------------------------------------
(* The actions.                                                            *)

LEMMA BlankForm ==
  /\ Blank \in Forms /\ Nothing \in Numbers /\ \A i \in Attendees : Nothing[i] = 0
  /\ Blank.at = "idle" /\ Blank.shown = Nothing /\ Blank.posted = Nothing /\ Blank.locked = {}
<1>1. Nothing \in Numbers /\ <<>> \in Seq(Writes) /\ \A i \in Attendees : Nothing[i] = 0
  BY DEF Nothing, Numbers
<1> QED
  BY <1>1 DEF Blank, Forms

\* A form that shows nothing and holds nothing.
LEMMA PlainForm ==
  ASSUME NEW g, g.at \in {"idle", "refused", "saved", "failed"}, g.shown = Nothing, g.locked = {},
         NEW n, NEW l, g.at = "idle" => l = {}, g.at = "failed" => On(g) \cap l # {}
  PROVE  Beside(g, n, l) /\ Alone(g, n, l)
<1>1. g.at \notin Saving \cup {"posted", "listed", "shifting", "numbering", "saving", "open"}
  BY DEF Saving
<1>2. Distinct(g.shown)
  BY BlankForm DEF Distinct
<1> QED
  BY <1>1, <1>2 DEF Beside, Alone

\* Without rows of a save under way the committed numbers do not matter.
LEMMA FormElsewhere ==
  ASSUME NEW f, NEW n, NEW m, NEW l, f.at \notin Saving \cup {"posted"}
  PROVE  /\ Beside(f, n, l) => Beside(f, m, l)
         /\ Alone(f, n, l) => Alone(f, m, l)
<1>1. f.at \notin {"listed", "shifting", "numbering", "saving"}
  BY DEF Saving
<1> QED
  BY <1>1 DEF Beside, Alone

LEMMA FormsInv ==
  ASSUME \A e \in Editors : /\ Beside(form'[e], nr', lost'[e])
                            /\ e \notin met' => Alone(form'[e], nr', lost'[e])
  PROVE  (\A e \in Editors : FormInv(e))'
BY DEF FormInv

LEMMA InitReorder == Init => ReorderInv
<1> SUFFICES ASSUME Init PROVE ReorderInv
  OBVIOUS
<1>1. nr \in Numbers
  BY DEF Init, Numbers
<1>2. form \in [Editors -> Forms] /\ \A e \in Editors : form[e] = Blank
  BY BlankForm DEF Init
<1>3. ReorderTypes
  BY <1>1, <1>2 DEF Init, ReorderTypes
<1>4. Distinct(nr)
  BY DEF Init, Distinct, IsInjective
<1>5. "idle" \notin Saving
  BY DEF Saving
<1>6. SignupRows
  BY <1>2, BlankForm DEF Init, SignupRows, Attendees
<1>7. Locked
  BY <1>2, <1>5, BlankForm DEF Init, Locked
<1>8. ASSUME NEW e \in Editors PROVE FormInv(e)
  <2>1. Beside(Blank, nr, {}) /\ Alone(Blank, nr, {})
    BY BlankForm, PlainForm
  <2> QED
    BY <1>2, <2>1 DEF Init, FormInv
<1> QED
  BY <1>3, <1>4, <1>6, <1>7, <1>8 DEF ReorderInv

LEMMA AskNrReorder ==
  ASSUME ReorderInv, NEW s \in Signups, AskNr(s)
  PROVE  ReorderInv'
<1>1. Highest(nr) \in Nat
  BY HighestIs DEF ReorderInv, ReorderTypes, Numbers
<1>2. signup' \in [Signups -> [at : {"new", "waiting", "inserting", "done"}, seen : Nat, nr : Nat]]
  <2> DEFINE n == Highest(nr)
  <2>1. signup' = [signup EXCEPT ![s].at = "waiting", ![s].seen = n]
    BY DEF AskNr
  <2>2. signup \in [Signups -> [at : {"new", "waiting", "inserting", "done"}, seen : Nat, nr : Nat]]
    BY DEF ReorderInv, ReorderTypes
  <2>3. n \in Nat
    BY <1>1
  <2> HIDE DEF n
  <2> QED
    BY <2>1, <2>2, <2>3
<1>3. /\ UNCHANGED <<nr, counter, holder, form, lost, met>>
      /\ \A t \in Signups : signup'[t].at = IF t = s THEN "waiting" ELSE signup[t].at
      /\ signup[s].at = "new"
  BY DEF AskNr, history, ReorderInv, ReorderTypes
<1>4. ReorderTypes'
  BY <1>2, <1>3 DEF ReorderInv, ReorderTypes
<1>5. Distinct(nr)' /\ SignupRows' /\ Locked'
  BY <1>3 DEF ReorderInv, Distinct, SignupRows, Locked
<1>6. (\A e \in Editors : FormInv(e))'
  BY <1>3, FormsInv DEF ReorderInv, FormInv
<1> QED
  BY <1>4, <1>5, <1>6 DEF ReorderInv

LEMMA ReserveReorder ==
  ASSUME ReorderInv, NEW s \in Signups, Reserve(s)
  PROVE  ReorderInv'
<1>1. NextNr(counter, signup[s].seen) \in Nat
  <2>1. counter \in Nat /\ signup[s].seen \in Nat
    BY DEF ReorderInv, ReorderTypes
  <2> QED
    BY <2>1, NextNrIs
<1>2. signup' \in [Signups -> [at : {"new", "waiting", "inserting", "done"}, seen : Nat, nr : Nat]]
  <2> DEFINE n == NextNr(counter, signup[s].seen)
  <2>1. signup' = [signup EXCEPT ![s].at = "inserting", ![s].nr = n]
    BY DEF Reserve
  <2>2. signup \in [Signups -> [at : {"new", "waiting", "inserting", "done"}, seen : Nat, nr : Nat]]
    BY DEF ReorderInv, ReorderTypes
  <2>3. n \in Nat
    BY <1>1
  <2> HIDE DEF n
  <2> QED
    BY <2>1, <2>2, <2>3
<1>3. /\ UNCHANGED <<nr, counter, form, lost, met>> /\ holder = None /\ holder' = s
      /\ \A t \in Signups : signup'[t].at = IF t = s THEN "inserting" ELSE signup[t].at
      /\ signup[s].at = "waiting"
  BY DEF Reserve, history, ReorderInv, ReorderTypes
<1>4. ReorderTypes'
  BY <1>2, <1>3 DEF ReorderInv, ReorderTypes
<1>5. Distinct(nr)' /\ SignupRows'
  BY <1>3 DEF ReorderInv, Distinct, SignupRows
<1>6. Locked'
  BY <1>3 DEF ReorderInv, Locked
<1>7. (\A e \in Editors : FormInv(e))'
  BY <1>3, FormsInv DEF ReorderInv, FormInv
<1> QED
  BY <1>4, <1>5, <1>6, <1>7 DEF ReorderInv

LEMMA InsertReorder ==
  ASSUME ReorderInv, NEW s \in Signups, Insert(s)
  PROVE  ReorderInv'
<1> DEFINE n == signup[s].nr
           free == \A i \in Attendees : nr[i] # n
<1>1. /\ UNCHANGED <<form, lost, met>> /\ holder' = None /\ signup[s].at = "inserting"
      /\ nr' = IF free THEN [nr EXCEPT ![s] = n] ELSE nr
      /\ counter' = IF free THEN n ELSE counter
      /\ \A t \in Signups \ {s} : signup'[t] = signup[t]
      /\ signup'[s] = [at |-> IF free THEN "done" ELSE "new", seen |-> 0, nr |-> 0]
  BY DEF Insert, history, ReorderInv, ReorderTypes
<1>2. n \in Nat /\ s \in Attendees /\ nr \in Numbers
  BY DEF ReorderInv, ReorderTypes, Attendees
<1>3. /\ nr[s] = 0 /\ \A e \in Editors : form[e].at \notin Saving /\ form[e].posted[s] = 0
      /\ \A t \in Signups \ {s} : signup[t].at # "inserting"
  BY <1>1 DEF ReorderInv, SignupRows, Locked
<1>4. ReorderTypes'
  <2>1. nr' \in Numbers /\ counter' \in Nat
    BY <1>1, <1>2 DEF Numbers, ReorderInv, ReorderTypes
  <2>2. signup' \in [Signups -> [at : {"new", "waiting", "inserting", "done"}, seen : Nat, nr : Nat]]
    BY DEF Insert, ReorderInv, ReorderTypes
  <2> QED
    BY <1>1, <2>1, <2>2 DEF ReorderInv, ReorderTypes
<1>5. Distinct(nr)'
  <2>1. CASE free
    BY <1>1, <1>2, <2>1 DEF ReorderInv, Distinct, Numbers
  <2>2. CASE ~free
    BY <1>1, <2>2 DEF ReorderInv, Distinct
  <2> QED
    BY <2>1, <2>2
<1>6. \A i \in Attendees : i # s => nr'[i] = nr[i]
  BY <1>1, <1>2 DEF Numbers
<1>7. SignupRows'
  <2>1. Signups \subseteq Attendees
    BY DEF Attendees
  <2>2. ~free => nr' = nr
    BY <1>1
  <2> HIDE DEF free
  <2> QED
    BY <1>1, <1>3, <1>6, <2>1, <2>2 DEF ReorderInv, SignupRows
<1>8. Locked'
  BY <1>1, <1>3 DEF Locked
<1>9. (\A e \in Editors : FormInv(e))'
  <2>1. ASSUME NEW e \in Editors
        PROVE  /\ Beside(form'[e], nr', lost'[e])
               /\ e \notin met' => Alone(form'[e], nr', lost'[e])
    <3>1. s \notin On(form[e]) /\ On(form[e]) \subseteq Attendees
      BY <1>3 DEF On, Present
    <3>2. \A i \in On(form[e]) : nr'[i] = nr[i]
      BY <1>6, <3>1
    <3>3. /\ Beside(form[e], nr, lost[e]) => Beside(form[e], nr', lost[e])
          /\ Alone(form[e], nr, lost[e]) => Alone(form[e], nr', lost[e])
      BY <1>3, <3>2, FormKept
    <3> QED
      BY <1>1, <3>3 DEF ReorderInv, FormInv
  <2> QED
    BY <2>1, FormsInv
<1> QED
  BY <1>4, <1>5, <1>7, <1>8, <1>9 DEF ReorderInv

LEMMA DeleteReorder ==
  ASSUME ReorderInv, NEW i \in Attendees, Delete(i)
  PROVE  ReorderInv'
<1>1. /\ UNCHANGED <<counter, holder, signup, form, met>> /\ nr[i] > 0
      /\ nr' = [nr EXCEPT ![i] = 0] /\ lost' = Overtaken({i}) /\ nr \in Numbers
      /\ \A e \in Editors : i \notin form[e].locked
  BY DEF Delete, ReorderInv, ReorderTypes
<1>2. nr'[i] = 0 /\ nr' \in Numbers /\ \A j \in Attendees : j # i => nr'[j] = nr[j]
  BY <1>1 DEF Numbers
<1>3. \A e \in Editors :
        lost'[e] = IF form[e].at \in Saving \cup {"posted"} THEN lost[e] \cup {i} ELSE lost[e]
  BY <1>1 DEF Overtaken
<1>4. ReorderTypes'
  <2>1. lost' \in [Editors -> SUBSET Attendees]
    BY <1>1 DEF Overtaken, ReorderInv, ReorderTypes
  <2> QED
    BY <1>1, <1>2, <2>1 DEF ReorderInv, ReorderTypes
<1>5. \A j \in Attendees : nr[j] \in Nat /\ nr'[j] \in Nat
  BY <1>1, <1>2 DEF Numbers
<1>6. Distinct(nr)'
  BY <1>1, <1>2, <1>5 DEF ReorderInv, Distinct
<1>7. SignupRows' /\ Locked'
  BY <1>1, <1>2 DEF ReorderInv, SignupRows, Locked, Attendees
<1>8. (\A e \in Editors : FormInv(e))'
  <2>1. ASSUME NEW e \in Editors
        PROVE  /\ Beside(form'[e], nr', lost'[e])
               /\ e \notin met' => Alone(form'[e], nr', lost'[e])
    <3>1. form[e] \in Forms /\ i \in Attendees \ form[e].locked
      BY <1>1 DEF ReorderInv, ReorderTypes
    <3>2. Beside(form[e], nr, lost[e]) /\ (e \notin met => Alone(form[e], nr, lost[e]))
      BY DEF ReorderInv, FormInv
    <3> DEFINE k == lost'[e]
               f == form[e]
               l == lost[e]
               m == nr'
    <3>3. k = IF f.at \in Saving \cup {"posted"} THEN l \cup {i} ELSE l
      BY <1>3
    <3>4. /\ f \in Forms /\ nr \in Numbers /\ m \in Numbers /\ i \in Attendees \ f.locked
          /\ m[i] = 0 /\ (\A j \in Attendees : j # i => m[j] = nr[j]) /\ Beside(f, nr, l)
      BY <1>1, <1>2, <3>1, <3>2
    <3> HIDE DEF k, f, l, m
    <3>5. Beside(f, m, k) /\ (Alone(f, nr, l) => Alone(f, m, k))
      BY <3>3, <3>4, FormGone
    <3> QED
      BY <1>1, <3>2, <3>5 DEF k, f, l, m
  <2> QED
    BY <2>1, FormsInv
<1> QED
  BY <1>4, <1>6, <1>7, <1>8 DEF ReorderInv

\* A step of an editor before its commit: only its form changes, and the lock.
LEMMA EditorStep ==
  ASSUME ReorderInv, NEW e \in Editors, UNCHANGED <<nr, counter, signup, lost, met>>,
         NEW g \in Forms, form' = [form EXCEPT ![e] = g],
         \A s \in Signups : nr[s] = 0 /\ form[e].shown[s] = 0 /\ form[e].posted[s] = 0
                            => g.shown[s] = 0 /\ g.posted[s] = 0,
         \/ holder' = holder /\ (g.at \in Saving => form[e].at \in Saving)
         \/ holder = None /\ holder' = e
         \/ form[e].at \in Saving /\ holder' = None /\ g.at \notin Saving,
         Beside(g, nr, lost[e]), e \notin met => Alone(g, nr, lost[e])
  PROVE  ReorderInv'
<1>1. form \in [Editors -> Forms]
  BY DEF ReorderInv, ReorderTypes
<1>2. form'[e] = g /\ \A h \in Editors : h # e => form'[h] = form[h]
  BY <1>1
<1>3. ReorderTypes'
  <2>1. form' \in [Editors -> Forms]
    BY <1>1
  <2> QED
    BY <2>1 DEF ReorderInv, ReorderTypes
<1>4. Distinct(nr)'
  BY DEF ReorderInv, Distinct
<1>5. SignupRows'
  <2>1. ASSUME NEW s \in Signups, signup[s].at # "done", NEW h \in Editors
        PROVE  nr[s] = 0 /\ form'[h].shown[s] = 0 /\ form'[h].posted[s] = 0
    <3>1. nr[s] = 0 /\ form[h].shown[s] = 0 /\ form[h].posted[s] = 0
      BY <2>1 DEF ReorderInv, SignupRows
    <3> QED
      BY <1>2, <3>1
  <2>2. \A s \in Signups : signup'[s].at # "done" => nr'[s] = 0
    BY DEF ReorderInv, SignupRows
  <2> QED
    BY <2>1, <2>2 DEF SignupRows
<1>6. Locked'
  <2>1. /\ \A s \in Signups : signup[s].at = "inserting" => holder = s
        /\ \A h \in Editors : form[h].at \in Saving => holder = h
    BY DEF ReorderInv, Locked
  <2>2. e \notin Signups /\ None \notin Signups \cup Editors
    OBVIOUS
  <2>3. ASSUME NEW s \in Signups, signup'[s].at = "inserting" PROVE holder' = s
    BY <2>1, <2>2, <2>3
  <2>4. ASSUME NEW h \in Editors, form'[h].at \in Saving PROVE holder' = h
    BY <1>2, <2>1, <2>2, <2>4
  <2> QED
    BY <2>3, <2>4 DEF Locked
<1>7. (\A h \in Editors : FormInv(h))'
  <2>1. ASSUME NEW h \in Editors
        PROVE  /\ Beside(form'[h], nr', lost'[h])
               /\ h \notin met' => Alone(form'[h], nr', lost'[h])
    BY <1>2 DEF ReorderInv, FormInv
  <2> QED
    BY <2>1, FormsInv
<1> QED
  BY <1>3, <1>4, <1>5, <1>6, <1>7 DEF ReorderInv

LEMMA OpenReorder ==
  ASSUME ReorderInv, NEW e \in Editors, Open(e)
  PROVE  ReorderInv'
<1> DEFINE f == form[e]
           g == [f EXCEPT !.at = "open", !.shown = nr]
<1>1. /\ UNCHANGED <<nr, counter, holder, signup, lost, met>> /\ f.at = "idle" /\ f \in Forms
      /\ nr \in Numbers /\ Distinct(nr) /\ form \in [Editors -> Forms]
      /\ Beside(f, nr, lost[e])
  BY DEF Open, history, ReorderInv, ReorderTypes, FormInv
<1>2. form' = [form EXCEPT ![e] = g]
  BY <1>1 DEF Open
<1>3. /\ g \in Forms /\ g.at = "open" /\ g.shown = nr /\ g.posted = f.posted /\ g.locked = f.locked
  BY <1>1 DEF Forms
<1> HIDE DEF f, g
<1>4. "open" \notin Saving \cup {"posted", "listed", "shifting", "numbering", "saving", "failed"}
      /\ "idle" \notin Saving
  BY DEF Saving
<1>5. Beside(g, nr, lost[e]) /\ Alone(g, nr, lost[e])
  BY <1>1, <1>3, <1>4 DEF Beside, Alone
<1>6. \A s \in Signups : nr[s] = 0 /\ form[e].shown[s] = 0 /\ form[e].posted[s] = 0
                         => g.shown[s] = 0 /\ g.posted[s] = 0
  BY <1>3 DEF f
<1>7. UNCHANGED <<nr, counter, signup, lost, met>> /\ holder' = holder
      /\ (g.at \in Saving => form[e].at \in Saving)
  BY <1>1, <1>3, <1>4
<1> QED
  BY <1>2, <1>3, <1>5, <1>6, <1>7, EditorStep

\* What is sent gives the rows that were shown different numbers.
LEMMA OrdersAre ==
  ASSUME NEW shown \in Numbers, Distinct(shown), NEW posted \in Orders(shown)
  PROVE  posted \in Numbers /\ Distinct(posted) /\ Present(posted) = Present(shown)
<1> DEFINE rows == Present(shown)
           tens == {10 * k : k \in 1..Cardinality(rows)}
<1>1. rows \in SUBSET Attendees
  BY DEF Present
<1>2. Cardinality(rows) \in Nat
  BY <1>1, FS_Subset, FS_CardinalityType
<1>3. \A t \in tens : t \in Nat /\ t > 0
  BY <1>2
<1>4. CASE posted = shown
  BY <1>4
<1>5. CASE posted # shown
  <2>1. PICK d \in Bijection(rows, tens) : posted = [i \in Attendees |-> IF i \in rows THEN d[i] ELSE 0]
    BY <1>5 DEF Orders
  <2>2. d \in [rows -> tens] /\ IsInjective(d)
    BY <2>1 DEF Bijection, Injection
  <2> HIDE DEF tens, rows
  <2>3. \A i \in rows : d[i] \in Nat /\ d[i] > 0
    BY <1>3, <2>2
  <2>4. \A i, j \in rows : d[i] = d[j] => i = j
    BY <2>2 DEF IsInjective
  <2>5. \A i \in Attendees : posted[i] = IF i \in rows THEN d[i] ELSE 0
    BY <2>1
  <2>6. posted \in Numbers
    BY <2>1, <2>3 DEF Numbers
  <2>7. Distinct(posted)
    BY <2>3, <2>4, <2>5 DEF Distinct
  <2>8. Present(posted) = rows
    BY <1>1, <2>3, <2>5 DEF Present
  <2> QED
    BY <2>6, <2>7, <2>8 DEF rows
<1> QED
  BY <1>4, <1>5

\* A POST that is taken: its rows have the numbers it read.
LEMMA PostedForm ==
  ASSUME NEW shown \in Numbers, Distinct(shown), NEW n \in Numbers, NEW sent \in Orders(shown),
         NEW g, g.at = "posted", g.shown = shown, NEW loaded, loaded = Only(n, Present(shown)),
         g.loaded = loaded, g.posted = Only(sent, Present(loaded)), g.numbers = g.posted,
         g.dropped \subseteq Present(loaded), g.moved = (sent # loaded), g.locked = {}
  PROVE  /\ g.posted \in Numbers /\ loaded \in Numbers
         /\ \A i \in Attendees : shown[i] = 0 => g.posted[i] = 0
         /\ Beside(g, n, {}) /\ Alone(g, n, {})
<1> DEFINE p == g.posted
<1>1. sent \in Numbers /\ Distinct(sent) /\ Present(sent) = Present(shown)
  BY OrdersAre
<1>2. \A i \in Attendees : /\ loaded[i] = (IF shown[i] > 0 THEN n[i] ELSE 0)
                           /\ loaded[i] \in Nat /\ sent[i] \in Nat /\ n[i] \in Nat /\ shown[i] \in Nat
  BY <1>1 DEF Only, Present, Numbers
<1>3. \A i \in Attendees : p[i] = IF loaded[i] > 0 THEN sent[i] ELSE 0
  BY DEF Only, Present
<1>4. \A i \in Attendees : sent[i] > 0 <=> shown[i] > 0
  BY <1>1 DEF Present
<1>5. loaded \in Numbers /\ p \in Numbers
  <2>1. loaded \in [Attendees -> Nat]
    BY <1>2 DEF Only
  <2>2. p \in [Attendees -> Nat]
    BY <1>2 DEF Only
  <2> QED
    BY <2>1, <2>2 DEF Numbers
<1> HIDE DEF p
<1>6. \A i \in Attendees : /\ p[i] \in Nat
                           /\ p[i] > 0 <=> loaded[i] > 0
                           /\ p[i] > 0 => p[i] = sent[i] /\ shown[i] > 0 /\ loaded[i] = n[i] /\ n[i] > 0
  BY <1>2, <1>3, <1>4
<1>7. On(g) = {i \in Attendees : p[i] > 0}
  BY DEF On, Present, p
<1>8. Distinct(p)
  BY <1>1, <1>6 DEF Distinct
<1>9. Page(g, n, {})
  <2>1. On(g) \subseteq Present(g.shown)
    BY <1>6, <1>7 DEF Present
  <2>2. g.dropped \subseteq On(g)
    BY <1>6, <1>7 DEF Present
  <2>3. \A i \in On(g) : n[i] # 0
    BY <1>6, <1>7
  <2> QED
    BY <1>8, <2>1, <2>2, <2>3 DEF Page, p
<1>10. AsRead(g, n, {})
  BY <1>6, <1>7 DEF AsRead
<1>11. ~g.moved => g.posted = g.loaded
  <2>1. ASSUME sent = loaded PROVE p = loaded
    <3>1. \A i \in Attendees : p[i] = loaded[i]
      BY <1>2, <1>3, <2>1
    <3> QED
      BY <1>5, <3>1 DEF Numbers
  <2> QED
    BY <2>1 DEF p
<1>12. "posted" \notin Saving \cup {"idle", "open", "listed", "shifting", "numbering", "saving", "failed"}
  BY DEF Saving
<1>13. Beside(g, n, {}) /\ Alone(g, n, {})
  BY <1>9, <1>10, <1>11, <1>12 DEF Beside, Alone
<1> QED
  BY <1>2, <1>3, <1>5, <1>13 DEF p

LEMMA PostReorder ==
  ASSUME ReorderInv, NEW e \in Editors, Post(e)
  PROVE  ReorderInv'
<1> DEFINE f == form[e]
           shown == f.shown
           loaded == Loaded(shown)
<1>1. /\ UNCHANGED <<nr, counter, holder, signup, lost, met>> /\ f.at = "open" /\ f \in Forms
      /\ nr \in Numbers /\ counter \in Nat /\ form \in [Editors -> Forms]
      /\ Beside(f, nr, lost[e])
  BY DEF Post, history, ReorderInv, ReorderTypes, FormInv
<1>2. shown \in Numbers /\ Distinct(shown) /\ lost[e] = {} /\ loaded = Only(nr, Present(shown))
  BY <1>1, FormParts DEF Beside, Loaded
<1>3. PICK sent \in Orders(shown), drop \in BOOLEAN, marked \in SUBSET Present(shown) :
        LET dropped == IF drop THEN marked ELSE {}
        IN  form' = [form EXCEPT ![e] =
                IF Present(shown) \ dropped \subseteq Present(loaded)
                THEN [Blank EXCEPT !.at = "posted", !.shown = shown,
                        !.posted = Only(sent, Present(loaded)), !.numbers = Only(sent, Present(loaded)),
                        !.dropped = dropped \cap Present(loaded), !.edited = marked \ dropped,
                        !.loaded = loaded, !.moved = sent # loaded, !.counter = counter]
                ELSE [Blank EXCEPT !.at = "refused"]]
  BY ZenonT(40) DEF Post
<1> DEFINE dropped == IF drop THEN marked ELSE {}
           p == Only(sent, Present(loaded))
           d == dropped \cap Present(loaded)
           t == marked \ dropped
           m == sent # loaded
           g == [Blank EXCEPT !.at = "posted", !.shown = shown, !.posted = p, !.numbers = p,
                        !.dropped = d, !.edited = t, !.loaded = loaded, !.moved = m, !.counter = counter]
           h == [Blank EXCEPT !.at = "refused"]
<1>4. form' = [form EXCEPT ![e] = g] \/ form' = [form EXCEPT ![e] = h]
  BY <1>3
<1>5. d \subseteq Present(loaded) /\ d \subseteq Attendees /\ t \subseteq Attendees /\ m \in BOOLEAN
  BY DEF Present
<1>6. "posted" \notin Saving /\ "refused" \notin Saving
  BY DEF Saving
<1> HIDE DEF f
<1>7. CASE form' = [form EXCEPT ![e] = g]
  <2> HIDE DEF p, d, t, loaded, shown, dropped
  <2>1. /\ g.at = "posted" /\ g.shown = shown /\ g.posted = p /\ g.numbers = p /\ g.dropped = d
        /\ g.edited = t /\ g.loaded = loaded /\ g.moved = m /\ g.counter = counter
        /\ g.locked = {} /\ g.work = Nothing /\ g.listed = Nothing /\ g.taken = {} /\ g.todo = <<>>
    BY DEF Blank
  <2> HIDE DEF m, g
  <2>2. p = Only(sent, Present(loaded)) /\ m = (sent # loaded)
    BY DEF p, m
  <2>3. /\ p \in Numbers /\ loaded \in Numbers
        /\ \A i \in Attendees : shown[i] = 0 => p[i] = 0
        /\ Beside(g, nr, {}) /\ Alone(g, nr, {})
    BY <1>1, <1>2, <1>5, <2>1, <2>2, PostedForm
  <2>4. g \in Forms
    <3> USE DEF g
    <3> QED
      BY ZenonT(100), <1>1, <1>2, <1>5, <2>3, BlankForm DEF Forms, Blank
  <2>5. \A s \in Signups : nr[s] = 0 /\ form[e].shown[s] = 0 /\ form[e].posted[s] = 0
                           => g.shown[s] = 0 /\ g.posted[s] = 0
    BY <2>1, <2>3 DEF shown, f, Attendees
  <2>6. UNCHANGED <<nr, counter, signup, lost, met>> /\ holder' = holder
        /\ (g.at \in Saving => form[e].at \in Saving)
    BY <1>1, <1>6, <2>1
  <2>7. Beside(g, nr, lost[e]) /\ (e \notin met => Alone(g, nr, lost[e]))
    BY <1>2, <2>3
  <2> QED
    BY ZenonT(40), <1>7, <2>4, <2>5, <2>6, <2>7, EditorStep
<1>8. CASE form' = [form EXCEPT ![e] = h]
  <2>1. h.at = "refused" /\ h.shown = Nothing /\ h.posted = Nothing /\ h.locked = {} /\ h \in Forms
    BY BlankForm DEF Blank, Forms
  <2> HIDE DEF h
  <2>2. Beside(h, nr, lost[e]) /\ Alone(h, nr, lost[e])
    BY <2>1, PlainForm
  <2>3. \A s \in Signups : nr[s] = 0 /\ form[e].shown[s] = 0 /\ form[e].posted[s] = 0
                           => h.shown[s] = 0 /\ h.posted[s] = 0
    BY <2>1, BlankForm DEF Attendees
  <2>4. UNCHANGED <<nr, counter, signup, lost, met>> /\ holder' = holder
        /\ (h.at \in Saving => form[e].at \in Saving)
    BY <1>1, <1>6, <2>1
  <2>5. h \in Forms
    BY <2>1
  <2> QED
    BY ZenonT(40), <1>8, <2>2, <2>3, <2>4, <2>5, EditorStep
<1> QED
  BY <1>4, <1>7, <1>8

LEMMA SaveEventReorder ==
  ASSUME ReorderInv, NEW e \in Editors, SaveEvent(e)
  PROVE  ReorderInv'
<1> DEFINE f == form[e]
<1>1. /\ UNCHANGED <<nr, counter, signup, lost, met>> /\ f.at = "posted" /\ f \in Forms
      /\ nr \in Numbers /\ Distinct(nr) /\ form \in [Editors -> Forms]
      /\ Beside(f, nr, lost[e]) /\ (e \notin met => Alone(f, nr, lost[e]))
      /\ holder = None /\ holder' = e
  BY DEF SaveEvent, history, ReorderInv, ReorderTypes, FormInv
<1>2. On(f) = Rows(e)
  BY DEF On, Rows
<1>3. CASE f.moved
  <2> DEFINE listed == Only(nr, Rows(e))
             g == [f EXCEPT !.at = "listed", !.listed = listed]
  <2>1. form' = [form EXCEPT ![e] = g]
    BY <1>3 DEF SaveEvent
  <2>2. listed \in Numbers
    <3>1. \A i \in Attendees : nr[i] \in Nat
      BY <1>1 DEF Numbers
    <3> QED
      BY <3>1 DEF Only, Numbers
  <2> HIDE DEF listed
  <2>3. /\ g \in Forms /\ SameSent(f, g) /\ g.at = "listed" /\ g.listed = listed
        /\ g.locked = f.locked /\ g.work = f.work
    BY <1>1, <2>2 DEF Forms, SameSent, Saving
  <2>4. g.listed = Only(nr, On(f))
    BY <1>2, <2>3 DEF listed
  <2> HIDE DEF g, f
  <2>5. Beside(g, nr, lost[e]) /\ (Alone(f, nr, lost[e]) => Alone(g, nr, lost[e]))
    BY <1>1, <2>3, <2>4, ListedForm
  <2>6. \A s \in Signups : nr[s] = 0 /\ form[e].shown[s] = 0 /\ form[e].posted[s] = 0
                           => g.shown[s] = 0 /\ g.posted[s] = 0
    BY <2>3 DEF SameSent, f
  <2>7. UNCHANGED <<nr, counter, signup, lost, met>> /\ g \in Forms
        /\ Beside(g, nr, lost[e]) /\ (e \notin met => Alone(g, nr, lost[e]))
    BY <1>1, <2>3, <2>5
  <2> QED
    BY <1>1, <2>1, <2>6, <2>7, EditorStep
<1>4. CASE ~f.moved
  <2> DEFINE s == Saves(f)
             g == [f EXCEPT !.at = "saving", !.todo = s]
  <2>1. form' = [form EXCEPT ![e] = g]
    BY <1>4 DEF SaveEvent
  <2> HIDE DEF s
  <2>2. /\ SameSent(f, g) /\ g.at = "saving" /\ g.todo = s /\ g.numbers = f.numbers
        /\ g.locked = f.locked /\ g.work = f.work
    BY <1>1 DEF Forms, SameSent
  <2>3. s = Saves(f)
    BY DEF s
  <2> HIDE DEF g, f
  <2>4. /\ Beside(g, nr, lost[e]) /\ (Alone(f, nr, lost[e]) => Alone(g, nr, lost[e]))
        /\ g.todo \in Seq(Writes)
    BY <1>1, <1>4, <2>2, <2>3, SaveAsIsForm
  <2>5. g \in Forms
    <3>1. s \in Seq(Writes)
      BY <2>2, <2>4
    <3> QED
      BY <1>1, <3>1 DEF Forms, Saving, g
  <2>6. \A t \in Signups : nr[t] = 0 /\ form[e].shown[t] = 0 /\ form[e].posted[t] = 0
                           => g.shown[t] = 0 /\ g.posted[t] = 0
    BY <2>2 DEF SameSent, f
  <2>7. UNCHANGED <<nr, counter, signup, lost, met>> /\ g \in Forms
        /\ Beside(g, nr, lost[e]) /\ (e \notin met => Alone(g, nr, lost[e]))
    BY <1>1, <2>4, <2>5
  <2> QED
    BY <1>1, <2>1, <2>6, <2>7, EditorStep
<1> QED
  BY <1>3, <1>4

\* A step of a transaction that keeps the lock.
LEMMA SaveStep ==
  ASSUME ReorderInv, NEW e \in Editors, UNCHANGED <<nr, counter, holder, signup, lost, met>>,
         form[e].at \in Saving, NEW g \in Forms, form' = [form EXCEPT ![e] = g], SameSent(form[e], g),
         Beside(g, nr, lost[e]), Alone(form[e], nr, lost[e]) => Alone(g, nr, lost[e])
  PROVE  ReorderInv'
<1>1. \A s \in Signups : nr[s] = 0 /\ form[e].shown[s] = 0 /\ form[e].posted[s] = 0
                         => g.shown[s] = 0 /\ g.posted[s] = 0
  BY DEF SameSent
<1>2. UNCHANGED <<nr, counter, signup, lost, met>> /\ holder' = holder
      /\ (g.at \in Saving => form[e].at \in Saving)
  OBVIOUS
<1>3. e \notin met => Alone(g, nr, lost[e])
  BY DEF ReorderInv, FormInv
<1> QED
  BY <1>1, <1>2, <1>3, EditorStep

LEMMA ShiftReorder ==
  ASSUME ReorderInv, NEW e \in Editors, Shift(e)
  PROVE  ReorderInv'
<1> DEFINE f == form[e]
           rows == Present(f.listed)
           base == BandBase(f)
           band == [i \in rows |-> base + 10 * Cardinality({j \in rows : f.listed[j] < f.listed[i]})]
           s == Each(rows, f.listed, "shift", band)
           g == [f EXCEPT !.at = "shifting", !.todo = s]
<1>1. /\ UNCHANGED <<nr, counter, holder, signup, lost, met>> /\ f.at = "listed" /\ f \in Forms
      /\ nr \in Numbers /\ form \in [Editors -> Forms] /\ Beside(f, nr, lost[e])
  BY DEF Shift, history, ReorderInv, ReorderTypes, FormInv
<1>2. form' = [form EXCEPT ![e] = g]
  <2>1. form' = [form EXCEPT ![e].at = "shifting", ![e].todo = s]
    BY DEF Shift
  <2> HIDE DEF s
  <2> QED
    BY <1>1, <2>1
<1>3. base \in Nat /\ Above(f, nr, base)
  <2>1. /\ nr \in [Attendees -> Nat] /\ \A i \in Attendees : f.posted[i] \in Nat
    BY <1>1, FormParts DEF Numbers
  <2> QED
    BY <2>1, BandBaseIs DEF Above
<1>4. \A i \in rows : band[i] = base + 10 * Rank(rows, f.listed, i)
  BY DEF Rank, Before
<1> HIDE DEF base, s
<1>5. /\ SameSent(f, g) /\ g.at = "shifting" /\ g.todo = s /\ g.listed = f.listed
      /\ g.locked = f.locked /\ g.work = f.work
  BY <1>1 DEF Forms, SameSent
<1>6. g.todo = Each(Present(f.listed), f.listed, "shift", band)
  BY <1>5 DEF s
<1> HIDE DEF g, f, band
<1>7. /\ Beside(g, nr, lost[e]) /\ (Alone(f, nr, lost[e]) => Alone(g, nr, lost[e]))
      /\ g.todo \in Seq(Writes)
  BY <1>1, <1>3, <1>4, <1>5, <1>6, ShiftForm
<1>8. g \in Forms
  <2>1. s \in Seq(Writes)
    BY <1>5, <1>7
  <2> QED
    BY <1>1, <2>1 DEF Forms, Saving, g
<1>9. form[e].at \in Saving
  BY <1>1 DEF Saving, f
<1>10. form' = [form EXCEPT ![e] = g] /\ SameSent(form[e], g)
       /\ Beside(g, nr, lost[e]) /\ (Alone(form[e], nr, lost[e]) => Alone(g, nr, lost[e]))
  BY <1>2, <1>5, <1>7 DEF f
<1> QED
  BY <1>1, <1>8, <1>9, <1>10, SaveStep

LEMMA ReadTakenReorder ==
  ASSUME ReorderInv, NEW e \in Editors, ReadTaken(e)
  PROVE  ReorderInv'
<1> DEFINE f == form[e]
           t == Taken(f)
           s == Each(WillSave(f), f.shown, "number", f.posted)
           g == [f EXCEPT !.at = "numbering", !.taken = t, !.todo = s]
<1>1. /\ UNCHANGED <<nr, counter, holder, signup, lost, met>> /\ f.at = "shifting" /\ f.todo = <<>>
      /\ f \in Forms /\ nr \in Numbers /\ form \in [Editors -> Forms] /\ Beside(f, nr, lost[e])
  BY DEF ReadTaken, history, ReorderInv, ReorderTypes, FormInv
<1>2. form' = [form EXCEPT ![e] = g]
  <2>1. form' = [form EXCEPT ![e].at = "numbering", ![e].taken = t, ![e].todo = s]
    BY DEF ReadTaken
  <2> HIDE DEF s, t
  <2> QED
    BY <1>1, <2>1
<1> HIDE DEF s, t
<1>3. /\ SameSent(f, g) /\ g.at = "numbering" /\ g.todo = s /\ g.taken = t /\ g.listed = f.listed
      /\ g.locked = f.locked /\ g.work = f.work
  BY <1>1 DEF Forms, SameSent
<1>4. g.taken = Taken(f) /\ g.todo = Each(WillSave(f), f.shown, "number", f.posted)
  BY <1>3 DEF s, t
<1> HIDE DEF g, f
<1>5. /\ Beside(g, nr, lost[e]) /\ (Alone(f, nr, lost[e]) => Alone(g, nr, lost[e]))
      /\ g.todo \in Seq(Writes) /\ g.taken \subseteq Nat
  BY <1>1, <1>3, <1>4, ReadTakenForm
<1>6. g \in Forms
  <2>1. s \in Seq(Writes) /\ t \subseteq Nat
    BY <1>3, <1>5
  <2> QED
    BY <1>1, <2>1 DEF Forms, Saving, g
<1>7. form[e].at \in Saving
  BY <1>1 DEF Saving, f
<1>8. form' = [form EXCEPT ![e] = g] /\ SameSent(form[e], g)
      /\ Beside(g, nr, lost[e]) /\ (Alone(form[e], nr, lost[e]) => Alone(g, nr, lost[e]))
  BY <1>2, <1>3, <1>5 DEF f
<1> QED
  BY <1>1, <1>6, <1>7, <1>8, SaveStep

LEMMA NumberReorder ==
  ASSUME ReorderInv, NEW e \in Editors, Number(e)
  PROVE  ReorderInv'
<1> DEFINE f == form[e]
           w == Head(f.todo)
           clash == w.nr \in f.taken
           first == NextNr(f.counter, Highest(View(f)))
           x == IF clash THEN FreeNr(first, f.taken) ELSE w.nr
           c == IF clash THEN x ELSE f.counter
           numbers == [f.numbers EXCEPT ![w.row] = x]
           t == f.taken \cup {x}
           s == Tail(f.todo)
           g == [f EXCEPT !.numbers = numbers, !.taken = t, !.counter = c, !.todo = s]
<1>1. /\ UNCHANGED <<nr, counter, holder, signup, lost, met>> /\ f.at = "numbering" /\ f.todo # <<>>
      /\ f \in Forms /\ nr \in Numbers /\ form \in [Editors -> Forms] /\ Beside(f, nr, lost[e])
  BY DEF Number, history, ReorderInv, ReorderTypes, FormInv
<1>2. form' = [form EXCEPT ![e] = g]
  <2>1. form' = [form EXCEPT ![e].numbers[w.row] = x, ![e].taken = @ \cup {x},
                             ![e].counter = IF clash THEN x ELSE @, ![e].todo = Tail(@)]
    BY DEF Number
  <2> HIDE DEF w, clash, x
  <2> QED
    BY <1>1, <2>1
<1>3. f.todo \in Seq(Writes) /\ f.taken \subseteq Nat /\ f.counter \in Nat /\ f.numbers \in Numbers
  BY <1>1, FormParts
<1>4. w = f.todo[1] /\ 1 \in DOMAIN f.todo /\ w.row \in Attendees /\ w.nr \in Nat /\ s \in Seq(Writes)
  <2> DEFINE z == f.todo
  <2>1. z \in Seq(Writes) /\ z # <<>>
    BY <1>1, <1>3
  <2> HIDE DEF z
  <2>2. Head(z) = z[1] /\ 1 \in DOMAIN z /\ z[1].row \in Attendees /\ z[1].nr \in Nat /\ Tail(z) \in Seq(Writes)
    BY <2>1, TailIs
  <2> QED
    BY <2>2 DEF z
<1>5. Numbering(f, nr, lost[e])
  BY <1>1 DEF Beside
<1>6. w.nr = f.posted[w.row]
  BY <1>4, <1>5 DEF Numbering
<1>7. View(f) = Seen(f, nr)
  BY DEF View, Seen
<1>8. \A j \in Attendees : View(f)[j] \in Nat
  BY <1>1, FormParts DEF View, Numbers
<1>9. Highest(View(f)) \in Nat /\ \A j \in Attendees : View(f)[j] <= Highest(View(f))
  <2> DEFINE v == View(f)
  <2>1. \A j \in Attendees : v[j] \in Nat
    BY <1>8
  <2> HIDE DEF v
  <2>2. Highest(v) \in Nat /\ \A j \in Attendees : v[j] <= Highest(v)
    BY <2>1, HighestIs
  <2> QED
    BY <2>2 DEF v
<1>10. first \in Nat /\ first > Highest(View(f))
  <2> DEFINE h == Highest(View(f))
  <2>1. h \in Nat
    BY <1>9
  <2> HIDE DEF h
  <2>2. NextNr(f.counter, h) \in Nat /\ NextNr(f.counter, h) > h
    BY <1>3, <2>1, NextNrIs
  <2> QED
    BY <2>2 DEF h
<1> HIDE DEF first
<1>11. clash => x \in Nat /\ x \notin f.taken /\ x >= first
  <2>1. IsFiniteSet(f.taken)
    BY <1>5 DEF Numbering, TakenBy
  <2>2. /\ FreeNr(first, f.taken) \in Nat /\ FreeNr(first, f.taken) >= first
        /\ FreeNr(first, f.taken) \notin f.taken
    BY <1>10, <2>1, FreeNrIs
  <2> QED
    BY <2>2
<1>12. x \in Nat /\ x \notin f.taken
  BY <1>4, <1>11
<1>13. \/ x = f.posted[w.row]
       \/ f.posted[w.row] \in f.taken /\ \A j \in Attendees : Seen(f, nr)[j] < x
  <2>1. CASE clash
    <3>1. \A j \in Attendees : View(f)[j] < x
      <4> HIDE DEF x, f
      <4> QED
        BY <1>8, <1>9, <1>10, <1>11, <2>1
    <3> QED
      BY <1>6, <1>7, <2>1, <3>1
  <2>2. CASE ~clash
    BY <1>6, <2>2
  <2> QED
    BY <2>1, <2>2
<1>14. c \in Nat
  BY <1>3, <1>12
<1>15. numbers \in Numbers /\ t \subseteq Nat
  <2> HIDE DEF x, w
  <2> QED
    BY <1>3, <1>4, <1>12 DEF Numbers
<1> DEFINE row == w.row
<1>16. numbers = [f.numbers EXCEPT ![row] = x] /\ t = f.taken \cup {x} /\ s = Tail(f.todo)
       /\ row = Head(f.todo).row
  OBVIOUS
<1> HIDE DEF numbers, t, c, s, x, row, w, clash
<1>17. /\ g \in Forms /\ SameSent(f, g) /\ g.at = "numbering" /\ g.listed = f.listed
       /\ g.locked = f.locked /\ g.work = f.work
       /\ g.numbers = numbers /\ g.taken = t /\ g.todo = s
  BY <1>1, <1>4, <1>14, <1>15 DEF Forms, SameSent
<1>18. /\ g.numbers = [f.numbers EXCEPT ![row] = x] /\ g.taken = f.taken \cup {x}
       /\ g.todo = Tail(f.todo)
  BY <1>16, <1>17
<1>19. \/ x = f.posted[row]
       \/ f.posted[row] \in f.taken /\ \A j \in Attendees : Seen(f, nr)[j] < x
  BY <1>13 DEF row
<1> HIDE DEF g, f
<1>20. Beside(g, nr, lost[e]) /\ (Alone(f, nr, lost[e]) => Alone(g, nr, lost[e]))
  <2>1. /\ f \in Forms /\ nr \in Numbers /\ Beside(f, nr, lost[e])
        /\ f.at = "numbering" /\ f.todo # <<>> /\ row = Head(f.todo).row /\ x \in Nat /\ x \notin f.taken
    BY <1>1, <1>12, <1>16
  <2>2. CASE x = f.posted[row]
    BY <1>17, <1>18, <2>1, <2>2, NumberForm
  <2>3. CASE f.posted[row] \in f.taken /\ \A j \in Attendees : Seen(f, nr)[j] < x
    BY <1>17, <1>18, <2>1, <2>3, NumberForm
  <2> QED
    BY <1>19, <2>2, <2>3
<1>21. form[e].at \in Saving
  BY <1>1 DEF Saving, f
<1>22. form' = [form EXCEPT ![e] = g] /\ SameSent(form[e], g) /\ g \in Forms
       /\ Beside(g, nr, lost[e]) /\ (Alone(form[e], nr, lost[e]) => Alone(g, nr, lost[e]))
  BY <1>2, <1>17, <1>20 DEF f
<1> QED
  BY <1>1, <1>21, <1>22, SaveStep

LEMMA ResolveReorder ==
  ASSUME ReorderInv, NEW e \in Editors, Resolve(e)
  PROVE  ReorderInv'
<1> DEFINE f == form[e]
           s == Saves(f) \o Restores(f)
           g == [f EXCEPT !.at = "saving", !.todo = s]
<1>1. /\ UNCHANGED <<nr, counter, holder, signup, lost, met>> /\ f.at = "numbering" /\ f.todo = <<>>
      /\ f \in Forms /\ nr \in Numbers /\ Distinct(nr) /\ form \in [Editors -> Forms]
      /\ Beside(f, nr, lost[e])
  BY DEF Resolve, history, ReorderInv, ReorderTypes, FormInv
<1>2. form' = [form EXCEPT ![e] = g]
  <2>1. form' = [form EXCEPT ![e].at = "saving", ![e].todo = s]
    BY DEF Resolve
  <2> HIDE DEF s
  <2> QED
    BY <1>1, <2>1
<1> HIDE DEF s
<1>3. /\ SameSent(f, g) /\ g.at = "saving" /\ g.todo = s /\ g.numbers = f.numbers
      /\ g.locked = f.locked /\ g.work = f.work
  BY <1>1 DEF Forms, SameSent
<1>4. g.todo = Saves(f) \o Restores(f)
  BY <1>3 DEF s
<1> HIDE DEF g, f
<1>5. /\ Beside(g, nr, lost[e]) /\ (Alone(f, nr, lost[e]) => Alone(g, nr, lost[e]))
      /\ g.todo \in Seq(Writes)
  BY <1>1, <1>3, <1>4, ResolveForm
<1>6. g \in Forms
  <2>1. s \in Seq(Writes)
    BY <1>3, <1>5
  <2> QED
    BY <1>1, <2>1 DEF Forms, Saving, g
<1>7. form[e].at \in Saving
  BY <1>1 DEF Saving, f
<1>8. form' = [form EXCEPT ![e] = g] /\ SameSent(form[e], g)
      /\ Beside(g, nr, lost[e]) /\ (Alone(form[e], nr, lost[e]) => Alone(g, nr, lost[e]))
  BY <1>2, <1>3, <1>5 DEF f
<1> QED
  BY <1>1, <1>6, <1>7, <1>8, SaveStep

LEMMA WriteRowReorder ==
  ASSUME ReorderInv, NEW e \in Editors, WriteRow(e)
  PROVE  ReorderInv'
<1> DEFINE f == form[e]
           w == Head(f.todo)
           gone == w.put # "save" /\ View(f)[w.row] = 0
           clash == w.nr > 0 /\ ~gone /\ \E i \in Attendees \ {w.row} : View(f)[i] = w.nr
           work == [f.work EXCEPT ![w.row] = w.nr]
           locked == f.locked \cup {w.row}
           s == Tail(f.todo)
           failed == [Blank EXCEPT !.at = "failed", !.posted = f.posted]
           skipped == [f EXCEPT !.todo = s]
           put == [f EXCEPT !.work = work, !.locked = locked, !.todo = s]
<1>1. /\ UNCHANGED <<nr, counter, signup, lost, met>> /\ f.at \in {"shifting", "saving"} /\ f.todo # <<>>
      /\ f \in Forms /\ nr \in Numbers /\ form \in [Editors -> Forms] /\ Beside(f, nr, lost[e])
      /\ (e \notin met => Alone(f, nr, lost[e]))
  BY DEF WriteRow, history, ReorderInv, ReorderTypes, FormInv
<1>2. /\ clash => form' = [form EXCEPT ![e] = failed] /\ holder' = None
      /\ ~clash /\ gone => form' = [form EXCEPT ![e] = skipped] /\ holder' = holder
      /\ ~clash /\ ~gone => form' = [form EXCEPT ![e] = put] /\ holder' = holder
  <2>1. /\ form' = [form EXCEPT ![e] =
             IF clash THEN [Blank EXCEPT !.at = "failed", !.posted = f.posted]
             ELSE IF gone THEN [f EXCEPT !.todo = Tail(@)]
             ELSE [f EXCEPT !.work[w.row] = w.nr, !.locked = @ \cup {w.row}, !.todo = Tail(@)]]
        /\ holder' = IF clash THEN None ELSE holder
    BY DEF WriteRow
  <2>2. [f EXCEPT !.todo = Tail(@)] = skipped
    BY <1>1 DEF Forms
  <2>3. [f EXCEPT !.work[w.row] = w.nr, !.locked = @ \cup {w.row}, !.todo = Tail(@)] = put
    BY <1>1 DEF Forms
  <2> HIDE DEF clash, gone, skipped, put
  <2> QED
    BY <2>1, <2>2, <2>3
<1>3. f.todo \in Seq(Writes) /\ f.work \in Numbers /\ f.locked \subseteq Attendees /\ f.posted \in Numbers
  BY <1>1, FormParts
<1>4. w = f.todo[1] /\ w \in Writes /\ w.row \in Attendees /\ w.nr \in Nat /\ s \in Seq(Writes)
  <2> DEFINE z == f.todo
  <2>1. z \in Seq(Writes) /\ z # <<>>
    BY <1>1, <1>3
  <2> HIDE DEF z
  <2>2. /\ Head(z) = z[1] /\ z[1] \in Writes /\ z[1].row \in Attendees /\ z[1].nr \in Nat
        /\ Tail(z) \in Seq(Writes)
    BY <2>1, TailIs
  <2> QED
    BY <2>2 DEF z
<1>5. View(f) = Seen(f, nr)
  BY DEF View, Seen
<1>6. /\ gone <=> w.put # "save" /\ Seen(f, nr)[w.row] = 0
      /\ clash <=> w.nr > 0 /\ ~gone /\ \E i \in Attendees \ {w.row} : Seen(f, nr)[i] = w.nr
  BY <1>5
<1>7. work \in Numbers /\ locked \subseteq Attendees
  <2> HIDE DEF w
  <2> QED
    BY <1>3, <1>4 DEF Numbers
<1>8. form[e].at \in Saving /\ "failed" \notin Saving
  BY <1>1 DEF Saving
<1>9. f.at = "shifting" => w.put = "shift" /\ \A i \in Attendees : Seen(f, nr)[i] # w.nr
  BY <1>1, <1>4, ShiftFree DEF Beside
<1> DEFINE k == s
           x == work
           h == locked
<1>10. k = Tail(f.todo) /\ x = [f.work EXCEPT ![w.row] = w.nr] /\ h = f.locked \cup {w.row}
  OBVIOUS
<1> HIDE DEF w, gone, clash, s, work, locked
<1>11. CASE clash
  <2>1. f.at = "saving"
    BY <1>1, <1>6, <1>9, <1>11
  <2>2. /\ failed.at = "failed" /\ failed.shown = Nothing /\ failed.locked = {} /\ failed.posted = f.posted
        /\ failed \in Forms
    BY <1>3, BlankForm DEF Blank, Forms
  <2>3. ASSUME e \notin met PROVE On(f) \cap lost[e] # {}
    <3>1. PICK i \in Attendees \ {w.row} : Seen(f, nr)[i] = w.nr
      BY <1>6, <1>11
    <3>2. w.nr > 0 /\ (w.put = "save" \/ Seen(f, nr)[w.row] # 0) /\ Alone(f, nr, lost[e])
      BY <1>1, <1>6, <1>11, <2>3
    <3> HIDE DEF f
    <3> QED
      BY <1>1, <1>4, <2>1, <3>1, <3>2, ClashIsLost
  <2>4. On(failed) = On(f)
    BY <2>2 DEF On
  <2> HIDE DEF f, failed
  <2>5. Beside(failed, nr, lost[e]) /\ (e \notin met => Alone(failed, nr, lost[e]))
    <3>1. Distinct(failed.shown)
      BY <2>2, BlankForm DEF Distinct
    <3>2. failed.at \notin Saving \cup {"posted", "idle", "open", "listed", "shifting", "numbering", "saving"}
      BY <2>2 DEF Saving
    <3> QED
      BY <2>2, <2>3, <2>4, <3>1, <3>2 DEF Beside, Alone
  <2>6. \A t \in Signups : nr[t] = 0 /\ form[e].shown[t] = 0 /\ form[e].posted[t] = 0
                           => failed.shown[t] = 0 /\ failed.posted[t] = 0
    BY <2>2, BlankForm DEF f, Attendees
  <2>7. form' = [form EXCEPT ![e] = failed] /\ holder' = None /\ failed.at \notin Saving
        /\ UNCHANGED <<nr, counter, signup, lost, met>> /\ failed \in Forms
    BY <1>1, <1>2, <1>8, <1>11, <2>2
  <2> QED
    BY <1>8, <2>5, <2>6, <2>7, EditorStep
<1>12. ASSUME ~clash, NEW g \in Forms, form' = [form EXCEPT ![e] = g], holder' = holder,
              SameSent(f, g), g.at = f.at, g.listed = f.listed, g.numbers = f.numbers,
              g.todo = Tail(f.todo),
              \/ gone /\ g.work = f.work /\ g.locked = f.locked
              \/ ~gone /\ g.work = [f.work EXCEPT ![w.row] = w.nr] /\ g.locked = f.locked \cup {w.row}
       PROVE  ReorderInv'
  <2>1. Beside(g, nr, lost[e]) /\ (Alone(f, nr, lost[e]) => Alone(g, nr, lost[e]))
    <3>1. CASE f.at = "shifting"
      <4>1. \/ Seen(f, nr)[w.row] = 0 /\ g.work = f.work /\ g.locked = f.locked
            \/ /\ Seen(f, nr)[w.row] # 0
               /\ g.work = [f.work EXCEPT ![w.row] = w.nr] /\ g.locked = f.locked \cup {w.row}
        BY <1>6, <1>9, <1>12, <3>1
      <4>2. /\ f \in Forms /\ nr \in Numbers /\ Beside(f, nr, lost[e]) /\ f.at = "shifting" /\ f.todo # <<>>
            /\ g.at = "shifting" /\ g.listed = f.listed /\ g.todo = Tail(f.todo)
            /\ SameSent(f, g) /\ w = f.todo[1]
        BY <1>1, <1>4, <1>12, <3>1
      <4> HIDE DEF f
      <4>3. CASE Seen(f, nr)[w.row] = 0 /\ g.work = f.work /\ g.locked = f.locked
        BY <4>2, <4>3, ShiftRowForm
      <4>4. CASE /\ Seen(f, nr)[w.row] # 0
                 /\ g.work = [f.work EXCEPT ![w.row] = w.nr] /\ g.locked = f.locked \cup {w.row}
        BY <4>2, <4>4, ShiftRowForm
      <4> QED
        BY <4>1, <4>3, <4>4
    <3>2. CASE f.at = "saving"
      <4>1. w.nr = 0 \/ (w.put # "save" /\ Seen(f, nr)[w.row] = 0)
                     \/ \A i \in Attendees \ {w.row} : Seen(f, nr)[i] # w.nr
        BY <1>4, <1>6, <1>12
      <4>2. \/ /\ w.put # "save" /\ Seen(f, nr)[w.row] = 0 /\ g.work = f.work /\ g.locked = f.locked
            \/ /\ w.put = "save" \/ Seen(f, nr)[w.row] # 0
               /\ g.work = [f.work EXCEPT ![w.row] = w.nr] /\ g.locked = f.locked \cup {w.row}
        BY <1>6, <1>12
      <4>3. /\ f \in Forms /\ nr \in Numbers /\ Beside(f, nr, lost[e]) /\ f.at = "saving" /\ f.todo # <<>>
            /\ g.at = "saving" /\ g.numbers = f.numbers /\ g.todo = Tail(f.todo)
            /\ SameSent(f, g) /\ w = f.todo[1]
        BY <1>1, <1>4, <1>12, <3>2
      <4> HIDE DEF f
      <4>4. CASE w.put # "save" /\ Seen(f, nr)[w.row] = 0 /\ g.work = f.work /\ g.locked = f.locked
        BY <4>1, <4>3, <4>4, SaveRowForm
      <4>5. CASE /\ w.put = "save" \/ Seen(f, nr)[w.row] # 0
                 /\ g.work = [f.work EXCEPT ![w.row] = w.nr] /\ g.locked = f.locked \cup {w.row}
        BY <4>1, <4>3, <4>5, SaveRowForm
      <4> QED
        BY <4>2, <4>4, <4>5
    <3> QED
      BY <1>1, <3>1, <3>2
  <2>2. UNCHANGED <<nr, counter, holder, signup, lost, met>> /\ SameSent(form[e], g)
        /\ Beside(g, nr, lost[e]) /\ (Alone(form[e], nr, lost[e]) => Alone(g, nr, lost[e]))
    BY <1>1, <1>12, <2>1
  <2> HIDE DEF f
  <2> QED
    BY <1>8, <1>12, <2>2, SaveStep
<1>13. CASE ~clash /\ gone
  <2>1. /\ skipped \in Forms /\ SameSent(f, skipped) /\ skipped.at = f.at /\ skipped.listed = f.listed
        /\ skipped.numbers = f.numbers /\ skipped.todo = s
        /\ skipped.work = f.work /\ skipped.locked = f.locked
    BY <1>1, <1>4 DEF Forms, SameSent
  <2> HIDE DEF skipped, f
  <2> QED
    BY <1>2, <1>10, <1>12, <1>13, <2>1
<1>14. CASE ~clash /\ ~gone
  <2>1. /\ put \in Forms /\ SameSent(f, put) /\ put.at = f.at /\ put.listed = f.listed
        /\ put.numbers = f.numbers /\ put.todo = s /\ put.work = work /\ put.locked = locked
    BY <1>1, <1>4, <1>7 DEF Forms, SameSent
  <2> HIDE DEF put, f
  <2> QED
    BY <1>2, <1>10, <1>12, <1>14, <2>1
<1> QED
  BY <1>11, <1>13, <1>14

\* A commit meets the editors that wait for the lock, and may lose them rows.
LEMMA CommitReorder ==
  ASSUME ReorderInv, NEW e \in Editors, Commit(e)
  PROVE  ReorderInv'
<1> DEFINE f == form[e]
           gone == Present(nr) \ Present(nr')
           g == [Blank EXCEPT !.at = "saved"]
<1>1. /\ UNCHANGED signup /\ f.at = "saving" /\ f.todo = <<>>
      /\ f \in Forms /\ f.work \in Numbers /\ f.counter \in Nat /\ f.locked \subseteq On(f)
      /\ form \in [Editors -> Forms] /\ Written(f, nr) /\ nr \in Numbers
      /\ nr' = View(f) /\ counter' = f.counter /\ holder' = None
      /\ met' = met \cup Waiting /\ lost' = Overtaken(gone)
      /\ form' = [form EXCEPT ![e] = g]
  BY FormParts DEF Commit, ReorderInv, ReorderTypes, FormInv, Beside, Saving, Written
<1>2. View(f) = Seen(f, nr) /\ \A i \in Attendees : nr'[i] = IF i \in f.locked THEN f.work[i] ELSE nr[i]
  BY <1>1 DEF View, Seen
<1>3. form'[e] = g /\ \A h \in Editors : h # e => form'[h] = form[h]
  BY <1>1
<1>4. /\ g.at = "saved" /\ g.shown = Nothing /\ g.posted = Nothing /\ g.locked = {}
      /\ g \in Forms /\ \A i \in Attendees : Nothing[i] = 0
  BY BlankForm DEF Blank, Forms
<1>5. \A h \in Editors :
        lost'[h] = IF form[h].at \in Saving \cup {"posted"} THEN lost[h] \cup gone ELSE lost[h]
  <2> HIDE DEF gone
  <2> QED
    BY <1>1 DEF Overtaken
<1> HIDE DEF g
<1>6. ReorderTypes'
  <2>1. nr' \in Numbers
    BY <1>1 DEF View, Numbers
  <2>2. form' \in [Editors -> Forms]
    BY <1>1, <1>4
  <2>3. lost' \in [Editors -> SUBSET Attendees]
    <3>1. gone \in SUBSET Attendees
      BY DEF Present
    <3> HIDE DEF gone
    <3> QED
      BY <1>1, <3>1 DEF Overtaken, ReorderInv, ReorderTypes
  <2> QED
    BY <1>1, <2>1, <2>2, <2>3 DEF ReorderInv, ReorderTypes
<1>7. Distinct(nr)'
  <2>1. Distinct(nr')
    BY <1>1, <1>2 DEF Written
  <2> QED
    BY <2>1 DEF Distinct
<1>8. SignupRows'
  <2>1. ASSUME NEW s \in Signups, signup[s].at # "done"
        PROVE  nr'[s] = 0 /\ \A h \in Editors : form'[h].shown[s] = 0 /\ form'[h].posted[s] = 0
    <3>1. s \in Attendees /\ nr[s] = 0 /\ \A h \in Editors : form[h].shown[s] = 0 /\ form[h].posted[s] = 0
      BY <2>1 DEF ReorderInv, SignupRows, Attendees
    <3>2. nr'[s] = 0
      <4>1. s \notin On(f)
        BY <3>1 DEF On, Present
      <4> QED
        BY <1>1, <1>2, <3>1, <4>1
    <3>3. ASSUME NEW h \in Editors PROVE form'[h].shown[s] = 0 /\ form'[h].posted[s] = 0
      BY <1>3, <1>4, <3>1
    <3> QED
      BY <3>2, <3>3
  <2> QED
    BY <1>1, <2>1 DEF SignupRows
<1>9. /\ \A h \in Editors : h # e => form[h].at \notin Saving
      /\ \A s \in Signups : signup[s].at # "inserting"
  <2>1. holder = e
    BY <1>1 DEF ReorderInv, Locked, Saving
  <2> QED
    BY <2>1 DEF ReorderInv, Locked
<1>10. Locked'
  <2>1. "saved" \notin Saving
    BY DEF Saving
  <2> QED
    BY <1>1, <1>3, <1>4, <1>9, <2>1 DEF Locked
<1>11. (\A h \in Editors : FormInv(h))'
  <2>1. ASSUME NEW h \in Editors
        PROVE  /\ Beside(form'[h], nr', lost'[h])
               /\ h \notin met' => Alone(form'[h], nr', lost'[h])
    <3>1. CASE h = e
      BY <1>3, <1>4, <3>1, PlainForm
    <3>2. CASE h # e
      <4>1. form'[h] = form[h] /\ form[h].at \notin Saving /\ Beside(form[h], nr, lost[h])
            /\ (h \notin met => Alone(form[h], nr, lost[h]))
        BY <1>3, <1>9, <3>2 DEF ReorderInv, FormInv
      <4>2. CASE form[h].at = "posted"
        <5>1. h \in met' /\ lost'[h] = lost[h] \cup gone
          BY <1>1, <1>5, <4>2 DEF Waiting
        <5>2. Page(form[h], nr, lost[h])
          BY <4>1, <4>2 DEF Beside
        <5>3. ASSUME NEW i \in On(form[h]), nr'[i] = 0 PROVE i \in lost'[h]
          <6>1. i \in Attendees /\ nr[i] \in Nat
            BY <1>1 DEF On, Present, Numbers
          <6>2. CASE nr[i] = 0
            BY <5>1, <5>2, <6>2 DEF Page
          <6>3. CASE nr[i] # 0
            BY <5>1, <5>3, <6>1, <6>3 DEF Present
          <6> QED
            BY <6>2, <6>3
        <5>4. Page(form[h], nr', lost'[h])
          BY <5>2, <5>3 DEF Page
        <5>5. "posted" \notin Saving \cup {"idle", "open", "listed", "shifting", "numbering", "saving"}
          BY DEF Saving
        <5>6. Beside(form[h], nr', lost'[h])
          BY <4>1, <4>2, <5>4, <5>5 DEF Beside
        <5> QED
          BY <4>1, <5>1, <5>6
      <4>3. CASE form[h].at # "posted"
        <5>1. lost'[h] = lost[h] /\ (h \in met => h \in met') /\ form[h].at \notin Saving \cup {"posted"}
          BY <1>1, <1>5, <4>1, <4>3
        <5>2. /\ Beside(form[h], nr, lost[h]) => Beside(form[h], nr', lost[h])
              /\ Alone(form[h], nr, lost[h]) => Alone(form[h], nr', lost[h])
          BY <5>1, FormElsewhere
        <5> QED
          BY <4>1, <5>1, <5>2
      <4> QED
        BY <4>2, <4>3
    <3> QED
      BY <3>1, <3>2
  <2> QED
    BY <2>1, FormsInv
<1> QED
  BY <1>6, <1>7, <1>8, <1>10, <1>11 DEF ReorderInv

-----------------------------------------------------------------------------
(* The theorems.                                                           *)

LEMMA ReorderStutters == ReorderInv /\ UNCHANGED vars => ReorderInv'
<1> SUFFICES ASSUME ReorderInv, UNCHANGED vars PROVE ReorderInv'
  OBVIOUS
<1>1. UNCHANGED <<nr, counter, holder, signup, form, met, lost>>
  BY DEF vars, history
<1>2. ReorderTypes' /\ Distinct(nr)' /\ SignupRows' /\ Locked'
  BY <1>1 DEF ReorderInv, ReorderTypes, Distinct, SignupRows, Locked
<1>3. (\A e \in Editors : FormInv(e))'
  BY <1>1, FormsInv DEF ReorderInv, FormInv
<1> QED
  BY <1>2, <1>3 DEF ReorderInv

\* The invariant of the reorder: a save that met no other one leads its rows to
\* numbers nobody else has or will be given, whoever signs up or is deleted
\* between its statements.
THEOREM ReorderInvariant == Spec => []ReorderInv
<1>1. Init => ReorderInv
  BY InitReorder
<1>2. ReorderInv /\ [Next]_vars => ReorderInv'
  <2> SUFFICES ASSUME ReorderInv, [Next]_vars PROVE ReorderInv'
    OBVIOUS
  <2>1. ASSUME NEW s \in Signups, AskNr(s) \/ Reserve(s) \/ Insert(s) PROVE ReorderInv'
    BY <2>1, AskNrReorder, ReserveReorder, InsertReorder
  <2>2. ASSUME NEW i \in Attendees, Delete(i) PROVE ReorderInv'
    BY <2>2, DeleteReorder
  <2>3. ASSUME NEW e \in Editors, Open(e) \/ Post(e) \/ SaveEvent(e) \/ Shift(e) \/ ReadTaken(e)
        PROVE  ReorderInv'
    BY <2>3, OpenReorder, PostReorder, SaveEventReorder, ShiftReorder, ReadTakenReorder
  <2>4. ASSUME NEW e \in Editors, Number(e) \/ Resolve(e) \/ WriteRow(e) \/ Commit(e)
        PROVE  ReorderInv'
    BY <2>4, NumberReorder, ResolveReorder, WriteRowReorder, CommitReorder
  <2>5. CASE UNCHANGED vars
    BY <2>5, ReorderStutters
  <2> QED
    BY <2>1, <2>2, <2>3, <2>4, <2>5 DEF Next
<1> QED
  BY <1>1, <1>2, PTL DEF Spec

\* Signups alone never make the save of a reordered page fail on the unique
\* index of the numbers, whatever they take while the page is open.
THEOREM ReorderFailsOnlyByOverlap == Spec => []FailsOnlyByOverlap
<1>1. ReorderInv => FailsOnlyByOverlap
  <2> SUFFICES ASSUME ReorderInv, NEW e \in Editors, form[e].at = "failed", e \notin met
               PROVE  lost[e] \cap Rows(e) # {}
    BY DEF FailsOnlyByOverlap
  <2>1. On(form[e]) \cap lost[e] # {}
    BY DEF ReorderInv, FormInv, Alone
  <2> QED
    BY <2>1 DEF On, Rows
<1> QED
  BY <1>1, ReorderInvariant, PTL

\* A commit, and what it makes of each row.
LEMMA CommitIs ==
  ASSUME ReorderInv, NEW e \in Editors, Commit(e)
  PROVE  /\ form[e].at = "saving" /\ form[e].todo = <<>> /\ form[e] \in Forms
         /\ form'[e].at = "saved"
         /\ Page(form[e], nr, lost[e]) /\ Written(form[e], nr)
         /\ nr' = Seen(form[e], nr)
         /\ Rows(e) = On(form[e]) /\ Rows(e) \subseteq Attendees
<1>1. form[e].at = "saving" /\ form[e].todo = <<>> /\ nr' = View(form[e])
  BY DEF Commit
<1>2. form[e] \in Forms /\ form'[e] = [Blank EXCEPT !.at = "saved"]
  BY DEF Commit, ReorderInv, ReorderTypes
<1>3. form'[e].at = "saved"
  BY <1>2 DEF Blank
<1>4. Page(form[e], nr, lost[e]) /\ Written(form[e], nr)
  BY <1>1 DEF ReorderInv, FormInv, Beside, Saving
<1>5. nr' = Seen(form[e], nr)
  BY <1>1 DEF View, Seen
<1>6. Rows(e) = On(form[e]) /\ Rows(e) \subseteq Attendees
  BY DEF Rows, On, Present
<1> QED
  BY <1>1, <1>2, <1>3, <1>4, <1>5, <1>6

\* One step: a row appears by its signup, or by a save that had lost it.
Returns ==
  \A i \in Attendees : nr[i] = 0 /\ nr'[i] > 0 =>
    \/ i \in Signups /\ signup[i].at = "inserting"
    \/ \E e \in Editors : Commits(e) /\ i \in lost[e] \cap WillSave(form[e])

\* A deleted attendee comes back only by a save that changes the row and whose
\* POST had read it; deletions run beside every statement of the save.
THEOREM ReorderReturnsOnlyByOverlap == Spec => ReturnsOnlyByOverlap
<1>1. ReorderInv /\ [Next]_vars => [Returns]_vars
  <2> SUFFICES ASSUME ReorderInv, Next PROVE Returns
    OBVIOUS
  <2>1. nr \in Numbers /\ \A j \in Attendees : nr[j] \in Nat
    BY DEF ReorderInv, ReorderTypes, Numbers
  <2>2. CASE nr' = nr
    BY <2>1, <2>2 DEF Returns
  <2>3. ASSUME NEW s \in Signups, Insert(s) PROVE Returns
    <3>1. /\ signup[s].at = "inserting"
          /\ nr' = [nr EXCEPT ![s] = signup[s].nr] \/ nr' = nr
      BY <2>3 DEF Insert
    <3>2. \A i \in Attendees : i # s => nr'[i] = nr[i]
      BY <2>1, <3>1 DEF Numbers
    <3>3. \A i \in Attendees : nr[i] = 0 /\ nr'[i] > 0 => i = s
      BY <3>2
    <3> QED
      BY <3>1, <3>3 DEF Returns
  <2>4. ASSUME NEW i \in Attendees, Delete(i) PROVE Returns
    BY <2>1, <2>4 DEF Delete, Returns, Numbers
  <2>5. ASSUME NEW e \in Editors, Commit(e) PROVE Returns
    <3> DEFINE f == form[e]
    <3>1. /\ f.at = "saving" /\ form'[e].at = "saved" /\ f \in Forms
          /\ Page(f, nr, lost[e]) /\ Written(f, nr) /\ nr' = Seen(f, nr)
      BY <2>5, CommitIs
    <3>2. Commits(e)
      BY <3>1 DEF Commits
    <3>3. ASSUME NEW i \in Attendees, nr[i] = 0, nr'[i] > 0 PROVE i \in lost[e] \cap WillSave(f)
      <4>1. nr'[i] = IF i \in f.locked THEN f.work[i] ELSE nr[i]
        BY <3>1 DEF Seen
      <4>2. i \in f.locked /\ f.work[i] > 0
        BY <3>3, <4>1
      <4>3. i \in On(f) /\ i \in WillSave(f)
        BY <3>1, <3>3, <4>2 DEF Written
      <4> QED
        BY <3>1, <3>3, <4>3 DEF Page
    <3> QED
      BY <3>2, <3>3 DEF Returns
  <2>6. ASSUME NEW s \in Signups, AskNr(s) \/ Reserve(s) PROVE nr' = nr
    BY <2>6 DEF AskNr, Reserve
  <2>7. ASSUME NEW e \in Editors, Open(e) \/ Post(e) \/ SaveEvent(e) \/ Shift(e) \/ ReadTaken(e)
                                  \/ Number(e) \/ Resolve(e) \/ WriteRow(e)
        PROVE  nr' = nr
    BY <2>7 DEF Open, Post, SaveEvent, Shift, ReadTaken, Number, Resolve, WriteRow
  <2> QED
    BY <2>2, <2>3, <2>4, <2>5, <2>6, <2>7 DEF Next
<1>2. Spec => [][Returns]_vars
  BY <1>1, ReorderInvariant, PTL DEF Spec
<1> QED
  BY <1>2 DEF ReturnsOnlyByOverlap, Returns

\* No other step takes a form from its saves to "saved".
LEMMA CommitsByCommit ==
  ASSUME ReorderInv, Next, NEW e \in Editors, Commits(e)
  PROVE  Commit(e)
<1>1. form[e].at = "saving" /\ form'[e].at = "saved" /\ form \in [Editors -> Forms] /\ form[e] \in Forms
  BY DEF Commits, ReorderInv, ReorderTypes
<1>2. ASSUME NEW s \in Signups, AskNr(s) \/ Reserve(s) \/ Insert(s) PROVE FALSE
  BY <1>1, <1>2 DEF AskNr, Reserve, Insert
<1>3. ASSUME NEW i \in Attendees, Delete(i) PROVE FALSE
  BY <1>1, <1>3 DEF Delete
<1>4. ASSUME NEW h \in Editors, Open(h) \/ Post(h) \/ SaveEvent(h) \/ Shift(h) \/ ReadTaken(h)
                                \/ Number(h) \/ Resolve(h)
      PROVE  FALSE
  <2>1. form[h].at # "saving" /\ h # e
    BY <1>1, <1>4 DEF Open, Post, SaveEvent, Shift, ReadTaken, Number, Resolve
  <2>2. \E g : form' = [form EXCEPT ![h] = g]
    BY <1>1, <1>4 DEF Open, Post, SaveEvent, Shift, ReadTaken, Number, Resolve
  <2>3. form'[e] = form[e]
    BY <1>1, <2>1, <2>2
  <2> QED
    BY <1>1, <2>3
<1>5. ASSUME NEW h \in Editors, WriteRow(h) PROVE FALSE
  <2> DEFINE f == form[h]
             r == Head(f.todo).row
             x == Head(f.todo).nr
  <2>1. \/ form' = [form EXCEPT ![h] = [Blank EXCEPT !.at = "failed", !.posted = f.posted]]
        \/ form' = [form EXCEPT ![h] = [f EXCEPT !.todo = Tail(@)]]
        \/ form' = [form EXCEPT ![h] = [f EXCEPT !.work[r] = x, !.locked = @ \cup {r}, !.todo = Tail(@)]]
    BY <1>5 DEF WriteRow
  <2>2. CASE h # e
    BY <1>1, <2>1, <2>2
  <2>3. CASE h = e
    <3>1. [Blank EXCEPT !.at = "failed", !.posted = f.posted].at = "failed"
      BY DEF Blank
    <3>2. [f EXCEPT !.todo = Tail(@)].at = "saving"
      BY <1>1, <2>3 DEF Forms
    <3>3. [f EXCEPT !.work[r] = x, !.locked = @ \cup {r}, !.todo = Tail(@)].at = "saving"
      <4> HIDE DEF r, x
      <4> QED
        BY <1>1, <2>3 DEF Forms
    <3> HIDE DEF f, r, x
    <3> QED
      BY <1>1, <2>1, <2>3, <3>1, <3>2, <3>3
  <2> QED
    BY <2>2, <2>3
<1>6. ASSUME NEW h \in Editors, Commit(h) PROVE h = e
  BY <1>1, <1>6 DEF Commit
<1> QED
  BY <1>2, <1>3, <1>4, <1>5, <1>6 DEF Next

\* One step: what the commit of a save that met no other one does to the rows.
Assigns ==
  \A e \in Editors \ met : Commits(e) =>
    LET f == form[e] IN
    /\ \A i \in Attendees \ Rows(e) : nr'[i] = nr[i]
    /\ \A i \in f.dropped : nr'[i] = 0
    /\ \A i \in Rows(e) \ (f.dropped \cup lost[e]) :
         \/ nr'[i] = f.posted[i]
         \/ /\ \E j \in Attendees \ Rows(e) : nr[j] = f.posted[i] \/ j \in lost[e]
            /\ \A j \in Attendees : nr'[j] = f.posted[j] \/ j \notin Rows(e) => nr'[j] < nr'[i]

\* The rows of the page end as they were dragged, whatever order the UPDATEs
\* took them through: the moves to the band, the saves and the restores together
\* are one simultaneous assignment.
THEOREM ReorderAssigns == Spec => ReorderIsAssignment
<1>1. ReorderInv /\ [Next]_vars => [Assigns]_vars
  <2> SUFFICES ASSUME ReorderInv, Next, NEW e \in Editors, e \notin met, Commits(e)
               PROVE  LET f == form[e] IN
                      /\ \A i \in Attendees \ Rows(e) : nr'[i] = nr[i]
                      /\ \A i \in f.dropped : nr'[i] = 0
                      /\ \A i \in Rows(e) \ (f.dropped \cup lost[e]) :
                           \/ nr'[i] = f.posted[i]
                           \/ /\ \E j \in Attendees \ Rows(e) : nr[j] = f.posted[i] \/ j \in lost[e]
                              /\ \A j \in Attendees : nr'[j] = f.posted[j] \/ j \notin Rows(e) => nr'[j] < nr'[i]
    BY DEF Assigns
  <2> DEFINE f == form[e]
             l == lost[e]
             goal == Goal(f, l)
  <2>1. /\ f.at = "saving" /\ f.todo = <<>> /\ f \in Forms /\ Page(f, nr, l) /\ Written(f, nr)
        /\ nr' = Seen(f, nr) /\ Rows(e) = On(f) /\ Rows(e) \subseteq Attendees
    BY CommitsByCommit, CommitIs
  <2>2. ToGoal(f, nr, l) /\ AsDragged(f, nr, l)
    BY <2>1 DEF ReorderInv, FormInv, Alone
  <2>3. \A i \in Attendees \ Rows(e) : nr'[i] = nr[i]
    BY <2>1 DEF Written, Seen
  <2>4. \A i \in Rows(e) : nr'[i] = goal[i]
    <3>1. DOMAIN f.todo = {}
      BY <2>1
    <3> HIDE DEF f
    <3> QED
      BY <2>1, <2>2, <3>1 DEF ToGoal
  <2>5. /\ \A i \in f.dropped : i \in Rows(e) /\ goal[i] = 0
        /\ \A i \in Rows(e) \ (f.dropped \cup l) :
             goal[i] = IF i \in WillSave(f) THEN f.numbers[i] ELSE f.posted[i]
    BY <2>1 DEF Goal, Page
  <2> HIDE DEF goal, l
  <2>6. ASSUME NEW i \in Rows(e) \ (f.dropped \cup l), nr'[i] # f.posted[i]
        PROVE  /\ \E j \in Attendees \ Rows(e) : nr[j] = f.posted[i] \/ j \in l
               /\ \A j \in Attendees : nr'[j] = f.posted[j] \/ j \notin Rows(e) => nr'[j] < nr'[i]
    <3>1. i \in WillSave(f) /\ nr'[i] = f.numbers[i] /\ f.numbers[i] # f.posted[i] /\ i \notin l
      BY <2>4, <2>5, <2>6
    <3>2. /\ \E j \in Attendees \ On(f) : nr[j] = f.posted[i] \/ j \in l
          /\ \A j \in On(f) : goal[j] = f.posted[j] => f.posted[j] < f.numbers[i]
          /\ \A j \in Attendees \ On(f) : nr[j] < f.numbers[i]
      BY <2>2, <3>1 DEF AsDragged, goal
    <3> HIDE DEF f
    <3>3. ASSUME NEW j \in Attendees, nr'[j] = f.posted[j] \/ j \notin Rows(e) PROVE nr'[j] < nr'[i]
      <4>1. CASE j \in Rows(e)
        BY <2>1, <2>4, <3>1, <3>2, <3>3, <4>1
      <4>2. CASE j \notin Rows(e)
        BY <2>1, <2>3, <3>1, <3>2, <4>2
      <4> QED
        BY <4>1, <4>2
    <3> QED
      BY <2>1, <3>2, <3>3
  <2> QED
    BY <2>3, <2>4, <2>5, <2>6 DEF l
<1>2. Spec => [][Assigns]_vars
  BY <1>1, ReorderInvariant, PTL DEF Spec
<1> QED
  BY <1>2 DEF ReorderIsAssignment, Assigns
=============================================================================

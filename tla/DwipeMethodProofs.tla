--------------------------- MODULE DwipeMethodProofs ---------------------------
(***************************************************************************)
(* The wipe methods and their passes, proved for every device size, block   *)
(* size, pattern book, set of options and number of faults.                 *)
(***************************************************************************)
EXTENDS DwipeMethod, FiniteSetTheorems, FunctionTheorems, WellFoundedInduction, TLAPS

-----------------------------------------------------------------------------
(***************************************************************************)
(* Arithmetic of the pattern window.                                       *)
(***************************************************************************)
LEMMA Division ==
  ASSUME NEW a \in Int, NEW n \in Nat \ {0}
  PROVE  a = n * (a \div n) + (a % n) /\ a % n \in 0 .. n - 1 /\ a \div n \in Int
OBVIOUS

LEMMA MulMono ==
  ASSUME NEW a \in Int, NEW b \in Int, NEW n \in Nat \ {0}, a < b
  PROVE  n * a + n <= n * b
<1>1. PICK d \in Nat : d = b - a - 1 OBVIOUS
<1>2. n * d \in Nat /\ b = a + 1 + d BY <1>1
<1>3. n * b = n * a + n + n * d BY <1>2
<1> QED BY <1>2, <1>3

LEMMA UniqueRemainder ==
  ASSUME NEW p \in Int, NEW q \in Int, NEW n \in Nat \ {0},
         NEW r \in 0 .. n - 1, NEW t \in 0 .. n - 1, n * p + r = n * q + t
  PROVE  r = t
<1>0. n * p \in Int /\ n * q \in Int OBVIOUS
<1>1. CASE p < q
  <2>1. n * p + n <= n * q BY <1>1, MulMono
  <2> QED BY <2>1, <1>0
<1>2. CASE q < p
  <2>1. n * q + n <= n * p BY <1>2, MulMono
  <2> QED BY <2>1, <1>0
<1>3. CASE p = q BY <1>3, <1>0
<1> QED BY <1>1, <1>2, <1>3

LEMMA RemainderOfSum ==
  ASSUME NEW a \in Nat, NEW b \in Nat, NEW n \in Nat \ {0}
  PROVE  ((a % n) + b) % n = (a + b) % n /\ (b + (a % n)) % n = (a + b) % n
<1>1. PICK r : r = a % n OBVIOUS
<1>2. PICK s : s = (r + b) % n OBVIOUS
<1>3. PICK t : t = (a + b) % n OBVIOUS
<1>4. PICK p \in Int : a = n * p + r /\ r \in 0 .. n - 1
  <2>1. a \in Int OBVIOUS
  <2> QED BY <1>1, <2>1, Division
<1>5. PICK q \in Int : r + b = n * q + s /\ s \in 0 .. n - 1
  <2>1. r + b \in Int BY <1>4
  <2> QED BY <1>2, <2>1, Division
<1>6. PICK u \in Int : a + b = n * u + t /\ t \in 0 .. n - 1
  <2>1. a + b \in Int OBVIOUS
  <2> QED BY <1>3, <2>1, Division
<1>7. n * (p + q) + s = n * u + t
  <2>1. n * (p + q) = n * p + n * q OBVIOUS
  <2>2. n * p \in Int /\ n * q \in Int /\ n * u \in Int OBVIOUS
  <2> QED BY <1>4, <1>5, <1>6, <2>1, <2>2
<1>8. s = t
  <2>1. p + q \in Int OBVIOUS
  <2> QED BY <1>5, <1>6, <1>7, <2>1, UniqueRemainder
<1>9. b + r = r + b BY <1>4
<1> QED BY <1>1, <1>2, <1>3, <1>8, <1>9

-----------------------------------------------------------------------------
(***************************************************************************)
(* The pattern arrays.                                                     *)
(***************************************************************************)
Methods  == {"zero", "random", "dodshort", "dod522022m", "ops2", "gutmann"}
Statics  == {Static(s) : s \in Seq(Byte) \ {<<>>}}
Usable   == Statics \union {Stream}
Elements == Usable \union {Wild}

LEMMA OneCharacter ==
  ASSUME NEW b \in Byte
  PROVE  Static(<<b>>) \in Usable /\ Static(<<Complement(b)>>) \in Usable
<1>1. <<b>> \in Seq(Byte) \ {<<>>} OBVIOUS
<1>2. Complement(b) \in Byte BY PatternAssumption DEF Complement, Byte
<1>3. <<Complement(b)>> \in Seq(Byte) \ {<<>>} BY <1>2
<1> QED BY <1>1, <1>3 DEF Usable, Statics

\* The window arithmetic divides by the length of a usable static pattern.
LEMMA UsableType ==
  ASSUME NEW e \in Usable
  PROVE  /\ e # Wild /\ e \in Elements
         /\ e.length \in {-1} \union (Nat \ {0})
         /\ e.length > 0 => /\ e.length \in Nat \ {0}
                            /\ \A k \in 0 .. e.length - 1 : e.s[k + 1] \in Byte
         /\ ~(e.length > 0) => e.length < 0
<1>1. CASE e = Stream BY <1>1 DEF Stream, Wild, Elements
<1>2. CASE e \in Statics
  <2>1. PICK s \in Seq(Byte) \ {<<>>} : e = Static(s) BY <1>2 DEF Statics
  <2>2. Len(s) \in Nat \ {0} /\ \A k \in 1 .. Len(s) : s[k] \in Byte BY <2>1
  <2>3. e.length = Len(s) /\ e.s = s BY <2>1 DEF Static
  <2>4. e # Wild BY <2>1, <2>3 DEF Wild
  <2>5. \A k \in 0 .. Len(s) - 1 : k + 1 \in 1 .. Len(s) BY <2>2
  <2> QED BY <2>2, <2>3, <2>4, <2>5 DEF Elements
<1> QED BY <1>1, <1>2 DEF Usable

\* Induction, with a set in the place of a predicate.
LEMMA NatInduct ==
  ASSUME NEW T, 0 \in T, \A n \in Nat : n \in T => n + 1 \in T
  PROVE  \A n \in Nat : n \in T
<1> SUFFICES ASSUME Nat \ T # {} PROVE FALSE
  OBVIOUS
<1> DEFINE below == OpToRel(<, Nat)
<1>1. IsWellFoundedOn(below, Nat)
  BY NatLessThanWellFounded, Zenon
<1>2. \A x, y \in Nat : <<x, y>> \in below <=> x < y
  BY DEF OpToRel
<1> HIDE DEF below
<1>3. PICK least \in Nat \ T : \A y \in Nat \ T : <<y, least>> \notin below
  BY <1>1, WFMin
<1>4. least - 1 \in Nat /\ least - 1 < least
  BY <1>3
<1>5. least - 1 \in T
  BY <1>2, <1>3, <1>4
<1> QED
  BY <1>3, <1>4, <1>5

LEMMA Least ==
  ASSUME NEW S, S \subseteq Nat, S # {}
  PROVE  \E n \in S : \A m \in S : n <= m
<1> DEFINE below == OpToRel(<, Nat)
<1>1. IsWellFoundedOn(below, Nat) BY NatLessThanWellFounded, Zenon
<1>2. \A x, y \in Nat : <<x, y>> \in below <=> x < y BY DEF OpToRel
<1> HIDE DEF below
<1>3. PICK n \in S : \A y \in S : <<y, n>> \notin below BY <1>1, WFMin
<1>4. \A y \in S : n <= y
  <2> TAKE y \in S
  <2>1. ~ (y < n) BY <1>2, <1>3
  <2>2. y \in Nat /\ n \in Nat OBVIOUS
  <2> QED BY <2>1, <2>2
<1> QED BY <1>4

\* The elements of an array of OPS-II before the first of length zero are filled.
LEMMA Ops2Elements ==
  ASSUME NEW u \in Nat \ {0}, NEW s \in [0 .. u - 1 -> Byte], NEW p \in Ops2(u, s)
  PROVE  p \in Seq(Elements)
<1> DEFINE arr == Ops2Array(u, s)
           n   == CHOOSE k \in DOMAIN arr : /\ arr[k].length = 0
                                            /\ \A m \in 0 .. k - 1 : arr[m].length # 0
           filled == [k \in 1 .. n |-> arr[k - 1]]
<1>1. DOMAIN arr = 0 .. 8 * u BY DEF Ops2Array
<1>2. \A k \in 0 .. 8 * u : arr[k] \in Usable \/ arr[k].length = 0
  <2> TAKE k \in 0 .. 8 * u
  <2> DEFINE Is(x) == k \in 4 * x .. 4 * x + 7
  <2>1. CASE k = 8 * u \/ ~\E x \in Ops2Filled(u) : Is(x)
    BY <2>1 DEF Ops2Array, Terminator, Uninit
  <2>2. CASE k # 8 * u /\ \E x \in Ops2Filled(u) : Is(x)
    <3>1. PICK x : x = CHOOSE y \in Ops2Filled(u) : Is(y) OBVIOUS
    <3>2. x \in Ops2Filled(u) BY <2>2, <3>1
    <3>3. s[x] \in Byte BY <3>2 DEF Ops2Filled
    <3>4. arr[k] = IF k % 2 = 0 THEN Static(<<s[x]>>) ELSE Static(<<Complement(s[x])>>)
      BY <2>2, <3>1 DEF Ops2Array
    <3> QED BY <3>3, <3>4, OneCharacter
  <2> QED BY <2>1, <2>2
<1>3. arr[8 * u].length = 0 BY DEF Ops2Array, Terminator
<1>4. n \in 0 .. 8 * u /\ \A m \in 0 .. n - 1 : arr[m].length # 0
  <2> DEFINE Ends == {k \in 0 .. 8 * u : arr[k].length = 0}
  <2>1. Ends \subseteq Nat /\ 8 * u \in Ends BY <1>3
  <2> HIDE DEF arr
  <2>2. PICK k \in Ends : \A m \in Ends : k <= m
    <3> HIDE DEF Ends
    <3> QED BY <2>1, Least
  <2>3. \A m \in 0 .. k - 1 : m \in 0 .. 8 * u /\ ~(k <= m) BY <2>2
  <2>4. \A m \in 0 .. k - 1 : arr[m].length # 0 BY <2>2, <2>3
  <2>5. k \in DOMAIN arr /\ arr[k].length = 0 BY <1>1, <2>2
  <2> QED BY <1>1, <2>4, <2>5
<1> HIDE DEF arr, n
<1>5. filled \in Seq(Usable)
  <2>1. \A k \in 1 .. n : k - 1 \in 0 .. n - 1 /\ k - 1 \in 0 .. 8 * u BY <1>4
  <2>2. \A k \in 1 .. n : filled[k] \in Usable BY <1>2, <1>4, <2>1
  <2>3. n \in Nat BY <1>4
  <2> QED BY <2>2, <2>3
<1>6. filled \in Seq(Elements) BY <1>5 DEF Elements
<1>7. p = filled \/ \E stale \in BoundedSeq({Stream, Wild}, MaxStale) : p = filled \o stale
  BY DEF Ops2, n, arr
<1> HIDE DEF filled
<1>8. ASSUME NEW stale \in BoundedSeq({Stream, Wild}, MaxStale)
      PROVE  stale \in Seq(Elements)
  <2>1. PICK m \in 0 .. MaxStale : stale \in [1 .. m -> {Stream, Wild}]
    BY DEF BoundedSeq, SeqOf
  <2>2. m \in Nat BY <2>1 DEF MaxStale
  <2> QED BY <2>1, <2>2 DEF Elements, Usable
<1>9. \A x, y \in Seq(Elements) : x \o y \in Seq(Elements) OBVIOUS
<1> QED BY <1>6, <1>7, <1>8, <1>9

LEMMA GutmannElements ==
  ASSUME NEW draws
  PROVE  Gutmann(draws) \in Seq(Elements)
<1>1. \A k \in DOMAIN Book : Book[k] \in Usable
  BY PatternAssumption DEF Usable, Statics
<1>2. DOMAIN Book = 1 .. Len(Book) /\ Len(Book) \in Nat BY PatternAssumption
<1>3. DOMAIN Gutmann(draws) = DOMAIN Book BY DEF Gutmann
<1>4. \A k \in DOMAIN Book : Gutmann(draws)[k] \in Elements
  BY <1>1, Zenon DEF Gutmann, Elements
<1>5. Gutmann(draws) = [k \in DOMAIN Book |-> Gutmann(draws)[k]] BY DEF Gutmann
<1> HIDE DEF Gutmann
<1> QED BY <1>2, <1>4, <1>5

LEMMA PatternsAreElements ==
  ASSUME NEW method \in Methods, NEW rounds \in Nat \ {0}, NEW p \in PatternsOf(method, rounds)
  PROVE  p \in Seq(Elements)
<1>0. Stream \in Elements BY DEF Elements, Usable
<1>1. CASE method = "zero" BY <1>1 DEF PatternsOf, Zero
<1>2. CASE method = "random"
  <2>1. p = Random BY <1>2 DEF PatternsOf
  <2> QED BY <1>0, <2>1 DEF Random
<1>3. CASE method = "dodshort"
  <2>1. PICK a \in Byte : p = DodShort(a) BY <1>3 DEF PatternsOf
  <2>2. Static(<<a>>) \in Elements /\ Static(<<Complement(a)>>) \in Elements
    BY OneCharacter DEF Elements
  <2> QED BY <1>0, <2>1, <2>2 DEF DodShort
<1>4. CASE method = "dod522022m"
  <2>1. PICK a, b, d \in Byte : p = Dod522022m(a, b, d) BY <1>4 DEF PatternsOf
  <2>2. \A x \in {a, b, d} : Static(<<x>>) \in Elements /\ Static(<<Complement(x)>>) \in Elements
    BY OneCharacter DEF Elements
  <2> QED BY <1>0, <2>1, <2>2 DEF Dod522022m
<1>5. CASE method = "ops2"
  <2>1. PICK s \in [0 .. rounds - 1 -> Byte] : p \in Ops2(rounds, s)
    BY <1>5 DEF PatternsOf
  <2> QED BY <2>1, Ops2Elements
<1>6. CASE method = "gutmann"
  <2>1. \E draws : p = Gutmann(draws) BY <1>6 DEF PatternsOf
  <2> QED BY <2>1, GutmannElements
<1> QED BY <1>1, <1>2, <1>3, <1>4, <1>5, <1>6 DEF Methods

-----------------------------------------------------------------------------
(***************************************************************************)
(* The shuffle of the Gutmann patterns.                                    *)
(***************************************************************************)
\* The book elements that the array does not hold yet when its element k is filled.
Unused(taken, k) == DOMAIN Book \ {taken[m] : m \in k + 1 .. Len(Book)}
Draws == [DOMAIN Book -> 0 .. MaxDraw]

\* A draw is scaled below the number of elements that are left.
LEMMA ScaledInRange ==
  ASSUME NEW draw \in 0 .. MaxDraw, NEW left \in Nat \ {0}
  PROVE  Scaled(draw, left) \in 0 .. left - 1
<1> DEFINE n == MaxDraw + 1
           q == (draw * left) \div n
           r == (draw * left) % n
<1>1. n \in Nat \ {0} /\ draw \in Nat /\ draw < n
  BY PatternAssumption
<1> HIDE DEF n
<1>2. draw * left \in Nat /\ draw * left = left * draw /\ n * left = left * n
  BY <1>1
<1>3. draw * left = n * q + r /\ r \in 0 .. n - 1 /\ q \in Int
  BY <1>1, <1>2, Division
<1> HIDE DEF q, r
<1>4. left * draw + left <= left * n
  BY <1>1, MulMono
<1>5. ~(left <= q)
  <2> SUFFICES ASSUME left <= q PROVE FALSE
    OBVIOUS
  <2>1. n * left <= n * q
    <3>1. CASE left = q
      BY <1>1, <3>1
    <3>2. CASE left < q
      <4>1. n * left + n <= n * q
        BY <1>1, <1>3, <3>2, MulMono
      <4>2. n * left \in Int /\ n * q \in Int
        BY <1>1, <1>3
      <4> QED
        BY <1>1, <4>1, <4>2
    <3> QED
      BY <1>3, <3>1, <3>2
  <2>2. n * left \in Int /\ n * q \in Int
    BY <1>1, <1>3
  <2> QED
    BY <1>2, <1>3, <1>4, <2>1, <2>2
<1>6. ~(q < 0)
  <2> SUFFICES ASSUME q < 0 PROVE FALSE
    OBVIOUS
  <2>1. n * q + n <= n * 0
    BY <1>1, <1>3, MulMono
  <2>2. n * q \in Int /\ n * 0 = 0
    BY <1>1, <1>3
  <2> QED
    BY <1>1, <1>2, <1>3, <2>1, <2>2
<1>7. q \in 0 .. left - 1
  BY <1>3, <1>5, <1>6
<1> QED
  BY <1>7 DEF Scaled, q, n

\* A finite set of numbers has an element with any smaller number of elements below it.
LEMMA ElementAtRank ==
  ASSUME NEW n \in Nat, NEW U \in SUBSET (1 .. n), NEW rank \in Nat, rank < Cardinality(U)
  PROVE  \E j \in U : Cardinality({k \in U : k < j}) = rank
<1> DEFINE Below(x) == {k \in U : k < x}
           few == {x \in Nat : Cardinality(Below(x)) <= rank}
<1>1. \A k \in U : k \in Int /\ k < n + 1 /\ ~(k < 0)
  OBVIOUS
<1>2. Below(0) = {} /\ Below(n + 1) = U
  BY <1>1
<1>3. \A x \in Nat : /\ x \in U => Below(x + 1) = Below(x) \union {x} /\ x \notin Below(x)
                     /\ x \notin U => Below(x + 1) = Below(x)
  <2> TAKE x \in Nat
  <2>1. \A k \in U : k < x + 1 <=> k < x \/ k = x
    BY <1>1
  <2>2. ~(x < x)
    OBVIOUS
  <2>3. CASE x \in U
    BY <2>1, <2>2, <2>3
  <2>4. CASE x \notin U
    BY <2>1, <2>4
  <2> QED
    BY <2>3, <2>4
<1>4. \A x : Below(x) \in SUBSET U
  OBVIOUS
<1> SUFFICES ASSUME ~ \E j \in U : Cardinality(Below(j)) = rank PROVE FALSE
  OBVIOUS
<1> HIDE DEF Below
<1>5. IsFiniteSet(U) /\ Cardinality(U) \in Nat
  <2>1. 1 \in Int /\ n \in Int
    OBVIOUS
  <2>2. IsFiniteSet(1 .. n)
    BY <2>1, FS_Interval, Zenon
  <2> QED
    BY <2>2, FS_Subset, FS_CardinalityType
<1>6. \A x : IsFiniteSet(Below(x)) /\ Cardinality(Below(x)) \in Nat
  BY <1>4, <1>5, FS_Subset, FS_CardinalityType
<1>7. 0 \in few
  BY <1>2, FS_EmptySet
<1>8. ASSUME NEW x \in Nat, x \in few PROVE x + 1 \in few
  <2>1. CASE x \in U
    <3>1. Cardinality(Below(x + 1)) = Cardinality(Below(x)) + 1
      BY <1>3, <1>6, <2>1, FS_AddElement
    <3>2. Cardinality(Below(x)) # rank /\ Cardinality(Below(x)) <= rank
      BY <1>8, <2>1
    <3> QED
      BY <1>6, <3>1, <3>2
  <2>2. CASE x \notin U
    BY <1>3, <1>8, <2>2
  <2> QED
    BY <2>1, <2>2
<1> HIDE DEF few
<1>9. n + 1 \in few
  BY <1>7, <1>8, NatInduct
<1> QED
  BY <1>2, <1>5, <1>9 DEF few

LEMMA BookFinite ==
  /\ Len(Book) \in Nat /\ DOMAIN Book = 1 .. Len(Book)
  /\ IsFiniteSet(DOMAIN Book) /\ Cardinality(DOMAIN Book) = Len(Book)
<1>1. Len(Book) \in Nat /\ DOMAIN Book = 1 .. Len(Book)
  BY PatternAssumption
<1>2. \A n \in Nat : IsFiniteSet(1 .. n) /\ Cardinality(1 .. n) = n
  <2> TAKE n \in Nat
  <2>1. 1 \in Int /\ n \in Int
    OBVIOUS
  <2>2. IsFiniteSet(1 .. n) /\ Cardinality(1 .. n) = IF 1 > n THEN 0 ELSE n - 1 + 1
    BY <2>1, FS_Interval, Zenon
  <2> QED
    BY <2>2
<1> QED
  BY <1>1, <1>2

\* The equation of the array has a solution: from the last element down.
LEMMA TakenSolves ==
  ASSUME NEW draws
  PROVE  Taken(draws) = [k \in DOMAIN Book |->
           NthUnused(Unused(Taken(draws), k), Scaled(draws[k], k))]
<1> DEFINE Pick(taken, k) == NthUnused(Unused(taken, k), Scaled(draws[k], k))
           Top(m) == {k \in DOMAIN Book : k > Len(Book) - m}
           Solves(taken, m) == taken = [k \in Top(m) |-> Pick(taken, k)]
           solved == {m \in Nat : \E taken : Solves(taken, m)}
<1>0. Len(Book) \in Nat /\ DOMAIN Book = 1 .. Len(Book)
  BY BookFinite
<1>1. 0 \in solved
  <2>1. Top(0) = {}
    BY <1>0
  <2>2. Solves([k \in {} |-> k], 0)
    BY <2>1
  <2> QED
    BY <2>2
<1>2. ASSUME NEW m \in Nat, m \in solved PROVE m + 1 \in solved
  <2>1. PICK taken : Solves(taken, m)
    BY <1>2
  <2> DEFINE more == [k \in Top(m + 1) |-> Pick(taken, k)]
  <2>2. \A k \in Top(m + 1) : k + 1 .. Len(Book) \subseteq Top(m)
    BY <1>0
  <2>3. \A k \in Top(m) : k \in Top(m + 1) /\ more[k] = taken[k]
    <3>1. Top(m) \subseteq Top(m + 1)
      BY <1>0
    <3> QED
      BY <2>1, <3>1
  <2>4. ASSUME NEW k \in Top(m + 1) PROVE Pick(more, k) = Pick(taken, k)
    <3>1. \A j \in k + 1 .. Len(Book) : more[j] = taken[j]
      BY <2>2, <2>3
    <3> HIDE DEF more, Top
    <3>2. Unused(more, k) = Unused(taken, k)
      BY <3>1 DEF Unused
    <3> QED
      BY <3>2
  <2>5. Solves(more, m + 1)
    BY <2>4
  <2> HIDE DEF more, Solves
  <2> QED
    BY <2>5
<1> HIDE DEF solved
<1>3. Len(Book) \in solved
  BY <1>0, <1>1, <1>2, NatInduct
<1>4. Top(Len(Book)) = DOMAIN Book
  BY <1>0
<1>5. PICK taken : Solves(taken, Len(Book))
  BY <1>3 DEF solved
<1>6. taken = [k \in DOMAIN Book |-> NthUnused(Unused(taken, k), Scaled(draws[k], k))]
  BY <1>4, <1>5
<1> DEFINE Equation(x) ==
      x = [k \in DOMAIN Book |->
             NthUnused(DOMAIN Book \ {x[m] : m \in k + 1 .. Len(Book)}, Scaled(draws[k], k))]
<1>7. Equation(taken)
  BY <1>6 DEF Unused
<1>8. Taken(draws) = CHOOSE x : Equation(x)
  BY DEF Taken
<1> HIDE DEF Equation
<1>9. Equation(Taken(draws))
  BY <1>7, <1>8
<1> QED
  BY <1>9 DEF Equation, Unused

\* Every draw hits an unused element of the book.
LEMMA TakenIsUnused ==
  ASSUME NEW draws \in Draws
  PROVE  \A k \in DOMAIN Book : Taken(draws)[k] \in Unused(Taken(draws), k)
<1> DEFINE t == Taken(draws)
           n == Len(Book)
<1>0. n \in Nat /\ DOMAIN Book = 1 .. n /\ IsFiniteSet(DOMAIN Book) /\ Cardinality(DOMAIN Book) = n
  BY BookFinite
<1>1. \A k \in DOMAIN Book : t[k] = NthUnused(Unused(t, k), Scaled(draws[k], k))
  BY TakenSolves
<1> HIDE DEF t, n
<1> SUFFICES ASSUME NEW k \in DOMAIN Book PROVE t[k] \in Unused(t, k)
  BY DEF t
<1> DEFINE later == k + 1 .. n
           image == {t[m] : m \in later}
<1>2. k \in Nat \ {0} /\ k <= n /\ draws[k] \in 0 .. MaxDraw
  BY <1>0 DEF Draws
<1>3. IsFiniteSet(later) /\ Cardinality(later) = n - k
  <2>1. k + 1 \in Int /\ n \in Int
    BY <1>0, <1>2
  <2>2. IsFiniteSet(later) /\ Cardinality(later) = IF k + 1 > n THEN 0 ELSE n - (k + 1) + 1
    BY <2>1, FS_Interval, Zenon
  <2> HIDE DEF later
  <2> QED
    BY <1>0, <1>2, <2>2
<1>4. IsFiniteSet(image) /\ Cardinality(image) \in Nat /\ Cardinality(image) <= n - k
  <2>1. [m \in later |-> t[m]] \in Surjection(later, image)
    BY DEF Surjection
  <2> HIDE DEF later, image
  <2> QED
    BY <1>3, <2>1, FS_Surjection, FS_CardinalityType
<1>5. Unused(t, k) = DOMAIN Book \ image
  BY DEF Unused, n
<1> HIDE DEF image, later
<1>6. Cardinality(Unused(t, k)) >= k
  <2>1. /\ Cardinality(DOMAIN Book \ image) = n - Cardinality(DOMAIN Book \intersect image)
        /\ IsFiniteSet(DOMAIN Book \intersect image)
    BY <1>0, <1>4, FS_Difference, FS_Intersection
  <2>2. Cardinality(DOMAIN Book \intersect image) <= Cardinality(image)
    BY <1>4, FS_Subset
  <2>3. Cardinality(DOMAIN Book \intersect image) \in Nat
    BY <2>1, FS_CardinalityType
  <2> QED
    BY <1>0, <1>2, <1>4, <1>5, <2>1, <2>2, <2>3
<1> DEFINE rank == Scaled(draws[k], k)
<1>7. rank \in Nat /\ rank < k
  BY <1>2, ScaledInRange
<1> HIDE DEF rank
<1>8. Cardinality(Unused(t, k)) \in Nat /\ Unused(t, k) \in SUBSET (1 .. n)
  BY <1>0, <1>5, FS_Subset, FS_CardinalityType
<1>9. rank < Cardinality(Unused(t, k))
  BY <1>2, <1>6, <1>7, <1>8
<1>10. \E j \in Unused(t, k) : Cardinality({m \in Unused(t, k) : m < j}) = rank
  BY <1>0, <1>7, <1>8, <1>9, ElementAtRank
<1>11. t[k] = CHOOSE j \in Unused(t, k) : Cardinality({m \in Unused(t, k) : m < j}) = rank
  BY <1>1, <1>9 DEF NthUnused, rank
<1> QED
  BY <1>10, <1>11

\* The shuffle is a permutation of the book.
LEMMA TakenPermutes ==
  ASSUME NEW draws \in Draws
  PROVE  /\ Taken(draws) \in [DOMAIN Book -> DOMAIN Book]
         /\ \A k, m \in DOMAIN Book : k # m => Taken(draws)[k] # Taken(draws)[m]
         /\ \A j \in DOMAIN Book : \E k \in DOMAIN Book : Taken(draws)[k] = j
<1> DEFINE t == Taken(draws)
<1>1. t \in [DOMAIN Book -> DOMAIN Book]
  <2>1. t = [k \in DOMAIN Book |-> NthUnused(Unused(t, k), Scaled(draws[k], k))]
    BY TakenSolves
  <2>2. \A k \in DOMAIN Book : t[k] \in DOMAIN Book
    BY TakenIsUnused DEF Unused
  <2> HIDE DEF t
  <2> QED
    BY <2>1, <2>2
<1>2. \A k, m \in DOMAIN Book : k < m => t[k] # t[m]
  <2> TAKE k, m \in DOMAIN Book
  <2> HAVE k < m
  <2>1. m \in k + 1 .. Len(Book)
    BY BookFinite
  <2>2. t[k] \notin {t[x] : x \in k + 1 .. Len(Book)}
    BY TakenIsUnused DEF Unused
  <2> HIDE DEF t
  <2> QED
    BY <2>1, <2>2
<1> HIDE DEF t
<1>3. \A k, m \in DOMAIN Book : k # m => t[k] # t[m]
  <2>1. \A k, m \in DOMAIN Book : k # m => k < m \/ m < k
    BY BookFinite
  <2> QED
    BY <1>2, <2>1
<1>4. t \in Injection(DOMAIN Book, DOMAIN Book)
  BY <1>1, <1>3, Fun_IsInj
<1>5. t \in Surjection(DOMAIN Book, DOMAIN Book)
  BY <1>4, BookFinite, FS_Injection
<1>6. \A j \in DOMAIN Book : \E k \in DOMAIN Book : t[k] = j
  BY <1>5 DEF Surjection
<1> QED
  BY <1>1, <1>3, <1>6 DEF t

\* Each element of the book is as often in the shuffled array.
LEMMA GutmannShuffles ==
  ASSUME NEW draws \in Draws, NEW p
  PROVE  Cardinality({k \in DOMAIN Gutmann(draws) : Gutmann(draws)[k] = p})
           = Cardinality({k \in DOMAIN Book : Book[k] = p})
<1> DEFINE t == Taken(draws)
           array == Gutmann(draws)
           from == {k \in DOMAIN array : array[k] = p}
           to == {k \in DOMAIN Book : Book[k] = p}
<1>1. /\ t \in [DOMAIN Book -> DOMAIN Book]
      /\ \A k, m \in DOMAIN Book : k # m => t[k] # t[m]
      /\ \A j \in DOMAIN Book : \E k \in DOMAIN Book : t[k] = j
  BY TakenPermutes
<1>2. array = [k \in DOMAIN Book |-> IF t[k] \in DOMAIN Book THEN Book[t[k]] ELSE Wild]
  BY DEF Gutmann
<1> HIDE DEF t, array
<1>3. DOMAIN array = DOMAIN Book /\ \A k \in DOMAIN Book : array[k] = Book[t[k]]
  BY <1>1, <1>2
<1> DEFINE moved == [k \in from |-> t[k]]
<1>4. moved \in [from -> to]
  BY <1>1, <1>3
<1>5. \A a, b \in from : moved[a] = moved[b] => a = b
  BY <1>1, <1>3
<1>6. \A j \in to : \E k \in from : moved[k] = j
  <2> TAKE j \in to
  <2>1. PICK k \in DOMAIN Book : t[k] = j
    BY <1>1
  <2>2. k \in from /\ moved[k] = j
    BY <1>3, <2>1
  <2> QED
    BY <2>2
<1> HIDE DEF moved
<1>7. moved \in Bijection(from, to)
  BY <1>4, <1>5, <1>6, Fun_IsBij
<1>8. IsFiniteSet(from)
  BY <1>3, BookFinite, FS_Subset
<1> HIDE DEF from, to
<1>9. Cardinality(to) = Cardinality(from)
  BY <1>7, <1>8, FS_Bijection DEF ExistsBijection
<1> QED
  BY <1>9 DEF from, to, array

\* The array of a running Gutmann wipe is the shuffle of some draws.
GutmannInv ==
  opt.method = "gutmann" /\ patterns # <<>> => \E draws \in Draws : patterns = Gutmann(draws)

LEMMA GutmannStep == GutmannInv /\ [Next]_vars => GutmannInv'
<1> SUFFICES ASSUME GutmannInv, [Next]_vars PROVE GutmannInv'
  OBVIOUS
<1>1. CASE StartMethod
  <2>1. opt' = opt /\ patterns' \in PatternsOf(opt.method, opt.rounds)
    BY <1>1 DEF StartMethod
  <2>2. opt.method = "gutmann" => PatternsOf(opt.method, opt.rounds) = {Gutmann(draws) : draws \in Draws}
    BY DEF PatternsOf, Draws
  <2> QED
    BY <2>1, <2>2 DEF GutmannInv
<1>2. CASE ~StartMethod
  <2>1. opt' = opt /\ patterns' = patterns
    BY <1>2 DEF Next, vars, MethodFails, StartRound, StartPass, StartWildPass, StartFinal,
      PassFails, NoEntropy, WriteBlock, WriteError, SyncAfterWrite, EndPass, StartVerify,
      EndVerifySync, ReadBlock, ReadError, EndVerify, Finish, Gone
  <2> QED
    BY <2>1 DEF GutmannInv
<1> QED
  BY <1>1, <1>2

\* The Gutmann wipe uses every element of the book exactly as often as the book lists
\* it, for every book and all draws of the shuffle (method.c:295-311).
THEOREM GutmannAlwaysUsesBookOnce == Spec => []GutmannUsesBookOnce
<1>1. Init => GutmannInv
  BY DEF Init, GutmannInv
<1>2. GutmannInv => GutmannUsesBookOnce
  <2> SUFFICES ASSUME GutmannInv, opt.method = "gutmann", patterns # <<>>, NEW p
               PROVE  Cardinality({k \in DOMAIN patterns : patterns[k] = p})
                        = Cardinality({k \in DOMAIN Book : Book[k] = p})
    BY Zenon DEF GutmannUsesBookOnce
  <2>1. PICK draws \in Draws : patterns = Gutmann(draws)
    BY DEF GutmannInv
  <2>2. Cardinality({k \in DOMAIN Gutmann(draws) : Gutmann(draws)[k] = p})
          = Cardinality({k \in DOMAIN Book : Book[k] = p})
    BY GutmannShuffles, Zenon
  <2> QED
    BY <2>1, <2>2
<1> QED
  BY <1>1, <1>2, GutmannStep, PTL DEF Spec

-----------------------------------------------------------------------------
(***************************************************************************)
(* The array of OPS-II.                                                    *)
(***************************************************************************)

\* The eight elements of one round: a character and its complement, in turn.
Ops2Round(p, a) ==
  \A k \in 1 .. 8 : p[k] = IF k % 2 = 1 THEN Static(<<a>>) ELSE Static(<<Complement(a)>>)

\* The filling loop reaches the elements of the first round, and not the one after it.
LEMMA Ops2ArrayStart ==
  ASSUME NEW u \in Nat \ {0}, NEW s
  PROVE  /\ \A k \in 0 .. 7 : /\ k \in 0 .. 8 * u
                              /\ Ops2Array(u, s)[k] = IF k % 2 = 0 THEN Static(<<s[0]>>)
                                                      ELSE Static(<<Complement(s[0])>>)
         /\ 8 \in 0 .. 8 * u
         /\ Ops2Array(u, s)[8] = IF u = 1 THEN Terminator ELSE Uninit
<1> DEFINE Is(k, x) == k \in 4 * x .. 4 * x + 7
<1>1. 0 \in Ops2Filled(u) /\ \A x \in Ops2Filled(u) : x \in Nat /\ x % 8 = 0
  BY DEF Ops2Filled
<1>2. \A x \in Nat : x % 8 = 0 => x \notin {1, 2}
  OBVIOUS
<1>3. ASSUME NEW k \in 0 .. 7
      PROVE  /\ k \in 0 .. 8 * u
             /\ Ops2Array(u, s)[k] = IF k % 2 = 0 THEN Static(<<s[0]>>)
                                     ELSE Static(<<Complement(s[0])>>)
  <2>1. k \in 0 .. 8 * u /\ k # 8 * u
    OBVIOUS
  <2>2. \A x \in Ops2Filled(u) : Is(k, x) => x = 0
    BY <1>1, <1>2
  <2>3. Is(k, 0)
    OBVIOUS
  <2>4. (CHOOSE x \in Ops2Filled(u) : Is(k, x)) = 0
    <3> HIDE DEF Is
    <3> QED
      BY <1>1, <2>2, <2>3
  <2> QED
    BY <1>1, <2>1, <2>3, <2>4 DEF Ops2Array
<1>4. 8 \in 0 .. 8 * u
  OBVIOUS
<1>5. CASE u = 1
  <2>1. 8 = 8 * u
    BY <1>5
  <2> QED
    BY <1>3, <1>4, <1>5, <2>1 DEF Ops2Array
<1>6. CASE u # 1
  <2>1. 8 # 8 * u
    BY <1>6
  <2>2. ~ \E x \in Ops2Filled(u) : Is(8, x)
    BY <1>1, <1>2
  <2> QED
    BY <1>3, <1>4, <1>6, <2>1, <2>2 DEF Ops2Array
<1> QED
  BY <1>5, <1>6

LEMMA Ops2Runs ==
  ASSUME NEW u \in Nat \ {0}, NEW s \in [0 .. u - 1 -> Byte], NEW p \in Ops2(u, s)
  PROVE  /\ Len(p) >= 8
         /\ \E a \in Byte : Ops2Round(p, a)
         /\ u = 1 => Len(p) = 8
         /\ Len(p) > 8 => p[9] \in {Stream, Wild}
<1> DEFINE arr == Ops2Array(u, s)
           Ends(k) == arr[k].length = 0 /\ \A m \in 0 .. k - 1 : arr[m].length # 0
           n   == CHOOSE k \in DOMAIN arr : Ends(k)
           filled == [k \in 1 .. n |-> arr[k - 1]]
<1>1. DOMAIN arr = 0 .. 8 * u
  BY DEF Ops2Array
<1>2. /\ \A k \in 0 .. 7 : /\ k \in 0 .. 8 * u
                           /\ arr[k] = IF k % 2 = 0 THEN Static(<<s[0]>>)
                                       ELSE Static(<<Complement(s[0])>>)
      /\ 8 \in 0 .. 8 * u
      /\ arr[8] = IF u = 1 THEN Terminator ELSE Uninit
  BY Ops2ArrayStart
<1>3. p = filled \/ (arr[n] = Uninit /\ \E stale \in BoundedSeq({Stream, Wild}, MaxStale) :
                                          p = filled \o stale)
  BY DEF Ops2
<1> HIDE DEF arr
<1>4. \A k \in 0 .. 7 : arr[k].length # 0
  BY <1>2 DEF Static
<1>5. arr[8].length = 0
  BY <1>2 DEF Terminator, Uninit
<1>6. n = 8
  <2>1. 8 \in DOMAIN arr /\ Ends(8)
    BY <1>1, <1>2, <1>4, <1>5
  <2>2. n \in DOMAIN arr /\ Ends(n)
    <3> HIDE DEF Ends
    <3> QED
      BY <2>1
  <2>3. n \in Nat
    BY <1>1, <2>2
  <2> HIDE DEF n
  <2>4. ~(n < 8)
    BY <1>4, <2>2, <2>3
  <2>5. ~(8 < n)
    BY <1>5, <2>2, <2>3
  <2> QED
    BY <2>3, <2>4, <2>5
<1> HIDE DEF n
<1>7. s[0] \in Byte
  OBVIOUS
<1>8. Len(filled) = 8 /\ filled \in Seq(Statics) /\ Ops2Round(filled, s[0])
  <2>1. \A k \in 1 .. 8 : /\ k - 1 \in 0 .. 7
                          /\ (k - 1) % 2 = 0 <=> k % 2 = 1
    OBVIOUS
  <2>2. Ops2Round(filled, s[0])
    BY <1>2, <1>6, <2>1 DEF Ops2Round
  <2>3. Static(<<s[0]>>) \in Statics /\ Static(<<Complement(s[0])>>) \in Statics
    <3>1. <<s[0]>> \in Seq(Byte) \ {<<>>}
      BY <1>7
    <3>2. Complement(s[0]) \in Byte
      BY <1>7, PatternAssumption DEF Complement, Byte
    <3>3. <<Complement(s[0])>> \in Seq(Byte) \ {<<>>}
      BY <3>2
    <3> QED
      BY <3>1, <3>3 DEF Statics
  <2>4. \A k \in 1 .. 8 : filled[k] \in Statics
    BY <2>2, <2>3 DEF Ops2Round
  <2> HIDE DEF filled
  <2>5. filled = [k \in 1 .. 8 |-> filled[k]]
    BY <1>6 DEF filled
  <2> QED
    BY <2>2, <2>4, <2>5
<1> HIDE DEF filled
<1>9. CASE p = filled
  BY <1>7, <1>8, <1>9
<1>10. CASE u # 1 /\ \E stale \in BoundedSeq({Stream, Wild}, MaxStale) : p = filled \o stale
  <2>1. PICK stale \in BoundedSeq({Stream, Wild}, MaxStale) : p = filled \o stale
    BY <1>10
  <2>2. stale \in Seq({Stream, Wild})
    <3>1. PICK m \in 0 .. MaxStale : stale \in [1 .. m -> {Stream, Wild}]
      BY DEF BoundedSeq, SeqOf
    <3>2. m \in Nat
      BY <3>1 DEF MaxStale
    <3> QED
      BY <3>1, <3>2
  <2>3. \A x, y \in Seq(Elements) :
          /\ Len(x \o y) = Len(x) + Len(y) /\ Len(y) \in Nat
          /\ \A k \in 1 .. Len(x) : (x \o y)[k] = x[k]
          /\ Len(y) > 0 => (x \o y)[Len(x) + 1] = y[1]
    OBVIOUS
  <2>4. filled \in Seq(Statics) /\ Len(filled) = 8
    BY <1>8
  <2>5. /\ Len(p) = 8 + Len(stale) /\ Len(stale) \in Nat
        /\ \A k \in 1 .. 8 : p[k] = filled[k]
        /\ Len(stale) > 0 => p[9] \in {Stream, Wild}
    <3>1. /\ Len(p) = Len(filled) + Len(stale) /\ Len(stale) \in Nat
          /\ \A k \in 1 .. Len(filled) : p[k] = filled[k]
          /\ Len(stale) > 0 => p[Len(filled) + 1] = stale[1]
      <4>1. filled \in Seq(Elements) /\ stale \in Seq(Elements)
        BY <2>2, <2>4 DEF Elements, Usable
      <4> QED
        BY <2>1, <2>3, <4>1, Zenon
    <3>2. Len(stale) > 0 => stale[1] \in {Stream, Wild}
      BY <2>2
    <3> QED
      BY <2>4, <3>1, <3>2
  <2>6. Ops2Round(p, s[0])
    BY <1>8, <2>5 DEF Ops2Round
  <2>7. Len(p) >= 8 /\ (Len(p) > 8 => p[9] \in {Stream, Wild})
    BY <2>5
  <2> QED
    BY <1>7, <1>10, <2>6, <2>7
<1>11. u = 1 => arr[8] # Uninit
  <2>1. Terminator # Uninit
    BY DEF Terminator, Uninit
  <2>2. u = 1 => arr[8] = Terminator
    BY <1>2
  <2> QED
    BY <2>1, <2>2
<1> QED
  BY <1>3, <1>6, <1>9, <1>10, <1>11

\* What an OPS-II wipe runs, however many rounds were asked for.
Ops2FirstRound ==
  opt.method = "ops2" /\ patterns # <<>> =>
    /\ Len(patterns) >= 8
    /\ \E a \in Byte : Ops2Round(patterns, a)
    /\ opt.rounds = 1 => Len(patterns) = 8
    /\ Len(patterns) > 8 => patterns[9] \in {Stream, Wild}

\* An OPS-II wipe has the eight patterns of its first round, a character and its
\* complement in turn; with one round it has no others, and with more rounds the pattern
\* that follows is one that malloc left in the array, never the one of the second round
\* (method.c:426), whatever the rounds.  So the comment that Ops2PatternsFilled states is
\* true of one round.
THEOREM Ops2AlwaysFillsOneRound == Spec => []Ops2FirstRound
<1>1. Init => Ops2FirstRound
  BY DEF Init, Ops2FirstRound
<1>2. ASSUME Options \subseteq [method : Methods, verify : {"none", "last", "all"},
                                rounds : Nat \ {0}, prng : {"twister", "isaac"}],
             opt \in Options, Ops2FirstRound, [Next]_vars
      PROVE  Ops2FirstRound' /\ opt' \in Options
  <2>1. CASE StartMethod
    <3>1. opt' = opt /\ patterns' \in PatternsOf(opt.method, opt.rounds)
      BY <2>1 DEF StartMethod
    <3>2. opt.rounds \in Nat \ {0}
      BY <1>2
    <3>3. ASSUME opt.method = "ops2"
          PROVE  \E s \in [0 .. opt.rounds - 1 -> Byte] : patterns' \in Ops2(opt.rounds, s)
      BY <3>1, <3>3 DEF PatternsOf
    <3>4. CASE opt.method = "ops2"
      <4>1. PICK s \in [0 .. opt.rounds - 1 -> Byte] : patterns' \in Ops2(opt.rounds, s)
        BY <3>3, <3>4
      <4>2. /\ Len(patterns') >= 8
            /\ \E a \in Byte : Ops2Round(patterns', a)
            /\ opt.rounds = 1 => Len(patterns') = 8
            /\ Len(patterns') > 8 => patterns'[9] \in {Stream, Wild}
        BY <3>2, <4>1, Ops2Runs
      <4> QED
        BY <1>2, <3>1, <4>2 DEF Ops2FirstRound, Ops2Round
    <3> QED
      BY <1>2, <3>1, <3>4 DEF Ops2FirstRound
  <2>2. CASE ~StartMethod
    <3>1. opt' = opt /\ patterns' = patterns
      BY <1>2, <2>2 DEF Next, vars, MethodFails, StartRound, StartPass, StartWildPass, StartFinal,
        PassFails, NoEntropy, WriteBlock, WriteError, SyncAfterWrite, EndPass, StartVerify,
        EndVerifySync, ReadBlock, ReadError, EndVerify, Finish, Gone
    <3> QED
      BY <1>2, <3>1 DEF Ops2FirstRound, Ops2Round
  <2> QED
    BY <2>1, <2>2
<1>3. Init => opt \in Options
  BY DEF Init
<1>4. opt \in Options /\ Ops2FirstRound /\ [Next]_vars => Ops2FirstRound' /\ (opt \in Options)'
  BY <1>2, MethodAssumption DEF Methods
<1> QED
  BY <1>1, <1>3, <1>4, PTL DEF Spec

-----------------------------------------------------------------------------
(***************************************************************************)
(* The types and the control of a method: where the index of the pattern,   *)
(* the bytes that remain and the window stand at each point.                *)
(***************************************************************************)
PassTypes == {"none", "write", "verify", "final_blank", "final_ops2"}
Places == {"method", "rounds", "write", "wsync", "verify", "vsync", "read", "end", "done"}
Active == {"write", "wsync", "verify", "vsync", "read"}
Moving == {"write", "read"}

Contexts ==
  [pass_count : Nat, pass_done : Nat, pass_errors : Nat, pass_size : Nat,
   pass_type : PassTypes, pass_working : Nat, round_count : Nat, round_done : Nat,
   round_size : Nat, round_working : Nat, sync_status : Nat, verify_errors : Nat]

Cells(sd) == {Old} \union {Chr(b) : b \in Byte} \union {Junk(v) : v \in JunkValues}
                   \union {Rnd(q, x) : q \in 0 .. sd, x \in Offsets}

Histories == [unflushed : BOOLEAN, lost : SUBSET Offsets, short : BOOLEAN,
              overwrites : [Offsets -> Nat]]

Types ==
  /\ opt \in Options
  /\ patterns \in Seq(Elements)
  /\ pc \in Places
  /\ c \in Contexts
  /\ i \in 0 .. Len(patterns)
  /\ fin \in BOOLEAN
  /\ z \in 0 .. Size
  /\ w \in Nat
  /\ seed \in Nat
  /\ junk \in JunkValues
  /\ offset \in 0 .. Size
  /\ dev \in [Offsets -> Cells(seed)]
  /\ dirty \in BOOLEAN
  /\ result \in {-1, 0, 1, Segv}
  /\ faults \in 0 .. MaxFaults
  /\ ghost \in Histories

\* The counters of the rounds, the final pass and the end.
Control ==
  /\ c.pass_count = Len(patterns)
  /\ c.round_working <= c.round_count
  /\ pc = "method" => patterns = <<>> /\ c.round_working = 0
  /\ pc \notin {"method", "done"} => c.round_count = opt.rounds
  /\ pc \in {"method", "rounds"} => ~fin
  /\ pc = "end" => fin
  /\ pc # "done" => result = 0
  /\ pc = "done" /\ result \in {0, 1} => fin /\ c.round_count = opt.rounds
  /\ fin => i = Len(patterns) /\ c.round_working = c.round_count
  /\ pc \in Active => Pattern \in Usable /\ (~fin => i < Len(patterns))

\* What a short transfer skipped stays in z, beyond what the device has left.
Balance ==
  /\ pc \in Moving => IF ghost.short THEN z + offset > Size ELSE z + offset = Size
  /\ pc = "vsync" => z = Size /\ offset = 0 /\ w = 0
  /\ pc \in Places \ {"write", "read", "done"} => ~ghost.short
  /\ pc = "done" /\ ghost.short => result = -1

\* The window of a stream is the offset; that of a static pattern is the offset
\* modulo its length, until a transfer is short or the pass has ended.
Window ==
  pc \in Moving =>
    /\ Pattern.length < 0 => w = offset
    /\ Pattern.length > 0 =>
         w < Pattern.length /\ (~ghost.short /\ z > 0 => w = offset % Pattern.length)

BaseInv == Types /\ Control /\ Balance /\ Window

LEMMA OptType ==
  ASSUME Types
  PROVE  /\ opt.method \in Methods /\ opt.rounds \in Nat \ {0}
         /\ opt.prng \in {"twister", "isaac"}
BY MethodAssumption DEF Types, Methods

\* What a transfer that is followed by a successful bump does to the pass.
LEMMA Transfer ==
  ASSUME BaseInv, pc \in Moving, z > 0, NEW r \in 0 .. Lower(Blocksize, Room), Bump(r)
  PROVE  /\ Blocksize \in 1 .. z
         /\ offset + Blocksize <= Size /\ AfterBump = offset + Blocksize
         /\ r <= Blocksize /\ Remaining(r) \in 0 .. Size
         /\ NextWindow \in Nat
         /\ Pattern.length < 0 => NextWindow = AfterBump
         /\ Pattern.length > 0 =>
              /\ NextWindow < Pattern.length
              /\ ~ghost.short /\ r = Blocksize /\ Remaining(r) > 0 =>
                   NextWindow = AfterBump % Pattern.length
<1> DEFINE n == Pattern.length
<1>1. /\ Size \in Nat \ {0} /\ Blk \in Nat \ {0} /\ z \in 1 .. Size /\ offset \in 0 .. Size
      /\ w \in Nat
  BY MethodAssumption DEF BaseInv, Types
<1>2. Blocksize \in 1 .. z BY <1>1 DEF Blocksize
<1>3. r <= Blocksize /\ r \in Nat /\ offset + r <= Size
  BY <1>1, <1>2 DEF Lower, Room
<1>4. offset + Blocksize <= Size BY <1>1, <1>2, <1>3 DEF Bump
<1>5. AfterBump = offset + Blocksize BY <1>1, <1>2, <1>4 DEF AfterBump, Lower
<1>6. Remaining(r) \in 0 .. Size BY <1>1, <1>2, <1>3 DEF Remaining
<1>7. /\ n \in {-1} \union (Nat \ {0})
      /\ n < 0 => w = offset
      /\ n > 0 => w < n /\ (~ghost.short => w = offset % n)
  BY UsableType DEF BaseInv, Control, Window, Moving, Active
<1> HIDE DEF n
<1>8. CASE n < 0
  <2>1. NextWindow = Lower(w + Blocksize, Size) BY <1>7, <1>8 DEF NextWindow, n
  <2> QED BY <1>1, <1>2, <1>3, <1>4, <1>5, <1>6, <1>7, <1>8, <2>1 DEF Lower, n
<1>9. CASE n > 0
  <2>1. NextWindow = (Blk + w) % n BY <1>9 DEF NextWindow, n
  <2>2. n \in Nat \ {0} BY <1>7, <1>9
  <2>3. NextWindow \in 0 .. n - 1 BY <1>1, <2>1, <2>2
  <2>4. ASSUME ~ghost.short, r = Blocksize, Remaining(r) > 0
        PROVE  NextWindow = AfterBump % n
    <3>1. Blocksize = Blk BY <1>1, <2>4 DEF Remaining, Blocksize
    <3>2. w = offset % n BY <1>7, <1>9, <2>4
    <3>3. NextWindow = (Blk + (offset % n)) % n BY <2>1, <3>2
    <3>4. offset \in Nat /\ Blk \in Nat BY <1>1
    <3>5. (Blk + (offset % n)) % n = (offset + Blk) % n BY <2>2, <3>4, RemainderOfSum, Zenon
    <3> QED BY <1>5, <3>1, <3>3, <3>5
  <2> QED BY <1>2, <1>3, <1>4, <1>5, <1>6, <1>9, <2>2, <2>3, <2>4 DEF n
<1> QED BY <1>7, <1>8, <1>9

LEMMA BaseInit == Init => BaseInv
<1> SUFFICES ASSUME Init PROVE BaseInv OBVIOUS
<1>1. Size \in Nat \ {0} /\ MaxFaults \in Nat BY MethodAssumption
<1>2. \A x \in Offsets : dev[x] = Old BY DEF Init
<1>3. Types
  <2>1. dev \in [Offsets -> Cells(seed)] BY DEF Init, Cells
  <2>2. c \in Contexts BY DEF Init, Contexts, PassTypes
  <2>3. ghost \in Histories BY DEF Init, Histories
  <2>4. patterns \in Seq(Elements) BY DEF Init
  <2>5. i \in 0 .. Len(patterns) BY DEF Init
  <2>6. /\ opt \in Options /\ pc \in Places /\ fin \in BOOLEAN /\ dirty \in BOOLEAN
        /\ junk \in JunkValues /\ result \in {-1, 0, 1, Segv}
    BY DEF Init, Places, JunkValues
  <2>7. z \in 0 .. Size /\ w \in Nat /\ seed \in Nat /\ offset \in 0 .. Size
        /\ faults \in 0 .. MaxFaults
    BY <1>1 DEF Init
  <2> QED BY <2>1, <2>2, <2>3, <2>4, <2>5, <2>6, <2>7 DEF Types
<1>4. Control BY DEF Init, Control, Active
<1>5. Balance /\ Window BY DEF Init, Balance, Window, Moving
<1> QED BY <1>3, <1>4, <1>5 DEF BaseInv

\* A method or a pass that gives up.
LEMMA GivenUp ==
  ASSUME BaseInv, pc # "done", pc' = "done", result' \in {-1, Segv}, ghost' = ghost,
         c' \in Contexts, c'.pass_count = c.pass_count,
         c'.round_working = c.round_working, c'.round_count = c.round_count,
         UNCHANGED <<opt, patterns, i, fin, z, w, seed, junk, offset>>,
         dev' \in [Offsets -> Cells(seed)], dirty' \in BOOLEAN, faults' \in 0 .. MaxFaults,
         pc \notin Moving => ~ghost.short, ghost.short => result' = -1
  PROVE  BaseInv'
<1>1. Types' BY DEF BaseInv, Types, Places
<1>2. Control' BY DEF BaseInv, Control, Active, Segv, Types
<1>3. Balance' BY DEF Balance, Moving, Places
<1>4. Window' BY DEF Window, Moving
<1> QED BY <1>1, <1>2, <1>3, <1>4 DEF BaseInv

\* What the two ends of a pass leave of the context.
LEMMA PassOverType ==
  ASSUME Types
  PROVE  /\ PassOver \in Contexts
         /\ PassOver.pass_count = c.pass_count
         /\ PassOver.round_working = c.round_working
         /\ PassOver.round_count = c.round_count
         /\ PassOver.round_done = c.round_done
         /\ PassOver.round_size = c.round_size
         /\ PassOver.pass_errors = c.pass_errors
         /\ PassOver.verify_errors = c.verify_errors
<1>1. c \in Contexts BY DEF Types
<1>2. CASE fin BY <1>1, <1>2 DEF PassOver, Contexts
<1>3. CASE ~fin BY <1>1, <1>3 DEF PassOver, Contexts, PassTypes
<1> QED BY <1>2, <1>3

-----------------------------------------------------------------------------
\* A write, and a read, that is followed by a successful bump: r bytes moved.
WriteMoves(r, lost) ==
  /\ r \in 0 .. Lower(Blocksize, Room)
  /\ Bump(r)
  /\ lost \subseteq offset .. offset + r - 1
  /\ pc' = pc /\ result' = result
  /\ offset' = AfterBump /\ z' = Remaining(r) /\ w' = NextWindow
  /\ c' \in Contexts
  /\ c' = [c EXCEPT !.round_done = c.round_done + r, !.pass_done = c.pass_done + r,
                    !.pass_errors = More(c.pass_errors, Blocksize - r)]
  /\ ghost' \in Histories
  /\ ghost' = [ghost EXCEPT
        !.lost = ghost.lost \union {x \in lost : dev[x] # Block[x - offset]},
        !.short = ghost.short \/ r < Blocksize,
        !.overwrites = [x \in Offsets |-> IF x \in offset .. offset + r - 1
                                          THEN ghost.overwrites[x] + 1
                                          ELSE ghost.overwrites[x]]]

ReadMoves(r, e) ==
  /\ r \in 0 .. Lower(Blocksize, Room)
  /\ Bump(r)
  /\ e \in Mismatches(r)
  /\ pc' = pc /\ result' = result
  /\ offset' = AfterBump /\ z' = Remaining(r) /\ w' = NextWindow
  /\ c' \in Contexts
  /\ c' = [c EXCEPT !.round_done = c.round_done + r, !.pass_done = c.pass_done + r,
                    !.verify_errors = More(c.verify_errors, e)]
  /\ ghost' \in Histories
  /\ ghost' = [ghost EXCEPT !.short = ghost.short \/ r < Blocksize]

\* A transfer after which the file pointer cannot be bumped.
Stops ==
  /\ pc' = "done" /\ result' = -1 /\ ghost' = ghost
  /\ UNCHANGED <<offset, z, w>>
  /\ c' \in Contexts
  /\ c'.pass_count = c.pass_count /\ c'.round_working = c.round_working
  /\ c'.round_count = c.round_count /\ c'.round_done = c.round_done
  /\ c'.round_size = c.round_size

\* The bytes a write leaves on the device.
Written(r, lost) ==
  dev' = [x \in Offsets |-> IF x \in (offset .. offset + r - 1) \ lost
                            THEN Block[x - offset] ELSE dev[x]]

LEMMA RoomType ==
  ASSUME Types, z > 0
  PROVE  /\ Room \in Nat /\ Blocksize \in 1 .. z /\ offset \in Nat /\ offset + Room = Size
         /\ \A r \in 0 .. Lower(Blocksize, Room) :
              r \in Nat /\ r <= Blocksize /\ offset + r <= Size
<1>1. Size \in Nat \ {0} /\ Blk \in Nat \ {0} /\ z \in 1 .. Size /\ offset \in 0 .. Size
  BY MethodAssumption DEF Types
<1>2. Blocksize \in 1 .. z BY <1>1 DEF Blocksize
<1> QED BY <1>1, <1>2 DEF Room, Lower

LEMMA WriteCases ==
  ASSUME BaseInv, WriteBlock
  PROVE  \E r \in 0 .. Lower(Blocksize, Room) : \E lost \in SUBSET (offset .. offset + r - 1) :
           /\ Written(r, lost)
           /\ WriteMoves(r, lost) \/ Stops
           /\ faults' \in 0 .. MaxFaults
<1>0. Types /\ c \in Contexts /\ ghost \in Histories /\ z > 0 BY DEF BaseInv, Types, WriteBlock
<1>1. PICK r \in ShortCounts(Lower(Blocksize, Room)),
           lost \in {{}} \union {{x} : x \in offset .. offset + Blocksize - 1} :
       LET range == offset .. offset + r - 1
           short == Blocksize - r
           gone  == {x \in lost : dev[x] # Block[x - offset]}
       IN  /\ lost \subseteq range
           /\ IF r < Lower(Blocksize, Room) \/ lost # {} THEN Fault ELSE UNCHANGED faults
           /\ dev' = [x \in Offsets |-> IF x \in range \ lost THEN Block[x - offset]
                                                             ELSE dev[x]]
           /\ IF Bump(r)
              THEN /\ c' = [Progress(r) EXCEPT !.pass_errors = More(@, short)]
                   /\ offset' = AfterBump
                   /\ z' = Remaining(r)
                   /\ w' = NextWindow
                   /\ ghost' = [ghost EXCEPT
                        !.lost = @ \union gone,
                        !.short = @ \/ short > 0,
                        !.overwrites = [x \in Offsets |->
                                          IF x \in range THEN @[x] + 1 ELSE @[x]]]
                   /\ UNCHANGED <<pc, result>>
              ELSE /\ c' = [PassOver EXCEPT !.pass_errors = More(@, short)]
                   /\ Return(-1)
                   /\ UNCHANGED <<offset, z, w>>
  BY DEF WriteBlock
<1>2. /\ Room \in Nat /\ Blocksize \in Nat /\ offset \in Nat /\ offset + Room = Size
      /\ Lower(Blocksize, Room) \in Nat
  BY <1>0, RoomType DEF Lower
<1>3. r \in 0 .. Lower(Blocksize, Room) BY <1>1, <1>2 DEF ShortCounts
<1>4. r \in Nat /\ r <= Blocksize /\ offset + r <= Size BY <1>0, <1>3, RoomType
<1>5. lost \in SUBSET (offset .. offset + r - 1) BY <1>1
<1>6. Written(r, lost) BY <1>1 DEF Written
<1>7. faults' \in 0 .. MaxFaults BY <1>0, <1>1, MethodAssumption DEF Fault, Types
<1>8. PICK short \in Nat : short = Blocksize - r BY <1>2, <1>4
<1>9. CASE Bump(r)
  <2>1. c' = [Progress(r) EXCEPT !.pass_errors = More(@, short)] BY <1>1, <1>8, <1>9
  <2>2. c.round_done + r \in Nat /\ c.pass_done + r \in Nat /\ More(c.pass_errors, short) \in Nat
    BY <1>0, <1>4 DEF Contexts, More, Lower, MaxErrors
  <2>3. c' = [c EXCEPT !.round_done = c.round_done + r, !.pass_done = c.pass_done + r,
                      !.pass_errors = More(c.pass_errors, Blocksize - r)]
    BY <1>0, <1>8, <2>1, Zenon DEF Progress, Contexts
  <2>4. c' \in Contexts BY <1>0, <1>8, <2>2, <2>3 DEF Contexts
  <2>5. ghost' = [ghost EXCEPT
        !.lost = ghost.lost \union {x \in lost : dev[x] # Block[x - offset]},
        !.short = ghost.short \/ r < Blocksize,
        !.overwrites = [x \in Offsets |-> IF x \in offset .. offset + r - 1
                                          THEN ghost.overwrites[x] + 1
                                          ELSE ghost.overwrites[x]]]
    <3>1. (Blocksize - r > 0) <=> r < Blocksize BY <1>2, <1>4
    <3> QED BY <1>1, <1>9, <3>1
  <2>6. ghost' \in Histories
    <3>1. {x \in lost : dev[x] # Block[x - offset]} \subseteq Offsets
      <4>1. offset .. offset + r - 1 \subseteq Offsets BY <1>2, <1>4, MethodAssumption DEF Offsets
      <4> QED BY <1>5, <4>1
    <3>2. [x \in Offsets |-> IF x \in offset .. offset + r - 1
                             THEN ghost.overwrites[x] + 1 ELSE ghost.overwrites[x]]
            \in [Offsets -> Nat]
      BY <1>0 DEF Histories
    <3> QED BY <1>0, <2>5, <3>1, <3>2 DEF Histories
  <2>7. WriteMoves(r, lost)
    BY <1>1, <1>3, <1>5, <1>9, <2>3, <2>4, <2>5, <2>6 DEF WriteMoves
  <2> QED BY <1>3, <1>5, <1>6, <1>7, <2>7
<1>10. CASE ~Bump(r)
  <2>1. c' = [PassOver EXCEPT !.pass_errors = More(@, short)] /\ Return(-1)
        /\ UNCHANGED <<offset, z, w>>
    BY <1>1, <1>8, <1>10
  <2>2. More(PassOver.pass_errors, short) \in Nat
    BY <1>0, PassOverType DEF Contexts, More, Lower, MaxErrors
  <2>3. c' = [PassOver EXCEPT !.pass_errors = More(PassOver.pass_errors, short)]
    BY <1>0, <2>1, PassOverType DEF Contexts
  <2>4. Stops BY <1>0, <2>1, <2>2, <2>3, PassOverType DEF Stops, Return, Contexts
  <2> QED BY <1>3, <1>5, <1>6, <1>7, <2>4
<1> QED BY <1>9, <1>10

LEMMA ReadCases ==
  ASSUME BaseInv, ReadBlock
  PROVE  /\ \/ Stops
            \/ \E r \in 0 .. Lower(Blocksize, Room) : \E e \in Mismatches(r) : ReadMoves(r, e)
         /\ faults' \in 0 .. MaxFaults
<1>0. Types /\ c \in Contexts /\ ghost \in Histories /\ z > 0 BY DEF BaseInv, Types, ReadBlock
<1>1. PICK r \in ShortCounts(Lower(Blocksize, Room)) :
       /\ IF r < Lower(Blocksize, Room) THEN Fault ELSE UNCHANGED faults
       /\ \E e \in Mismatches(r) :
            IF Bump(r)
            THEN /\ c' = [Progress(r) EXCEPT !.verify_errors = More(@, e)]
                 /\ offset' = AfterBump
                 /\ z' = Remaining(r)
                 /\ w' = NextWindow
                 /\ ghost' = [ghost EXCEPT !.short = @ \/ r < Blocksize]
                 /\ UNCHANGED <<pc, result>>
            ELSE /\ c' = [PassOver EXCEPT !.verify_errors = More(@, 1)]
                 /\ Return(-1)
                 /\ UNCHANGED <<offset, z, w>>
  BY DEF ReadBlock
<1>2. Lower(Blocksize, Room) \in Nat BY <1>0, RoomType DEF Lower
<1>3. r \in 0 .. Lower(Blocksize, Room) BY <1>1, <1>2 DEF ShortCounts
<1>4. r \in Nat BY <1>0, <1>3, RoomType
<1>7. faults' \in 0 .. MaxFaults BY <1>0, <1>1, MethodAssumption DEF Fault, Types
<1>9. CASE Bump(r)
  <2>0. PICK e \in Mismatches(r) :
          /\ c' = [Progress(r) EXCEPT !.verify_errors = More(@, e)]
          /\ offset' = AfterBump
          /\ z' = Remaining(r)
          /\ w' = NextWindow
          /\ ghost' = [ghost EXCEPT !.short = @ \/ r < Blocksize]
          /\ UNCHANGED <<pc, result>>
    BY <1>1, <1>9
  <2>1. e \in Nat BY DEF Mismatches
  <2>2. c.round_done + r \in Nat /\ c.pass_done + r \in Nat /\ More(c.verify_errors, e) \in Nat
    BY <1>0, <1>4, <2>1 DEF Contexts, More, Lower, MaxErrors
  <2>3. c' = [c EXCEPT !.round_done = c.round_done + r, !.pass_done = c.pass_done + r,
                      !.verify_errors = More(c.verify_errors, e)]
    BY <1>0, <2>0, Zenon DEF Progress, Contexts
  <2>4. c' \in Contexts BY <1>0, <2>2, <2>3 DEF Contexts
  <2>5. ghost' = [ghost EXCEPT !.short = ghost.short \/ r < Blocksize] BY <2>0
  <2>6. ghost' \in Histories BY <1>0, <2>5 DEF Histories
  <2>7. ReadMoves(r, e) BY <1>3, <1>9, <2>0, <2>3, <2>4, <2>5, <2>6 DEF ReadMoves
  <2> QED BY <1>3, <1>7, <2>7
<1>10. CASE ~Bump(r)
  <2>1. c' = [PassOver EXCEPT !.verify_errors = More(@, 1)] /\ Return(-1)
        /\ UNCHANGED <<offset, z, w>>
    BY <1>1, <1>10
  <2>2. More(PassOver.verify_errors, 1) \in Nat
    BY <1>0, PassOverType DEF Contexts, More, Lower, MaxErrors
  <2>3. c' = [PassOver EXCEPT !.verify_errors = More(PassOver.verify_errors, 1)]
    BY <1>0, <2>1, PassOverType DEF Contexts
  <2>4. Stops BY <1>0, <2>1, <2>2, <2>3, PassOverType DEF Stops, Return, Contexts
  <2> QED BY <1>7, <2>4
<1> QED BY <1>9, <1>10

\* The buffer of a static pass holds its pattern; that of a random one holds the
\* stream only if the generator writes to it, which dwipe_isaac_read does not.
Genuine == opt.prng = "twister" \/ Pattern.length > 0

\* What a pass lays down at the byte x.
Laid(x) == IF Genuine THEN Wanted(x) ELSE Junk(junk)

\* The block of a transfer, and the bytes of the pattern that it stands for.
LEMMA BlockValue ==
  ASSUME BaseInv, pc \in Moving, z > 0, NEW r \in 0 .. Lower(Blocksize, Room),
         NEW k \in 0 .. r - 1
  PROVE  /\ offset + k \in Offsets
         /\ Block[k] \in Cells(seed)
         /\ ~ghost.short => Block[k] = Laid(offset + k)
<1> DEFINE n == Pattern.length
<1>0. Types BY DEF BaseInv
<1>1. offset \in Nat /\ Size \in Nat /\ r \in Nat /\ offset + r <= Size /\ r <= Blocksize
      /\ Blocksize \in Nat
  BY <1>0, RoomType, MethodAssumption
<1>2. k \in 0 .. Blocksize - 1 /\ k \in Nat BY <1>1
<1>3. offset + k \in Offsets BY <1>1, <1>2 DEF Offsets
<1>4. Pattern \in Usable BY DEF BaseInv, Control, Moving, Active
<1>5. /\ n > 0 => n \in Nat \ {0} /\ \A x \in 0 .. n - 1 : Pattern.s[x + 1] \in Byte
      /\ ~(n > 0) => n < 0
      /\ n < 0 => ~(n > 0)
  <2>1. n \in {-1} \union (Nat \ {0}) BY <1>4, UsableType
  <2> QED BY <1>4, <2>1, UsableType
<1>6. CASE n > 0
  <2>1. n \in Nat \ {0} /\ w \in Nat BY <1>0, <1>5, <1>6 DEF Types
  <2>2. Block[k] = Chr(Pattern.s[((w + k) % n) + 1])
    BY <1>2, <1>6 DEF Block, StaticBlock
  <2>3. (w + k) % n \in 0 .. n - 1 BY <1>2, <2>1
  <2>4. Block[k] \in Cells(seed)
    <3>1. Pattern.s[((w + k) % n) + 1] \in Byte BY <1>5, <1>6, <2>3
    <3> QED BY <2>2, <3>1 DEF Cells
  <2>5. ASSUME ~ghost.short PROVE Block[k] = Laid(offset + k)
    <3>1. w = offset % n BY <1>6, <2>5 DEF BaseInv, Window
    <3> HIDE DEF n
    <3>2. ((offset % n) + k) % n = (offset + k) % n BY <1>1, <1>2, <2>1, RemainderOfSum, Zenon
    <3>3. Block[k] = Chr(Pattern.s[((offset + k) % n) + 1]) BY <2>2, <3>1, <3>2
    <3> QED BY <1>6, <3>3 DEF Wanted, Laid, Genuine, n
  <2> QED BY <1>3, <2>4, <2>5
<1>7. CASE n < 0
  <2>1. Block[k] = IF opt.prng = "isaac" THEN Junk(junk) ELSE Rnd(seed, w + k)
    BY <1>2, <1>5, <1>7 DEF Block, RandomBlock
  <2>2. w = offset BY <1>7 DEF BaseInv, Window
  <2>3. seed \in 0 .. seed /\ junk \in JunkValues BY <1>0 DEF Types
  <2>4. Block[k] \in Cells(seed) BY <1>3, <2>1, <2>2, <2>3 DEF Cells
  <2>5. Block[k] = Laid(offset + k)
    <3>1. opt.prng \in {"twister", "isaac"} BY <1>0, OptType
    <3> QED BY <1>5, <1>7, <2>1, <2>2, <3>1 DEF Wanted, Laid, Genuine
  <2> QED BY <1>3, <2>4, <2>5
<1> QED BY <1>5, <1>6, <1>7

LEMMA WrittenType ==
  ASSUME BaseInv, pc \in Moving, z > 0, NEW r \in 0 .. Lower(Blocksize, Room),
         NEW lost, Written(r, lost)
  PROVE  dev' \in [Offsets -> Cells(seed)]
<1>0. Types BY DEF BaseInv
<1>1. offset \in Nat /\ r \in Nat BY <1>0, RoomType
<1>2. \A x \in offset .. offset + r - 1 : x - offset \in 0 .. r - 1 BY <1>1
<1>3. \A x \in offset .. offset + r - 1 : Block[x - offset] \in Cells(seed)
  BY <1>2, BlockValue
<1>4. \A x \in Offsets : dev[x] \in Cells(seed) BY <1>0 DEF Types
<1> QED BY <1>3, <1>4 DEF Written

LEMMA MovePreserves ==
  ASSUME BaseInv, pc \in Moving, z > 0, NEW r \in 0 .. Lower(Blocksize, Room), Bump(r),
         pc' = pc, result' = result,
         offset' = AfterBump, z' = Remaining(r), w' = NextWindow,
         c' \in Contexts, c'.pass_count = c.pass_count,
         c'.round_working = c.round_working, c'.round_count = c.round_count,
         ghost' \in Histories, ghost'.short = (ghost.short \/ r < Blocksize),
         UNCHANGED <<opt, patterns, i, fin, seed, junk>>,
         dev' \in [Offsets -> Cells(seed)], dirty' \in BOOLEAN, faults' \in 0 .. MaxFaults
  PROVE  BaseInv'
<1>0. Types /\ Control /\ Balance /\ Window BY DEF BaseInv
<1>1. /\ Blocksize \in 1 .. z
      /\ offset + Blocksize <= Size /\ AfterBump = offset + Blocksize
      /\ r <= Blocksize /\ Remaining(r) \in 0 .. Size
      /\ NextWindow \in Nat
      /\ Pattern.length < 0 => NextWindow = AfterBump
      /\ Pattern.length > 0 =>
           /\ NextWindow < Pattern.length
           /\ ~ghost.short /\ r = Blocksize /\ Remaining(r) > 0 =>
                NextWindow = AfterBump % Pattern.length
  BY Transfer
<1>2. Pattern' = Pattern BY DEF Pattern, FinalPattern
<1>3. Size \in Nat /\ z \in Nat /\ offset \in Nat /\ r \in Nat /\ Blocksize \in Nat
  BY <1>0, RoomType, MethodAssumption DEF Types
<1>4. offset' \in 0 .. Size /\ z' \in 0 .. Size BY <1>1, <1>3
<1>5. Types' BY <1>0, <1>1, <1>4 DEF Types
<1>6. Control' BY <1>0, <1>2 DEF Control
<1>7. Balance'
  <2>1. z' = z - r /\ offset' = offset + Blocksize BY <1>1 DEF Remaining
  <2>2. IF ghost.short THEN z + offset > Size ELSE z + offset = Size
    BY <1>0 DEF Balance
  <2>3. CASE ghost'.short
    <3>1. ghost.short \/ r < Blocksize BY <2>3, Zenon
    <3>2. z' + offset' > Size BY <1>1, <1>3, <2>1, <2>2, <3>1
    <3> QED BY <2>3, <3>2 DEF Balance, Moving, Places
  <2>4. CASE ~ghost'.short
    <3>1. ~ghost.short /\ ~(r < Blocksize) BY <2>4, Zenon
    <3>2. z' + offset' = Size BY <1>1, <1>3, <2>1, <2>2, <3>1
    <3> QED BY <2>4, <3>2 DEF Balance, Moving, Places
  <2> QED BY <2>3, <2>4
<1>8. Window'
  <2>0. ~ghost'.short => ~ghost.short /\ ~(r < Blocksize) BY Zenon
  <2>1. ~ghost'.short => ~ghost.short /\ r = Blocksize BY <1>1, <1>3, <2>0
  <2> QED BY <1>1, <1>2, <2>1 DEF Window
<1> QED BY <1>5, <1>6, <1>7, <1>8 DEF BaseInv

LEMMA BaseStep == BaseInv /\ [Next]_vars => BaseInv'
<1> SUFFICES ASSUME BaseInv, [Next]_vars PROVE BaseInv' OBVIOUS
<1>0. Types /\ Control /\ Balance /\ Window BY DEF BaseInv
<1>t. Size \in Nat \ {0} /\ Blk \in Nat \ {0} /\ MaxFaults \in Nat BY MethodAssumption
<1>o. opt.method \in Methods /\ opt.rounds \in Nat \ {0} BY <1>0, OptType
<1>c. c \in Contexts BY <1>0 DEF Types
<1>f. Fault => faults' \in 0 .. MaxFaults BY <1>0, <1>t DEF Fault, Types
<1>d. UNCHANGED <<seed, dev, dirty>> => /\ dev' \in [Offsets -> Cells(seed)]
                                        /\ dirty' \in BOOLEAN
  BY <1>0 DEF Types
<1>1. CASE StartMethod
  <2>1. patterns' \in Seq(Elements) BY <1>1, <1>o, PatternsAreElements DEF StartMethod
  <2>2. PICK n \in Nat : n = Len(patterns') BY <2>1
  <2>3. c' = [c EXCEPT !.pass_count  = n, !.pass_size = PassBytes(n),
                       !.round_count = opt.rounds, !.round_size = RoundBytes(n)]
    BY <1>1, <2>2 DEF StartMethod
  <2>4. PassBytes(n) \in Nat /\ RoundBytes(n) \in Nat
    BY <1>t, <1>o DEF PassBytes, RoundBytes
  <2>5. c' \in Contexts /\ c'.pass_count = n /\ c'.round_working = c.round_working
        /\ c'.round_count = opt.rounds
    BY <1>c, <1>o, <2>3, <2>4 DEF Contexts
  <2> HIDE DEF PassBytes, RoundBytes
  <2>6. Types'
    BY <1>0, <1>1, <2>1, <2>2, <2>5 DEF Types, StartMethod, Places
  <2>7. Control'
    BY <1>0, <1>1, <1>o, <2>2, <2>5 DEF Types, Control, StartMethod, Active
  <2>8. Balance' /\ Window'
    BY <1>0, <1>1 DEF Balance, Window, StartMethod, Moving, Places
  <2> QED BY <2>6, <2>7, <2>8 DEF BaseInv
<1>2. CASE MethodFails
  <2>1. pc \notin Moving /\ ~ghost.short BY <1>0, <1>2 DEF MethodFails, Moving, Balance, Places
  <2> QED BY <1>2, <1>c, <1>d, <1>f, <2>1, GivenUp DEF MethodFails, Return
<1>3. CASE StartRound
  <2>1. c' \in Contexts /\ c'.pass_count = c.pass_count
        /\ c'.round_working = c.round_working + 1 /\ c'.round_count = c.round_count
    <3>1. PICK n \in Nat : n = c.round_working + 1 BY <1>c DEF Contexts
    <3>2. c' = [c EXCEPT !.round_working = n, !.pass_working = 0]
      BY <1>3, <3>1 DEF StartRound
    <3> QED BY <1>c, <3>1, <3>2 DEF Contexts
  <2>2. Types' BY <1>0, <1>3, <2>1 DEF Types, StartRound
  <2>0. ~fin /\ c.round_working \in Nat /\ c.round_count \in Nat
        /\ c.round_working < c.round_count
    BY <1>0, <1>3, <1>c DEF StartRound, Control, Contexts
  <2>3. Control' BY <1>0, <1>3, <2>0, <2>1 DEF Control, StartRound, Active
  <2>4. Balance' /\ Window' BY <1>0, <1>3 DEF Balance, Window, StartRound, Moving, Places
  <2> QED BY <2>2, <2>3, <2>4 DEF BaseInv
<1>4. CASE StartPass
  <2>0. ~fin /\ ~ghost.short BY <1>0, <1>4 DEF StartPass, Control, Balance, Places
  <2>1. c' \in Contexts /\ c'.pass_count = c.pass_count
        /\ c'.round_working = c.round_working /\ c'.round_count = c.round_count
    <3>1. PICK n \in Nat : n = c.pass_working + 1 BY <1>c DEF Contexts
    <3>2. c' = [c EXCEPT !.pass_working = n, !.pass_type = "write"]
      BY <1>4, <3>1 DEF StartPass
    <3> QED BY <1>c, <3>1, <3>2 DEF Contexts, PassTypes
  <2>2. i + 1 \in 1 .. Len(patterns) BY <1>0, <1>4, <1>c DEF StartPass, Control, Types
  <2>3. Pattern \in Usable
    <3>1. patterns[i + 1] \in Elements BY <1>0, <2>2 DEF Types
    <3> QED BY <1>4, <2>0, <3>1 DEF StartPass, Pattern, Elements
  <2>4. Pattern' = Pattern BY <1>4 DEF StartPass, Pattern, FinalPattern
  <2>5. seed' \in Nat /\ Cells(seed) \subseteq Cells(seed')
    <3>1. seed' \in Nat /\ seed <= seed' BY <1>0, <1>4 DEF StartPass, Types
    <3>2. 0 .. seed \subseteq 0 .. seed' BY <1>0, <3>1 DEF Types
    <3> QED BY <3>1, <3>2 DEF Cells
  <2>6. Types'
    BY <1>0, <1>4, <1>t, <2>1, <2>5 DEF Types, StartPass, Rewind, Places, JunkValues
  <2>7. Control'
    BY <1>0, <1>4, <1>o, <1>c, <2>0, <2>1, <2>2, <2>3, <2>4 DEF Control, StartPass, Types, Active
  <2>8. Balance' BY <1>4, <1>t, <2>0 DEF Balance, StartPass, Rewind, Moving, Places
  <2>9. Window'
    BY <1>4, <2>3, <2>4, UsableType, Division DEF Window, StartPass, Rewind, Moving
  <2> QED BY <2>6, <2>7, <2>8, <2>9 DEF BaseInv
<1>5. CASE StartWildPass
  <2>1. pc \notin Moving /\ ~ghost.short BY <1>0, <1>5 DEF StartWildPass, Moving, Balance, Places
  <2>2. c' \in Contexts /\ c'.pass_count = c.pass_count
        /\ c'.round_working = c.round_working /\ c'.round_count = c.round_count
    <3>1. PICK n \in Nat : n = c.pass_working + 1 BY <1>c DEF Contexts
    <3>2. c' = [c EXCEPT !.pass_working = n, !.pass_type = "write"]
      BY <1>5, <3>1 DEF StartWildPass
    <3> QED BY <1>c, <3>1, <3>2 DEF Contexts, PassTypes
  <2>3. faults' \in 0 .. MaxFaults BY <1>0, <1>5 DEF StartWildPass, Types
  <2> QED BY <1>5, <1>d, <2>1, <2>2, <2>3, GivenUp DEF StartWildPass, Return
<1>6. CASE StartFinal
  <2>0. ~fin /\ ~ghost.short /\ i = Len(patterns) /\ c.round_count = opt.rounds
    BY <1>0, <1>6 DEF StartFinal, Control, Balance, Places
  <2>1. c' \in Contexts /\ c'.pass_count = c.pass_count
        /\ c'.round_working = c.round_working /\ c'.round_count = c.round_count
    BY <1>6, <1>c DEF StartFinal, Contexts, PassTypes
  <2>3. FinalPattern \in Usable
    <3>1. 0 \in Byte BY PatternAssumption DEF Byte
    <3>2. Static(<<0>>) \in Usable BY <3>1, OneCharacter
    <3> QED BY <3>2 DEF FinalPattern, Usable
  <2>4. Pattern' = FinalPattern BY <1>6 DEF StartFinal, Pattern, FinalPattern
  <2>5. seed' \in Nat /\ Cells(seed) \subseteq Cells(seed')
    <3>1. seed' \in Nat /\ seed <= seed' BY <1>0, <1>6 DEF StartFinal, Types
    <3>2. 0 .. seed \subseteq 0 .. seed' BY <1>0, <3>1 DEF Types
    <3> QED BY <3>1, <3>2 DEF Cells
  <2>6. Types'
    BY <1>0, <1>6, <1>t, <2>1, <2>5 DEF Types, StartFinal, Rewind, Places, JunkValues
  <2>7. Control'
    BY <1>0, <1>6, <1>o, <1>c, <2>0, <2>1, <2>3, <2>4 DEF Control, StartFinal, Types, Active
  <2>8. Balance' BY <1>6, <1>t, <2>0 DEF Balance, StartFinal, Rewind, Moving, Places
  <2>9. Window'
    BY <1>6, <2>3, <2>4, UsableType, Division DEF Window, StartFinal, Rewind, Moving
  <2> QED BY <2>6, <2>7, <2>8, <2>9 DEF BaseInv
<1>7. CASE PassFails
  <2>1. c' \in Contexts /\ c'.pass_count = c.pass_count
        /\ c'.round_working = c.round_working /\ c'.round_count = c.round_count
    BY <1>7, <1>c DEF PassFails, Contexts, PassTypes
  <2>2. pc \notin Moving => ~ghost.short
    BY <1>0, <1>7 DEF PassFails, Moving, Balance, Places
  <2> QED BY <1>7, <1>d, <1>f, <2>1, <2>2, GivenUp DEF PassFails, Return
<1>8. CASE NoEntropy
  BY <1>8, <1>c, <1>d, <1>f, GivenUp DEF NoEntropy, Return, Moving
<1>9. CASE WriteError
  <2>1. result' = -1 /\ pc' = "done" /\ ghost' = ghost BY <1>9 DEF WriteError, Return
  <2>2. faults' \in 0 .. MaxFaults BY <1>0, <1>9, <1>f DEF WriteError, Types
  <2>3. c' = PassOver BY <1>9 DEF WriteError
  <2> QED BY <1>0, <1>9, <1>d, <2>1, <2>2, <2>3, PassOverType, GivenUp DEF WriteError, Moving
<1>10. CASE ReadError
  <2>1. result' = -1 /\ pc' = "done" /\ ghost' = ghost BY <1>10 DEF ReadError, Return
  <2>2. faults' \in 0 .. MaxFaults BY <1>0, <1>10, <1>f DEF ReadError, Types
  <2>3. c' = PassOver BY <1>10 DEF ReadError
  <2> QED BY <1>0, <1>10, <1>d, <2>1, <2>2, <2>3, PassOverType, GivenUp DEF ReadError, Moving
<1>11. CASE WriteBlock
  <2>1. PICK r \in 0 .. Lower(Blocksize, Room) :
          \E lost \in SUBSET (offset .. offset + r - 1) :
           /\ Written(r, lost)
           /\ WriteMoves(r, lost) \/ Stops
           /\ faults' \in 0 .. MaxFaults
    BY <1>11, WriteCases
  <2>2. PICK lost : Written(r, lost) /\ (WriteMoves(r, lost) \/ Stops) /\ faults' \in 0 .. MaxFaults
    BY <2>1
  <2>3. pc \in Moving /\ z > 0 /\ pc # "done" /\ dirty' \in BOOLEAN
        /\ UNCHANGED <<opt, patterns, i, fin, seed, junk>>
    BY <1>11 DEF WriteBlock, Moving
  <2>4. dev' \in [Offsets -> Cells(seed)] BY <2>2, <2>3, WrittenType
  <2>5. CASE Stops BY <2>2, <2>3, <2>4, <2>5, GivenUp DEF Stops
  <2>6. CASE WriteMoves(r, lost)
    <3>1. c'.pass_count = c.pass_count /\ c'.round_working = c.round_working
          /\ c'.round_count = c.round_count
      BY <1>c, <2>6 DEF WriteMoves, Contexts
    <3>2. ghost'.short = (ghost.short \/ r < Blocksize)
      BY <1>0, <2>6 DEF WriteMoves, Histories, Types
    <3> QED BY <2>2, <2>3, <2>4, <2>6, <3>1, <3>2, MovePreserves DEF WriteMoves
  <2> QED BY <2>2, <2>5, <2>6
<1>12. CASE ReadBlock
  <2>1. faults' \in 0 .. MaxFaults BY <1>12, ReadCases
  <2>3. pc \in Moving /\ z > 0 /\ pc # "done"
        /\ UNCHANGED <<opt, patterns, i, fin, seed, junk, dev, dirty>>
    BY <1>12 DEF ReadBlock, Moving
  <2>4. dev' \in [Offsets -> Cells(seed)] /\ dirty' \in BOOLEAN BY <1>d, <2>3
  <2>5. CASE Stops BY <2>1, <2>3, <2>4, <2>5, GivenUp DEF Stops
  <2>6. ASSUME NEW r \in 0 .. Lower(Blocksize, Room), NEW e \in Mismatches(r), ReadMoves(r, e)
        PROVE  BaseInv'
    <3>1. c'.pass_count = c.pass_count /\ c'.round_working = c.round_working
          /\ c'.round_count = c.round_count
      BY <1>c, <2>6 DEF ReadMoves, Contexts
    <3>2. ghost'.short = (ghost.short \/ r < Blocksize)
      BY <1>0, <2>6 DEF ReadMoves, Histories, Types
    <3> QED BY <2>1, <2>3, <2>4, <2>6, <3>1, <3>2, MovePreserves DEF ReadMoves
  <2> QED BY <1>12, <2>5, <2>6, ReadCases
<1>13. CASE SyncAfterWrite
  <2>0. ~ghost.short BY <1>0, <1>13, <1>t DEF SyncAfterWrite, Balance, Moving, Types
  <2>1. c' \in Contexts /\ c'.pass_count = c.pass_count
        /\ c'.round_working = c.round_working /\ c'.round_count = c.round_count
    BY <1>13, <1>c DEF SyncAfterWrite, Contexts
  <2>2. Pattern' = Pattern BY <1>13 DEF SyncAfterWrite, Pattern, FinalPattern
  <2>3. Types' BY <1>0, <1>13, <2>1 DEF SyncAfterWrite, Types, Places
  <2>4. Control' BY <1>0, <1>13, <2>1, <2>2 DEF SyncAfterWrite, Control, Active
  <2>5. Balance' /\ Window' BY <1>13, <2>0 DEF SyncAfterWrite, Balance, Window, Moving
  <2> QED BY <2>3, <2>4, <2>5 DEF BaseInv
<1>14. CASE EndPass
  <2>0. ~ghost.short /\ ghost'.short = ghost.short /\ ghost' \in Histories
        /\ dirty' \in BOOLEAN /\ faults' \in 0 .. MaxFaults
    BY <1>0, <1>14, <1>f DEF EndPass, Flushed, Balance, Types, Histories, Places
  <2>1. c' \in Contexts /\ c'.pass_count = c.pass_count
        /\ c'.round_working = c.round_working /\ c'.round_count = c.round_count
    BY <1>0, <1>14, PassOverType DEF EndPass, Contexts
  <2>2. i \in 0 .. Len(patterns) /\ (~fin => i + 1 \in 0 .. Len(patterns)) /\ Len(patterns) \in Nat
    BY <1>0, <1>14 DEF EndPass, Types, Control, Active
  <2>3. ReadBack => pc' = "verify" /\ i' = i BY <1>14 DEF EndPass, AfterPass
  <2>4. ~ReadBack => IF fin THEN pc' = "end" /\ i' = i ELSE pc' = "rounds" /\ i' = i + 1
    BY <1>14 DEF EndPass, AfterPass
  <2>5. UNCHANGED <<opt, patterns, fin, z, w, seed, junk, offset, dev, result>> /\ pc = "wsync"
    BY <1>14 DEF EndPass
  <2>6. Types' BY <1>0, <2>0, <2>1, <2>2, <2>3, <2>4, <2>5 DEF Types, Places
  <2>7. Control'
    <3>1. ReadBack => Pattern' = Pattern BY <2>3, <2>5 DEF Pattern, FinalPattern
    <3> QED BY <1>0, <2>1, <2>2, <2>3, <2>4, <2>5, <3>1 DEF Control, Active
  <2>8. Balance' /\ Window' BY <2>0, <2>3, <2>4 DEF Balance, Window, Moving
  <2> QED BY <2>6, <2>7, <2>8 DEF BaseInv
<1>15. CASE StartVerify
  <2>0. ~ghost.short BY <1>0, <1>15 DEF StartVerify, Balance, Places
  <2>1. c' \in Contexts /\ c'.pass_count = c.pass_count
        /\ c'.round_working = c.round_working /\ c'.round_count = c.round_count
    BY <1>15, <1>c DEF StartVerify, Contexts, PassTypes
  <2>2. Pattern' = Pattern BY <1>15 DEF StartVerify, Pattern, FinalPattern
  <2>3. Types' BY <1>0, <1>15, <1>t, <2>1 DEF StartVerify, Types, Places, Rewind, JunkValues
  <2>4. Control' BY <1>0, <1>15, <2>1, <2>2 DEF StartVerify, Control, Active
  <2>5. Balance' /\ Window' BY <1>15, <2>0 DEF StartVerify, Rewind, Balance, Window, Moving
  <2> QED BY <2>3, <2>4, <2>5 DEF BaseInv
<1>16. CASE EndVerifySync
  <2>0. ~ghost.short /\ ghost'.short = ghost.short /\ ghost' \in Histories
        /\ dirty' \in BOOLEAN /\ faults' \in 0 .. MaxFaults
    BY <1>0, <1>16, <1>f DEF EndVerifySync, Flushed, Balance, Types, Histories, Places
  <2>1. c' \in Contexts /\ c'.pass_count = c.pass_count
        /\ c'.round_working = c.round_working /\ c'.round_count = c.round_count
    BY <1>16, <1>c DEF EndVerifySync, Contexts
  <2>2. Pattern' = Pattern BY <1>16 DEF EndVerifySync, Pattern, FinalPattern
  <2>3. Types' BY <1>0, <1>16, <2>0, <2>1 DEF EndVerifySync, Types, Places
  <2>4. Control' BY <1>0, <1>16, <2>1, <2>2 DEF EndVerifySync, Control, Active
  <2>5. z = Size /\ offset = 0 /\ w = 0 BY <1>0, <1>16 DEF EndVerifySync, Balance
  <2>6. Balance' BY <1>16, <1>t, <2>0, <2>5 DEF EndVerifySync, Balance, Moving, Places
  <2>7. Window'
    <3>1. Pattern \in Usable BY <1>0, <1>16 DEF EndVerifySync, Control, Active
    <3> QED BY <1>16, <2>2, <2>5, <3>1, UsableType, Division DEF EndVerifySync, Window, Moving
  <2> QED BY <2>3, <2>4, <2>6, <2>7 DEF BaseInv
<1>17. CASE EndVerify
  <2>0. ~ghost.short BY <1>0, <1>17, <1>t DEF EndVerify, Balance, Moving, Types
  <2>1. c' \in Contexts /\ c'.pass_count = c.pass_count
        /\ c'.round_working = c.round_working /\ c'.round_count = c.round_count
    BY <1>0, <1>17, PassOverType DEF EndVerify
  <2>2. i \in 0 .. Len(patterns) /\ (~fin => i + 1 \in 0 .. Len(patterns)) /\ Len(patterns) \in Nat
    BY <1>0, <1>17 DEF EndVerify, Types, Control, Active
  <2>3. Types' BY <1>0, <1>17, <2>1, <2>2 DEF EndVerify, Types, Places
  <2>4. Control' BY <1>0, <1>17, <2>1, <2>2 DEF EndVerify, Control, Active
  <2>5. Balance' /\ Window' BY <1>17, <2>0 DEF EndVerify, Balance, Window, Moving
  <2> QED BY <2>3, <2>4, <2>5 DEF BaseInv
<1>18. CASE Finish
  <2>0. ~ghost.short BY <1>0, <1>18 DEF Finish, Balance, Places
  <2>1. c' \in Contexts /\ c'.pass_count = c.pass_count
        /\ c'.round_working = c.round_working /\ c'.round_count = c.round_count
    BY <1>18, <1>c DEF Finish, Contexts, PassTypes
  <2>3. Types' BY <1>0, <1>18, <2>1 DEF Finish, Types, Places, Return
  <2>4. Control' BY <1>0, <1>18, <2>1 DEF Finish, Control, Active, Return
  <2>5. Balance' /\ Window' BY <1>18, <2>0 DEF Finish, Balance, Window, Moving, Return
  <2> QED BY <2>3, <2>4, <2>5 DEF BaseInv
<1>20. CASE UNCHANGED vars
  <2>1. Types' /\ Control' /\ Balance' /\ Window'
    BY <1>0, <1>20 DEF vars, Types, Control, Balance, Window, Pattern, FinalPattern, Segv, Active, Moving, Places
  <2> QED BY <2>1 DEF BaseInv
<1> QED
  BY <1>1, <1>2, <1>3, <1>4, <1>5, <1>6, <1>7, <1>8, <1>9, <1>10, <1>11, <1>12, <1>13,
     <1>14, <1>15, <1>16, <1>17, <1>18, <1>20
  DEF Next, Gone

\* The types, the window inside its pattern and the cells of the device hold for
\* every size, block size, book and number of faults (TypeOK).
THEOREM TypeCorrect == Spec => []TypeOK
<1>1. BaseInv => TypeOK
  <2> SUFFICES ASSUME BaseInv PROVE TypeOK OBVIOUS
  <2>1. Types /\ Window BY DEF BaseInv
  <2>2. \A f \in DOMAIN c \ {"pass_type"} : c[f] \in Nat
    BY <2>1 DEF Types, Contexts
  <2>3. c.pass_type \in PassTypes BY <2>1 DEF Types, Contexts
  <2>4. pc \in {"write", "read"} /\ Pattern.length > 0 => w < Pattern.length
    BY <2>1 DEF Window, Moving
  <2> QED BY <2>1, <2>2, <2>3, <2>4 DEF TypeOK, Types, Places, PassTypes, Cells
<1> QED BY <1>1, BaseInit, BaseStep, PTL DEF Spec

\* A pass that transferred less than it asked for, at whatever block and of whatever
\* size, ends the method with -1: what it skipped is never written off
\* (ShortTransferIsFatal).
THEOREM ShortAlwaysFatal == Spec => []ShortTransferIsFatal
<1>1. BaseInv => ShortTransferIsFatal BY DEF BaseInv, Balance, ShortTransferIsFatal
<1> QED BY <1>1, BaseInit, BaseStep, PTL DEF Spec

-----------------------------------------------------------------------------
(***************************************************************************)
(* What is on the device.                                                  *)
(***************************************************************************)
LEMMA SameWanted ==
  ASSUME UNCHANGED <<opt, patterns, i, fin, seed>>
  PROVE  /\ Pattern' = Pattern /\ Genuine' = Genuine /\ \A x : Wanted(x)' = Wanted(x)
         /\ junk' = junk => \A x : Laid(x)' = Laid(x)
<1>1. Pattern' = Pattern BY DEF Pattern, FinalPattern
<1>2. Genuine' = Genuine BY <1>1 DEF Genuine
<1>3. \A x : Wanted(x)' = Wanted(x) BY <1>1 DEF Wanted
<1> QED BY <1>1, <1>2, <1>3 DEF Laid

\* A full write: behind the offset nothing changes, ahead of it the pattern is
\* written but for the bytes that are lost.
LEMMA WriteEffect ==
  ASSUME BaseInv, WriteBlock, pc' # "done", ~ghost'.short
  PROVE  /\ ~ghost.short /\ pc' = "write"
         /\ offset \in Nat /\ offset' \in Nat /\ Size \in Nat /\ offset <= offset' /\ offset' <= Size
         /\ c'.verify_errors = c.verify_errors
         /\ \E gone \in SUBSET (offset .. offset' - 1) :
              /\ ghost'.lost = ghost.lost \union gone
              /\ \A x \in Offsets : x \notin offset .. offset' - 1 => dev'[x] = dev[x]
              /\ \A x \in (offset .. offset' - 1) \ gone : dev'[x] = Laid(x)
              /\ \A x \in gone : dev'[x] # Laid(x)
<1>0. Types /\ c \in Contexts /\ ghost \in Histories BY DEF BaseInv, Types
<1>1. pc \in Moving /\ z > 0 /\ pc = "write" BY DEF WriteBlock, Moving
<1>2. PICK r \in 0 .. Lower(Blocksize, Room) :
        \E lost \in SUBSET (offset .. offset + r - 1) :
           /\ Written(r, lost) /\ (WriteMoves(r, lost) \/ Stops)
  BY WriteCases
<1>3. PICK lost \in SUBSET (offset .. offset + r - 1) :
         Written(r, lost) /\ WriteMoves(r, lost)
  BY <1>2 DEF Stops
<1>4. ~ghost.short /\ ~(r < Blocksize)
  <2>1. ghost'.short = (ghost.short \/ r < Blocksize) BY <1>0, <1>3 DEF WriteMoves, Histories
  <2> QED BY <2>1, Zenon
<1>5. /\ offset \in Nat /\ r \in Nat /\ r = Blocksize /\ Blocksize \in Nat /\ offset + r <= Size
      /\ Size \in Nat
  BY <1>0, <1>1, <1>4, RoomType, MethodAssumption
<1>6. offset' = offset + r
  <2>1. AfterBump = offset + Blocksize BY <1>1, <1>3, Transfer DEF WriteMoves
  <2> QED BY <1>3, <1>5, <2>1 DEF WriteMoves
<1>7. PICK range : range = offset .. offset + r - 1 OBVIOUS
<1>8. range = offset .. offset' - 1 BY <1>5, <1>6, <1>7
<1>9. \A x \in range : x \in Offsets /\ Block[x - offset] = Laid(x)
  <2> TAKE x \in range
  <2>1. x - offset \in 0 .. r - 1 /\ offset + (x - offset) = x BY <1>5, <1>7
  <2> QED BY <1>1, <1>4, <2>1, BlockValue
<1>10. lost \subseteq range BY <1>7
<1>11. \A x \in Offsets : dev'[x] = IF x \in range \ lost THEN Block[x - offset] ELSE dev[x]
  BY <1>3, <1>7 DEF Written
<1>12. PICK gone : gone = {x \in lost : dev[x] # Block[x - offset]} OBVIOUS
<1>13. ghost'.lost = ghost.lost \union gone BY <1>0, <1>3, <1>12 DEF WriteMoves, Histories
<1>14. gone \in SUBSET range BY <1>10, <1>12
<1>15. \A x \in Offsets : x \notin range => dev'[x] = dev[x] BY <1>11
<1>16. \A x \in range \ gone : dev'[x] = Laid(x) BY <1>9, <1>11, <1>12
<1>17. \A x \in gone : dev'[x] # Laid(x) BY <1>9, <1>10, <1>11, <1>12
<1>18. c'.verify_errors = c.verify_errors /\ pc' = "write"
  BY <1>0, <1>1, <1>3 DEF WriteMoves, Contexts
<1>19. offset <= offset' /\ offset' <= Size /\ offset' \in Nat BY <1>5, <1>6
<1> QED BY <1>4, <1>5, <1>8, <1>13, <1>14, <1>15, <1>16, <1>17, <1>18, <1>19

\* A full read that counts no error has seen the pattern.
LEMMA ReadEffect ==
  ASSUME BaseInv, ReadBlock, pc' # "done", ~ghost'.short
  PROVE  /\ ~ghost.short /\ pc = "read" /\ pc' = "read"
         /\ offset \in Nat /\ offset' \in Nat /\ Size \in Nat /\ offset <= offset' /\ offset' <= Size
         /\ ghost'.lost = ghost.lost
         /\ Genuine /\ c'.verify_errors = 0 =>
              c.verify_errors = 0 /\ \A x \in offset .. offset' - 1 : dev[x] = Wanted(x)
<1>0. Types /\ c \in Contexts /\ ghost \in Histories BY DEF BaseInv, Types
<1>1. pc \in Moving /\ z > 0 /\ pc = "read" BY DEF ReadBlock, Moving
<1>2. PICK r \in 0 .. Lower(Blocksize, Room) : \E e \in Mismatches(r) : ReadMoves(r, e)
  BY ReadCases DEF Stops
<1>3. PICK e \in Mismatches(r) : ReadMoves(r, e) BY <1>2
<1>4. ~ghost.short /\ ~(r < Blocksize)
  <2>1. ghost'.short = (ghost.short \/ r < Blocksize) BY <1>0, <1>3 DEF ReadMoves, Histories
  <2> QED BY <2>1, Zenon
<1>5. /\ offset \in Nat /\ r \in Nat /\ r = Blocksize /\ Blocksize \in Nat /\ offset + r <= Size
      /\ Size \in Nat
  BY <1>0, <1>1, <1>4, RoomType, MethodAssumption
<1>6. offset' = offset + r
  <2>1. AfterBump = offset + Blocksize BY <1>1, <1>3, Transfer DEF ReadMoves
  <2> QED BY <1>3, <1>5, <2>1 DEF ReadMoves
<1>7. c'.verify_errors = More(c.verify_errors, e) /\ c.verify_errors \in Nat /\ e \in Nat
  BY <1>0, <1>3 DEF ReadMoves, Contexts, Mismatches
<1>8. ASSUME Genuine, c'.verify_errors = 0
      PROVE  c.verify_errors = 0 /\ \A x \in offset .. offset' - 1 : dev[x] = Wanted(x)
  <2>1. c.verify_errors = 0 /\ e = 0 BY <1>7, <1>8 DEF More, Lower, MaxErrors
  <2>2. \A k \in 0 .. r - 1 : dev[offset + k] = Block[k] BY <1>5, <2>1 DEF Mismatches
  <2>3. ASSUME NEW x \in offset .. offset' - 1 PROVE dev[x] = Wanted(x)
    <3>1. x - offset \in 0 .. r - 1 /\ offset + (x - offset) = x BY <1>5, <1>6
    <3>2. Block[x - offset] = Wanted(x) BY <1>1, <1>4, <3>1, <1>8, BlockValue DEF Laid
    <3> QED BY <2>2, <3>1, <3>2
  <2> QED BY <2>1, <2>3
<1>9. ghost'.lost = ghost.lost /\ pc' = "read"
  BY <1>0, <1>1, <1>3 DEF ReadMoves, Histories
<1> QED BY <1>1, <1>4, <1>5, <1>6, <1>8, <1>9

\* Without losses the bytes behind the offset of a pass hold what it lays down, and
\* from its end on the whole device does.
Kept ==
  ghost.lost = {} =>
    /\ pc = "write" => \A x \in Offsets : x < offset => dev[x] = Laid(x)
    /\ pc = "wsync" => \A x \in Offsets : dev[x] = Laid(x)
    /\ Genuine /\ \/ pc \in {"verify", "vsync", "read", "end"}
                  \/ pc = "done" /\ result \in {0, 1}
       => \A x \in Offsets : dev[x] = Wanted(x)

\* As long as no error is counted, what a verification has read is the pattern.
Checked ==
  Genuine /\ c.verify_errors = 0 =>
    /\ pc = "read" => \A x \in Offsets : x < offset => dev[x] = Wanted(x)
    /\ VerifyLast /\ (pc = "end" \/ (pc = "done" /\ result = 0))
         => \A x \in Offsets : dev[x] = Wanted(x)

\* With every pass verified, a loss that is not counted yet is one of the running
\* pass, at a byte its verification has still to read.
Caught ==
  opt.prng = "twister" /\ VerifyAll /\ c.verify_errors = 0 /\ ghost.lost # {} =>
    /\ pc \in Active \/ (pc = "done" /\ result # 0)
    /\ pc = "write" => \E x \in Offsets : x < offset /\ dev[x] # Wanted(x)
    /\ pc \in {"wsync", "verify", "vsync"} => \E x \in Offsets : dev[x] # Wanted(x)
    /\ pc = "read" => \E x \in Offsets : ~(x < offset) /\ dev[x] # Wanted(x)

Verdict == pc = "done" /\ result = 0 => c.verify_errors = 0

ContentInv == Verdict /\ (~ghost.short => Kept /\ Checked /\ Caught)

LEMMA ContentInit == Init => ContentInv
<1> SUFFICES ASSUME Init PROVE ContentInv OBVIOUS
<1>1. pc = "method" /\ ghost.lost = {} BY DEF Init
<1> QED BY <1>1 DEF ContentInv, Verdict, Kept, Checked, Caught

\* A process that gives up owes nothing.
LEMMA GivenUpContent ==
  ASSUME pc' = "done", result' \in {-1, Segv}
  PROVE  ContentInv'
BY DEF ContentInv, Verdict, Kept, Checked, Caught, Segv

LEMMA ContentStep == BaseInv /\ BaseInv' /\ ContentInv /\ [Next]_vars => ContentInv'
<1> SUFFICES ASSUME BaseInv, BaseInv', ContentInv, [Next]_vars PROVE ContentInv' OBVIOUS
<1>0. Types /\ Control /\ Balance /\ c \in Contexts /\ ghost \in Histories BY DEF BaseInv, Types
<1>t. Size \in Nat \ {0} /\ \A x \in Offsets : x \in Int /\ 0 <= x /\ x < Size
  BY MethodAssumption DEF Offsets
<1>i. ~ghost.short => Kept /\ Checked /\ Caught BY DEF ContentInv
<1>1. CASE StartMethod
  <2>1. pc = "method" /\ pc' = "rounds" /\ ghost' = ghost /\ opt' = opt BY <1>1 DEF StartMethod
  <2>2. c'.verify_errors = c.verify_errors BY <1>0, <1>1 DEF StartMethod, Contexts
  <2> QED BY <1>i, <2>1, <2>2
    DEF ContentInv, Verdict, Kept, Checked, Caught, VerifyAll, Active
<1>2. CASE StartRound
  <2>1. pc = "rounds" /\ pc' = "rounds" /\ ghost' = ghost /\ opt' = opt BY <1>2 DEF StartRound
  <2>2. c'.verify_errors = c.verify_errors BY <1>0, <1>2 DEF StartRound, Contexts
  <2> QED BY <1>i, <2>1, <2>2
    DEF ContentInv, Verdict, Kept, Checked, Caught, VerifyAll, Active
<1>3. CASE StartPass \/ StartFinal
  <2>1. pc = "rounds" /\ pc' = "write" /\ ghost' = ghost /\ opt' = opt /\ offset' = 0
    BY <1>3 DEF StartPass, StartFinal, Rewind
  <2>2. c'.verify_errors = c.verify_errors BY <1>0, <1>3 DEF StartPass, StartFinal, Contexts
  <2>3. \A x \in Offsets : ~(x < offset') BY <1>t, <2>1
  <2> QED BY <1>i, <2>1, <2>2, <2>3
    DEF ContentInv, Verdict, Kept, Checked, Caught, VerifyAll, Active
<1>4. CASE MethodFails \/ StartWildPass \/ PassFails \/ NoEntropy \/ WriteError \/ ReadError
  <2>1. pc' = "done" /\ result' \in {-1, Segv}
    BY <1>4 DEF MethodFails, StartWildPass, PassFails, NoEntropy, WriteError, ReadError, Return
  <2> QED BY <2>1, GivenUpContent
<1>5. CASE WriteBlock
  <2>1. CASE pc' = "done"
    <3>1. PICK r, lost : WriteMoves(r, lost) \/ Stops BY <1>5, WriteCases
    <3>2. ~WriteMoves(r, lost) BY <1>5, <2>1 DEF WriteMoves, WriteBlock
    <3>3. result' = -1 BY <3>1, <3>2 DEF Stops
    <3> QED BY <2>1, <3>3, GivenUpContent
  <2>2. CASE pc' # "done" /\ ghost'.short
    BY <2>2 DEF ContentInv, Verdict
  <2>3. CASE pc' # "done" /\ ~ghost'.short
    <3>0. UNCHANGED <<opt, patterns, i, fin, seed, junk>> BY <1>5 DEF WriteBlock
    <3>2. PICK gone \in SUBSET (offset .. offset' - 1) :
              /\ ghost'.lost = ghost.lost \union gone
              /\ \A x \in Offsets : x \notin offset .. offset' - 1 => dev'[x] = dev[x]
              /\ \A x \in (offset .. offset' - 1) \ gone : dev'[x] = Laid(x)
              /\ \A x \in gone : dev'[x] # Laid(x)
      BY <1>5, <2>3, WriteEffect
    <3>3. /\ ~ghost.short /\ pc' = "write" /\ pc = "write"
          /\ offset \in Nat /\ offset' \in Nat /\ offset <= offset' /\ offset' <= Size
          /\ c'.verify_errors = c.verify_errors
      BY <1>5, <2>3, WriteEffect DEF WriteBlock
    <3>4. /\ \A x : Wanted(x)' = Wanted(x) /\ Laid(x)' = Laid(x)
          /\ opt.prng = "twister" => \A x : Laid(x) = Wanted(x)
      BY <3>0, SameWanted DEF Laid, Genuine
    <3>5. Kept /\ Checked /\ Caught BY <1>i, <3>3
    <3>6. Kept'
      <4> SUFFICES ASSUME ghost'.lost = {}, NEW x \in Offsets, x < offset'
                   PROVE  dev'[x] = Laid(x)
        BY <3>3, <3>4 DEF Kept
      <4>1. ghost.lost = {} /\ gone = {} BY <3>2
      <4>2. CASE x < offset
        <5>1. x \notin offset .. offset' - 1 BY <1>t, <3>3, <4>2
        <5> QED BY <3>2, <3>3, <3>5, <4>1, <4>2, <5>1 DEF Kept
      <4>3. CASE ~(x < offset)
        <5>1. x \in offset .. offset' - 1 BY <1>t, <3>3, <4>3
        <5> QED BY <3>2, <4>1, <5>1
      <4> QED BY <4>2, <4>3
    <3>7. Checked' BY <3>3 DEF Checked
    <3>8. Caught'
      <4> SUFFICES ASSUME opt.prng = "twister", VerifyAll, c.verify_errors = 0, ghost'.lost # {}
                   PROVE  \E x \in Offsets : x < offset' /\ dev'[x] # Wanted(x)
        BY <3>0, <3>3, <3>4 DEF Caught, Active, VerifyAll
      <4>1. CASE gone # {}
        <5>1. PICK x \in gone : dev'[x] # Wanted(x) BY <3>2, <3>4, <4>1
        <5>2. x \in offset .. offset' - 1 BY <3>2
        <5>0. offset \in Nat /\ offset' \in Nat BY <3>3
        <5>3. x \in Nat /\ x < offset' BY <5>0, <5>2
        <5>4. x \in Offsets BY <1>t, <3>3, <5>3 DEF Offsets
        <5> QED BY <5>1, <5>3, <5>4
      <4>2. CASE gone = {}
        <5>1. ghost.lost # {} BY <3>2, <4>2
        <5>2. PICK x \in Offsets : x < offset /\ dev[x] # Wanted(x)
          BY <3>3, <3>5, <5>1 DEF Caught
        <5>3. x < offset' /\ x \notin offset .. offset' - 1 BY <1>t, <3>3, <5>2
        <5> QED BY <3>2, <5>2, <5>3
      <4> QED BY <4>1, <4>2
    <3> QED BY <2>3, <3>6, <3>7, <3>8 DEF ContentInv, Verdict
  <2> QED BY <2>1, <2>2, <2>3
<1>6. CASE ReadBlock
  <2>1. CASE pc' = "done"
    <3>1. result' = -1
      BY <1>0, <1>6, <2>1, ReadCases DEF ReadMoves, Stops, ReadBlock
    <3> QED BY <2>1, <3>1, GivenUpContent
  <2>2. CASE pc' # "done" /\ ghost'.short
    BY <2>2 DEF ContentInv, Verdict
  <2>3. CASE pc' # "done" /\ ~ghost'.short
    <3>0. UNCHANGED <<opt, patterns, i, fin, seed, dev>> BY <1>6 DEF ReadBlock
    <3>2. /\ ~ghost.short /\ pc = "read" /\ pc' = "read"
          /\ offset \in Nat /\ offset' \in Nat /\ offset <= offset'
          /\ ghost'.lost = ghost.lost
          /\ Genuine /\ c'.verify_errors = 0 =>
               c.verify_errors = 0 /\ \A x \in offset .. offset' - 1 : dev[x] = Wanted(x)
      BY <1>6, <2>3, ReadEffect
    <3>4. Genuine' = Genuine /\ \A x : Wanted(x)' = Wanted(x) BY <3>0, SameWanted
    <3>5. Kept /\ Checked /\ Caught BY <1>i, <3>2
    <3>6. Kept' BY <3>0, <3>2, <3>4, <3>5 DEF Kept
    <3>7. Checked'
      <4> SUFFICES ASSUME Genuine, c'.verify_errors = 0, NEW x \in Offsets, x < offset'
                   PROVE  dev[x] = Wanted(x)
        BY <3>0, <3>2, <3>4 DEF Checked
      <4>1. CASE x < offset BY <3>2, <3>5, <4>1 DEF Checked
      <4>2. CASE ~(x < offset)
        <5>1. x \in offset .. offset' - 1 BY <1>t, <3>2, <4>2
        <5> QED BY <3>2, <5>1
      <4> QED BY <4>1, <4>2
    <3>8. Caught'
      <4> SUFFICES ASSUME opt.prng = "twister", VerifyAll, c'.verify_errors = 0, ghost.lost # {}
                   PROVE  \E x \in Offsets : ~(x < offset') /\ dev[x] # Wanted(x)
        BY <3>0, <3>2, <3>4 DEF Caught, Active, VerifyAll
      <4>1. PICK x \in Offsets : ~(x < offset) /\ dev[x] # Wanted(x)
        BY <3>2, <3>5 DEF Caught, Genuine
      <4>2. x \notin offset .. offset' - 1 BY <3>2, <4>1 DEF Genuine
      <4>3. ~(x < offset') BY <1>t, <3>2, <4>1, <4>2
      <4> QED BY <4>1, <4>3
    <3> QED BY <2>3, <3>6, <3>7, <3>8 DEF ContentInv, Verdict
  <2> QED BY <2>1, <2>2, <2>3
<1>7. CASE SyncAfterWrite
  <2>1. /\ pc = "write" /\ pc' = "wsync" /\ ghost' = ghost /\ dev' = dev /\ offset' = offset
        /\ UNCHANGED <<opt, patterns, i, fin, seed, junk>>
    BY <1>7 DEF SyncAfterWrite
  <2>2. c'.verify_errors = c.verify_errors BY <1>0, <1>7 DEF SyncAfterWrite, Contexts
  <2>3. offset = Size BY <1>0, <1>t, <1>7 DEF SyncAfterWrite, Balance, Moving, Types
  <2>4. \A x \in Offsets : x < offset BY <1>t, <2>3
  <2>5. \A x : Wanted(x)' = Wanted(x) /\ Laid(x)' = Laid(x) BY <2>1, SameWanted
  <2> QED BY <1>i, <2>1, <2>2, <2>4, <2>5
    DEF ContentInv, Verdict, Kept, Checked, Caught, VerifyAll, VerifyLast, Active
<1>8. CASE EndPass
  <2>1. /\ pc = "wsync" /\ dev' = dev /\ UNCHANGED <<opt, patterns, fin, seed>>
        /\ pc' = IF ReadBack THEN "verify" ELSE IF fin THEN "end" ELSE "rounds"
        /\ pc' \in {"verify", "end"} => i' = i
    BY <1>8 DEF EndPass, AfterPass
  <2>2. c'.verify_errors = c.verify_errors
    BY <1>0, <1>8, PassOverType DEF EndPass, Contexts
  <2>3. ghost'.lost = ghost.lost /\ ghost'.short = ghost.short
    BY <1>0, <1>8 DEF EndPass, Flushed, Histories
  <2>4. pc' \in {"verify", "end"} => Genuine' = Genuine /\ \A x : Wanted(x)' = Wanted(x)
    BY <2>1, SameWanted
  <2>5. pc' = "rounds" => ~VerifyAll BY <2>1 DEF ReadBack
  <2>6. pc' = "end" => ~VerifyAll /\ ~VerifyLast BY <2>1 DEF ReadBack, VerifyAll, VerifyLast
  <2>7. Genuine => \A x : Laid(x) = Wanted(x) BY DEF Laid
  <2> QED BY <1>i, <2>1, <2>2, <2>3, <2>4, <2>5, <2>6, <2>7
    DEF ContentInv, Verdict, Kept, Checked, Caught, VerifyAll, VerifyLast, Active
<1>9. CASE StartVerify \/ EndVerifySync
  <2>1. /\ pc \in {"verify", "vsync"} /\ pc' \in {"vsync", "read"} /\ dev' = dev
        /\ UNCHANGED <<opt, patterns, i, fin, seed>>
    BY <1>9 DEF StartVerify, EndVerifySync
  <2>2. c'.verify_errors = c.verify_errors
    BY <1>0, <1>9 DEF StartVerify, EndVerifySync, Contexts
  <2>3. ghost'.lost = ghost.lost /\ ghost'.short = ghost.short
    BY <1>0, <1>9 DEF StartVerify, EndVerifySync, Flushed, Histories
  <2>4. Genuine' = Genuine /\ \A x : Wanted(x)' = Wanted(x) BY <2>1, SameWanted
  <2>5. pc' = "read" => \A x \in Offsets : ~(x < offset')
    <3>1. pc' = "read" => offset' = 0 BY <1>0, <1>9 DEF StartVerify, EndVerifySync, Balance
    <3> QED BY <1>t, <3>1
  <2> QED BY <1>i, <2>1, <2>2, <2>3, <2>4, <2>5
    DEF ContentInv, Verdict, Kept, Checked, Caught, VerifyAll, VerifyLast, Active
<1>10. CASE EndVerify
  <2>1. /\ pc = "read" /\ ghost' = ghost /\ dev' = dev
        /\ UNCHANGED <<opt, patterns, fin, seed>>
        /\ pc' \in {"end", "rounds"}
        /\ pc' = "end" => i' = i
    BY <1>10 DEF EndVerify
  <2>2. c'.verify_errors = c.verify_errors BY <1>0, <1>10, PassOverType DEF EndVerify
  <2>3. offset = Size BY <1>0, <1>t, <1>10 DEF EndVerify, Balance, Moving, Types
  <2>4. \A x \in Offsets : x < offset BY <1>t, <2>3
  <2>5. pc' = "end" => Genuine' = Genuine /\ \A x : Wanted(x)' = Wanted(x)
    BY <2>1, SameWanted
  <2> QED BY <1>i, <2>1, <2>2, <2>4, <2>5
    DEF ContentInv, Verdict, Kept, Checked, Caught, VerifyAll, VerifyLast, Active
<1>11. CASE Finish
  <2>1. /\ pc = "end" /\ pc' = "done" /\ ghost' = ghost /\ dev' = dev
        /\ UNCHANGED <<opt, patterns, i, fin, seed>>
        /\ result' = IF c.pass_errors > 0 \/ c.verify_errors > 0 THEN 1 ELSE 0
    BY <1>11 DEF Finish, Return
  <2>2. c'.verify_errors = c.verify_errors /\ c.verify_errors \in Nat
    BY <1>0, <1>11 DEF Finish, Contexts
  <2>3. result' = 0 => c.verify_errors = 0 BY <2>1, <2>2
  <2>4. Genuine' = Genuine /\ \A x : Wanted(x)' = Wanted(x) BY <2>1, SameWanted
  <2> QED BY <1>i, <2>1, <2>2, <2>3, <2>4
    DEF ContentInv, Verdict, Kept, Checked, Caught, VerifyAll, VerifyLast, Active
<1>12. CASE UNCHANGED vars
  BY <1>12 DEF vars, ContentInv, Verdict, Kept, Checked, Caught, VerifyAll, VerifyLast,
               Active, Wanted, Laid, Genuine, Pattern, FinalPattern
<1> QED
  BY <1>1, <1>2, <1>3, <1>4, <1>5, <1>6, <1>7, <1>8, <1>9, <1>10, <1>11, <1>12 DEF Next, Gone

LEMMA Invariants == Spec => [](BaseInv /\ ContentInv)
<1>1. Init => BaseInv /\ ContentInv BY BaseInit, ContentInit
<1>2. (BaseInv /\ ContentInv) /\ [Next]_vars => (BaseInv /\ ContentInv)' BY BaseStep, ContentStep
<1> QED BY <1>1, <1>2, PTL DEF Spec

\* A write pass that loses nothing leaves the pattern, in phase, on every byte,
\* however the pattern length, the block size and the device size divide each other:
\* a static pass with either generator, a random one with dwipe_twister
\* (PassWritesPattern).
THEOREM PassAlwaysWritesPattern == Spec => [](Genuine => PassWritesPattern)
<1>1. BaseInv /\ ContentInv => (Genuine => PassWritesPattern)
  <2> SUFFICES ASSUME BaseInv, ContentInv, Genuine, pc = "wsync", ghost.lost = {}
               PROVE  \A x \in Offsets : dev[x] = Wanted(x)
    BY DEF PassWritesPattern
  <2>1. ~ghost.short BY DEF BaseInv, Types, Balance, Places
  <2> QED BY <2>1 DEF ContentInv, Kept, Laid
<1> QED BY <1>1, Invariants, PTL

\* What a random pass without losses leaves on the device.
IsaacJunk ==
  opt.prng = "isaac" /\ pc = "wsync" /\ Pattern.length < 0 /\ ghost.lost = {} =>
    \A x \in Offsets : dev[x] = Junk(junk) /\ dev[x] # Wanted(x)

\* With dwipe_isaac every random pass, of every method, leaves what malloc left in its
\* buffer on the whole device, and nowhere the stream that RandomPassWritesStream wants
\* (prng.c:128, pass.c:288).
THEOREM IsaacAlwaysWritesJunk == Spec => []IsaacJunk
<1>1. ASSUME BaseInv, ContentInv, opt.prng = "isaac", pc = "wsync", Pattern.length < 0,
             ghost.lost = {}, NEW x \in Offsets
      PROVE  dev[x] = Junk(junk) /\ dev[x] # Wanted(x)
  <2>1. ~ghost.short BY <1>1 DEF BaseInv, Types, Balance, Places
  <2>2. ~(Pattern.length > 0)
    <3>1. Pattern \in Usable BY <1>1 DEF BaseInv, Control, Active
    <3>2. Pattern.length \in {-1} \union (Nat \ {0}) BY <3>1, UsableType
    <3> QED BY <1>1, <3>2
  <2>3. ~Genuine BY <1>1, <2>2 DEF Genuine
  <2>4. dev[x] = Junk(junk) BY <1>1, <2>1, <2>3 DEF ContentInv, Kept, Laid
  <2>5. Wanted(x) = Rnd(seed, x) BY <2>2 DEF Wanted
  <2>6. Junk(junk).src # Rnd(seed, x).src BY DEF Junk, Rnd
  <2> QED BY <2>4, <2>5, <2>6
<1>2. BaseInv /\ ContentInv => IsaacJunk BY <1>1 DEF IsaacJunk
<1> QED BY <1>2, Invariants, PTL

\* Exit value 0 after a verified final pass means that every byte of the device holds
\* the final pattern, whatever the device lost and wherever: with either generator for
\* the methods that end on zeros, with dwipe_twister for OPS-II, which ends on the
\* stream (SuccessMeansFinalPattern).
THEOREM SuccessAlwaysMeansFinalPattern ==
  Spec => [](opt.prng = "twister" \/ opt.method # "ops2" => SuccessMeansFinalPattern)
<1>1. ASSUME BaseInv, ContentInv, opt.prng = "twister" \/ opt.method # "ops2"
      PROVE  SuccessMeansFinalPattern
  <2> SUFFICES ASSUME pc = "done", result = 0, VerifyLast \/ ghost.lost = {}
               PROVE  \A x \in Offsets : dev[x] = Wanted(x)
    BY DEF SuccessMeansFinalPattern, Exited
  <2>1. ~ghost.short /\ fin BY <1>1 DEF BaseInv, Types, Control, Balance
  <2>2. Genuine
    <3>1. opt.method # "ops2" => Pattern = Static(<<0>>) BY <2>1 DEF Pattern, FinalPattern
    <3>2. Static(<<0>>).length = 1 BY DEF Static
    <3> QED BY <1>1, <3>1, <3>2 DEF Genuine
  <2> QED BY <1>1, <2>1, <2>2 DEF ContentInv, Verdict, Kept, Checked
<1> QED BY <1>1, Invariants, PTL

\* With every pass verified and dwipe_twister, exit value 0 means that no write of any
\* pass was lost (VerifyAllCatchesLoss).
THEOREM VerifyAllAlwaysCatchesLoss ==
  Spec => [](opt.prng = "twister" => VerifyAllCatchesLoss)
<1>1. ASSUME BaseInv, ContentInv, opt.prng = "twister"
      PROVE  VerifyAllCatchesLoss
  <2> SUFFICES ASSUME pc = "done", result = 0, VerifyAll
               PROVE  ghost.lost = {}
    BY DEF VerifyAllCatchesLoss, Exited
  <2>1. ~ghost.short BY <1>1 DEF BaseInv, Types, Balance
  <2> QED BY <1>1, <2>1 DEF ContentInv, Verdict, Caught, Active
<1> QED BY <1>1, Invariants, PTL

-----------------------------------------------------------------------------
(***************************************************************************)
(* How often each byte is overwritten, and how many bytes are transferred.  *)
(***************************************************************************)

\* The passes that the running round and those before it have completed.
Turns == (c.round_working - 1) * Len(patterns) + i

Planned == opt.rounds * Len(patterns)

\* The bytes that one pass transfers.
Unit == IF VerifyAll THEN 2 * Size ELSE Size

LEMMA TurnsType ==
  ASSUME BaseInv
  PROVE  /\ Turns \in Int /\ Len(patterns) \in Nat /\ i \in 0 .. Len(patterns)
         /\ c.round_working \in Nat
         /\ fin /\ c.round_count = opt.rounds => Turns = Planned
         /\ pc \in Active /\ ~fin => Turns + 1 <= Planned
         /\ Planned \in Nat /\ Unit \in Nat \ {0}
<1>1. /\ c.round_working \in Nat /\ c.round_count \in Nat /\ patterns \in Seq(Elements)
      /\ i \in 0 .. Len(patterns) /\ opt.rounds \in Nat \ {0}
      /\ c.round_working <= c.round_count
      /\ Size \in Nat \ {0}
      /\ fin => i = Len(patterns) /\ c.round_working = c.round_count
      /\ pc \in Active => c.round_count = opt.rounds
      /\ pc \in Active /\ ~fin => i < Len(patterns)
  BY OptType, MethodAssumption DEF BaseInv, Types, Contexts, Control, Active
<1>2. PICK n \in Nat : n = Len(patterns) BY <1>1
<1>3. PICK rw \in Nat : rw = c.round_working BY <1>1
<1>4. PICK total \in Nat : total = opt.rounds BY <1>1
<1>5. Turns = (rw - 1) * n + i /\ i \in Nat /\ i <= n BY <1>1, <1>2, <1>3 DEF Turns
<1>6. Turns \in Int
  <2>1. (rw - 1) * n \in Int OBVIOUS
  <2> QED BY <1>5, <2>1
<1>7. (rw - 1) * n + n = n * rw OBVIOUS
<1>8. Planned = n * total /\ Planned \in Nat
  <2>1. Planned = total * n BY <1>2, <1>4 DEF Planned
  <2>2. total * n = n * total /\ n * total \in Nat OBVIOUS
  <2> QED BY <2>1, <2>2
<1>9. fin /\ c.round_count = opt.rounds => Turns = Planned
  BY <1>1, <1>2, <1>3, <1>4, <1>5, <1>7, <1>8
<1>10. ASSUME pc \in Active, ~fin PROVE Turns + 1 <= Planned
  <2>1. i + 1 <= n /\ n \in Nat \ {0} /\ rw <= total BY <1>1, <1>2, <1>3, <1>4, <1>5, <1>10
  <2>2. Turns + 1 <= n * rw
    <3>1. (rw - 1) * n \in Int OBVIOUS
    <3> QED BY <1>5, <1>7, <2>1, <3>1
  <2>3. n * rw <= n * total
    <3>1. CASE rw = total BY <3>1
    <3>2. CASE rw < total
      <4>1. rw \in Int /\ total \in Int OBVIOUS
      <4>2. n * rw + n <= n * total BY <2>1, <3>2, <4>1, MulMono
      <4>3. n * rw \in Int /\ n * total \in Int OBVIOUS
      <4> QED BY <4>2, <4>3
    <3> QED BY <2>1, <3>1, <3>2
  <2>4. n * rw \in Int /\ n * total \in Int OBVIOUS
  <2> QED BY <1>6, <1>8, <2>2, <2>3, <2>4
<1>11. Unit \in Nat \ {0} BY <1>1 DEF Unit
<1> QED BY <1>1, <1>6, <1>8, <1>9, <1>10, <1>11

LEMMA SameTurns ==
  ASSUME UNCHANGED <<opt, patterns, i>>, c'.round_working = c.round_working
  PROVE  Turns' = Turns /\ Planned' = Planned /\ Unit' = Unit
BY DEF Turns, Planned, Unit, VerifyAll

\* The bytes announced are those of all the passes, of the final one and of the
\* verifications asked for.
LEMMA Announced ==
  ASSUME NEW n \in Nat, Types
  PROVE  /\ RoundBytes(n) = opt.rounds * n * Unit + Size + (IF VerifyLast THEN Size ELSE 0)
         /\ RoundBytes(n) \in Nat \ {0}
<1>1. opt.rounds \in Nat /\ Size \in Nat \ {0} BY OptType, MethodAssumption
<1>2. PICK k \in Nat : k = IF VerifyAll THEN 2 ELSE 1 OBVIOUS
<1>3. Unit = Size * k BY <1>1, <1>2 DEF Unit
<1>4. PassBytes(n) = n * Size * k BY <1>2 DEF PassBytes
<1>5. opt.rounds * (n * Size * k) = opt.rounds * n * (Size * k) /\ opt.rounds * (n * Size * k) \in Nat
  <2>1. PICK u \in Nat : u = opt.rounds BY <1>1
  <2>2. PICK s \in Nat : s = Size BY <1>1
  <2>3. u * (n * s * k) = u * n * (s * k) OBVIOUS
  <2>4. u * (n * s * k) \in Nat OBVIOUS
  <2> QED BY <2>1, <2>2, <2>3, <2>4
<1>6. RoundBytes(n) = opt.rounds * (n * Size * k) + Size + (IF VerifyLast THEN Size ELSE 0)
  BY <1>4 DEF RoundBytes
<1>7. (IF VerifyLast THEN Size ELSE 0) \in Nat BY <1>1
<1>8. RoundBytes(n) \in Nat \ {0} BY <1>1, <1>5, <1>6, <1>7
<1> QED BY <1>3, <1>5, <1>6, <1>8

\* What both loops do to the counters.
LEMMA MoveEffect ==
  ASSUME BaseInv, WriteBlock \/ ReadBlock
  PROVE  /\ pc' # "done" => /\ z \in Nat /\ \E r \in Nat : /\ r <= z /\ z' = z - r
                                                        /\ c'.round_done = c.round_done + r
                            /\ pc' = pc /\ result' = result
         /\ pc' = "done" => result' = -1 /\ c'.round_done = c.round_done
         /\ c'.round_size = c.round_size /\ c'.round_working = c.round_working
         /\ pc \in Moving /\ UNCHANGED <<opt, patterns, i, fin>>
<1>0. Types /\ c \in Contexts /\ z > 0 BY DEF BaseInv, Types, WriteBlock, ReadBlock
<1>1. pc \in Moving /\ pc # "done" /\ UNCHANGED <<opt, patterns, i, fin>>
  BY DEF WriteBlock, ReadBlock, Moving
<1>2. \/ Stops
      \/ \E r \in 0 .. Lower(Blocksize, Room) :
           /\ z' = Remaining(r) /\ pc' = pc /\ result' = result
           /\ c'.round_done = c.round_done + r
           /\ c'.round_size = c.round_size /\ c'.round_working = c.round_working
  <2>1. CASE WriteBlock
    <3>1. PICK r \in 0 .. Lower(Blocksize, Room) : \E lost : WriteMoves(r, lost) \/ Stops
      BY <2>1, WriteCases
    <3>2. PICK lost : WriteMoves(r, lost) \/ Stops BY <3>1
    <3> QED BY <1>0, <3>2 DEF WriteMoves, Contexts
  <2>2. CASE ReadBlock
    <3>1. ASSUME NEW r \in 0 .. Lower(Blocksize, Room), NEW e, ReadMoves(r, e)
          PROVE  /\ z' = Remaining(r) /\ pc' = pc /\ result' = result
                 /\ c'.round_done = c.round_done + r
                 /\ c'.round_size = c.round_size /\ c'.round_working = c.round_working
      BY <1>0, <3>1 DEF ReadMoves, Contexts
    <3> QED BY <2>2, <3>1, ReadCases
  <2> QED BY <2>1, <2>2
<1>3. CASE Stops BY <1>1, <1>3 DEF Stops
<1>4. ASSUME NEW r \in 0 .. Lower(Blocksize, Room),
             z' = Remaining(r), pc' = pc, result' = result,
             c'.round_done = c.round_done + r,
             c'.round_size = c.round_size, c'.round_working = c.round_working
      PROVE  /\ z \in Nat
             /\ \E q \in Nat : q <= z /\ z' = z - q /\ c'.round_done = c.round_done + q
  <2>1. r \in Nat /\ r <= Blocksize /\ Blocksize \in 1 .. z BY <1>0, RoomType
  <2>2. z \in Nat BY <1>0, MethodAssumption DEF Types
  <2>3. r <= z BY <2>1, <2>2
  <2> QED BY <1>4, <2>1, <2>2, <2>3 DEF Remaining
<1> QED BY <1>1, <1>2, <1>3, <1>4

LEMMA OverwriteEffect ==
  ASSUME BaseInv, WriteBlock, pc' # "done", ~ghost'.short
  PROVE  /\ ~ghost.short
         /\ offset \in Nat /\ offset' \in Nat /\ offset <= offset'
         /\ \A x \in Offsets : ghost'.overwrites[x] =
              IF x \in offset .. offset' - 1 THEN ghost.overwrites[x] + 1 ELSE ghost.overwrites[x]
<1>0. Types /\ ghost \in Histories BY DEF BaseInv, Types
<1>1. pc \in Moving /\ z > 0 BY DEF WriteBlock, Moving
<1>2. PICK r \in 0 .. Lower(Blocksize, Room) : \E lost : WriteMoves(r, lost) \/ Stops
  BY WriteCases
<1>3. PICK lost : WriteMoves(r, lost) BY <1>2 DEF Stops
<1>4. ~ghost.short /\ ~(r < Blocksize)
  <2>1. ghost'.short = (ghost.short \/ r < Blocksize) BY <1>0, <1>3 DEF WriteMoves, Histories
  <2> QED BY <2>1, Zenon
<1>5. offset \in Nat /\ r \in Nat /\ r = Blocksize BY <1>0, <1>1, <1>4, RoomType
<1>6. offset' = offset + r
  <2>1. AfterBump = offset + Blocksize BY <1>1, <1>3, Transfer DEF WriteMoves
  <2> QED BY <1>3, <1>5, <2>1 DEF WriteMoves
<1>7. ghost'.overwrites = [x \in Offsets |-> IF x \in offset .. offset + r - 1
                                          THEN ghost.overwrites[x] + 1
                                          ELSE ghost.overwrites[x]]
  BY <1>0, <1>3 DEF WriteMoves, Histories
<1>8. offset .. offset + r - 1 = offset .. offset' - 1 BY <1>5, <1>6
<1> QED BY <1>4, <1>5, <1>6, <1>7, <1>8

\* In every pass of every round each byte is overwritten once more.
Overwritten ==
  /\ pc \in {"method", "rounds"} => \A x \in Offsets : ghost.overwrites[x] = Turns
  /\ pc = "write" /\ ~ghost.short =>
       \A x \in Offsets : ghost.overwrites[x] = IF x < offset THEN Turns + 1 ELSE Turns
  /\ \/ pc \in {"wsync", "verify", "vsync", "read", "end"}
     \/ pc = "done" /\ result \in {0, 1}
     => \A x \in Offsets : ghost.overwrites[x] = Turns + 1

\* The bytes transferred are those of the passes that are over and of this one.
Transferred ==
  /\ pc = "method" => c.round_done = 0 /\ c.round_size = 0
  /\ pc \notin {"method", "done"} => c.round_size = RoundBytes(Len(patterns))
  /\ pc = "rounds" => c.round_done = Turns * Unit
  /\ pc = "write" => c.round_done = Turns * Unit + (Size - z)
  /\ pc \in {"wsync", "verify", "vsync"} => c.round_done = Turns * Unit + Size
  /\ pc = "read" => c.round_done = Turns * Unit + Size + (Size - z)
  /\ pc \in {"verify", "vsync", "read"} => ReadBack
  /\ pc = "end" \/ (pc = "done" /\ result \in {0, 1}) => c.round_done = c.round_size

\* A flush that has not failed leaves nothing behind.
Flushes ==
  dirty => \/ ghost.unflushed
           \/ pc \in {"write", "wsync"}
           \/ pc = "done" /\ result \notin {0, 1}

CountInv == Overwritten /\ Transferred /\ Flushes

LEMMA CountInit == Init => CountInv
<1> SUFFICES ASSUME Init PROVE CountInv OBVIOUS
<1>1. pc = "method" /\ Turns = 0 /\ \A x \in Offsets : ghost.overwrites[x] = 0
  BY DEF Init, Turns
<1>2. c.round_done = 0 /\ c.round_size = 0 /\ ~dirty BY DEF Init
<1> QED BY <1>1, <1>2 DEF CountInv, Overwritten, Transferred, Flushes

LEMMA GivenUpCount ==
  ASSUME pc' = "done", result' \in {-1, Segv}
  PROVE  CountInv'
BY DEF CountInv, Overwritten, Transferred, Flushes, Segv

LEMMA CountStep == BaseInv /\ BaseInv' /\ CountInv /\ [Next]_vars => CountInv'
<1> SUFFICES ASSUME BaseInv, BaseInv', CountInv, [Next]_vars PROVE CountInv' OBVIOUS
<1>0. Types /\ Control /\ Balance /\ c \in Contexts /\ ghost \in Histories BY DEF BaseInv, Types
<1>t. Size \in Nat \ {0} /\ \A x \in Offsets : x \in Int /\ 0 <= x /\ x < Size
  BY MethodAssumption DEF Offsets
<1>i. Overwritten /\ Transferred /\ Flushes BY DEF CountInv
<1>u. /\ Turns \in Int /\ Len(patterns) \in Nat /\ i \in 0 .. Len(patterns)
      /\ c.round_working \in Nat /\ Unit \in Nat \ {0} /\ Planned \in Nat
      /\ c.round_done \in Nat
      /\ fin /\ c.round_count = opt.rounds => Turns = Planned
  BY <1>0, TurnsType DEF Contexts
<1>m. Turns * Unit \in Int /\ (Turns + 1) * Unit = Turns * Unit + Unit
  <2>1. PICK a \in Int : a = Turns BY <1>u
  <2>2. PICK b \in Int : b = Unit BY <1>u
  <2>3. a * b \in Int /\ (a + 1) * b = a * b + b OBVIOUS
  <2> QED BY <2>1, <2>2, <2>3
<1>1. CASE StartMethod
  <2>1. /\ pc = "method" /\ pc' = "rounds" /\ i' = Len(patterns') /\ dirty' = dirty
        /\ ghost' = ghost /\ opt' = opt
    BY <1>1 DEF StartMethod
  <2>2. /\ c'.round_working = c.round_working /\ c'.round_done = c.round_done
        /\ c'.round_size = RoundBytes(Len(patterns'))
    BY <1>0, <1>1 DEF StartMethod, Contexts
  <2>3. Turns = 0 BY <1>0, <1>u, <2>1 DEF Turns, Control
  <2>4. Turns' = 0
    <3>1. c'.round_working = 0 BY <1>0, <2>1, <2>2 DEF Control
    <3>2. Len(patterns') \in Nat BY TurnsType, BaseInv' DEF BaseInv, Types
    <3> QED BY <2>1, <3>1, <3>2 DEF Turns
  <2>5. RoundBytes(Len(patterns))' = RoundBytes(Len(patterns'))
    BY <2>1 DEF RoundBytes, PassBytes, VerifyAll, VerifyLast
  <2>6. Unit' = Unit BY <2>1 DEF Unit, VerifyAll
  <2>7. Turns' * Unit' = 0 BY <1>u, <2>4, <2>6
  <2> QED BY <1>i, <2>1, <2>2, <2>3, <2>4, <2>5, <2>7
    DEF CountInv, Overwritten, Transferred, Flushes
<1>2. CASE StartRound
  <2>1. /\ pc = "rounds" /\ pc' = "rounds" /\ i' = 0 /\ i = c.pass_count /\ dirty' = dirty
        /\ UNCHANGED <<opt, patterns, ghost, fin>>
    BY <1>2 DEF StartRound
  <2>2. /\ c'.round_working = c.round_working + 1 /\ c'.round_done = c.round_done
        /\ c'.round_size = c.round_size
    <3>1. PICK n \in Nat : n = c.round_working + 1 BY <1>u
    <3>2. c' = [c EXCEPT !.round_working = n, !.pass_working = 0]
      BY <1>2, <3>1 DEF StartRound
    <3> QED BY <1>0, <3>1, <3>2 DEF Contexts
  <2>3. Turns' = Turns
    <3>1. PICK n \in Nat : n = Len(patterns) BY <1>u
    <3>2. PICK rw \in Nat : rw = c.round_working BY <1>u
    <3>3. i = n BY <1>0, <2>1, <3>1 DEF Control
    <3>4. Turns = (rw - 1) * n + n BY <3>1, <3>2, <3>3 DEF Turns
    <3>5. Turns' = rw * n + 0
      <4>1. c'.round_working - 1 = rw BY <2>2, <3>2
      <4> QED BY <2>1, <3>1, <4>1 DEF Turns
    <3>6. (rw - 1) * n + n = rw * n + 0 OBVIOUS
    <3> QED BY <3>4, <3>5, <3>6
  <2>4. Unit' = Unit /\ RoundBytes(Len(patterns))' = RoundBytes(Len(patterns))
    BY <2>1 DEF Unit, RoundBytes, PassBytes, VerifyAll, VerifyLast
  <2> QED BY <1>i, <2>1, <2>2, <2>3, <2>4 DEF CountInv, Overwritten, Transferred, Flushes
<1>3. CASE StartPass \/ StartFinal
  <2>1. /\ pc = "rounds" /\ pc' = "write" /\ offset' = 0 /\ z' = Size
        /\ UNCHANGED <<opt, patterns, i, ghost, dirty>>
    BY <1>3 DEF StartPass, StartFinal, Rewind
  <2>2. /\ c'.round_working = c.round_working /\ c'.round_done = c.round_done
        /\ c'.round_size = c.round_size
    BY <1>0, <1>3 DEF StartPass, StartFinal, Contexts
  <2>3. Turns' = Turns /\ Unit' = Unit BY <2>1, <2>2, SameTurns
  <2>4. RoundBytes(Len(patterns))' = RoundBytes(Len(patterns))
    BY <2>1 DEF RoundBytes, PassBytes, VerifyAll, VerifyLast
  <2>5. \A x \in Offsets : ~(x < offset') BY <1>t, <2>1
  <2>6. Turns * Unit = Turns * Unit + (Size - z') BY <1>m, <1>t, <2>1
  <2> QED BY <1>i, <2>1, <2>2, <2>3, <2>4, <2>5, <2>6
    DEF CountInv, Overwritten, Transferred, Flushes
<1>4. CASE MethodFails \/ StartWildPass \/ PassFails \/ NoEntropy \/ WriteError \/ ReadError
  <2>1. pc' = "done" /\ result' \in {-1, Segv}
    BY <1>4 DEF MethodFails, StartWildPass, PassFails, NoEntropy, WriteError, ReadError, Return
  <2> QED BY <2>1, GivenUpCount
<1>5. CASE WriteBlock \/ ReadBlock
  <2>1. CASE pc' = "done" BY <1>5, <2>1, MoveEffect, GivenUpCount
  <2>2. CASE pc' # "done"
    <3>1. /\ pc' = pc /\ pc \in Moving /\ UNCHANGED <<opt, patterns, i, fin>>
          /\ c'.round_size = c.round_size /\ c'.round_working = c.round_working
          /\ z \in Nat
      BY <1>5, <2>2, MoveEffect
    <3>2. PICK r \in Nat : r <= z /\ z' = z - r /\ c'.round_done = c.round_done + r
      BY <1>5, <2>2, MoveEffect
    <3>3. Turns' = Turns /\ Unit' = Unit BY <3>1, SameTurns
    <3>4. RoundBytes(Len(patterns))' = RoundBytes(Len(patterns)) /\ ReadBack' = ReadBack
      BY <3>1 DEF RoundBytes, PassBytes, VerifyAll, VerifyLast, ReadBack
    <3>5. Transferred'
      <4>1. CASE pc = "write"
        <5>1. c.round_done = Turns * Unit + (Size - z) BY <1>i, <4>1 DEF Transferred
        <5>2. c'.round_done = Turns * Unit + (Size - z') BY <1>m, <1>t, <3>1, <3>2, <5>1
        <5> QED BY <1>i, <3>1, <3>3, <3>4, <4>1, <5>2 DEF Transferred
      <4>2. CASE pc = "read"
        <5>1. c.round_done = Turns * Unit + Size + (Size - z) BY <1>i, <4>2 DEF Transferred
        <5>2. c'.round_done = Turns * Unit + Size + (Size - z')
          BY <1>m, <1>t, <3>1, <3>2, <5>1
        <5> QED BY <1>i, <3>1, <3>3, <3>4, <4>2, <5>2 DEF Transferred
      <4> QED BY <3>1, <4>1, <4>2 DEF Moving
    <3>6. Overwritten'
      <4>1. CASE WriteBlock
        <5>1. pc = "write" BY <4>1 DEF WriteBlock
        <5>2. CASE ghost'.short BY <3>1, <5>1, <5>2 DEF Overwritten
        <5>3. CASE ~ghost'.short
          <6>1. /\ ~ghost.short
                /\ offset \in Nat /\ offset' \in Nat /\ offset <= offset'
                /\ \A x \in Offsets : ghost'.overwrites[x] =
                     IF x \in offset .. offset' - 1 THEN ghost.overwrites[x] + 1
                                                   ELSE ghost.overwrites[x]
            BY <2>2, <4>1, <5>3, OverwriteEffect
          <6>2. \A x \in Offsets : ghost.overwrites[x] = IF x < offset THEN Turns + 1 ELSE Turns
            BY <1>i, <5>1, <6>1 DEF Overwritten
          <6>3. \A x \in Offsets :
                  ghost'.overwrites[x] = IF x < offset' THEN Turns + 1 ELSE Turns
            BY <1>t, <1>u, <6>1, <6>2
          <6> QED BY <3>1, <3>3, <5>1, <6>3 DEF Overwritten
        <5> QED BY <5>2, <5>3
      <4>2. CASE ReadBlock
        <5>1. pc = "read" BY <4>2 DEF ReadBlock
        <5>2. ghost'.overwrites = ghost.overwrites
          <6>1. ASSUME NEW r1 \in 0 .. Lower(Blocksize, Room), NEW e, ReadMoves(r1, e)
                PROVE  ghost'.overwrites = ghost.overwrites
            BY <1>0, <6>1 DEF ReadMoves, Histories
          <6> QED BY <2>2, <4>2, <6>1, ReadCases DEF Stops
        <5> QED BY <1>i, <3>1, <3>3, <5>1, <5>2 DEF Overwritten
      <4> QED BY <1>5, <4>1, <4>2
    <3>7. Flushes'
      <4>1. CASE WriteBlock BY <3>1, <4>1 DEF WriteBlock, Flushes
      <4>2. CASE ReadBlock
        <5>1. dirty' = dirty /\ pc = "read" BY <4>2 DEF ReadBlock
        <5>2. ghost'.unflushed = ghost.unflushed
          <6>1. ASSUME NEW r1 \in 0 .. Lower(Blocksize, Room), NEW e, ReadMoves(r1, e)
                PROVE  ghost'.unflushed = ghost.unflushed
            BY <1>0, <6>1 DEF ReadMoves, Histories
          <6> QED BY <2>2, <4>2, <6>1, ReadCases DEF Stops
        <5> QED BY <1>i, <3>1, <5>1, <5>2 DEF Flushes
      <4> QED BY <1>5, <4>1, <4>2
    <3> QED BY <3>5, <3>6, <3>7 DEF CountInv
  <2> QED BY <2>1, <2>2
<1>7. CASE SyncAfterWrite
  <2>1. /\ pc = "write" /\ pc' = "wsync" /\ z = 0
        /\ UNCHANGED <<opt, patterns, i, fin, ghost, dirty>>
    BY <1>7 DEF SyncAfterWrite
  <2>2. /\ c'.round_working = c.round_working /\ c'.round_done = c.round_done
        /\ c'.round_size = c.round_size
    BY <1>0, <1>7 DEF SyncAfterWrite, Contexts
  <2>3. Turns' = Turns /\ Unit' = Unit BY <2>1, <2>2, SameTurns
  <2>4. RoundBytes(Len(patterns))' = RoundBytes(Len(patterns))
    BY <2>1 DEF RoundBytes, PassBytes, VerifyAll, VerifyLast
  <2>5. ~ghost.short /\ offset = Size
    BY <1>0, <1>t, <2>1 DEF Balance, Moving, Types
  <2>6. \A x \in Offsets : x < offset BY <1>t, <2>5
  <2>7. Turns * Unit + (Size - z) = Turns * Unit + Size BY <1>m, <1>t, <2>1
  <2> QED BY <1>i, <2>1, <2>2, <2>3, <2>4, <2>5, <2>6, <2>7
    DEF CountInv, Overwritten, Transferred, Flushes
<1>8. CASE EndPass \/ EndVerify
  <2>1. /\ pc \in {"wsync", "read"} /\ UNCHANGED <<opt, patterns, fin, z>>
        /\ pc' \in {"verify", "end", "rounds"}
        /\ pc' = "verify" => pc = "wsync" /\ ReadBack
        /\ pc' # "verify" /\ pc = "wsync" => ~ReadBack
        /\ pc = "read" => z = 0
        /\ pc' = "rounds" => ~fin /\ i' = i + 1
        /\ pc' = "end" => fin
        /\ pc' \in {"verify", "end"} => i' = i
    BY <1>8 DEF EndPass, EndVerify, AfterPass
  <2>2. /\ c'.round_working = c.round_working /\ c'.round_done = c.round_done
        /\ c'.round_size = c.round_size
    <3>1. PassOver \in Contexts BY <1>0, PassOverType
    <3> QED BY <1>0, <1>8, <3>1, PassOverType DEF EndPass, EndVerify, Contexts
  <2>3. ghost'.overwrites = ghost.overwrites /\ (dirty' => ghost'.unflushed)
    BY <1>0, <1>8, <1>i DEF EndPass, EndVerify, Flushed, Flushes, Histories
  <2>4. RoundBytes(Len(patterns))' = RoundBytes(Len(patterns)) /\ Unit' = Unit
        /\ ReadBack' = ReadBack
    BY <2>1 DEF Unit, RoundBytes, PassBytes, VerifyAll, VerifyLast, ReadBack
  <2>5. c.round_size = RoundBytes(Len(patterns)) BY <1>i, <2>1 DEF Transferred
  <2>6. c.round_done = Turns * Unit + (IF pc = "read" THEN 2 * Size ELSE Size)
    <3>1. CASE pc = "wsync" BY <1>i, <3>1 DEF Transferred
    <3>2. CASE pc = "read"
      <4>1. c.round_done = Turns * Unit + Size + (Size - z) /\ z = 0
        BY <1>i, <2>1, <3>2 DEF Transferred
      <4> QED BY <1>m, <1>t, <3>2, <4>1
    <3> QED BY <2>1, <3>1, <3>2
  <2>7. CASE pc' = "verify"
    <3>1. Turns' = Turns BY <2>1, <2>2, <2>7, SameTurns
    <3> QED BY <1>i, <2>1, <2>2, <2>3, <2>4, <2>5, <2>6, <2>7, <3>1
      DEF CountInv, Overwritten, Transferred, Flushes
  <2>8. CASE pc' = "rounds"
    <3>1. Turns' = Turns + 1
      <4>1. Turns' = (c.round_working - 1) * Len(patterns) + (i + 1)
        BY <2>1, <2>2, <2>8 DEF Turns
      <4>2. (c.round_working - 1) * Len(patterns) \in Int /\ i \in Int BY <1>u
      <4> QED BY <4>1, <4>2 DEF Turns
    <3>2. Unit = IF pc = "read" THEN 2 * Size ELSE Size
      BY <1>i, <2>1, <2>8 DEF Unit, Transferred, ReadBack
    <3>3. c.round_done = Turns' * Unit' BY <1>m, <2>4, <2>6, <3>1, <3>2
    <3> QED BY <1>i, <2>1, <2>2, <2>3, <2>4, <2>5, <2>8, <3>1, <3>3
      DEF CountInv, Overwritten, Transferred, Flushes
  <2>9. CASE pc' = "end"
    <3>1. Turns' = Turns BY <2>1, <2>2, <2>9, SameTurns
    <3>2. Turns = Planned BY <1>0, <1>u, <2>1, <2>9 DEF Control
    <3>3. RoundBytes(Len(patterns)) = Turns * Unit + Size + (IF VerifyLast THEN Size ELSE 0)
      BY <1>0, <1>u, <3>2, Announced DEF Planned
    <3>4. VerifyLast <=> pc = "read" BY <1>i, <2>1, <2>9 DEF Transferred, ReadBack
    <3>5. c.round_done = c.round_size BY <1>m, <1>t, <2>5, <2>6, <3>3, <3>4
    <3> QED BY <1>i, <2>1, <2>2, <2>3, <2>4, <2>5, <2>9, <3>1, <3>5
      DEF CountInv, Overwritten, Transferred, Flushes
  <2> QED BY <2>1, <2>7, <2>8, <2>9
<1>9. CASE StartVerify \/ EndVerifySync
  <2>1. /\ pc \in {"verify", "vsync"} /\ pc' \in {"vsync", "read"}
        /\ UNCHANGED <<opt, patterns, i, fin>>
    BY <1>9 DEF StartVerify, EndVerifySync
  <2>2. /\ c'.round_working = c.round_working /\ c'.round_done = c.round_done
        /\ c'.round_size = c.round_size
    BY <1>0, <1>9 DEF StartVerify, EndVerifySync, Contexts
  <2>3. ghost'.overwrites = ghost.overwrites /\ (dirty' => ghost'.unflushed)
    BY <1>0, <1>9, <1>i DEF StartVerify, EndVerifySync, Flushed, Flushes, Histories
  <2>4. Turns' = Turns /\ Unit' = Unit BY <2>1, <2>2, SameTurns
  <2>5. RoundBytes(Len(patterns))' = RoundBytes(Len(patterns)) /\ ReadBack' = ReadBack
    BY <2>1 DEF RoundBytes, PassBytes, VerifyAll, VerifyLast, ReadBack
  <2>6. pc' = "read" => z' = Size BY <1>0, <1>9 DEF StartVerify, EndVerifySync, Balance
  <2>7. pc' = "read" => Turns * Unit + Size = Turns * Unit + Size + (Size - z')
    BY <1>m, <1>t, <2>6
  <2> QED BY <1>i, <2>1, <2>2, <2>3, <2>4, <2>5, <2>7
    DEF CountInv, Overwritten, Transferred, Flushes
<1>10. CASE Finish
  <2>1. /\ pc = "end" /\ pc' = "done" /\ UNCHANGED <<opt, patterns, i, fin, ghost, dirty>>
    BY <1>10 DEF Finish, Return
  <2>2. /\ c'.round_working = c.round_working /\ c'.round_done = c.round_done
        /\ c'.round_size = c.round_size
    BY <1>0, <1>10 DEF Finish, Contexts
  <2>4. Turns' = Turns BY <2>1, <2>2, SameTurns
  <2> QED BY <1>i, <2>1, <2>2, <2>4 DEF CountInv, Overwritten, Transferred, Flushes
<1>11. CASE UNCHANGED vars
  BY <1>11 DEF vars, CountInv, Overwritten, Transferred, Flushes, Turns, Unit, VerifyAll,
               VerifyLast, ReadBack, RoundBytes, PassBytes
<1> QED
  BY <1>1, <1>2, <1>3, <1>4, <1>5, <1>7, <1>8, <1>9, <1>10, <1>11 DEF Next, Gone

LEMMA CountInvariant == Spec => [](BaseInv /\ CountInv)
<1>1. Init => BaseInv /\ CountInv BY BaseInit, CountInit
<1>2. (BaseInv /\ CountInv) /\ [Next]_vars => (BaseInv /\ CountInv)' BY BaseStep, CountStep
<1> QED BY <1>1, <1>2, PTL DEF Spec

\* A method that returns 0 or 1 has overwritten every byte once per pattern and round
\* and once more, for every number of rounds and patterns (PromisedOverwrites).
THEOREM AlwaysPromisedOverwrites == Spec => []PromisedOverwrites
<1>1. BaseInv /\ CountInv => PromisedOverwrites
  <2> SUFFICES ASSUME BaseInv, CountInv, pc = "done", result \in {0, 1}
               PROVE  \A x \in Offsets : ghost.overwrites[x] = opt.rounds * Len(patterns) + 1
    BY DEF PromisedOverwrites, Exited
  <2>1. fin /\ c.round_count = opt.rounds BY DEF BaseInv, Control
  <2>2. Turns = opt.rounds * Len(patterns) BY <2>1, TurnsType DEF Planned
  <2> QED BY <2>2 DEF CountInv, Overwritten
<1> QED BY <1>1, CountInvariant, PTL

\* Unless a flush failed, nothing is left unflushed behind a method that returns 0 or 1
\* (FlushedAtExit).
THEOREM AlwaysFlushedAtExit == Spec => []FlushedAtExit
<1>1. BaseInv /\ CountInv => FlushedAtExit BY DEF CountInv, Flushes, FlushedAtExit, Exited
<1> QED BY <1>1, CountInvariant, PTL

-----------------------------------------------------------------------------
(***************************************************************************)
(* The process as the parent sees it.                                      *)
(***************************************************************************)

\* The progress stays within the plan while the passes run.
InPlan ==
  pc \in Moving => c.round_done \in Nat /\ c.round_size \in Nat /\ c.round_done <= c.round_size

LEMMA WithinPlan == BaseInv /\ CountInv => InPlan
<1> SUFFICES ASSUME BaseInv, CountInv, pc \in Moving
             PROVE  /\ c.round_done <= c.round_size
                    /\ c.round_done \in Nat /\ c.round_size \in Nat
  BY DEF InPlan
<1>0. Types /\ Control /\ c \in Contexts BY DEF BaseInv, Types
<1>1. /\ Turns \in Int /\ Len(patterns) \in Nat /\ Unit \in Nat \ {0} /\ Planned \in Nat
      /\ fin /\ c.round_count = opt.rounds => Turns = Planned
      /\ ~fin => Turns + 1 <= Planned
  BY TurnsType DEF Moving, Active
<1>2. Size \in Nat \ {0} /\ z \in 0 .. Size BY <1>0, MethodAssumption DEF Types
<1>3. c.round_size = Planned * Unit + Size + (IF VerifyLast THEN Size ELSE 0)
  <2>1. c.round_size = RoundBytes(Len(patterns)) BY DEF CountInv, Transferred, Moving
  <2> QED BY <1>0, <1>1, <2>1, Announced DEF Planned
<1>4. PICK t \in Int : t = Turns BY <1>1
<1>5. PICK p \in Nat : p = Planned BY <1>1
<1>6. PICK u \in Nat \ {0} : u = Unit BY <1>1
<1>7. t * u \in Int /\ p * u \in Int OBVIOUS
<1>8. c.round_done = t * u + (IF pc = "read" THEN Size ELSE 0) + (Size - z)
  BY <1>2, <1>4, <1>6, <1>7 DEF CountInv, Transferred, Moving
<1>9. pc = "read" => ReadBack BY DEF CountInv, Transferred
<1>10. CASE fin
  <2>1. t = p BY <1>0, <1>1, <1>4, <1>5, <1>10 DEF Control, Moving
  <2>2. pc = "read" => VerifyLast BY <1>9, <1>10 DEF ReadBack
  <2>3. c.round_done <= c.round_size BY <1>2, <1>3, <1>5, <1>6, <1>7, <1>8, <2>1, <2>2
  <2> QED BY <1>0, <2>3 DEF Contexts
<1>11. CASE ~fin
  <2>1. t * u + u <= p * u
    <3>1. t < p BY <1>1, <1>4, <1>5, <1>11
    <3>2. u * t + u <= u * p BY <3>1, MulMono
    <3>3. u * t = t * u /\ u * p = p * u OBVIOUS
    <3> QED BY <3>2, <3>3
  <2>2. pc = "read" => u = 2 * Size BY <1>6, <1>9, <1>11 DEF ReadBack, Unit
  <2>3. Size <= u BY <1>2, <1>6 DEF Unit
  <2>4. c.round_done <= t * u + u
    BY <1>2, <1>7, <1>8, <2>2, <2>3
  <2>5. p * u <= c.round_size BY <1>2, <1>3, <1>5, <1>6, <1>7
  <2>6. c.round_done \in Nat /\ c.round_size \in Nat BY <1>0 DEF Contexts
  <2> QED BY <1>7, <2>1, <2>4, <2>5, <2>6
<1> QED BY <1>10, <1>11

LEMMA ProcessStep ==
  BaseInv /\ BaseInv' /\ CountInv /\ InPlan' /\ [Next]_vars => [Process!Next]_Process!vars
<1> SUFFICES ASSUME BaseInv, BaseInv', CountInv, InPlan', [Next]_vars
             PROVE  Process!Next \/ UNCHANGED Process!vars
  OBVIOUS
<1>0. Types /\ Control /\ c \in Contexts BY DEF BaseInv, Types
<1>1. CASE StartMethod
  <2>1. pc = "method" /\ pc' = "rounds" /\ result' = result /\ opt' = opt BY <1>1 DEF StartMethod
  <2>2. c'.round_done = c.round_done /\ c'.round_size = RoundBytes(Len(patterns'))
    BY <1>0, <1>1 DEF StartMethod, Contexts
  <2>3. c.round_size = 0 BY <2>1 DEF CountInv, Transferred
  <2>4. Len(patterns') \in Nat BY BaseInv' DEF BaseInv, Types
  <2>5. c'.round_size \in Nat \ {0} BY <1>0, <2>2, <2>4, Announced
  <2> QED BY <2>1, <2>2, <2>3, <2>5 DEF Process!Next, Process!Announce
<1>2. CASE MethodFails \/ StartWildPass \/ PassFails \/ NoEntropy \/ WriteError \/ ReadError
  <2>1. pc # "done" /\ pc' = "done" /\ result' \in {-1, Segv}
    BY <1>2 DEF MethodFails, StartWildPass, PassFails, NoEntropy, WriteError, ReadError, Return
  <2>2. c'.round_done = c.round_done /\ c'.round_size = c.round_size
    BY <1>0, <1>2, PassOverType
    DEF MethodFails, StartWildPass, PassFails, NoEntropy, WriteError, ReadError, Contexts
  <2> QED BY <2>1, <2>2 DEF Process!Next, Process!Abort
<1>3. CASE WriteBlock \/ ReadBlock
  <2>1. pc # "done" BY <1>3 DEF WriteBlock, ReadBlock
  <2>2. c'.round_size = c.round_size BY <1>3, MoveEffect
  <2>3. CASE pc' = "done"
    <3>1. result' = -1 /\ c'.round_done = c.round_done BY <1>3, <2>3, MoveEffect
    <3> QED BY <2>1, <2>2, <2>3, <3>1 DEF Process!Next, Process!Abort
  <2>4. CASE pc' # "done"
    <3>1. pc' = pc /\ pc \in Moving /\ result' = result BY <1>3, <2>4, MoveEffect
    <3>2. PICK r \in Nat : c'.round_done = c.round_done + r BY <1>3, <2>4, MoveEffect
    <3>3. c'.round_done <= c'.round_size /\ c'.round_done \in Nat
      BY <3>1 DEF InPlan
    <3>4. c.round_done \in Nat BY <1>0 DEF Contexts
    <3>5. CASE r = 0
      <4>1. c'.round_done = c.round_done BY <3>2, <3>4, <3>5
      <4> QED BY <2>1, <2>2, <2>4, <3>1, <4>1 DEF Process!vars
    <3>6. CASE r # 0
      <4>1. c.round_done < c'.round_done BY <3>2, <3>4, <3>6
      <4> QED BY <2>1, <2>2, <2>4, <3>1, <3>3, <4>1 DEF Process!Next, Process!Advance
    <3> QED BY <3>5, <3>6
  <2> QED BY <2>3, <2>4
<1>4. CASE Finish
  <2>1. pc = "end" /\ pc' = "done" /\ result' \in {0, 1} BY <1>4 DEF Finish, Return
  <2>2. c'.round_done = c.round_done /\ c'.round_size = c.round_size
    BY <1>0, <1>4 DEF Finish, Contexts
  <2>3. c.round_done = c.round_size BY <2>1 DEF CountInv, Transferred
  <2>4. c.round_size > 0
    <3>1. c.round_size = RoundBytes(Len(patterns)) BY <2>1 DEF CountInv, Transferred
    <3>2. Len(patterns) \in Nat BY <1>0 DEF Types
    <3>3. RoundBytes(Len(patterns)) \in Nat \ {0} BY <1>0, <3>2, Announced
    <3> QED BY <3>1, <3>3
  <2> QED BY <2>1, <2>2, <2>3, <2>4 DEF Process!Next, Process!Complete
<1>5. CASE StartRound
  <2>1. pc = "rounds" /\ pc' = pc /\ result' = result BY <1>5 DEF StartRound
  <2>2. c'.round_done = c.round_done /\ c'.round_size = c.round_size
    BY <1>0, <1>5 DEF StartRound, Contexts
  <2> QED BY <2>1, <2>2 DEF Process!vars
<1>6. CASE StartPass \/ StartFinal \/ SyncAfterWrite \/ StartVerify \/ EndVerifySync
  <2>1. pc # "done" /\ pc' # "done" /\ result' = result
    BY <1>6 DEF StartPass, StartFinal, SyncAfterWrite, StartVerify, EndVerifySync
  <2>2. c'.round_done = c.round_done /\ c'.round_size = c.round_size
    BY <1>0, <1>6
    DEF StartPass, StartFinal, SyncAfterWrite, StartVerify, EndVerifySync, Contexts
  <2> QED BY <2>1, <2>2 DEF Process!vars
<1>7. CASE EndPass \/ EndVerify
  <2>1. pc # "done" /\ pc' # "done" /\ result' = result
    BY <1>7 DEF EndPass, EndVerify, AfterPass
  <2>2. c'.round_done = c.round_done /\ c'.round_size = c.round_size
    <3>1. PassOver \in Contexts BY <1>0, PassOverType
    <3> QED BY <1>0, <1>7, <3>1, PassOverType DEF EndPass, EndVerify, Contexts
  <2> QED BY <2>1, <2>2 DEF Process!vars
<1>8. CASE UNCHANGED vars BY <1>8 DEF vars, Process!vars
<1> QED
  BY <1>1, <1>2, <1>3, <1>4, <1>5, <1>6, <1>7, <1>8 DEF Next, Gone

\* The method implements the process that the parent shows and waits for: its progress
\* never passes the plan it announced, and is complete when it returns 0 or 1, for every
\* method, verify option, number of rounds and size (ImplementsWipeProcess).
THEOREM MethodImplementsWipeProcess == Spec => ImplementsWipeProcess
<1>1. Init => Process!Init BY DEF Init, Process!Init
<1>2. BaseInv /\ BaseInv' /\ CountInv /\ InPlan' /\ [Next]_vars
        => [Process!Next]_Process!vars
  BY ProcessStep
<1> QED BY <1>1, <1>2, CountInvariant, WithinPlan, PTL DEF Spec, ImplementsWipeProcess, Process!Spec

-----------------------------------------------------------------------------
(***************************************************************************)
(* How many steps a method can still take.                                 *)
(***************************************************************************)

\* The most steps of one pass with its verification.
PassSteps == 4 * Size + 7

\* The steps left in the pass: a transfer moves the offset, whatever it moved.
InPass ==
  CASE pc = "write"  -> z + (Size - offset) + 2 * Size + 6
    [] pc = "wsync"  -> 2 * Size + 5
    [] pc = "verify" -> 2 * Size + 4
    [] pc = "vsync"  -> 2 * Size + 3
    [] pc = "read"   -> z + (Size - offset) + 2
    [] pc = "end"    -> 1
    [] OTHER         -> 0

\* The passes that have not begun, with the final one.
PassesLeft == Planned - Turns + (IF pc = "rounds" THEN 1 ELSE 0)

StepsLeft ==
  IF pc = "done" THEN 0
  ELSE PassSteps * PassesLeft + (opt.rounds - c.round_working) + InPass

\* While a pass runs the final one is never overtaken.
LEMMA PassesLeftType ==
  ASSUME BaseInv, pc \notin {"method", "done"}
  PROVE  /\ PassesLeft \in Nat /\ opt.rounds - c.round_working \in Nat
         /\ pc = "rounds" => PassesLeft \in Nat \ {0}
         /\ pc \in Active /\ ~fin => PassesLeft \in Nat \ {0}
<1>1. /\ Turns \in Int /\ Len(patterns) \in Nat /\ i \in 0 .. Len(patterns)
      /\ c.round_working \in Nat /\ Planned \in Nat
      /\ fin /\ c.round_count = opt.rounds => Turns = Planned
      /\ pc \in Active /\ ~fin => Turns + 1 <= Planned
  BY TurnsType
<1>2. /\ opt.rounds \in Nat \ {0} /\ c.round_count = opt.rounds
      /\ c.round_working <= opt.rounds
      /\ pc = "end" => fin
  BY OptType DEF BaseInv, Types, Control
<1>3. Turns <= Planned
  <2>1. PICK n \in Nat : n = Len(patterns)
    BY <1>1
  <2>2. PICK rw \in Nat : rw = c.round_working
    BY <1>1
  <2>3. PICK total \in Nat : total = opt.rounds
    BY <1>2
  <2>4. (rw - 1) * n + n = n * rw /\ n * rw \in Int /\ (rw - 1) * n \in Int
        /\ total * n = n * total /\ n * total \in Int
    OBVIOUS
  <2>5. Turns <= n * rw
    BY <1>1, <2>1, <2>2, <2>4 DEF Turns
  <2>6. n * rw <= n * total
    <3>1. CASE rw = total
      BY <2>4, <3>1
    <3>2. CASE rw < total /\ n # 0
      <4>1. n \in Nat \ {0} /\ rw \in Int /\ total \in Int
        BY <3>2
      <4>2. n * rw + n <= n * total
        BY <3>2, <4>1, MulMono
      <4> QED
        BY <2>4, <4>2
    <3>3. CASE n = 0
      BY <3>3
    <3>4. rw <= total
      BY <1>2, <2>2, <2>3
    <3>5. rw = total \/ (rw < total /\ n # 0) \/ n = 0
      BY <3>4
    <3> QED
      BY <3>1, <3>2, <3>3, <3>5, Zenon
  <2>7. Planned = n * total
    BY <2>1, <2>3, <2>4 DEF Planned
  <2> QED
    BY <1>1, <2>4, <2>5, <2>6, <2>7
<1>4. PICK t \in Int : t = Planned - Turns /\ 0 <= t
  BY <1>1, <1>3
<1>5. PassesLeft = t + (IF pc = "rounds" THEN 1 ELSE 0)
  BY <1>4 DEF PassesLeft
<1>6. pc \in Active /\ ~fin => 1 <= t
  BY <1>1, <1>4
<1>7. PassesLeft \in Nat /\ (pc = "rounds" \/ 1 <= t => PassesLeft \in Nat \ {0})
  BY <1>4, <1>5
<1>8. opt.rounds - c.round_working \in Nat
  BY <1>1, <1>2
<1> QED
  BY <1>6, <1>7, <1>8

LEMMA InPassType ==
  ASSUME BaseInv
  PROVE  /\ InPass \in 0 .. PassSteps - 1
         /\ pc \notin {"method", "rounds", "done"} => InPass \in Nat \ {0}
<1>1. Size \in Nat \ {0} /\ z \in 0 .. Size /\ offset \in 0 .. Size /\ pc \in Places
  BY MethodAssumption DEF BaseInv, Types
<1> QED
  BY <1>1 DEF InPass, PassSteps, Places

LEMMA StepsLeftType ==
  ASSUME BaseInv, pc # "method"
  PROVE  StepsLeft \in Nat /\ (pc # "done" => StepsLeft \in Nat \ {0})
<1>1. CASE pc = "done"
  BY <1>1 DEF StepsLeft
<1>2. CASE pc # "done"
  <2>1. /\ PassesLeft \in Nat /\ opt.rounds - c.round_working \in Nat
        /\ pc = "rounds" => PassesLeft \in Nat \ {0}
    BY <1>2, PassesLeftType
  <2>2. /\ InPass \in Nat /\ PassSteps \in Nat \ {0}
        /\ pc # "rounds" => InPass \in Nat \ {0}
    BY <1>2, InPassType, MethodAssumption DEF PassSteps
  <2>3. PICK left \in Nat : left = PassesLeft
    BY <2>1
  <2>4. PICK k \in Nat \ {0} : k = PassSteps
    BY <2>2
  <2>5. k * left \in Nat /\ (left # 0 => k * left \in Nat \ {0})
    <3>1. k * left \in Nat
      OBVIOUS
    <3>2. CASE left # 0
      <4>1. 0 < left /\ 0 \in Int /\ left \in Int
        BY <3>2
      <4>2. k * 0 + k <= k * left
        BY <4>1, MulMono
      <4> QED
        BY <3>1, <4>2
    <3> QED
      BY <3>1, <3>2
  <2>6. StepsLeft = k * left + (opt.rounds - c.round_working) + InPass
    BY <1>2, <2>3, <2>4 DEF StepsLeft
  <2> QED
    BY <2>1, <2>2, <2>3, <2>5, <2>6
<1> QED
  BY <1>1, <1>2

\* A step that begins or ends no pass of the plan.
LEMMA WithinPass ==
  ASSUME BaseInv, BaseInv', pc \notin {"method", "done"}, pc' \notin {"method", "done"},
         UNCHANGED opt, c'.round_working = c.round_working,
         PassesLeft' = PassesLeft, InPass' < InPass
  PROVE  StepsLeft' < StepsLeft
<1>1. PassesLeft \in Nat /\ opt.rounds - c.round_working \in Nat
  BY PassesLeftType
<1>2. InPass \in Int /\ InPass' \in Int
  <2>1. InPass \in 0 .. PassSteps - 1 /\ (InPass \in 0 .. PassSteps - 1)'
    BY InPassType, PTL
  <2> QED
    BY <2>1
<1>3. PassSteps * PassesLeft \in Int
  <2>1. PICK k \in Nat : k = PassSteps
    BY MethodAssumption DEF PassSteps
  <2>2. PICK left \in Nat : left = PassesLeft
    BY <1>1
  <2> QED
    BY <2>1, <2>2
<1>4. StepsLeft' = PassSteps * PassesLeft + (opt.rounds - c.round_working) + InPass'
  BY DEF StepsLeft, PassSteps
<1> QED
  BY <1>1, <1>2, <1>3, <1>4 DEF StepsLeft

\* A step by which one pass fewer is left.
LEMMA OnePassLess ==
  ASSUME BaseInv, BaseInv', pc \notin {"method", "done"}, pc' \notin {"method", "done"},
         UNCHANGED opt, c'.round_working = c.round_working,
         PassesLeft' = PassesLeft - 1
  PROVE  StepsLeft' < StepsLeft
<1>1. PassesLeft \in Nat /\ opt.rounds - c.round_working \in Nat
  BY PassesLeftType
<1>2. InPass \in Nat /\ InPass' < PassSteps /\ InPass' \in Nat /\ PassSteps \in Nat
  <2>1. (InPass \in 0 .. PassSteps - 1)'
    BY InPassType, PTL
  <2>2. PassSteps' = PassSteps
    BY DEF PassSteps
  <2> QED
    BY <2>1, <2>2, InPassType, MethodAssumption DEF PassSteps
<1>3. PICK left \in Nat : left = PassesLeft /\ PassesLeft' = left - 1
  BY <1>1
<1>4. PICK k \in Nat : k = PassSteps
  BY <1>2
<1>5. k * left = k * (left - 1) + k /\ k * (left - 1) \in Int
  OBVIOUS
<1>6. StepsLeft' = k * (left - 1) + (opt.rounds - c.round_working) + InPass'
  BY <1>3, <1>4 DEF StepsLeft, PassSteps
<1>7. StepsLeft = k * left + (opt.rounds - c.round_working) + InPass
  BY <1>3, <1>4 DEF StepsLeft
<1> QED
  BY <1>1, <1>2, <1>4, <1>5, <1>6, <1>7

\* A step that does not stutter.
Counts == pc' # "method" /\ (pc # "method" => StepsLeft \in Nat /\ StepsLeft' < StepsLeft)

LEMMA OffsetMoves ==
  ASSUME BaseInv, WriteBlock \/ ReadBlock, pc' # "done"
  PROVE  Blocksize \in Nat \ {0} /\ offset' = offset + Blocksize
<1>1. pc \in Moving /\ z > 0
  BY DEF WriteBlock, ReadBlock, Moving
<1>2. PICK r \in 0 .. Lower(Blocksize, Room) : Bump(r) /\ offset' = AfterBump
  <2>1. CASE WriteBlock
    <3>1. PICK r \in 0 .. Lower(Blocksize, Room) : \E lost : WriteMoves(r, lost) \/ Stops
      BY <2>1, WriteCases
    <3> QED
      BY <3>1 DEF WriteMoves, Stops
  <2>2. CASE ReadBlock
    <3>1. PICK r \in 0 .. Lower(Blocksize, Room) : \E e : ReadMoves(r, e)
      BY <2>2, ReadCases DEF Stops
    <3> QED
      BY <3>1 DEF ReadMoves
  <2> QED
    BY <2>1, <2>2
<1>3. Blocksize \in 1 .. z /\ AfterBump = offset + Blocksize
  BY <1>1, <1>2, Transfer
<1>4. z \in Nat
  BY MethodAssumption DEF BaseInv, Types
<1> QED
  BY <1>2, <1>3, <1>4

LEMMA CountdownStep == BaseInv /\ BaseInv' /\ [Next]_vars => Counts \/ UNCHANGED vars
<1> SUFFICES ASSUME BaseInv, BaseInv', Next PROVE Counts \/ UNCHANGED vars
  OBVIOUS
<1>0. Types /\ Control /\ c \in Contexts
  BY DEF BaseInv, Types
<1>t. Size \in Nat \ {0} /\ z \in 0 .. Size /\ offset \in 0 .. Size
      /\ z' \in 0 .. Size /\ offset' \in 0 .. Size
  BY MethodAssumption DEF BaseInv, Types
<1>u. /\ Turns \in Int /\ Len(patterns) \in Nat /\ Planned \in Nat
      /\ c.round_working \in Nat /\ opt.rounds \in Nat
  BY <1>0, TurnsType, OptType
<1>1. ASSUME pc # "done", pc' = "done" PROVE Counts
  <2>1. StepsLeft' = 0
    BY <1>1 DEF StepsLeft
  <2> QED
    BY <1>1, <2>1, StepsLeftType DEF Counts
<1>2. ASSUME pc \notin {"method", "done"}, pc' \notin {"method", "done"},
             StepsLeft' < StepsLeft
      PROVE  Counts
  BY <1>2, StepsLeftType DEF Counts
<1>3. CASE StartMethod
  BY <1>3 DEF StartMethod, Counts
<1>4. CASE MethodFails \/ StartWildPass \/ PassFails \/ NoEntropy \/ WriteError \/ ReadError
           \/ Finish
  <2>1. pc # "done" /\ pc' = "done"
    BY <1>4 DEF MethodFails, StartWildPass, PassFails, NoEntropy, WriteError, ReadError,
                Finish, Return
  <2> QED
    BY <1>1, <2>1
<1>5. CASE StartRound
  <2>1. /\ pc = "rounds" /\ pc' = "rounds" /\ i' = 0 /\ i = Len(patterns)
        /\ UNCHANGED <<opt, patterns>>
    BY <1>0, <1>5 DEF StartRound, Control
  <2>2. c'.round_working = c.round_working + 1
    <3>1. PICK n \in Nat : n = c.round_working + 1
      BY <1>u
    <3>2. c' = [c EXCEPT !.round_working = n, !.pass_working = 0]
      BY <1>5, <3>1 DEF StartRound
    <3> QED
      BY <1>0, <3>1, <3>2 DEF Contexts
  <2>3. Turns' = Turns
    <3>1. PICK n \in Nat : n = Len(patterns)
      BY <1>u
    <3>2. PICK rw \in Nat : rw = c.round_working
      BY <1>u
    <3>3. Turns = (rw - 1) * n + n
      BY <2>1, <3>1, <3>2 DEF Turns
    <3>4. Turns' = rw * n + 0
      <4>1. c'.round_working - 1 = rw
        BY <2>2, <3>2
      <4> QED
        BY <2>1, <3>1, <4>1 DEF Turns
    <3>5. (rw - 1) * n + n = rw * n + 0
      OBVIOUS
    <3> QED
      BY <3>3, <3>4, <3>5
  <2>4. PICK left \in Nat : left = PassesLeft
    BY <2>1, PassesLeftType
  <2>5. PassesLeft' = left /\ InPass = 0 /\ InPass' = 0
    BY <2>1, <2>3, <2>4 DEF PassesLeft, Planned, InPass
  <2>6. PICK k \in Nat : k = PassSteps /\ k = PassSteps'
    BY <1>t DEF PassSteps
  <2>7. k * left \in Int
    OBVIOUS
  <2>8. StepsLeft = k * left + (opt.rounds - c.round_working) + 0
    BY <2>1, <2>4, <2>5, <2>6 DEF StepsLeft
  <2>9. StepsLeft' = k * left + (opt.rounds - (c.round_working + 1)) + 0
    BY <2>1, <2>2, <2>5, <2>6 DEF StepsLeft
  <2>10. StepsLeft' < StepsLeft
    BY <1>u, <2>7, <2>8, <2>9
  <2> QED
    BY <1>2, <2>1, <2>10
<1>6. CASE StartPass \/ StartFinal
  <2>1. /\ pc = "rounds" /\ pc' = "write"
        /\ UNCHANGED <<opt, patterns, i>>
    BY <1>6 DEF StartPass, StartFinal
  <2>2. c'.round_working = c.round_working
    BY <1>0, <1>6 DEF StartPass, StartFinal, Contexts
  <2>3. Turns' = Turns /\ Planned' = Planned
    BY <2>1, <2>2, SameTurns
  <2>4. PassesLeft' = PassesLeft - 1
    BY <1>u, <2>1, <2>3 DEF PassesLeft
  <2> QED
    BY <1>2, <2>1, <2>2, <2>4, OnePassLess
<1>7. CASE WriteBlock \/ ReadBlock
  <2>1. CASE pc' = "done"
    BY <1>1, <1>7, <2>1 DEF WriteBlock, ReadBlock
  <2>2. CASE pc' # "done"
    <3>1. /\ pc' = pc /\ pc \in Moving /\ UNCHANGED <<opt, patterns, i, fin>>
          /\ c'.round_working = c.round_working
          /\ \E r \in Nat : z' = z - r
      BY <1>7, <2>2, MoveEffect
    <3>2. PICK b \in Nat \ {0} : offset' = offset + b
      BY <1>7, <2>2, OffsetMoves
    <3>3. PassesLeft' = PassesLeft
      BY <3>1, SameTurns DEF PassesLeft
    <3>4. z' <= z /\ offset < offset'
      BY <1>t, <3>1, <3>2
    <3>5. InPass' < InPass
      BY <1>t, <3>1, <3>4 DEF InPass, Moving
    <3> QED
      BY <1>2, <3>1, <3>3, <3>5, WithinPass DEF Moving
  <2> QED
    BY <2>1, <2>2
<1>8. CASE SyncAfterWrite \/ StartVerify \/ EndVerifySync
  <2>1. /\ \/ pc = "write" /\ pc' = "wsync"
           \/ pc = "verify" /\ pc' = "vsync"
           \/ pc = "vsync" /\ pc' = "read"
        /\ UNCHANGED <<opt, patterns, i>>
    BY <1>8 DEF SyncAfterWrite, StartVerify, EndVerifySync
  <2>2. c'.round_working = c.round_working
    BY <1>0, <1>8 DEF SyncAfterWrite, StartVerify, EndVerifySync, Contexts
  <2>3. PassesLeft' = PassesLeft
    BY <2>1, <2>2, SameTurns DEF PassesLeft
  <2>4. InPass' < InPass
    BY <1>t, <2>1 DEF InPass
  <2> QED
    BY <1>2, <2>1, <2>2, <2>3, <2>4, WithinPass
<1>9. CASE EndPass \/ EndVerify
  <2>1. /\ pc \in {"wsync", "read"} /\ UNCHANGED <<opt, patterns>>
        /\ \/ pc = "wsync" /\ pc' = "verify" /\ i' = i
           \/ pc' = "end" /\ i' = i
           \/ pc' = "rounds" /\ i' = i + 1
    BY <1>9 DEF EndPass, EndVerify, AfterPass
  <2>2. c'.round_working = c.round_working
    <3>1. PassOver \in Contexts
      BY <1>0, PassOverType
    <3> QED
      BY <1>0, <1>9, <3>1, PassOverType DEF EndPass, EndVerify, Contexts
  <2>3. PassesLeft' = PassesLeft
    <3>1. CASE pc' # "rounds"
      BY <2>1, <2>2, <3>1, SameTurns DEF PassesLeft
    <3>2. CASE pc' = "rounds"
      <4>1. Turns' = (c.round_working - 1) * Len(patterns) + (i + 1)
        BY <2>1, <2>2, <3>2 DEF Turns
      <4>2. (c.round_working - 1) * Len(patterns) \in Int /\ i \in Int
        BY <1>0, <1>u DEF Types
      <4>3. Turns' = Turns + 1
        BY <4>1, <4>2 DEF Turns
      <4>4. Planned' = Planned
        BY <2>1 DEF Planned
      <4> QED
        BY <1>u, <2>1, <3>2, <4>3, <4>4 DEF PassesLeft
    <3> QED
      BY <3>1, <3>2
  <2>4. InPass' < InPass
    BY <1>t, <2>1 DEF InPass
  <2> QED
    BY <1>2, <2>1, <2>2, <2>3, <2>4, WithinPass
<1>10. CASE Gone
  BY <1>10 DEF Gone
<1> QED
  BY <1>3, <1>4, <1>5, <1>6, <1>7, <1>8, <1>9, <1>10 DEF Next

LEMMA BaseInvariant == Spec => []BaseInv
BY BaseInit, BaseStep, PTL DEF Spec

\* No loop of a method is endless: once its patterns are built, every step takes at
\* least one from a number of steps that starts from the size of the device, the
\* patterns and the rounds, whatever the device and the kernel do.  A transfer of no
\* byte at all moves the file offset too (pass.c:316), so that it cannot repeat for ever.
\* What WipeEnds adds is that a step is always possible and taken.
THEOREM StepsAlwaysCountDown == Spec => [][Counts]_vars
<1>1. BaseInv /\ BaseInv' /\ [Next]_vars => [Counts]_vars
  BY CountdownStep
<1> QED
  BY <1>1, BaseInvariant, PTL DEF Spec
=====

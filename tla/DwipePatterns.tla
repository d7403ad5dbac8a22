---------------------------- MODULE DwipePatterns ----------------------------
(***************************************************************************)
(* The pattern arrays the wipe methods of dwipe/method.c hand to           *)
(* dwipe_runmethod.  A pattern element is a C dwipe_pattern_t: a length    *)
(* (negative: a PRNG stream; zero: the terminator) and the characters.     *)
(***************************************************************************)
EXTENDS Integers, Sequences, FiniteSets, SequencesExt

CONSTANTS
  MaxByte,   \* the largest character (255 in C); the complement is MaxByte - b
  MaxDraw,   \* the largest integer of the shuffle's entropy (65535 in C)
  Book       \* the pattern list of dwipe_gutmann: 35 elements in C

Byte == 0 .. MaxByte

\* A static pattern, the random stream, an element whose pointer is stale (no
\* characters), the terminator, and an element malloc left alone.
Static(s)  == [length |-> Len(s), s |-> s]
Stream     == [length |-> -1,     s |-> <<>>]
Wild       == [length |-> 1,      s |-> <<>>]
Terminator == [length |-> 0,      s |-> <<>>]
Uninit     == [length |-> 0,      s |-> <<0>>]

\* The book lists streams and patterns of characters.
ASSUME PatternAssumption ==
  /\ MaxByte \in Nat
  /\ MaxDraw \in Nat
  /\ Book \in Seq(Range(Book))
  /\ \A k \in DOMAIN Book :
       \/ Book[k] = Stream
       \/ Book[k].s \in Seq(Byte) \ {<<>>} /\ Book[k] = Static(Book[k].s)

\* The bitwise complement of a character.
Complement(b) == MaxByte - b

Zero     == <<>>
Random   == <<Stream>>
DodShort(a) == <<Static(<<a>>), Static(<<Complement(a)>>), Stream>>
Dod522022m(a, b, d) ==
  <<Static(<<a>>), Static(<<Complement(a)>>), Stream,
    Static(<<b>>), Static(<<d>>), Static(<<Complement(d)>>), Stream>>

(***************************************************************************)
(* dwipe_ops2.  The array has 8 * u + 1 elements for u rounds; the filling *)
(* loop steps its index by 8 although it multiplies it by 4, so it runs    *)
(* for i = 0, 8, 16, ... below u and fills elements 4*i .. 4*i + 7 only.   *)
(* What it skips keeps what malloc returned.  s[k] is character k.         *)
(***************************************************************************)
Ops2Filled(u) == {i \in 0 .. u - 1 : i % 8 = 0}

Ops2Array(u, s) ==
  [k \in 0 .. 8 * u |->
     IF k = 8 * u THEN Terminator
     ELSE IF \E i \in Ops2Filled(u) : k \in 4 * i .. 4 * i + 7
     THEN LET i == CHOOSE i \in Ops2Filled(u) : k \in 4 * i .. 4 * i + 7
          IN  IF k % 2 = 0 THEN Static(<<s[i]>>) ELSE Static(<<Complement(s[i])>>)
     ELSE Uninit]

\* The elements dwipe_runmethod counts: up to the first one of length zero.  An
\* element malloc left alone may read as a terminator, as a stream, or as a
\* length with a wild pointer; MaxStale bounds how many stale elements follow.
MaxStale == 1

Ops2(u, s) ==
  LET arr    == Ops2Array(u, s)
      n      == CHOOSE k \in DOMAIN arr : /\ arr[k].length = 0
                                          /\ \A m \in 0 .. k - 1 : arr[m].length # 0
      filled == [k \in 1 .. n |-> arr[k - 1]]
  IN  {filled} \union
      (IF arr[n] = Uninit
       THEN {filled \o stale : stale \in BoundedSeq({Stream, Wild}, MaxStale)}
       ELSE {})

(***************************************************************************)
(* dwipe_gutmann.  The array is filled from its last element down.  For     *)
(* each, an integer is scaled to the number of book elements that are left, *)
(* and that many unused elements are stepped over.  The book ends with an   *)
(* element of length zero, which the inner loop takes for a used one: a     *)
(* draw past the last unused element reads beyond the book.                 *)
(***************************************************************************)

\* Mutant: the scale is the largest integer, not the number of integers.
ScaledToMax(draw, left) == (draw * left) \div MaxDraw

\* A random integer below the number of elements left.
Scaled(draw, left) == (draw * left) \div (MaxDraw + 1)

\* The index the two loops stop at, when n unused elements are to be skipped.
NthUnused(unused, n) ==
  IF n < Cardinality(unused)
  THEN CHOOSE j \in unused : Cardinality({k \in unused : k < j}) = n
  ELSE Len(Book) + 1

\* The book element that goes into each element of the array.
Taken(draws) ==
  LET taken[k \in DOMAIN Book] ==
        NthUnused(DOMAIN Book \ {taken[m] : m \in k + 1 .. Len(Book)},
                  Scaled(draws[k], k))
  IN  taken

Gutmann(draws) ==
  LET taken == Taken(draws)
  IN  [k \in DOMAIN Book |-> IF taken[k] \in DOMAIN Book THEN Book[taken[k]] ELSE Wild]

\* What the entropy source may make of each method.
PatternsOf(method, rounds) ==
  CASE method = "zero"     -> {Zero}
    [] method = "random"   -> {Random}
    [] method = "dodshort" -> {DodShort(a) : a \in Byte}
    [] method = "dod522022m" -> {Dod522022m(a, b, d) : a, b, d \in Byte}
    [] method = "ops2"     -> UNION {Ops2(rounds, s) : s \in [0 .. rounds - 1 -> Byte]}
    [] method = "gutmann"  -> {Gutmann(draws) : draws \in [DOMAIN Book -> 0 .. MaxDraw]}
=============================================================================

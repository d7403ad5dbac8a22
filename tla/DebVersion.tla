------------------------------ MODULE DebVersion ------------------------------
(***************************************************************************)
(* How bin/apt.py decides whether a package satisfies a dependency: fulfils   *)
(* of class Package.  A version is what the regular expression makes of it,   *)
(* its upstream and debian parts cut into pieces of digits and of non-digits. *)
(* A piece is an integer, a separator a negative one, since it sorts before   *)
(* every digit; leading zeros and colons inside a part are left out.          *)
(***************************************************************************)
EXTENDS Integers, Sequences, FiniteSetsExt

NoNumber == -1     \* the group of an epoch or of an ubuntu revision is None
NotANumber == -2   \* an ubuntu revision that int() cannot read, as in 0ubuntu20.4

\* The debian part may be missing, and the ubuntu revision is split off from it.
Versions ==
  {v \in [epoch    : Nat \union {NoNumber},
          upstream : Seq(Int) \ {<<>>},
          debian   : Seq(Int),
          ubuntu   : Nat \union {NoNumber, NotANumber}] :
     v.debian = <<>> => v.ubuntu = NoNumber}

Relations == {"<<", "<=", "=", ">=", ">>"}

\* relation_to_func
Holds(relation, a, b) ==
  CASE relation = "<<" -> a < b
    [] relation = "<=" -> a <= b
    [] relation = "="  -> a = b
    [] relation = ">=" -> a >= b
    [] relation = ">>" -> a > b

Verdict(relation, a, b) == IF Holds(relation, a, b) THEN "yes" ELSE "no"

\* Where two sequences of pieces differ before the shorter one ends.
Differences(s, t) == {i \in DOMAIN s \intersect DOMAIN t : s[i] # t[i]}

\* The loop over the pieces returns at the first difference.
FirstDifference(s, t) == Min(Differences(s, t))

PiecesVerdict(relation, s, t) ==
  LET i == FirstDifference(s, t) IN Verdict(relation, s[i], t[i])

\* What fulfils says of version v against version w of the dependency; it raises
\* an exception where a number it converts, or an equality it asserts, is missing.
\* When nothing was found to differ, last_check compared two equal pieces.
VersionVerdict(relation, v, w) ==
  CASE v.epoch # NoNumber /\ w.epoch = NoNumber -> "crash"
    [] v.epoch # NoNumber /\ w.epoch \notin {NoNumber, v.epoch} ->
         Verdict(relation, v.epoch, w.epoch)
    [] OTHER ->
         IF Differences(v.upstream, w.upstream) # {}
           THEN PiecesVerdict(relation, v.upstream, w.upstream)
         ELSE IF v.debian = <<>> \/ w.debian = <<>> THEN Verdict(relation, 0, 0)
         ELSE IF Differences(v.debian, w.debian) # {}
           THEN PiecesVerdict(relation, v.debian, w.debian)
         ELSE IF v.debian # w.debian THEN "crash"
         ELSE IF w.ubuntu = NoNumber THEN Verdict(relation, 0, 0)
         ELSE IF v.ubuntu = NoNumber \/ NotANumber \in {v.ubuntu, w.ubuntu} THEN "crash"
         ELSE Verdict(relation, v.ubuntu, w.ubuntu)

\* A dependency has the relation "any" when it names no version.
Fulfils(package, dep) ==
  IF package.name # dep.name THEN "no"
  ELSE IF dep.relation = "any" THEN "yes"
  ELSE VersionVerdict(dep.relation, package.version, dep.version)

-----------------------------------------------------------------------------
(***************************************************************************)
(* The order the comment at apt.py:158 describes, for versions that have the *)
(* same parts with equally many pieces.                                      *)
(***************************************************************************)
LexLess(s, t) ==
  \E i \in DOMAIN s : s[i] < t[i] /\ \A j \in 1 .. i - 1 : s[j] = t[j]

Older(v, w) ==
  \/ v.epoch < w.epoch
  \/ /\ v.epoch = w.epoch
     /\ \/ LexLess(v.upstream, w.upstream)
        \/ /\ v.upstream = w.upstream
           /\ \/ LexLess(v.debian, w.debian)
              \/ v.debian = w.debian /\ v.ubuntu < w.ubuntu

SameShape(v, w) ==
  /\ v.epoch = NoNumber <=> w.epoch = NoNumber
  /\ Len(v.upstream) = Len(w.upstream)
  /\ Len(v.debian) = Len(w.debian)
  /\ v.ubuntu = NoNumber <=> w.ubuntu = NoNumber

\* Only the ubuntu revisions are left to compare, and one is not a number.
Unreadable(v, w) ==
  /\ v.epoch = w.epoch /\ v.upstream = w.upstream /\ v.debian = w.debian
  /\ NotANumber \in {v.ubuntu, w.ubuntu}

\* The relation read as the order it names.
Meets(relation, v, w) ==
  CASE relation = "<<" -> Older(v, w)
    [] relation = "<=" -> Older(v, w) \/ v = w
    [] relation = "="  -> v = w
    [] relation = ">=" -> Older(w, v) \/ v = w
    [] relation = ">>" -> Older(w, v)
=============================================================================

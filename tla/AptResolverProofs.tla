--------------------------- MODULE AptResolverProofs ---------------------------
(***************************************************************************)
(* What fulfils of bin/apt.py makes of two versions, and what a run of       *)
(* get-deb-dependencies.py leaves behind, proved for every set of            *)
(* repositories, every request and every order of the search.                *)
(***************************************************************************)
EXTENDS CdBuild, WellFoundedInduction, TLAPS

-----------------------------------------------------------------------------
(***************************************************************************)
(* Two versions that have the same parts with equally many pieces: fulfils   *)
(* sees the order its comments describe.                                   *)
(***************************************************************************)
LEMMA MinIsLeast ==
  ASSUME NEW S, S \subseteq Nat, S # {}
  PROVE  Min(S) \in S /\ \A x \in S : Min(S) <= x
<1> DEFINE below == OpToRel(<, Nat)
<1>1. IsWellFoundedOn(below, Nat) BY NatLessThanWellFounded, Zenon
<1>2. \A x, y \in Nat : <<x, y>> \in below <=> x < y BY DEF OpToRel
<1> HIDE DEF below
<1>3. PICK least \in S : \A y \in S : <<y, least>> \notin below BY <1>1, WFMin
<1>4. \A y \in S : least <= y
  <2> TAKE y \in S
  <2>1. ~ (y < least) BY <1>2, <1>3
  <2>2. y \in Nat /\ least \in Nat OBVIOUS
  <2> QED BY <2>1, <2>2
<1> QED BY <1>4 DEF Min

\* Two parts without a difference are equal, since equally many pieces are compared.
LEMMA NoDifference ==
  ASSUME NEW s \in Seq(Int), NEW t \in Seq(Int), Len(s) = Len(t), Differences(s, t) = {}
  PROVE  s = t
<1>1. \A i \in 1 .. Len(s) : s[i] = t[i] BY DEF Differences
<1> QED BY <1>1

\* A sequence is not before itself.
LEMMA LexIrreflexive ==
  ASSUME NEW s \in Seq(Int)
  PROVE  ~LexLess(s, s)
<1>1. \A i \in DOMAIN s : ~(s[i] < s[i]) OBVIOUS
<1> QED BY <1>1 DEF LexLess

\* The piece at which the loop returns is the one that decides the order.
LEMMA FirstDecides ==
  ASSUME NEW s \in Seq(Int), NEW t \in Seq(Int), Len(s) = Len(t), Differences(s, t) # {}
  PROVE  LET i == FirstDifference(s, t)
         IN  /\ s[i] \in Int /\ t[i] \in Int /\ s[i] # t[i]
             /\ LexLess(s, t) <=> s[i] < t[i]
             /\ LexLess(t, s) <=> t[i] < s[i]
<1> DEFINE i == FirstDifference(s, t)
<1>1. DOMAIN s = 1 .. Len(s) /\ DOMAIN t = 1 .. Len(s) OBVIOUS
<1>2. Differences(s, t) \subseteq Nat BY <1>1 DEF Differences
<1>3. i \in Differences(s, t) /\ \A x \in Differences(s, t) : i <= x
  BY <1>2, MinIsLeast DEF FirstDifference
<1> HIDE DEF i
<1>4. i \in 1 .. Len(s) /\ s[i] # t[i] BY <1>1, <1>3 DEF Differences
<1>5. \A j \in 1 .. i - 1 : s[j] = t[j]
  <2> TAKE j \in 1 .. i - 1
  <2>1. j \in 1 .. Len(s) /\ ~(i <= j) BY <1>4
  <2> QED BY <1>1, <1>3, <2>1 DEF Differences
<1>6. s[i] \in Int /\ t[i] \in Int BY <1>4
<1>7. ASSUME NEW a \in Seq(Int), NEW b \in Seq(Int), Len(a) = Len(s), Len(b) = Len(s),
             a[i] # b[i], \A j \in 1 .. i - 1 : a[j] = b[j]
      PROVE  LexLess(a, b) <=> a[i] < b[i]
  <2>1. DOMAIN a = 1 .. Len(s) BY <1>7
  <2>2. a[i] < b[i] => LexLess(a, b) BY <1>4, <1>7, <2>1 DEF LexLess
  <2>3. ASSUME LexLess(a, b) PROVE a[i] < b[i]
    <3>1. PICK k \in 1 .. Len(s) : a[k] < b[k] /\ \A j \in 1 .. k - 1 : a[j] = b[j]
      BY <2>1, <2>3 DEF LexLess
    <3>2. a[k] \in Int /\ b[k] \in Int BY <1>7
    <3>3. ~(k < i)
      <4>1. k < i => k \in 1 .. i - 1 BY <1>4
      <4> QED BY <1>7, <3>1, <3>2, <4>1
    <3>4. ~(i < k)
      <4>1. i < k => i \in 1 .. k - 1 BY <1>4
      <4> QED BY <1>7, <3>1, <4>1
    <3>5. k = i BY <1>4, <3>3, <3>4
    <3> QED BY <3>1, <3>5
  <2> QED BY <2>2, <2>3
<1>8. LexLess(s, t) <=> s[i] < t[i] BY <1>4, <1>5, <1>7
<1>9. LexLess(t, s) <=> t[i] < s[i] BY <1>4, <1>5, <1>7
<1> QED BY <1>4, <1>6, <1>8, <1>9 DEF i

\* Wherever two versions are compared at numbers a and b that order them, the
\* function of relation_to_func gives the answer.
LEMMA Comparison ==
  ASSUME NEW v, NEW w, NEW relation \in Relations, NEW a \in Int, NEW b \in Int,
         Older(v, w) <=> a < b, Older(w, v) <=> b < a, v = w <=> a = b
  PROVE  Verdict(relation, a, b) = IF Meets(relation, v, w) THEN "yes" ELSE "no"
<1>1. CASE relation = "<<" BY <1>1 DEF Verdict, Holds, Meets
<1>2. CASE relation = "<=" BY <1>2 DEF Verdict, Holds, Meets
<1>3. CASE relation = "=" BY <1>3 DEF Verdict, Holds, Meets
<1>4. CASE relation = ">=" BY <1>4 DEF Verdict, Holds, Meets
<1>5. CASE relation = ">>" BY <1>5 DEF Verdict, Holds, Meets
<1> QED BY <1>1, <1>2, <1>3, <1>4, <1>5 DEF Relations

-----------------------------------------------------------------------------
\* fulfils answers, yes or no, as the relation of the dependency reads, for every two
\* versions of the same shape: none of its early returns, for the epoch, a piece of the
\* upstream or of the debian part, or the ubuntu revision, gives another answer than
\* the order of versions does.  It fails on exactly those where it is left with an
\* ubuntu revision that is not a number (apt.py:241).
THEOREM FulfilsIsExact ==
  ASSUME NEW v \in Versions, NEW w \in Versions, NEW relation \in Relations, SameShape(v, w)
  PROVE  VersionVerdict(relation, v, w) =
           IF Unreadable(v, w) THEN "crash"
           ELSE IF Meets(relation, v, w) THEN "yes" ELSE "no"
<1>1. /\ v = [epoch |-> v.epoch, upstream |-> v.upstream, debian |-> v.debian, ubuntu |-> v.ubuntu]
      /\ w = [epoch |-> w.epoch, upstream |-> w.upstream, debian |-> w.debian, ubuntu |-> w.ubuntu]
  BY DEF Versions
<1>2. v = w <=> /\ v.epoch = w.epoch /\ v.upstream = w.upstream
                /\ v.debian = w.debian /\ v.ubuntu = w.ubuntu
  BY <1>1
<1>3. /\ v.epoch \in Int /\ w.epoch \in Int /\ v.ubuntu \in Int /\ w.ubuntu \in Int
      /\ v.upstream \in Seq(Int) /\ w.upstream \in Seq(Int)
      /\ v.debian \in Seq(Int) /\ w.debian \in Seq(Int)
      /\ v.debian = <<>> => v.ubuntu = NoNumber
      /\ w.debian = <<>> => w.ubuntu = NoNumber
  <2>1. ASSUME NEW x \in Versions
        PROVE  /\ x.epoch \in Int /\ x.ubuntu \in Int
               /\ x.upstream \in Seq(Int) /\ x.debian \in Seq(Int)
               /\ x.debian = <<>> => x.ubuntu = NoNumber
    <3>1. x.epoch \in Int BY DEF Versions, NoNumber
    <3>2. x.ubuntu \in Int BY DEF Versions, NoNumber, NotANumber
    <3>3. x.upstream \in Seq(Int) BY DEF Versions
    <3>4. x.debian \in Seq(Int) BY DEF Versions
    <3>5. x.debian = <<>> => x.ubuntu = NoNumber BY DEF Versions
    <3> QED BY <3>1, <3>2, <3>3, <3>4, <3>5
  <2> QED BY <2>1
<1>4. /\ v.epoch = NoNumber <=> w.epoch = NoNumber
      /\ Len(v.upstream) = Len(w.upstream) /\ Len(v.debian) = Len(w.debian)
      /\ v.ubuntu = NoNumber <=> w.ubuntu = NoNumber
  BY DEF SameShape
<1>5. CASE v.epoch # w.epoch
  <2>0. ~Unreadable(v, w) BY <1>5 DEF Unreadable
  <2>1. VersionVerdict(relation, v, w) = Verdict(relation, v.epoch, w.epoch)
    BY <1>4, <1>5 DEF VersionVerdict
  <2>2. Older(v, w) <=> v.epoch < w.epoch BY <1>3, <1>5 DEF Older
  <2>3. Older(w, v) <=> w.epoch < v.epoch BY <1>3, <1>5 DEF Older
  <2> QED BY <1>2, <1>3, <1>5, <2>0, <2>1, <2>2, <2>3, Comparison
<1>6. CASE v.epoch = w.epoch /\ Differences(v.upstream, w.upstream) # {}
  <2> DEFINE i == FirstDifference(v.upstream, w.upstream)
  <2>1. /\ v.upstream[i] \in Int /\ w.upstream[i] \in Int /\ v.upstream[i] # w.upstream[i]
        /\ LexLess(v.upstream, w.upstream) <=> v.upstream[i] < w.upstream[i]
        /\ LexLess(w.upstream, v.upstream) <=> w.upstream[i] < v.upstream[i]
    BY <1>3, <1>4, <1>6, FirstDecides
  <2>2. VersionVerdict(relation, v, w) = Verdict(relation, v.upstream[i], w.upstream[i])
    BY <1>4, <1>6 DEF VersionVerdict, PiecesVerdict
  <2> HIDE DEF i
  <2>3. v.upstream # w.upstream BY <2>1
  <2>6. ~Unreadable(v, w) BY <2>3 DEF Unreadable
  <2>4. Older(v, w) <=> v.upstream[i] < w.upstream[i] BY <1>3, <1>6, <2>1, <2>3 DEF Older
  <2>5. Older(w, v) <=> w.upstream[i] < v.upstream[i] BY <1>3, <1>6, <2>1, <2>3 DEF Older
  <2> QED BY <1>2, <2>1, <2>2, <2>3, <2>4, <2>5, <2>6, Comparison
<1>7. CASE v.epoch = w.epoch /\ Differences(v.upstream, w.upstream) = {}
  <2>1. v.upstream = w.upstream BY <1>3, <1>4, <1>7, NoDifference
  <2>2. ~LexLess(v.upstream, w.upstream) /\ ~LexLess(w.upstream, v.upstream)
    BY <1>3, <2>1, LexIrreflexive
  <2>3. Older(v, w) <=> \/ LexLess(v.debian, w.debian)
                        \/ v.debian = w.debian /\ v.ubuntu < w.ubuntu
    BY <1>3, <1>7, <2>1, <2>2 DEF Older
  <2>4. Older(w, v) <=> \/ LexLess(w.debian, v.debian)
                        \/ w.debian = v.debian /\ w.ubuntu < v.ubuntu
    BY <1>3, <1>7, <2>1, <2>2 DEF Older
  <2>5. CASE Differences(v.debian, w.debian) # {}
    <3> DEFINE i == FirstDifference(v.debian, w.debian)
    <3>1. /\ v.debian[i] \in Int /\ w.debian[i] \in Int /\ v.debian[i] # w.debian[i]
          /\ LexLess(v.debian, w.debian) <=> v.debian[i] < w.debian[i]
          /\ LexLess(w.debian, v.debian) <=> w.debian[i] < v.debian[i]
      BY <1>3, <1>4, <2>5, FirstDecides
    <3>2. v.debian # <<>> /\ w.debian # <<>> BY <2>5 DEF Differences
    <3>3. VersionVerdict(relation, v, w) = Verdict(relation, v.debian[i], w.debian[i])
      BY <1>4, <1>7, <2>5, <3>2 DEF VersionVerdict, PiecesVerdict
    <3> HIDE DEF i
    <3>4. v.debian # w.debian BY <3>1
    <3>5. ~Unreadable(v, w) BY <3>4 DEF Unreadable
    <3> QED BY <1>2, <2>3, <2>4, <3>1, <3>3, <3>4, <3>5, Comparison
  <2>6. CASE Differences(v.debian, w.debian) = {}
    <3>1. v.debian = w.debian BY <1>3, <1>4, <2>6, NoDifference
    <3>2. ~LexLess(v.debian, w.debian) /\ ~LexLess(w.debian, v.debian)
      BY <1>3, <3>1, LexIrreflexive
    <3>3. /\ Older(v, w) <=> v.ubuntu < w.ubuntu
          /\ Older(w, v) <=> w.ubuntu < v.ubuntu
          /\ v = w <=> v.ubuntu = w.ubuntu
      BY <1>2, <1>7, <2>1, <2>3, <2>4, <3>1, <3>2
    <3>4. Unreadable(v, w) <=> NotANumber \in {v.ubuntu, w.ubuntu}
      BY <1>7, <2>1, <3>1 DEF Unreadable
    <3>5. CASE v.ubuntu = NoNumber
      <4>1. VersionVerdict(relation, v, w) = Verdict(relation, 0, 0)
        BY <1>4, <1>7, <2>6, <3>1, <3>5 DEF VersionVerdict
      <4>2. v.ubuntu = w.ubuntu BY <1>4, <3>5
      <4>3. ~Older(v, w) /\ ~Older(w, v) /\ v = w BY <1>3, <3>3, <4>2
      <4>4. ~Unreadable(v, w) BY <3>4, <3>5, <4>2 DEF NoNumber, NotANumber
      <4> QED BY <4>1, <4>3, <4>4, Comparison
    <3>6. CASE v.ubuntu # NoNumber
      <4>1. v.debian # <<>> /\ w.debian # <<>> /\ w.ubuntu # NoNumber BY <1>3, <1>4, <3>1, <3>6
      <4>2. VersionVerdict(relation, v, w) =
              IF Unreadable(v, w) THEN "crash" ELSE Verdict(relation, v.ubuntu, w.ubuntu)
        BY <1>4, <1>7, <2>6, <3>1, <3>4, <3>6, <4>1 DEF VersionVerdict
      <4> QED BY <1>3, <3>3, <4>2, Comparison
    <3> QED BY <3>5, <3>6
  <2> QED BY <2>5, <2>6
<1> QED BY <1>5, <1>6, <1>7

-----------------------------------------------------------------------------
(***************************************************************************)
(* What the answers of the search mean.                                    *)
(***************************************************************************)
Dependencies == UNION {p.depends : p \in Packages}

LEMMA DependencyType ==
  ASSUME NEW dep \in Dependencies
  PROVE  /\ dep \in Seq(Alternatives) /\ dep # <<>> /\ 1 \in DOMAIN dep
         /\ \A i \in DOMAIN dep : dep[i] \in Alternatives
<1>1. dep \in Seq(Alternatives) /\ dep # <<>> BY ResolverAssumption DEF Dependencies
<1> QED BY <1>1

\* A package that fulfils says yes to does serve the dependency.
LEMMA FulfilledIsServed ==
  ASSUME NEW q \in Packages, NEW alternative \in Alternatives, Fulfils(q, alternative) = "yes"
  PROVE  Serves(q, alternative)
<1>1. q.name = alternative.name BY DEF Fulfils
<1>2. CASE alternative.relation = "any" BY <1>1, <1>2 DEF Serves
<1>3. CASE alternative.relation # "any"
  <2>1. /\ q.version \in Versions /\ alternative.version \in Versions
        /\ alternative.relation \in Relations
    BY <1>3, ResolverAssumption
  <2>2. VersionVerdict(alternative.relation, q.version, alternative.version) = "yes"
    BY <1>1, <1>3 DEF Fulfils
  <2>3. SameShape(q.version, alternative.version) =>
          /\ Meets(alternative.relation, q.version, alternative.version)
          /\ ~Unreadable(q.version, alternative.version)
    BY <2>1, <2>2, FulfilsIsExact
  <2> QED BY <1>1, <2>3 DEF Serves
<1> QED BY <1>2, <1>3

Served(dep, have) == \E q \in have, i \in DOMAIN dep : Serves(q, dep[i])

LEMMA AnswerType ==
  ASSUME NEW q, NEW dep
  PROVE  Answer(q, dep) \in {"yes", "no", "crash"}
BY DEF Answer, AnyOf

LEMMA AnswerServes ==
  ASSUME NEW q \in Packages, NEW dep \in Dependencies, Answer(q, dep) = "yes"
  PROVE  \E i \in DOMAIN dep : Serves(q, dep[i])
<1>1. PICK i \in DOMAIN dep : Fulfils(q, dep[i]) = "yes" BY DEF Answer, AnyOf
<1>2. dep[i] \in Alternatives BY DependencyType
<1> QED BY <1>1, <1>2, FulfilledIsServed

LEMMA InType == In(LocalRepos) \subseteq Packages /\ In(RemoteRepos) \subseteq Packages
BY DEF Packages

\* The search of the repositories ends at one of their packages.
LEMMA FoundIsThere ==
  ASSUME NEW repos \in {LocalRepos, RemoteRepos}, NEW dep, Stopping(repos, dep) # {}
  PROVE  Found(repos, dep) \in In(repos) /\ Answer(Found(repos, dep), dep) # "no"
<1>1. repos \in Seq(Seq(Packages) \ {<<>>}) BY ResolverAssumption
<1>2. Stopping(repos, dep) \subseteq Nat BY <1>1 DEF Stopping
<1> DEFINE r == Min(Stopping(repos, dep))
           repo == repos[r]
<1>3. r \in DOMAIN repos /\ Stops(repo, dep) # {} BY <1>2, MinIsLeast DEF Stopping
<1>4. repo \in Seq(Packages) BY <1>1, <1>3
<1>5. Stops(repo, dep) \subseteq Nat BY <1>4 DEF Stops
<1>6. Min(Stops(repo, dep)) \in Stops(repo, dep) BY <1>3, <1>5, MinIsLeast
<1>7. Found(repos, dep) = repo[Min(Stops(repo, dep))] BY DEF Found
<1> HIDE DEF r
<1>8. Answer(Found(repos, dep), dep) # "no" /\ Min(Stops(repo, dep)) \in DOMAIN repo
  BY <1>6, <1>7 DEF Stops
<1>9. Found(repos, dep) \in In(repos) BY <1>3, <1>7, <1>8 DEF In, ToSet
<1> QED BY <1>8, <1>9

LEMMA SearchedType ==
  ASSUME NEW repos, NEW dep
  PROVE  Searched(repos, dep) \in {"yes", "no", "crash"}
BY AnswerType DEF Searched

LEMMA SearchedServes ==
  ASSUME NEW repos \in {LocalRepos, RemoteRepos}, NEW dep \in Dependencies,
         Searched(repos, dep) = "yes"
  PROVE  Found(repos, dep) \in In(repos) /\ Served(dep, {Found(repos, dep)})
<1>1. Stopping(repos, dep) # {} /\ Answer(Found(repos, dep), dep) = "yes" BY DEF Searched
<1>2. Found(repos, dep) \in In(repos) BY <1>1, FoundIsThere
<1>3. Found(repos, dep) \in Packages BY <1>2, InType
<1> QED BY <1>1, <1>2, <1>3, AnswerServes DEF Served

LEMMA AmongChosenServes ==
  ASSUME NEW dep \in Dependencies, chosen \subseteq Packages, AmongChosen(dep) = "yes"
  PROVE  Served(dep, chosen)
<1>1. PICK p \in chosen : Fulfils(p, dep[1]) = "yes" BY DEF AmongChosen, AnyOf
<1>2. 1 \in DOMAIN dep /\ dep[1] \in Alternatives BY DependencyType
<1> QED BY <1>1, <1>2, FulfilledIsServed DEF Served

LEMMA AnswersType ==
  ASSUME NEW dep, NEW i \in 1 .. 3
  PROVE  Answers(dep)[i] \in {"yes", "no", "crash"}
<1>1. AmongChosen(dep) \in {"yes", "no", "crash"} BY DEF AmongChosen, AnyOf
<1> QED BY <1>1, SearchedType DEF Answers

\* The search for one dependency stops at the first answer that is not no, and if
\* that is yes, what was found will be there.
LEMMA StopServes ==
  ASSUME NEW dep \in Dependencies, chosen \subseteq Packages
  PROVE  /\ Stop(dep) \in 1 .. 4
         /\ Stop(dep) < 4 /\ Answers(dep)[Stop(dep)] # "crash" =>
              Served(dep, In(LocalRepos) \union chosen \union
                            (IF Stop(dep) = 3 THEN {Found(RemoteRepos, dep)} ELSE {}))
         /\ Stop(dep) = 3 /\ Answers(dep)[3] # "crash" => Found(RemoteRepos, dep) \in Packages
<1> DEFINE ends == {i \in 1 .. 3 : Answers(dep)[i] # "no"} \union {4}
           stop == Stop(dep)
<1>1. ends \subseteq Nat /\ ends # {} OBVIOUS
<1>2. stop \in ends BY <1>1, MinIsLeast DEF Stop
<1>3. stop \in 1 .. 4 BY <1>2
<1> HIDE DEF stop
<1>4. ASSUME stop < 4, Answers(dep)[stop] # "crash" PROVE Answers(dep)[stop] = "yes"
  <2>1. stop \in 1 .. 3 /\ Answers(dep)[stop] # "no" BY <1>2, <1>4
  <2> QED BY <1>4, <2>1, AnswersType
<1>5. ASSUME stop = 1, Answers(dep)[stop] = "yes" PROVE Served(dep, In(LocalRepos))
  <2>1. Searched(LocalRepos, dep) = "yes" BY <1>5 DEF Answers
  <2> QED BY <2>1, SearchedServes DEF Served
<1>6. ASSUME stop = 2, Answers(dep)[stop] = "yes" PROVE Served(dep, chosen)
  <2>1. AmongChosen(dep) = "yes" BY <1>6 DEF Answers
  <2> QED BY <2>1, AmongChosenServes
<1>7. ASSUME stop = 3, Answers(dep)[stop] = "yes"
      PROVE  /\ Found(RemoteRepos, dep) \in Packages
             /\ Served(dep, {Found(RemoteRepos, dep)})
  <2>1. Searched(RemoteRepos, dep) = "yes" BY <1>7 DEF Answers
  <2> QED BY <2>1, SearchedServes, InType
<1>8. stop < 4 => stop \in {1, 2, 3} BY <1>3
<1>9. \A have, more : Served(dep, have) /\ have \subseteq more => Served(dep, more) BY DEF Served
<1>10. stop < 4 /\ Answers(dep)[stop] # "crash" =>
         Served(dep, In(LocalRepos) \union chosen \union
                       (IF stop = 3 THEN {Found(RemoteRepos, dep)} ELSE {}))
  <2> SUFFICES ASSUME stop < 4, Answers(dep)[stop] = "yes"
               PROVE  Served(dep, In(LocalRepos) \union chosen \union
                                    (IF stop = 3 THEN {Found(RemoteRepos, dep)} ELSE {}))
    BY <1>4
  <2>1. CASE stop = 1 BY <1>5, <1>9, <2>1
  <2>2. CASE stop = 2 BY <1>6, <1>9, <2>2
  <2>3. CASE stop = 3 BY <1>7, <1>9, <2>3
  <2> QED BY <1>8, <2>1, <2>2, <2>3
<1>11. stop = 3 /\ Answers(dep)[3] # "crash" => Found(RemoteRepos, dep) \in Packages
  <2>1. stop = 3 => stop < 4 OBVIOUS
  <2> QED BY <1>4, <1>7, <2>1
<1> QED BY <1>3, <1>10, <1>11 DEF stop

-----------------------------------------------------------------------------
(***************************************************************************)
(* The inductive invariant.  While the search runs, what a name it has dealt  *)
(* with needs is there, unmet or still to be looked at.                      *)
(***************************************************************************)
Have == In(LocalRepos) \union chosen

Settled(name) ==
  \E p \in Have :
    /\ p.name = name
    /\ \A dep \in p.depends : dep \in unmet \union unfulfiled \/ Served(dep, Have)

ChosenInv == chosen \subseteq Packages /\ unfulfiled \subseteq Dependencies

\* Between two runs the variables of the process have their initial values.
IdleInv == pc \notin {"resolve", "save", "resolved"} => at = 1 /\ saved = {}

SearchInv ==
  pc = "resolve" =>
    /\ at \in Nat \ {0} /\ asked \in Seq(STRING) /\ saved = {}
    /\ \A k \in 1 .. at - 1 : Settled(asked[k])

SavingInv ==
  pc \in {"save", "resolved"} =>
    /\ unfulfiled = {}
    /\ \A k \in DOMAIN asked : Settled(asked[k])
    /\ saved \subseteq {f.deb : f \in debs}

SavedInv == pc = "resolved" => saved = chosen

ResolverInv == ChosenInv /\ IdleInv /\ SearchInv /\ SavingInv /\ SavedInv

LEMMA ResolverInitially == Init => ResolverInv
BY DEF Init, ResolverInit, ResolverInv, ChosenInv, IdleInv, SearchInv, SavingInv, SavedInv

LEMMA EndsKeeps == ASSUME Ends PROVE ResolverInv'
BY DEF Ends, ResolverInv, ChosenInv, IdleInv, SearchInv, SavingInv, SavedInv

\* What is there and what is unmet only grows.
LEMMA SettledKeeps ==
  ASSUME NEW name, Settled(name), chosen \subseteq chosen', unmet \subseteq unmet',
         \A dep \in unfulfiled :
           dep \in unmet' \union unfulfiled' \/ Served(dep, In(LocalRepos) \union chosen')
  PROVE  Settled(name)'
<1>1. Have \subseteq Have' BY DEF Have
<1>2. PICK p \in Have :
        /\ p.name = name
        /\ \A dep \in p.depends : dep \in unmet \union unfulfiled \/ Served(dep, Have)
  BY DEF Settled
<1>3. \A dep : Served(dep, Have) => Served(dep, Have') BY <1>1 DEF Served
<1>4. \A dep \in p.depends : dep \in unmet' \union unfulfiled' \/ Served(dep, Have')
  BY <1>2, <1>3 DEF Have
<1>5. p \in Have' BY <1>1
<1> QED BY <1>2, <1>4, <1>5 DEF Settled, Served

LEMMA ResolveKeeps == ASSUME ResolverInv, Resolve PROVE ResolverInv'
<1>1. pc = "shell" /\ pc' = "resolve" /\ asked' \in Seq(STRING)
      /\ UNCHANGED <<at, unfulfiled, chosen, saved>>
  BY ResolverAssumption DEF Resolve, Command
<1>2. at' = 1 /\ saved' = {} BY <1>1 DEF ResolverInv, IdleInv
<1>3. 1 .. at' - 1 = {} BY <1>2
<1> QED BY <1>1, <1>2, <1>3 DEF ResolverInv, ChosenInv, IdleInv, SearchInv, SavingInv, SavedInv

LEMMA FirstNamedIsThere ==
  ASSUME NEW repos \in {LocalRepos, RemoteRepos}, NEW n, NEW r \in Holding(repos, n)
  PROVE  FirstNamed(repos[r], n) \in In(repos) /\ FirstNamed(repos[r], n).name = n
<1> DEFINE repo == repos[r]
           named == {i \in DOMAIN repo : repo[i].name = n}
<1>1. r \in DOMAIN repos /\ named # {} BY DEF Holding
<1>2. repo \in Seq(Packages) BY <1>1, ResolverAssumption
<1>3. named \subseteq Nat BY <1>2
<1>4. Min(named) \in named BY <1>1, <1>3, MinIsLeast
<1>5. FirstNamed(repo, n) = repo[Min(named)] BY DEF FirstNamed
<1>6. FirstNamed(repo, n) \in ToSet(repo) /\ repo \in ToSet(repos) BY <1>1, <1>4, <1>5 DEF ToSet
<1> QED BY <1>4, <1>5, <1>6 DEF In

LEMMA TakeNameKeeps == ASSUME ResolverInv, TakeName PROVE ResolverInv'
<1>0. PICK n : n = asked[at] OBVIOUS
<1> DEFINE here == Holding(LocalRepos, n)
           there == Holding(RemoteRepos, n)
           repos == IF here = {} THEN RemoteRepos ELSE LocalRepos
<1>1. pc = "resolve" /\ unfulfiled = {} /\ UNCHANGED debs BY DEF TakeName
<1>2. CASE Ends BY <1>2, EndsKeeps
<1>3. CASE ~Ends
  <2>1. PICK r \in (IF here = {} THEN there ELSE here) :
          LookInto(FirstNamed(repos[r], n), ToDownload(here, FirstNamed(repos[r], n)))
    BY <1>0, <1>3, Zenon DEF TakeName
  <2> DEFINE p == FirstNamed(repos[r], n)
  <2>2. r \in Holding(repos, n) /\ repos \in {LocalRepos, RemoteRepos} BY <2>1
  <2>3. p \in In(repos) /\ p.name = n BY <2>2, FirstNamedIsThere
  <2>4. /\ unfulfiled' = p.depends /\ chosen' = chosen \union ToDownload(here, p)
        /\ at' = at + 1 /\ UNCHANGED <<asked, unmet, saved, pc>>
    BY <1>3, <2>1 DEF LookInto
  <2>5. p \in Packages BY <2>3, InType
  <2>6. p \in Have' BY <2>3, <2>4 DEF Have, ToDownload
  <2>7. ChosenInv' BY <2>4, <2>5 DEF ResolverInv, ChosenInv, Dependencies, ToDownload
  <2> HIDE DEF p
  <2>8. Settled(n)'
    <3>1. \A dep \in p.depends : dep \in unmet' \union unfulfiled' BY <2>4
    <3> QED BY <2>3, <2>6, <3>1 DEF Settled
  <2>9. \A k \in 1 .. at - 1 : Settled(asked[k])'
    <3> TAKE k \in 1 .. at - 1
    <3>1. Settled(asked[k]) BY <1>1 DEF ResolverInv, SearchInv
    <3>2. chosen \subseteq chosen' /\ unmet \subseteq unmet' BY <2>4
    <3>3. Settled(asked[k])' BY <1>1, <2>4, <3>1, <3>2, SettledKeeps
    <3> QED BY <2>4, <3>3
  <2>10. SearchInv'
    <3>1. at \in Nat \ {0} /\ asked \in Seq(STRING) /\ saved = {}
      BY <1>1 DEF ResolverInv, SearchInv
    <3>2. ASSUME NEW k \in 1 .. at' - 1 PROVE Settled(asked[k])'
      <4>1. k \in 1 .. at - 1 \/ k = at BY <2>4, <3>1
      <4>2. CASE k \in 1 .. at - 1 BY <2>9, <4>2
      <4>3. CASE k = at
        <5>1. asked'[k] = n BY <1>0, <2>4, <4>3
        <5> QED BY <2>8, <5>1
      <4> QED BY <4>1, <4>2, <4>3
    <3> QED BY <2>4, <3>1, <3>2 DEF SearchInv
  <2>11. IdleInv' /\ SavingInv' /\ SavedInv' BY <1>1, <2>4 DEF IdleInv, SavingInv, SavedInv
  <2> QED BY <2>7, <2>10, <2>11 DEF ResolverInv
<1> QED BY <1>2, <1>3

LEMMA TakeDependencyKeeps == ASSUME ResolverInv, TakeDependency PROVE ResolverInv'
<1>1. CASE Ends BY <1>1, EndsKeeps
<1>2. CASE ~Ends
  <2>1. PICK dep \in unfulfiled :
          /\ Stop(dep) < 4 => Answers(dep)[Stop(dep)] # "crash"
          /\ unfulfiled' = unfulfiled \ {dep}
          /\ chosen' = chosen \union
                         (IF Stop(dep) = 3 THEN {Found(RemoteRepos, dep)} ELSE {})
          /\ unmet' = unmet \union (IF Stop(dep) = 4 THEN {dep} ELSE {})
          /\ UNCHANGED <<asked, at, saved, pc>>
    BY <1>2, Zenon DEF TakeDependency
  <2>2. pc = "resolve" BY DEF TakeDependency
  <2>3. dep \in Dependencies /\ chosen \subseteq Packages
    BY <2>1 DEF ResolverInv, ChosenInv
  <2>4. /\ Stop(dep) \in 1 .. 4
        /\ Stop(dep) < 4 => Served(dep, In(LocalRepos) \union chosen')
        /\ Stop(dep) = 3 => Found(RemoteRepos, dep) \in Packages
    <3>1. Stop(dep) \in 1 .. 4 BY <2>3, StopServes
    <3>2. Stop(dep) = 3 => Stop(dep) < 4 OBVIOUS
    <3>3. In(LocalRepos) \union chosen' =
            In(LocalRepos) \union chosen \union
              (IF Stop(dep) = 3 THEN {Found(RemoteRepos, dep)} ELSE {})
      BY <2>1
    <3> QED BY <2>1, <2>3, <3>1, <3>2, <3>3, StopServes
  <2>5. ChosenInv' BY <2>1, <2>3, <2>4 DEF ResolverInv, ChosenInv
  <2>6. dep \in unmet' \/ Served(dep, In(LocalRepos) \union chosen')
    <3>1. Stop(dep) < 4 \/ Stop(dep) = 4 BY <2>4
    <3> QED BY <2>1, <2>4, <3>1
  <2>7. \A other \in unfulfiled :
          other \in unmet' \union unfulfiled' \/ Served(other, In(LocalRepos) \union chosen')
    BY <2>1, <2>6
  <2>8. chosen \subseteq chosen' /\ unmet \subseteq unmet' BY <2>1
  <2>9. ASSUME NEW k \in 1 .. at - 1 PROVE Settled(asked[k])'
    <3>1. Settled(asked[k]) BY <2>2 DEF ResolverInv, SearchInv
    <3>2. asked' = asked BY <2>1
    <3> QED BY <2>7, <2>8, <3>1, <3>2, SettledKeeps DEF Settled
  <2>10. SearchInv' BY <2>1, <2>2, <2>9 DEF ResolverInv, SearchInv
  <2>11. IdleInv' /\ SavingInv' /\ SavedInv' BY <2>1, <2>2 DEF IdleInv, SavingInv, SavedInv
  <2> QED BY <2>5, <2>10, <2>11 DEF ResolverInv
<1> QED BY <1>1, <1>2

LEMMA StartSavingKeeps == ASSUME ResolverInv, StartSaving PROVE ResolverInv'
<1>1. /\ pc = "resolve" /\ pc' = "save" /\ unfulfiled = {} /\ at > Len(asked)
      /\ UNCHANGED <<asked, at, unfulfiled, chosen, unmet, saved, debs>>
  BY DEF StartSaving, searchVars
<1>2. at \in Nat \ {0} /\ asked \in Seq(STRING) /\ saved = {}
      /\ \A k \in 1 .. at - 1 : Settled(asked[k])
  BY <1>1 DEF ResolverInv, SearchInv
<1>3. \A k \in DOMAIN asked : k \in 1 .. at - 1 BY <1>1, <1>2
<1>4. \A k \in DOMAIN asked : Settled(asked[k])' BY <1>1, <1>2, <1>3 DEF Settled, Have
<1> QED BY <1>1, <1>2, <1>4 DEF ResolverInv, ChosenInv, IdleInv, SearchInv, SavingInv, SavedInv

LEMMA SaveDebKeeps == ASSUME ResolverInv, SaveDeb PROVE ResolverInv'
<1>1. CASE Ends BY <1>1, EndsKeeps
<1>2. CASE ~Ends
  <2>1. PICK p, whole : /\ debs' = Put(debs, [deb |-> p, whole |-> whole])
                        /\ saved' = saved \union {p}
                        /\ UNCHANGED <<pc, asked, at, unfulfiled, chosen, unmet>>
    BY <1>2 DEF SaveDeb
  <2>2. pc = "save" BY DEF SaveDeb
  <2>3. saved \subseteq {f.deb : f \in debs} BY <2>2 DEF ResolverInv, SavingInv
  <2>4. saved' \subseteq {f.deb : f \in debs'} BY <2>1, <2>3 DEF Put
  <2>5. \A k \in DOMAIN asked : Settled(asked[k])' <=> Settled(asked[k])
    BY <2>1 DEF Settled, Have
  <2>6. SavingInv' BY <2>1, <2>2, <2>4, <2>5 DEF ResolverInv, SavingInv
  <2> QED BY <2>1, <2>2, <2>6 DEF ResolverInv, ChosenInv, IdleInv, SearchInv, SavedInv
<1> QED BY <1>1, <1>2

LEMMA SavedKeeps == ASSUME ResolverInv, Saved PROVE ResolverInv'
<1>1. /\ pc = "save" /\ pc' = "resolved" /\ saved = chosen
      /\ UNCHANGED <<asked, at, unfulfiled, chosen, unmet, saved, debs>>
  BY DEF Saved, searchVars
<1>2. \A k \in DOMAIN asked : Settled(asked[k])' <=> Settled(asked[k])
  BY <1>1 DEF Settled, Have
<1> QED BY <1>1, <1>2 DEF ResolverInv, ChosenInv, IdleInv, SearchInv, SavingInv, SavedInv

\* The other commands, between two runs, leave the variables of the process alone.
LEMMA IdleKeeps ==
  ASSUME ResolverInv, pc \notin {"resolve", "save", "resolved"},
         pc' \notin {"resolve", "save", "resolved"}, UNCHANGED searchVars
  PROVE  ResolverInv'
BY DEF searchVars, ResolverInv, ChosenInv, IdleInv, SearchInv, SavingInv, SavedInv

LEMMA StutterKeeps == ASSUME ResolverInv, UNCHANGED vars PROVE ResolverInv'
<1>1. UNCHANGED <<pc, asked, at, unfulfiled, chosen, unmet, saved, debs>> BY DEF vars, searchVars
<1>2. \A name : Settled(name)' <=> Settled(name) BY <1>1 DEF Settled, Have
<1> QED BY <1>1, <1>2 DEF ResolverInv, ChosenInv, IdleInv, SearchInv, SavingInv, SavedInv

LEMMA ResolverStepKeeps == ResolverInv /\ [Next]_vars => ResolverInv'
<1> SUFFICES ASSUME ResolverInv, [Next]_vars PROVE ResolverInv'
  OBVIOUS
<1> DEFINE Idle == /\ pc \notin {"resolve", "save", "resolved"}
                   /\ pc' \notin {"resolve", "save", "resolved"}
                   /\ UNCHANGED searchVars
<1>1. CASE Resolver
  <2>1. CASE Resolved BY <2>1, EndsKeeps DEF Resolved
  <2>2. CASE RemoveDeb BY <2>2, IdleKeeps DEF RemoveDeb
  <2> QED BY <1>1, <2>1, <2>2, ResolveKeeps, TakeNameKeeps, TakeDependencyKeeps,
             StartSavingKeeps, SaveDebKeeps, SavedKeeps
          DEF Resolver
<1>2. CASE Build
  <2>1. start' \in {1, 2, 3, 4} BY <1>2 DEF Build
  <2>2. pc' \in {"remove", "update", "prepare", "mkisofs"} BY <1>2, <2>1 DEF Build, GoTo
  <2> QED BY <1>2, <2>2, IdleKeeps DEF Build, Command
<1> USE DEF GoTo, End
<1>3. CASE Extract
  <2>1. Idle
    BY <1>3 DEF Extract, RemovePart, RemoveDone, RemoveInterrupted, Mount, EnterPart, CopyFile,
                LeavePart, Copied, MakeWritable, Extracted, Interrupted, cdVars
  <2> QED BY <2>1, IdleKeeps
<1>4. CASE Update \/ UpdateCut BY <1>4, IdleKeeps DEF Update, UpdateCut
<1>5. CASE AddDebs
  <2>1. Idle
    BY <1>5 DEF AddDebs, Prepare, CopyDeb, Keyring, IndexMain, IndexExtras, Unsign,
                WriteRelease, Sign, ReadNames, EditSeed, Edited
  <2> QED BY <2>1, IdleKeeps
<1>6. CASE Abort BY <1>6, IdleKeeps DEF Abort
<1>7. CASE MakeIso BY <1>7, IdleKeeps DEF MakeIso
<1>8. CASE Imaged BY <1>8, IdleKeeps DEF Imaged
<1>9. CASE Leave BY <1>9, StutterKeeps DEF Leave
<1>10. CASE UNCHANGED vars BY <1>10, StutterKeeps
<1> QED BY <1>1, <1>2, <1>3, <1>4, <1>5, <1>6, <1>7, <1>8, <1>9, <1>10 DEF Next

LEMMA ResolverInvHolds == Spec => []ResolverInv
BY ResolverInitially, ResolverStepKeeps, PTL DEF Spec

-----------------------------------------------------------------------------
\* When get-deb-dependencies.py has got through its downloads and none is the page of
\* an error, each package it was asked for and what it depends on directly is on the
\* CD or whole in the directory, or the dependency is reported, whatever order
\* set.pop() has taken them in.
THEOREM InstallableTheorem == Spec => []RequestedAreInstallable
<1>1. ResolverInv => RequestedAreInstallable
  <2> DEFINE here == In(LocalRepos) \union {f.deb : f \in {g \in debs : g.whole}}
  <2> SUFFICES ASSUME ResolverInv, pc = "resolved", \A f \in debs : f.deb \in chosen => f.whole,
                      NEW k \in DOMAIN asked
               PROVE  \E p \in here : /\ p.name = asked[k]
                                     /\ \A dep \in p.depends : dep \in unmet \/ Served(dep, here)
    BY DEF RequestedAreInstallable, Served
  <2>1. unfulfiled = {} /\ Settled(asked[k]) /\ chosen \subseteq {f.deb : f \in debs}
    BY DEF ResolverInv, SavingInv, SavedInv
  <2>2. Have \subseteq here BY <2>1 DEF Have
  <2> HIDE DEF here
  <2> QED BY <2>1, <2>2 DEF Settled, Served
<1> QED BY <1>1, ResolverInvHolds, PTL
=============================================================================

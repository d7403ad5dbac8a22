------------------------------ MODULE AptResolver ------------------------------
(***************************************************************************)
(* bin/get-deb-dependencies.py, which is dl_depenencies of bin/apt.py: for    *)
(* the packages named on the command line it looks for what they depend on in *)
(* the local repositories (the CD) and then in the remote ones, and downloads *)
(* into a directory the packages that only the latter have.                   *)
(***************************************************************************)
EXTENDS DebVersion, SequencesExt

CONSTANTS
  LocalRepos, RemoteRepos,   \* sequences of repositories: sequences of packages
  Requests,                  \* the lists of names it may be called with
  MaxCommands                \* bounds the commands the user gives

\* A dependency is a list of alternatives; most have one.  A package without a
\* line of dependencies (line = FALSE) has no attribute depends either.
In(repos) == UNION {ToSet(repo) : repo \in ToSet(repos)}
Packages == In(LocalRepos) \union In(RemoteRepos)
Alternatives == UNION {ToSet(dep) : dep \in UNION {p.depends : p \in Packages}}

ASSUME ResolverAssumption ==
  /\ LocalRepos \in Seq(Seq(Packages) \ {<<>>}) /\ RemoteRepos \in Seq(Seq(Packages) \ {<<>>})
  /\ \A p \in Packages : p.version \in Versions /\ p.line \in BOOLEAN
  /\ \A alternative \in Alternatives :
       alternative.version \in Versions /\ alternative.relation \in Relations \union {"any"}
  /\ \A p \in Packages : p.depends \subseteq Seq(Alternatives) \ {<<>>}
  /\ Requests \subseteq Seq(STRING)
  /\ MaxCommands \in Nat

VARIABLES
  pc,            \* where the running command is; "shell" between commands
  commands,      \* history: how many the user gave
  asked, at,     \* the names on the command line, and the one it looks at
  unfulfiled,    \* the dependencies of that one still to look at
  chosen,        \* debs_to_download
  unmet,         \* unmet_dependencies
  saved,         \* the chosen ones that were downloaded
  debs           \* the files in the directory: [deb, whole]

searchVars == <<asked, at, unfulfiled, chosen, unmet, saved>>

ResolverInit ==
  /\ pc = "shell"
  /\ commands = 0
  /\ asked = <<>> /\ at = 1
  /\ unfulfiled = {} /\ chosen = {} /\ unmet = {} /\ saved = {}
  /\ debs = {}

\* A directory after a file of the same name was written into it.
Put(dir, file) == {f \in dir : f.deb # file.deb} \union {file}

Command == pc = "shell" /\ commands < MaxCommands /\ commands' = commands + 1

\* What a process had in its variables goes with it.
Ends ==
  /\ pc' = "shell"
  /\ asked' = <<>> /\ at' = 1
  /\ unfulfiled' = {} /\ chosen' = {} /\ unmet' = {} /\ saved' = {}

Resolve ==
  /\ Command
  /\ asked' \in Requests
  /\ pc' = "resolve"
  /\ UNCHANGED <<at, unfulfiled, chosen, unmet, saved>>
  /\ UNCHANGED debs

\* The repositories that have a package of this name, and the first of that name.
Holding(repos, n) == {r \in DOMAIN repos : \E i \in DOMAIN repos[r] : repos[r][i].name = n}
FirstNamed(repo, n) == repo[Min({i \in DOMAIN repo : repo[i].name = n})]

LookInto(p, more) ==
  IF p.line
  THEN /\ unfulfiled' = p.depends
       /\ chosen' = chosen \union more
       /\ at' = at + 1
       /\ UNCHANGED <<asked, unmet, saved, pc>>
  ELSE Ends    \* an exception, before anything is downloaded

\* Mutant: what was asked for is downloaded even if the CD has it.
ToDownloadAlways(here, p) == {p}

ToDownload(here, p) == IF here = {} THEN {p} ELSE {}

\* A name: it must be in one local repository, or in none and one remote one.
TakeName ==
  /\ pc = "resolve" /\ unfulfiled = {} /\ at <= Len(asked)
  /\ LET n     == asked[at]
         here  == Holding(LocalRepos, n)
         there == Holding(RemoteRepos, n)
         repos == IF here = {} THEN there ELSE here
     IN  IF Cardinality(repos) # 1 THEN Ends
         ELSE \E r \in repos :
                LET p == FirstNamed((IF here = {} THEN RemoteRepos ELSE LocalRepos)[r], n)
                IN  LookInto(p, ToDownload(here, p))
  /\ UNCHANGED <<commands, debs>>

\* any() of a list: every alternative is looked at.
AnyOf(answers) == IF "crash" \in answers THEN "crash"
                  ELSE IF "yes" \in answers THEN "yes" ELSE "no"

Answer(p, dep) == AnyOf({Fulfils(p, dep[i]) : i \in DOMAIN dep})

\* The packages are looked at repository by repository; the search ends at the first
\* one that serves, or at which fulfils crashes.
Stops(repo, dep) == {i \in DOMAIN repo : Answer(repo[i], dep) # "no"}
Stopping(repos, dep) == {r \in DOMAIN repos : Stops(repos[r], dep) # {}}
Found(repos, dep) ==
  LET repo == repos[Min(Stopping(repos, dep))] IN repo[Min(Stops(repo, dep))]
Searched(repos, dep) ==
  IF Stopping(repos, dep) = {} THEN "no" ELSE Answer(Found(repos, dep), dep)

\* Mutant: a package of the right name is enough.
AmongChosenByName(dep) ==
  IF \E p \in chosen, i \in DOMAIN dep : p.name = dep[i].name THEN "yes" ELSE "no"

\* Whether a package that will be downloaded serves.  A list of alternatives has
\* no name, so that the first fulfils fails on it.
AmongChosen(dep) ==
  IF Len(dep) > 1 THEN (IF chosen = {} THEN "no" ELSE "crash")
  ELSE AnyOf({Fulfils(p, dep[1]) : p \in chosen})

\* What the CD, the chosen packages and the remote repositories say of a
\* dependency; they are asked in this order, up to the first that does not say no.
Answers(dep) == <<Searched(LocalRepos, dep), AmongChosen(dep), Searched(RemoteRepos, dep)>>
Stop(dep) ==
  LET answers == Answers(dep) IN Min({i \in 1 .. 3 : answers[i] # "no"} \union {4})

\* One dependency, whichever set.pop() takes.  What is found remotely is chosen,
\* and its own dependencies are not looked at.
TakeDependency ==
  /\ pc = "resolve"
  /\ \E dep \in unfulfiled :
       LET stop == Stop(dep) IN
       IF stop < 4 /\ Answers(dep)[stop] = "crash" THEN Ends
       ELSE /\ unfulfiled' = unfulfiled \ {dep}
            /\ chosen' = chosen \union
                           (IF stop = 3 THEN {Found(RemoteRepos, dep)} ELSE {})
            /\ unmet' = unmet \union (IF stop = 4 THEN {dep} ELSE {})
            /\ UNCHANGED <<asked, at, saved, pc>>
  /\ UNCHANGED <<commands, debs>>

StartSaving ==
  /\ pc = "resolve" /\ unfulfiled = {} /\ at > Len(asked)
  /\ pc' = "save"
  /\ UNCHANGED <<commands, searchVars, debs>>

\* urlretrieve of one package: it is downloaded, or the page of an HTTP error is
\* saved in its place and nothing is said, or it fails and leaves what it has.
SaveDeb ==
  /\ pc = "save"
  /\ \E p \in chosen \ saved, whole \in BOOLEAN :
       /\ debs' = Put(debs, [deb |-> p, whole |-> whole])
       /\ \/ saved' = saved \union {p}
             /\ UNCHANGED <<pc, asked, at, unfulfiled, chosen, unmet>>
          \/ ~whole /\ Ends
  /\ UNCHANGED commands

Saved ==
  /\ pc = "save" /\ saved = chosen
  /\ pc' = "resolved"
  /\ UNCHANGED <<commands, searchVars, debs>>

\* It has told what is unmet, and ends.
Resolved ==
  /\ pc = "resolved"
  /\ Ends
  /\ UNCHANGED <<commands, debs>>

\* The user may remove a file between commands.
RemoveDeb ==
  /\ pc = "shell"
  /\ \E f \in debs : debs' = debs \ {f}
  /\ UNCHANGED <<pc, commands, searchVars>>

Resolver ==
  Resolve \/ TakeName \/ TakeDependency \/ StartSaving \/ SaveDeb \/ Saved \/ Resolved
  \/ RemoveDeb

-----------------------------------------------------------------------------
\* What a dependency asks for, read by the order of DebVersion where the versions
\* have the same shape and can be read, and by what fulfils makes of them elsewhere.
Serves(p, alternative) ==
  /\ p.name = alternative.name
  /\ \/ alternative.relation = "any"
     \/ IF SameShape(p.version, alternative.version)
           /\ ~Unreadable(p.version, alternative.version)
        THEN Meets(alternative.relation, p.version, alternative.version)
        ELSE Fulfils(p, alternative) = "yes"

\* A run that gets through its downloads, all of which are the packages and not the
\* page of an error, has for each package it was asked for the package itself and
\* what this one depends on directly, on the CD or in the directory, or it reports the
\* dependency, whatever the order in which it looked.  What the dependencies need in
\* their turn is not looked at, and an error page is not told from a package.
RequestedAreInstallable ==
  pc = "resolved" /\ (\A f \in debs : f.deb \in chosen => f.whole) =>
    LET have == In(LocalRepos) \union {f.deb : f \in {g \in debs : g.whole}}
    IN  \A k \in DOMAIN asked :
          \E p \in have :
            /\ p.name = asked[k]
            /\ \A dep \in p.depends :
                 dep \in unmet \/ \E q \in have, i \in DOMAIN dep : Serves(q, dep[i])
=============================================================================

----------------------------- MODULE CdBuildProofs -----------------------------
(***************************************************************************)
(* What an image of CdBuild is, proved for every set of repositories, every  *)
(* request and any number of commands.                                       *)
(***************************************************************************)
EXTENDS AptResolverProofs

(***************************************************************************)
(* The inductive invariant.  Stage 3 is passed from top to bottom; what one  *)
(* step establishes holds in the states after it, and in those of stage 4 if *)
(* the run came through stage 3.                                             *)
(***************************************************************************)
Sourcing == {"shell", "resolve", "save", "resolved"}
Stage1   == {"remove", "mount", "copy", "chmod"}
Checked  == {"edit"}
Signed   == {"names"} \union Checked
Released == {"sign"} \union Signed
Indexed  == {"unsign", "release"} \union Released
HalfIndexed == {"index extras"} \union Indexed
Copied3  == {"index main"} \union HalfIndexed
Stage3   == {"prepare", "copydebs"} \union Copied3
Stage4   == {"mkisofs", "imaged"}

Through(places) == pc \in places \/ (pc \in Stage4 /\ start \in {1, 2, 3})

StartInv ==
  /\ start \in {1, 2, 3, 4}
  /\ root \in BOOLEAN
  /\ pc \in Stage1 => start = 1
  /\ pc = "update" => start \in {1, 2}
  /\ pc \in Stage3 => start \in {1, 2, 3}

\* The directory has one file of each name, and the pool gets them all.
DebsInv ==
  /\ \A f, g \in debs : f.deb = g.deb => f = g
  /\ pc = "copydebs" => queue \subseteq debs /\ debs \ queue \subseteq extras
  /\ Through(Copied3) => debs \subseteq extras
  /\ Through(Checked) => \A f \in debs : f.whole

IndexInv ==
  /\ index = [keyring |-> index.keyring, extras |-> index.extras]
  /\ Through(Copied3) => keyring = "ours"
  /\ Through(HalfIndexed) => index.keyring = "ours"
  /\ Through(Indexed) => index.extras = {f \in extras : f.whole}

\* While Release is rewritten there is no signature; cp copies both files or none.
SignatureInv ==
  /\ SignatureMatchesRelease
  /\ pc = "copy" /\ files # {} => {release, sig} \subseteq {Nothing, Original}
  /\ pc \in {"release", "sign"} => sig = Nothing
  /\ Through(Released) => release = index
  /\ Through(Signed) => sig = release

OurSeedAndDebs == [text |-> "ours", added |-> <<{f.deb.name : f \in debs}>>]

SeedInv ==
  /\ seed = [s \in Seeds |-> seed[s]]
  /\ start \in {1, 2} =>
       /\ pc \in Stage3 \ {"edit"} => \A s \in Seeds : seed[s] = OurSeed
       /\ pc = "edit" => \A s \in Seeds : seed[s] = IF s \in preseeds THEN OurSeed
                                                  ELSE OurSeedAndDebs
       /\ pc \in Stage4 => \A s \in Seeds : seed[s] = OurSeedAndDebs

\* What rm leaves has not our files in pool/extras, and what it leaves of the parts
\* that hold no directories is read-only.
Swept(p) ==
  /\ mode[p] \in {"none", "half", "ro"}
  /\ p \in Flat => mode[p] = "none" \/ (~root /\ mode[p] = "ro")
  /\ p = "pool" => extras = {}

\* What keeps a partial tree from getting beyond stage 2 is that of the parts that
\* hold no directories at most one is writable before cp is done.
TreeInv ==
  /\ parts \subseteq Parts
  /\ mode \in [Parts -> {"none", "bare", "half", "open", "ro", "rw"}]
  /\ pc = "remove" => \A p \in Parts \ parts : Swept(p)
  /\ pc = "mount" => \A p \in Parts : Swept(p)
  /\ pc = "copy" => /\ extras = {}
                    /\ \A p \in Flat : mode[p] \in {"none", "open", "ro"}
                    /\ \A p \in Parts \ parts : mode[p] = "ro"
                    /\ \A p, q \in Parts : mode[p] = "open" /\ mode[q] = "open" => p = q
  /\ pc = "chmod" => /\ extras = {}
                     /\ \A p \in Parts : mode[p] \in {"ro", "rw"}

Complete == extras = {} /\ (~root => \A p \in Parts : mode[p] \in {"ro", "rw"})

FreshInv ==
  start = 1 =>
    /\ pc = "update" /\ (\A p \in Flat : Writable(p)) => Complete
    /\ pc = "prepare" => Complete /\ \A p \in Flat : Writable(p)
    /\ pc \in {"copydebs"} \union Copied3 \union Stage4 =>
         /\ extras \subseteq debs
         /\ ~root => \A p \in Parts : mode[p] = "rw"

IsoInv == /\ StartInv /\ DebsInv /\ IndexInv /\ SignatureInv /\ SeedInv
          /\ TreeInv /\ FreshInv

-----------------------------------------------------------------------------
(***************************************************************************)
(* The invariant holds initially, and every step keeps it.                 *)
(***************************************************************************)
USE DEF Sourcing, Stage1, Checked, Signed, Released, Indexed, HalfIndexed, Copied3, Stage3,
        Stage4, Through, GoTo, End, NoWork, SignatureMatchesRelease

LEMMA InitInv == Init => IsoInv
BY DEF Init, ResolverInit, IsoInv, StartInv, DebsInv, IndexInv, SignatureInv, SeedInv, TreeInv,
       FreshInv, Nothing, Parts, Flat

\* A download leaves the CD alone and one file of each name in the directory.
LEMMA ResolverStep ==
  ASSUME IsoInv, Resolver
  PROVE  pc \in Sourcing /\ pc' \in Sourcing /\ \A f, g \in debs' : f.deb = g.deb => f = g
<1> USE DEF IsoInv, StartInv, DebsInv
<1>1. CASE Resolve BY <1>1 DEF Resolve, Command
<1>2. CASE TakeName BY <1>2 DEF TakeName, LookInto, Ends
<1>3. CASE TakeDependency BY <1>3 DEF TakeDependency, Ends
<1>4. CASE StartSaving BY <1>4 DEF StartSaving
<1>5. CASE SaveDeb
  <2>1. PICK p \in chosen \ saved, whole \in BOOLEAN :
          debs' = Put(debs, [deb |-> p, whole |-> whole])
    BY <1>5 DEF SaveDeb
  <2>2. \A f, g \in debs' : f.deb = g.deb => f = g BY <2>1 DEF Put
  <2> QED BY <1>5, <2>2 DEF SaveDeb, Ends
<1>6. CASE Saved BY <1>6 DEF Saved
<1>7. CASE Resolved BY <1>7 DEF Resolved, Ends
<1>8. CASE RemoveDeb BY <1>8 DEF RemoveDeb
<1> QED BY <1>1, <1>2, <1>3, <1>4, <1>5, <1>6, <1>7, <1>8 DEF Resolver

LEMMA KeepsSourcing == ASSUME IsoInv, Resolver, UNCHANGED cdVars PROVE IsoInv'
<1>1. pc' \in Sourcing /\ \A f, g \in debs' : f.deb = g.deb => f = g BY ResolverStep
<1> QED BY <1>1 DEF IsoInv, StartInv, DebsInv, IndexInv, SignatureInv, SeedInv, TreeInv, FreshInv,
            cdVars, treeVars, pool, dists, work

LEMMA KeepsBuild == ASSUME IsoInv, Build PROVE IsoInv'
<1>1. UNCHANGED <<debs, root, mode, extras, keyring, index, release, sig, seed, files, queue,
                  preseeds>>
  BY DEF Build, treeVars, pool, dists
<1>2. \/ start' = 1 /\ pc' = "remove" /\ parts' = Parts
      \/ start' = 2 /\ pc' = "update" /\ parts' = {}
      \/ start' = 3 /\ pc' = "prepare" /\ parts' = {}
      \/ start' = 4 /\ pc' = "mkisofs" /\ parts' = {}
  BY DEF Build
<1>3. /\ start' \in {1, 2, 3, 4} /\ pc' \in {"remove", "update", "prepare", "mkisofs"}
      /\ start' = 1 <=> pc' = "remove"
      /\ start' = 2 <=> pc' = "update"
      /\ start' = 3 <=> pc' = "prepare"
      /\ parts' \in {Parts, {}} /\ (pc' = "remove" => parts' = Parts)
  BY <1>2
<1> USE DEF IsoInv
<1>4. StartInv' BY <1>1, <1>3 DEF StartInv
<1>5. DebsInv' BY <1>1, <1>3 DEF DebsInv
<1>6. IndexInv' BY <1>1, <1>3 DEF IndexInv
<1>7. SignatureInv' BY <1>1, <1>3 DEF SignatureInv
<1>8. SeedInv' BY <1>1, <1>3 DEF SeedInv
<1>9. TreeInv' BY <1>1, <1>3 DEF TreeInv
<1>10. FreshInv' BY <1>1, <1>3 DEF FreshInv
<1> QED BY <1>4, <1>5, <1>6, <1>7, <1>8, <1>9, <1>10

\* What removing a part, or some of it, does to the files.
LEMMA RemovedKeeps ==
  ASSUME IsoInv, NEW q \in Parts, NEW m, Removed(q, m), UNCHANGED <<start, root, debs>>,
         pc = "remove", pc' \in {"remove", "shell"},
         m \in {"none", "bare", "half", "open", "ro", "rw"}
  PROVE  /\ StartInv' /\ DebsInv' /\ IndexInv' /\ SignatureInv' /\ SeedInv' /\ FreshInv'
         /\ mode' \in [Parts -> {"none", "bare", "half", "open", "ro", "rw"}]
         /\ mode' = [mode EXCEPT ![q] = m] /\ (q # "pool" => extras' = extras)
<1>1. /\ index' \in {index, Nothing} /\ release' \in {release, Nothing} /\ sig' \in {sig, Nothing}
      /\ seed' = [s \in Seeds |-> seed'[s]]
      /\ mode' = [mode EXCEPT ![q] = m] /\ (q # "pool" => extras' = extras)
  <2>1. \A file, none : Left(m, file, none) \subseteq {file, none} BY DEF Left
  <2>2. index' \in {index, Nothing} /\ release' \in {release, Nothing} /\ sig' \in {sig, Nothing}
    BY <2>1 DEF Removed, dists
  <2>3. seed' = [s \in Seeds |-> seed'[s]] BY DEF Removed, IsoInv, SeedInv
  <2> QED BY <2>2, <2>3 DEF Removed, pool
<1>2. StartInv' BY DEF IsoInv, StartInv
<1>3. DebsInv' BY DEF IsoInv, DebsInv
<1>4. IndexInv' BY <1>1 DEF IsoInv, IndexInv, Nothing
<1>5. SignatureInv' BY <1>1 DEF IsoInv, SignatureInv
<1>6. SeedInv' BY <1>1 DEF IsoInv, SeedInv
<1>7. FreshInv' BY DEF IsoInv, FreshInv
<1>8. mode' \in [Parts -> {"none", "bare", "half", "open", "ro", "rw"}]
  BY <1>1 DEF IsoInv, TreeInv
<1> QED BY <1>1, <1>2, <1>3, <1>4, <1>5, <1>6, <1>7, <1>8

LEMMA KeepsRemovePart == ASSUME IsoInv, RemovePart PROVE IsoInv'
<1>1. PICK q, m :
        /\ q \in parts /\ m \in AfterRm(q)
        /\ Removed(q, m) /\ parts' = parts \ {q}
        /\ q = "pool" => extras' = {}
  BY DEF RemovePart
<1>2. pc = "remove" /\ pc' = "remove" /\ UNCHANGED <<start, root, debs>> BY DEF RemovePart
<1>3. /\ m \in {"none", "half", "ro"}
      /\ q \in Flat => m = "none" \/ (~root /\ m = "ro")
  BY <1>1 DEF AfterRm, IsoInv, TreeInv
<1>4. /\ StartInv' /\ DebsInv' /\ IndexInv' /\ SignatureInv' /\ SeedInv' /\ FreshInv'
      /\ mode' \in [Parts -> {"none", "bare", "half", "open", "ro", "rw"}]
      /\ mode' = [mode EXCEPT ![q] = m] /\ (q # "pool" => extras' = extras)
  <2>1. q \in Parts BY <1>1 DEF IsoInv, TreeInv
  <2>2. /\ UNCHANGED <<start, root, debs>> /\ pc' \in {"remove", "shell"}
        /\ m \in {"none", "bare", "half", "open", "ro", "rw"}
    BY <1>2, <1>3
  <2>3. Removed(q, m) /\ pc = "remove" BY <1>1, <1>2
  <2> HIDE DEF Sourcing, Stage1, Checked, Signed, Released, Indexed, HalfIndexed, Copied3, Stage3,
               Stage4, Through, GoTo, End, NoWork, SignatureMatchesRelease
  <2> QED BY <2>1, <2>2, <2>3, RemovedKeeps
<1>5. ASSUME NEW p \in Parts \ parts' PROVE Swept(p)'
  <2>1. CASE p = q BY <1>1, <1>2, <1>3, <1>4, <2>1 DEF Swept, IsoInv, TreeInv
  <2>2. CASE p # q
    <3>1. Swept(p) BY <1>1, <1>2, <1>5, <2>2 DEF IsoInv, TreeInv
    <3>2. mode'[p] = mode[p] BY <1>4, <2>2 DEF IsoInv, TreeInv
    <3>3. p = "pool" => extras' = extras BY <1>4, <2>2
    <3> QED BY <1>2, <3>1, <3>2, <3>3 DEF Swept
  <2> QED BY <2>1, <2>2
<1>6. parts' \subseteq Parts BY <1>1 DEF IsoInv, TreeInv
<1>7. TreeInv' BY <1>2, <1>4, <1>5, <1>6 DEF TreeInv
<1> QED BY <1>4, <1>7 DEF IsoInv

LEMMA KeepsRemoveDone == ASSUME IsoInv, RemoveDone PROVE IsoInv'
<1> USE DEF IsoInv, cdVars, treeVars, pool, dists, work
<1>1. pc = "remove" /\ parts = {} /\ pc' \in {"mount", "shell"} /\ UNCHANGED <<debs, cdVars>>
  BY DEF RemoveDone
<1>2. StartInv' BY <1>1 DEF StartInv
<1>3. DebsInv' BY <1>1 DEF DebsInv
<1>4. IndexInv' BY <1>1 DEF IndexInv
<1>5. SignatureInv' BY <1>1 DEF SignatureInv
<1>6. SeedInv' BY <1>1 DEF SeedInv
<1>7. FreshInv' BY <1>1 DEF FreshInv
<1>8. TreeInv'
  <2>1. \A p \in Parts : Swept(p) BY <1>1 DEF TreeInv
  <2> QED BY <1>1, <2>1 DEF TreeInv, Swept
<1> QED BY <1>2, <1>3, <1>4, <1>5, <1>6, <1>7, <1>8

LEMMA KeepsRemoveInterrupted == ASSUME IsoInv, RemoveInterrupted PROVE IsoInv'
<1>1. PICK q, m : q \in parts /\ m \in DuringRm(q) /\ Removed(q, m) BY DEF RemoveInterrupted
<1>2. pc = "remove" /\ pc' = "shell" /\ parts' = {} /\ UNCHANGED <<start, root, debs>>
  BY DEF RemoveInterrupted
<1>3. m \in {"none", "bare", "half", "open", "ro", "rw"}
  BY <1>1 DEF DuringRm, AfterRm, IsoInv, TreeInv
<1>4. /\ StartInv' /\ DebsInv' /\ IndexInv' /\ SignatureInv' /\ SeedInv' /\ FreshInv'
      /\ mode' \in [Parts -> {"none", "bare", "half", "open", "ro", "rw"}]
  <2>1. q \in Parts BY <1>1 DEF IsoInv, TreeInv
  <2>2. UNCHANGED <<start, root, debs>> /\ pc' \in {"remove", "shell"} BY <1>2
  <2>3. Removed(q, m) /\ pc = "remove" BY <1>1, <1>2
  <2> HIDE DEF Sourcing, Stage1, Checked, Signed, Released, Indexed, HalfIndexed, Copied3, Stage3,
               Stage4, Through, GoTo, End, NoWork, SignatureMatchesRelease
  <2> QED BY <1>3, <2>1, <2>2, <2>3, RemovedKeeps
<1>5. TreeInv' BY <1>2, <1>4 DEF TreeInv
<1> QED BY <1>4, <1>5 DEF IsoInv

LEMMA KeepsMount == ASSUME IsoInv, Mount PROVE IsoInv'
<1> USE DEF IsoInv, treeVars, pool, dists
<1>1. /\ pc = "mount" /\ UNCHANGED <<debs, start, root, treeVars, queue, preseeds>>
      /\ \/ pc' = "copy" /\ parts' = Parts
            /\ (files' # {} => release = Nothing /\ sig = Nothing)
         \/ pc' = "shell" /\ parts' = parts
  BY DEF Mount
<1>2. StartInv' BY <1>1 DEF StartInv
<1>3. DebsInv' BY <1>1 DEF DebsInv
<1>4. IndexInv' BY <1>1 DEF IndexInv
<1>5. SignatureInv' BY <1>1 DEF SignatureInv
<1>6. SeedInv' BY <1>1 DEF SeedInv
<1>7. FreshInv' BY <1>1 DEF FreshInv
<1>8. TreeInv'
  <2>1. \A p \in Parts : Swept(p) BY <1>1 DEF TreeInv
  <2>2. extras = {} /\ (\A p \in Flat : mode[p] \in {"none", "open", "ro"})
        /\ \A p \in Parts : mode[p] # "open"
    BY <2>1 DEF Swept, Parts, Flat
  <2>3. parts' \subseteq Parts BY <1>1 DEF TreeInv
  <2> QED BY <1>1, <2>2, <2>3 DEF TreeInv
<1> QED BY <1>2, <1>3, <1>4, <1>5, <1>6, <1>7, <1>8

LEMMA KeepsEnterPart == ASSUME IsoInv, EnterPart PROVE IsoInv'
<1> USE DEF IsoInv, pool, dists, work
<1>1. PICK p \in Parts : mode[p] = "none" /\ mode' = [mode EXCEPT ![p] = "open"] BY DEF EnterPart
<1>2. pc = "copy" /\ pc' = "copy" /\ (\A q \in Parts : mode[q] # "open") BY DEF EnterPart
<1>3. UNCHANGED <<start, root, debs, extras, keyring, index, release, sig, seed, parts, files,
                  queue, preseeds>>
  BY DEF EnterPart
<1>4. StartInv' BY <1>2, <1>3 DEF StartInv
<1>5. DebsInv' BY <1>2, <1>3 DEF DebsInv
<1>6. IndexInv' BY <1>2, <1>3 DEF IndexInv
<1>7. SignatureInv' BY <1>2, <1>3 DEF SignatureInv
<1>8. SeedInv' BY <1>2, <1>3 DEF SeedInv
<1>9. FreshInv' BY <1>2, <1>3 DEF FreshInv
<1>10. TreeInv'
  <2>1. mode' \in [Parts -> {"none", "bare", "half", "open", "ro", "rw"}] BY <1>1 DEF TreeInv
  <2>2. \A q \in Flat : mode'[q] \in {"none", "open", "ro"}
    BY <1>1, <1>2 DEF TreeInv, Parts, Flat
  <2>3. \A q \in Parts \ parts : mode'[q] = "ro" BY <1>1, <1>2 DEF TreeInv
  <2>4. \A q, r \in Parts : mode'[q] = "open" /\ mode'[r] = "open" => q = r
    BY <1>1, <1>2 DEF TreeInv
  <2> QED BY <1>2, <1>3, <2>1, <2>2, <2>3, <2>4 DEF TreeInv
<1> QED BY <1>4, <1>5, <1>6, <1>7, <1>8, <1>9, <1>10

\* Release and its signature are copied while neither is of another Release.
LEMMA KeepsCopyFile == ASSUME IsoInv, CopyFile PROVE IsoInv'
<1> USE DEF IsoInv, pool
<1>1. PICK f \in files :
        /\ files' = files \ {f}
        /\ release' = IF f = "Release" THEN Original ELSE release
        /\ sig' = IF f = "Release.gpg" THEN Original ELSE sig
  BY DEF CopyFile
<1>2. pc = "copy" /\ pc' = "copy"
      /\ UNCHANGED <<start, root, mode, debs, extras, keyring, index, seed, parts, queue, preseeds>>
  BY DEF CopyFile
<1>3. StartInv' BY <1>2 DEF StartInv
<1>4. DebsInv' BY <1>2 DEF DebsInv
<1>5. IndexInv' BY <1>2 DEF IndexInv
<1>6. {release', sig'} \subseteq {Nothing, Original} BY <1>1, <1>2 DEF SignatureInv
<1>7. SignatureInv' BY <1>2, <1>6 DEF SignatureInv
<1>8. SeedInv' BY <1>2 DEF SeedInv
<1>9. FreshInv' BY <1>2 DEF FreshInv
<1>10. TreeInv' BY <1>2 DEF TreeInv
<1> QED BY <1>3, <1>4, <1>5, <1>7, <1>8, <1>9, <1>10

LEMMA KeepsLeavePart == ASSUME IsoInv, LeavePart PROVE IsoInv'
<1> USE DEF IsoInv, pool, dists, work
<1>1. PICK p \in parts :
        /\ mode[p] = "open"
        /\ mode' = [mode EXCEPT ![p] = "ro"]
        /\ parts' = parts \ {p}
        /\ index' \in {index, Original}
  BY DEF LeavePart
<1>2. pc = "copy" /\ pc' = "copy"
      /\ UNCHANGED <<start, root, debs, extras, release, sig, seed, files, queue, preseeds>>
  BY DEF LeavePart
<1>3. StartInv' BY <1>1, <1>2 DEF StartInv
<1>4. DebsInv' BY <1>1, <1>2 DEF DebsInv
<1>5. IndexInv' BY <1>1, <1>2 DEF IndexInv, Original
<1>6. SignatureInv' BY <1>1, <1>2 DEF SignatureInv
<1>7. SeedInv' BY <1>1, <1>2 DEF SeedInv
<1>8. FreshInv' BY <1>1, <1>2 DEF FreshInv
<1>9. TreeInv'
  <2>1. mode' \in [Parts -> {"none", "bare", "half", "open", "ro", "rw"}] BY <1>1 DEF TreeInv
  <2>2. \A q \in Flat : mode'[q] \in {"none", "open", "ro"}
    BY <1>1, <1>2 DEF TreeInv, Parts, Flat
  <2>3. \A q \in Parts \ parts' : mode'[q] = "ro" BY <1>1, <1>2 DEF TreeInv
  <2>4. \A q, r \in Parts : mode'[q] = "open" /\ mode'[r] = "open" => q = r
    BY <1>1, <1>2 DEF TreeInv
  <2>5. parts' \subseteq Parts BY <1>1 DEF TreeInv
  <2> QED BY <1>2, <2>1, <2>2, <2>3, <2>4, <2>5 DEF TreeInv
<1> QED BY <1>3, <1>4, <1>5, <1>6, <1>7, <1>8, <1>9

LEMMA KeepsCopied == ASSUME IsoInv, Copied PROVE IsoInv'
<1> USE DEF IsoInv, treeVars, pool, dists
<1>1. /\ pc = "copy" /\ parts' = {} /\ UNCHANGED <<debs, start, root, treeVars>>
      /\ (pc' = "chmod" /\ parts = {}) \/ pc' = "shell"
  BY DEF Copied
<1>2. StartInv' BY <1>1 DEF StartInv
<1>3. DebsInv' BY <1>1 DEF DebsInv
<1>4. IndexInv' BY <1>1 DEF IndexInv
<1>5. SignatureInv' BY <1>1 DEF SignatureInv
<1>6. SeedInv' BY <1>1 DEF SeedInv
<1>7. FreshInv' BY <1>1 DEF FreshInv
<1>8. TreeInv' BY <1>1 DEF TreeInv
<1> QED BY <1>2, <1>3, <1>4, <1>5, <1>6, <1>7, <1>8

LEMMA KeepsMakeWritable == ASSUME IsoInv, MakeWritable PROVE IsoInv'
BY DEF MakeWritable, IsoInv, StartInv, DebsInv, IndexInv, SignatureInv, SeedInv, TreeInv,
       FreshInv,
       Parts, Flat, pool, dists, work

LEMMA KeepsExtracted == ASSUME IsoInv, Extracted PROVE IsoInv'
<1> USE DEF IsoInv, cdVars, treeVars, pool, dists, work
<1>1. pc = "chmod" /\ (\A p \in Parts : mode[p] = "rw") /\ pc' \in {"update", "shell"}
      /\ UNCHANGED <<debs, cdVars>>
  BY DEF Extracted
<1>2. StartInv' BY <1>1 DEF StartInv
<1>3. DebsInv' BY <1>1 DEF DebsInv
<1>4. IndexInv' BY <1>1 DEF IndexInv
<1>5. SignatureInv' BY <1>1 DEF SignatureInv
<1>6. SeedInv' BY <1>1 DEF SeedInv
<1>7. TreeInv' BY <1>1 DEF TreeInv, Parts, Flat
<1>8. Complete' BY <1>1 DEF TreeInv, Complete
<1>9. FreshInv' BY <1>1, <1>8 DEF FreshInv
<1> QED BY <1>2, <1>3, <1>4, <1>5, <1>6, <1>7, <1>9

\* Stage 2 succeeds after an interrupted stage 1 only where the tree is whole.
LEMMA KeepsInterrupted == ASSUME IsoInv, Interrupted PROVE IsoInv'
<1> USE DEF IsoInv, treeVars, pool, dists
<1>1. pc \in {"mount", "copy", "chmod"} /\ pc' \in {"update", "shell"} /\ parts' = {}
      /\ UNCHANGED <<debs, start, root, treeVars>>
  BY DEF Interrupted
<1>2. StartInv' BY <1>1 DEF StartInv
<1>3. DebsInv' BY <1>1 DEF DebsInv
<1>4. IndexInv' BY <1>1 DEF IndexInv
<1>5. SignatureInv' BY <1>1 DEF SignatureInv
<1>6. SeedInv' BY <1>1 DEF SeedInv
<1>7. TreeInv' BY <1>1 DEF TreeInv, Parts, Flat
<1>8. ASSUME \A p \in Flat : Writable(p) PROVE Complete
  <2>1. extras = {} BY <1>1 DEF TreeInv, Swept, Parts
  <2>2. CASE root BY <2>1, <2>2 DEF Complete
  <2>3. CASE ~root
    <3>1. \A p \in Flat : mode[p] \in {"bare", "half", "open", "rw"} BY <1>8, <2>3 DEF Writable
    <3>2. pc # "mount" BY <3>1 DEF TreeInv, Swept, Flat, Parts
    <3>3. pc # "copy"
      <4>1. SUFFICES ASSUME pc = "copy" PROVE FALSE OBVIOUS
      <4>2. \A p \in Flat : mode[p] = "open" BY <3>1, <4>1 DEF TreeInv, Flat
      <4> QED BY <4>1, <4>2 DEF TreeInv, Flat, Parts
    <3> QED BY <1>1, <2>1, <3>2, <3>3 DEF TreeInv, Complete
  <2> QED BY <2>2, <2>3
<1>9. FreshInv' BY <1>1, <1>8 DEF FreshInv, Complete, Writable
<1> QED BY <1>2, <1>3, <1>4, <1>5, <1>6, <1>7, <1>9

LEMMA KeepsUpdate == ASSUME IsoInv, Update PROVE IsoInv'
BY DEF Update, IsoInv, StartInv, DebsInv, IndexInv, SignatureInv, SeedInv, TreeInv, FreshInv,
       CopiedOver, Complete, Parts, Flat, Writable, pool, dists, work

LEMMA KeepsUpdateCut == ASSUME IsoInv, UpdateCut PROVE IsoInv'
BY DEF UpdateCut, IsoInv, StartInv, DebsInv, IndexInv, SignatureInv, SeedInv, TreeInv, FreshInv,
       Flat, pool, dists, work

LEMMA KeepsPrepare == ASSUME IsoInv, Prepare PROVE IsoInv'
<1> USE DEF IsoInv, pool, dists
<1>1. /\ pc = "prepare" /\ Writable("dists") /\ (Writable("pool") \/ mode["pool"] = "none")
      /\ mode' = [p \in Parts |-> IF mode[p] = "none" THEN "bare" ELSE mode[p]]
      /\ pc' \in {"copydebs", "shell"} /\ (pc' = "copydebs" => queue' = debs)
      /\ UNCHANGED <<debs, start, root, extras, keyring, index, release, sig, seed, parts, files,
                     preseeds>>
  BY DEF Prepare
<1>2. StartInv' BY <1>1 DEF StartInv
<1>3. DebsInv' BY <1>1 DEF DebsInv
<1>4. IndexInv' BY <1>1 DEF IndexInv
<1>5. SignatureInv' BY <1>1 DEF SignatureInv
<1>6. SeedInv' BY <1>1 DEF SeedInv
<1>7. TreeInv' BY <1>1 DEF TreeInv
<1>8. ASSUME start = 1, ~root PROVE \A p \in Parts : mode'[p] = "rw"
  <2>1. \A p \in Parts : mode[p] \in {"ro", "rw"} BY <1>1, <1>8 DEF FreshInv, Complete
  <2>2. \A p \in Parts : mode[p] # "none" /\ (Writable(p) => mode[p] = "rw")
    BY <1>8, <2>1 DEF Writable
  <2>3. \A p \in Parts : Writable(p) BY <1>1, <1>8, <2>2 DEF FreshInv, Parts
  <2> QED BY <1>1, <2>2, <2>3
<1>9. FreshInv' BY <1>1, <1>8 DEF FreshInv, Complete
<1> QED BY <1>2, <1>3, <1>4, <1>5, <1>6, <1>7, <1>9

LEMMA KeepsCopyDeb == ASSUME IsoInv, CopyDeb PROVE IsoInv'
BY DEF CopyDeb, IsoInv, StartInv, DebsInv, IndexInv, SignatureInv, SeedInv, TreeInv, FreshInv,
       Put, Writable, dists

LEMMA KeepsKeyring == ASSUME IsoInv, Keyring PROVE IsoInv'
BY DEF Keyring, IsoInv, StartInv, DebsInv, IndexInv, SignatureInv, SeedInv, TreeInv, FreshInv,
       Writable, dists, work

LEMMA KeepsIndexMain == ASSUME IsoInv, IndexMain PROVE IsoInv'
BY DEF IndexMain, IsoInv, StartInv, DebsInv, IndexInv, SignatureInv, SeedInv, TreeInv,
       FreshInv, Writable, pool, work

LEMMA KeepsIndexExtras == ASSUME IsoInv, IndexExtras PROVE IsoInv'
BY DEF IndexExtras, IsoInv, StartInv, DebsInv, IndexInv, SignatureInv, SeedInv, TreeInv,
       FreshInv, Writable, pool, work

LEMMA KeepsUnsign == ASSUME IsoInv, Unsign PROVE IsoInv'
BY DEF Unsign, IsoInv, StartInv, DebsInv, IndexInv, SignatureInv, SeedInv, TreeInv, FreshInv,
       NoSignature, Nothing, Writable, pool, work

LEMMA KeepsWriteRelease == ASSUME IsoInv, WriteRelease PROVE IsoInv'
BY DEF WriteRelease, IsoInv, StartInv, DebsInv, IndexInv, SignatureInv, SeedInv, TreeInv,
       FreshInv, Nothing, Writable, pool, work

LEMMA KeepsSign == ASSUME IsoInv, Sign PROVE IsoInv'
BY DEF Sign, IsoInv, StartInv, DebsInv, IndexInv, SignatureInv, SeedInv, TreeInv, FreshInv,
       Writable, pool, work

LEMMA KeepsReadNames == ASSUME IsoInv, ReadNames PROVE IsoInv'
<1> USE DEF IsoInv, treeVars, pool, dists
<1>1. /\ pc = "names" /\ pc' = "edit" /\ (\A f \in debs : f.whole)
      /\ preseeds' = {s \in Seeds : seed[s] # NoSeed}
      /\ UNCHANGED <<debs, start, root, treeVars, parts, files, queue>>
  BY DEF ReadNames
<1>2. StartInv' BY <1>1 DEF StartInv
<1>3. DebsInv' BY <1>1 DEF DebsInv
<1>4. IndexInv' BY <1>1 DEF IndexInv
<1>5. SignatureInv' BY <1>1 DEF SignatureInv
<1>6. TreeInv' BY <1>1 DEF TreeInv
<1>7. FreshInv' BY <1>1 DEF FreshInv
<1>8. start \in {1, 2} => \A s \in Seeds : seed[s] = OurSeed /\ s \in preseeds'
  BY <1>1 DEF SeedInv, OurSeed, NoSeed
<1>9. SeedInv' BY <1>1, <1>8 DEF SeedInv
<1> QED BY <1>2, <1>3, <1>4, <1>5, <1>6, <1>7, <1>9

LEMMA KeepsEditSeed == ASSUME IsoInv, EditSeed PROVE IsoInv'
<1> USE DEF IsoInv, pool, dists, work
<1>1. /\ pc = "edit" /\ pc' \in {"edit", "shell"}
      /\ UNCHANGED <<debs, start, root, mode, extras, keyring, index, release, sig,
                     parts, files, queue>>
  BY DEF EditSeed
<1>2. StartInv' BY <1>1 DEF StartInv
<1>3. DebsInv' BY <1>1 DEF DebsInv
<1>4. IndexInv' BY <1>1 DEF IndexInv
<1>5. SignatureInv' BY <1>1 DEF SignatureInv
<1>6. TreeInv' BY <1>1 DEF TreeInv, Parts, Flat
<1>7. FreshInv' BY <1>1 DEF FreshInv
<1> DEFINE names == {f.deb.name : f \in debs}
<1>8. PICK s \in preseeds :
        \/ /\ seed' = [seed EXCEPT ![s].added = Append(@, names)]
           /\ preseeds' = preseeds \ {s} /\ pc' = "edit"
        \/ seed' = [seed EXCEPT ![s] = CutSeed] /\ pc' = "shell"
  BY <1>1 DEF EditSeed
<1>9. seed = [t \in Seeds |-> seed[t]] BY DEF SeedInv
<1>10. seed' = [t \in Seeds |-> seed'[t]] BY <1>8, <1>9
<1>11. ASSUME start \in {1, 2}, pc' = "edit", NEW t \in Seeds
       PROVE  seed'[t] = IF t \in preseeds' THEN OurSeed ELSE OurSeedAndDebs'
  <2>1. /\ seed' = [seed EXCEPT ![s].added = Append(@, names)]
        /\ preseeds' = preseeds \ {s}
    BY <1>8, <1>11
  <2>2. seed[t] = IF t \in preseeds THEN OurSeed ELSE OurSeedAndDebs
    BY <1>1, <1>11 DEF SeedInv
  <2>3. OurSeedAndDebs' = OurSeedAndDebs BY <1>1 DEF OurSeedAndDebs
  <2>4. CASE t # s BY <1>9, <2>1, <2>2, <2>3, <2>4
  <2>5. CASE t = s
    <3>1. seed[t] = OurSeed BY <1>8, <2>2, <2>5
    <3>2. seed'[t] = [seed[t] EXCEPT !.added = Append(seed[t].added, names)]
      BY <1>9, <2>1, <2>5
    <3>3. Append(seed[t].added, names) = <<names>>
      <4>1. seed[t].added = <<>> BY <3>1 DEF OurSeed
      <4>2. Append(<<>>, names) = <<names>> OBVIOUS
      <4> QED BY <4>1, <4>2
    <3> HIDE DEF names
    <3>4. seed'[t] = [text |-> "ours", added |-> <<names>>]
      BY <3>1, <3>2, <3>3 DEF OurSeed
    <3> QED BY <2>1, <2>3, <2>5, <3>4 DEF OurSeedAndDebs, names
  <2> QED BY <2>4, <2>5
<1>12. SeedInv' BY <1>1, <1>10, <1>11 DEF SeedInv
<1> QED BY <1>2, <1>3, <1>4, <1>5, <1>6, <1>7, <1>12

LEMMA KeepsEdited == ASSUME IsoInv, Edited PROVE IsoInv'
<1> USE DEF IsoInv, cdVars, treeVars, pool, dists, work
<1>1. pc = "edit" /\ preseeds = {} /\ pc' = "mkisofs" /\ UNCHANGED <<debs, cdVars>> BY DEF Edited
<1>2. StartInv' BY <1>1 DEF StartInv
<1>3. DebsInv' BY <1>1 DEF DebsInv
<1>4. IndexInv' BY <1>1 DEF IndexInv
<1>5. SignatureInv' BY <1>1 DEF SignatureInv
<1>6. TreeInv' BY <1>1 DEF TreeInv
<1>7. FreshInv' BY <1>1 DEF FreshInv
<1>8. OurSeedAndDebs' = OurSeedAndDebs BY <1>1 DEF OurSeedAndDebs
<1>9. SeedInv' BY <1>1, <1>8 DEF SeedInv
<1> QED BY <1>2, <1>3, <1>4, <1>5, <1>6, <1>7, <1>9

LEMMA KeepsAbort == ASSUME IsoInv, Abort PROVE IsoInv'
BY DEF Abort, IsoInv, StartInv, DebsInv, IndexInv, SignatureInv, SeedInv, TreeInv, FreshInv,
       treeVars, pool, dists

LEMMA KeepsMakeIso == ASSUME IsoInv, MakeIso PROVE IsoInv'
<1> USE DEF IsoInv, cdVars, treeVars, pool, dists, work
<1>1. pc = "mkisofs" /\ pc' \in {"imaged", "shell"} /\ UNCHANGED <<debs, cdVars>> BY DEF MakeIso
<1>2. StartInv' BY <1>1 DEF StartInv
<1>3. DebsInv' BY <1>1 DEF DebsInv
<1>4. IndexInv' BY <1>1 DEF IndexInv
<1>5. SignatureInv' BY <1>1 DEF SignatureInv
<1>6. OurSeedAndDebs' = OurSeedAndDebs BY <1>1 DEF OurSeedAndDebs
<1>7. SeedInv' BY <1>1, <1>6 DEF SeedInv
<1>8. TreeInv' BY <1>1 DEF TreeInv
<1>9. FreshInv' BY <1>1 DEF FreshInv
<1> QED BY <1>2, <1>3, <1>4, <1>5, <1>7, <1>8, <1>9

LEMMA KeepsImaged == ASSUME IsoInv, Imaged PROVE IsoInv'
BY DEF Imaged, IsoInv, StartInv, DebsInv, IndexInv, SignatureInv, SeedInv, TreeInv, FreshInv,
       cdVars, treeVars, pool, dists, work

LEMMA KeepsStutter == ASSUME IsoInv, UNCHANGED vars PROVE IsoInv'
<1> USE DEF IsoInv, vars, cdVars, treeVars, pool, dists, work
<1>1. StartInv' BY DEF StartInv
<1>2. DebsInv' BY DEF DebsInv
<1>3. IndexInv' BY DEF IndexInv
<1>4. SignatureInv' BY DEF SignatureInv
<1>5. SeedInv' BY DEF SeedInv, OurSeedAndDebs
<1>6. TreeInv' BY DEF TreeInv, Swept
<1>7. FreshInv' BY DEF FreshInv, Complete, Writable
<1> QED BY <1>1, <1>2, <1>3, <1>4, <1>5, <1>6, <1>7

LEMMA InvStep == IsoInv /\ [Next]_vars => IsoInv'
<1> SUFFICES ASSUME IsoInv, [Next]_vars PROVE IsoInv'
  OBVIOUS
<1>1. CASE Resolver /\ UNCHANGED cdVars BY <1>1, KeepsSourcing
<1>2. CASE Build BY <1>2, KeepsBuild
<1>3. CASE Extract
  BY <1>3, KeepsRemovePart, KeepsRemoveDone, KeepsRemoveInterrupted, KeepsMount, KeepsEnterPart,
     KeepsCopyFile, KeepsLeavePart, KeepsCopied, KeepsMakeWritable, KeepsExtracted,
     KeepsInterrupted
  DEF Extract
<1>4. CASE Update \/ UpdateCut BY <1>4, KeepsUpdate, KeepsUpdateCut
<1>5. CASE AddDebs
  BY <1>5, KeepsPrepare, KeepsCopyDeb, KeepsKeyring, KeepsIndexMain, KeepsIndexExtras,
     KeepsUnsign, KeepsWriteRelease, KeepsSign, KeepsReadNames, KeepsEditSeed, KeepsEdited
  DEF AddDebs
<1>6. CASE Abort BY <1>6, KeepsAbort
<1>7. CASE MakeIso BY <1>7, KeepsMakeIso
<1>8. CASE Imaged BY <1>8, KeepsImaged
<1>9. CASE Leave BY <1>9, KeepsStutter DEF Leave
<1>10. CASE UNCHANGED vars BY <1>10, KeepsStutter
<1> QED BY <1>1, <1>2, <1>3, <1>4, <1>5, <1>6, <1>7, <1>8, <1>9, <1>10 DEF Next

LEMMA InvHolds == Spec => []IsoInv
BY InitInv, InvStep, PTL DEF Spec

-----------------------------------------------------------------------------
\* Whatever fails or is interrupted, in the middle of rm and of cp too, and whatever is
\* run again, no whole Release.gpg on the CD is of another Release than the whole one
\* beside it: rm and cp handle only the original pair or both files of one directory,
\* and add-debs-to-cd-image.py removes the signature before it rewrites what it signs.
THEOREM SignatureTheorem == Spec => []SignatureMatchesRelease
<1>1. IsoInv => SignatureMatchesRelease BY DEF IsoInv, SignatureInv
<1> QED BY <1>1, InvHolds, PTL

\* Every image is what the stages of its run of do_it_all.sh promise, for any
\* repositories, requests and number of commands.
THEOREM IsoTheorem == Spec => []IsoIsExact
<1>1. IsoInv => IsoIsExact
  <2> SUFFICES ASSUME IsoInv PROVE IsoIsExact
    OBVIOUS
  <2> USE DEF IsoInv
  <2>1. CASE pc = "imaged"
    <3>1. start \in {1, 2, 3} =>
            /\ debs \subseteq {f \in extras : f.whole}
            /\ keyring = "ours" /\ release = index /\ sig = release
            /\ index.keyring = "ours" /\ index.extras = {f \in extras : f.whole}
      BY <2>1 DEF DebsInv, IndexInv, SignatureInv
    <3>2. index = [keyring |-> index.keyring, extras |-> index.extras] BY DEF IndexInv
    <3>3. start \in {1, 2} =>
            \A s \in Seeds : seed[s] = [text |-> "ours", added |-> <<{f.deb.name : f \in debs}>>]
      BY <2>1 DEF SeedInv, OurSeedAndDebs
    <3>4. start = 1 => extras = debs /\ (~root => \A p \in Parts : mode[p] = "rw")
      BY <2>1, <3>1 DEF FreshInv
    <3>5. start \in {1, 2, 3, 4} BY DEF StartInv
    <3>6. (start <= 3 => start \in {1, 2, 3}) /\ (start <= 2 => start \in {1, 2}) BY <3>5
    <3> HIDE DEF IsoInv
    <3> QED BY <3>1, <3>2, <3>3, <3>4, <3>6 DEF IsoIsExact
  <2>2. CASE pc # "imaged" BY <2>2 DEF IsoIsExact
  <2> QED BY <2>1, <2>2
<1> QED BY <1>1, InvHolds, PTL
-----------------------------------------------------------------------------
(***************************************************************************)
(* The types of the whole model.  That what is downloaded is not on the CD    *)
(* rests on the order of the search: the remote repositories are asked last.  *)
(***************************************************************************)
Keyrings == {"none", "ubuntu", "ours"}
Indices  == [keyring : Keyrings, extras : SUBSET Files]

SearchTypes ==
  /\ asked \in Seq(STRING) /\ at \in 1 .. Len(asked) + 1
  /\ chosen \subseteq In(RemoteRepos) \ In(LocalRepos)
  /\ saved \subseteq chosen
  /\ commands \in 0 .. MaxCommands
  /\ debs \subseteq Files

PoolTypes ==
  /\ extras \subseteq Files /\ keyring \in Keyrings
  /\ \A f, g \in extras : f.deb = g.deb => f = g

IndexTypes == index \in Indices /\ release \in Indices /\ sig \in Indices

SeedTypes ==
  \A s \in Seeds : /\ seed[s] = [text |-> seed[s].text, added |-> seed[s].added]
                   /\ seed[s].text \in {"none", "cut", "ours"}

\* No file is left to copy when a user may remove one.
WorkTypes ==
  /\ files \subseteq {"Release", "Release.gpg"} /\ preseeds \subseteq Seeds
  /\ queue \subseteq debs
  /\ pc # "copydebs" => queue = {}

CdTypes == SearchTypes /\ PoolTypes /\ IndexTypes /\ SeedTypes /\ WorkTypes

LEMMA TypesInit == Init => CdTypes
<1> SUFFICES ASSUME Init PROVE CdTypes
  OBVIOUS
<1>1. SearchTypes
  BY ResolverAssumption DEF Init, ResolverInit, SearchTypes
<1>2. PoolTypes
  BY DEF Init, PoolTypes, Keyrings
<1>3. IndexTypes
  BY DEF Init, IndexTypes, Indices, Keyrings, Nothing
<1>4. SeedTypes
  BY DEF Init, SeedTypes, NoSeed
<1>5. WorkTypes
  BY DEF Init, ResolverInit, WorkTypes
<1> QED
  BY <1>1, <1>2, <1>3, <1>4, <1>5 DEF CdTypes

\* A name that no local repository has is the name of no package of the CD.
LEMMA NotHeldNotThere ==
  ASSUME NEW n, Holding(LocalRepos, n) = {}, NEW p \in In(LocalRepos)
  PROVE  p.name # n
<1>1. PICK repo \in ToSet(LocalRepos) : p \in ToSet(repo)
  BY DEF In
<1>2. PICK r \in DOMAIN LocalRepos : LocalRepos[r] = repo
  BY <1>1 DEF ToSet
<1>3. PICK k \in DOMAIN repo : repo[k] = p
  BY <1>1 DEF ToSet
<1> QED
  BY <1>2, <1>3 DEF Holding

\* What the search finds remotely, after it has asked the CD, is not on the CD.
LEMMA FoundIsNew ==
  ASSUME NEW dep, Stop(dep) = 3
  PROVE  Found(RemoteRepos, dep) \in In(RemoteRepos) \ In(LocalRepos)
<1> DEFINE ends == {k \in 1 .. 3 : Answers(dep)[k] # "no"} \union {4}
<1>1. 3 \in ends /\ \A k \in ends : 3 <= k
  <2>1. ends \subseteq Nat /\ ends # {}
    OBVIOUS
  <2>2. Stop(dep) = Min(ends)
    BY DEF Stop
  <2> HIDE DEF ends
  <2> QED
    BY <2>1, <2>2, MinIsLeast
<1>2. 1 \notin ends
  BY <1>1
<1>3. Searched(LocalRepos, dep) = "no" /\ Searched(RemoteRepos, dep) # "no"
  BY <1>1, <1>2 DEF Answers
<1>4. Stopping(LocalRepos, dep) = {} /\ Stopping(RemoteRepos, dep) # {}
  BY <1>3, FoundIsThere DEF Searched
<1>5. Found(RemoteRepos, dep) \in In(RemoteRepos) /\ Answer(Found(RemoteRepos, dep), dep) # "no"
  BY <1>4, FoundIsThere
<1>6. ASSUME NEW p \in In(LocalRepos) PROVE Answer(p, dep) = "no"
  <2>1. PICK repo \in ToSet(LocalRepos) : p \in ToSet(repo)
    BY DEF In
  <2>2. PICK r \in DOMAIN LocalRepos : LocalRepos[r] = repo
    BY <2>1 DEF ToSet
  <2>3. PICK k \in DOMAIN repo : repo[k] = p
    BY <2>1 DEF ToSet
  <2>4. Stops(repo, dep) = {}
    BY <1>4, <2>2 DEF Stopping
  <2> QED
    BY <2>3, <2>4 DEF Stops
<1> QED
  BY <1>5, <1>6

\* The search keeps to the types; the other commands leave its variables alone.
LEMMA SearchTypesStep ==
  ASSUME SearchTypes, ResolverInv, [Next]_vars
  PROVE  SearchTypes'
<1> USE DEF SearchTypes
<1>1. ASSUME Ends, commands' = commands, debs' \subseteq Files PROVE SearchTypes'
  BY <1>1 DEF Ends
<1>2. CASE Resolve
  <2>1. at = 1 /\ saved = {}
    BY <1>2 DEF Resolve, Command, ResolverInv, IdleInv
  <2>2. asked' \in Seq(STRING) /\ commands' \in 0 .. MaxCommands
    BY <1>2, ResolverAssumption DEF Resolve, Command
  <2> QED
    BY <1>2, <2>1, <2>2 DEF Resolve
<1>3. CASE TakeName
  <2>1. CASE Ends
    BY <1>1, <1>3, <2>1 DEF TakeName
  <2>2. CASE ~Ends
    <3>1. PICK n : n = asked[at]
      OBVIOUS
    <3> DEFINE here == Holding(LocalRepos, n)
               there == Holding(RemoteRepos, n)
               repos == IF here = {} THEN RemoteRepos ELSE LocalRepos
    <3>2. PICK r \in (IF here = {} THEN there ELSE here) :
            LookInto(FirstNamed(repos[r], n), ToDownload(here, FirstNamed(repos[r], n)))
      BY <1>3, <2>2, <3>1, Zenon DEF TakeName
    <3> DEFINE p == FirstNamed(repos[r], n)
    <3>3. /\ chosen' = chosen \union ToDownload(here, p) /\ at' = at + 1
          /\ UNCHANGED <<asked, saved>>
      BY <2>2, <3>2 DEF LookInto
    <3>4. ToDownload(here, p) \subseteq In(RemoteRepos) \ In(LocalRepos)
      <4>1. CASE here = {}
        <5>1. r \in Holding(RemoteRepos, n) /\ p = FirstNamed(RemoteRepos[r], n)
          BY <3>2, <4>1
        <5>2. p \in In(RemoteRepos) /\ p.name = n
          BY <5>1, FirstNamedIsThere
        <5>3. p \notin In(LocalRepos)
          BY <4>1, <5>2, NotHeldNotThere
        <5> QED
          BY <4>1, <5>2, <5>3 DEF ToDownload
      <4>2. CASE here # {}
        BY <4>2 DEF ToDownload
      <4> QED
        BY <4>1, <4>2
    <3> HIDE DEF p, here
    <3>5. at' \in 1 .. Len(asked) + 1
      BY <1>3, <3>3 DEF TakeName
    <3> QED
      BY <1>3, <3>3, <3>4, <3>5 DEF TakeName
  <2> QED
    BY <2>1, <2>2
<1>4. CASE TakeDependency
  <2>1. CASE Ends
    BY <1>1, <1>4, <2>1 DEF TakeDependency
  <2>2. CASE ~Ends
    <3>1. PICK dep \in unfulfiled :
            /\ chosen' = chosen \union (IF Stop(dep) = 3 THEN {Found(RemoteRepos, dep)} ELSE {})
            /\ UNCHANGED <<asked, at, saved>>
      BY <1>4, <2>2, Zenon DEF TakeDependency
    <3>2. chosen' \subseteq In(RemoteRepos) \ In(LocalRepos) /\ chosen \subseteq chosen'
      BY <3>1, FoundIsNew
    <3> QED
      BY <1>4, <3>1, <3>2 DEF TakeDependency
  <2> QED
    BY <2>1, <2>2
<1>5. CASE SaveDeb
  <2>1. PICK p \in chosen \ saved, whole \in BOOLEAN :
          /\ debs' = Put(debs, [deb |-> p, whole |-> whole])
          /\ \/ saved' = saved \union {p} /\ UNCHANGED <<asked, at, chosen>>
             \/ Ends
    BY <1>5 DEF SaveDeb
  <2>2. [deb |-> p, whole |-> whole] \in Files
    BY <2>1, InType DEF Files
  <2>3. debs' \subseteq Files
    BY <2>1, <2>2 DEF Put
  <2> QED
    BY <1>1, <1>5, <2>1, <2>3 DEF SaveDeb
<1>6. CASE Resolved
  BY <1>1, <1>6 DEF Resolved
<1>7. CASE StartSaving \/ Saved \/ RemoveDeb
  BY <1>7 DEF StartSaving, Saved, RemoveDeb, searchVars
<1>8. CASE Build
  BY <1>8, ResolverAssumption DEF Build, Command, searchVars
<1>9. CASE \/ Extract \/ Update \/ UpdateCut \/ AddDebs \/ Abort \/ MakeIso \/ Imaged \/ Leave
           \/ UNCHANGED vars
  <2>1. UNCHANGED <<commands, searchVars, debs>>
    BY <1>9 DEF Extract, RemovePart, RemoveDone, RemoveInterrupted, Mount, EnterPart, CopyFile,
                LeavePart, Copied, MakeWritable, Extracted, Interrupted, Update, UpdateCut,
                AddDebs, Prepare, CopyDeb, Keyring, IndexMain, IndexExtras, Unsign, WriteRelease,
                Sign, ReadNames, EditSeed, Edited, Abort, MakeIso, Imaged, Leave, vars
  <2> QED
    BY <2>1 DEF searchVars
<1> QED
  BY <1>2, <1>3, <1>4, <1>5, <1>6, <1>7, <1>8, <1>9 DEF Next, Resolver

\* Directories that the action does not write to.
LEMMA PoolStays == ASSUME PoolTypes, UNCHANGED pool PROVE PoolTypes'
BY DEF PoolTypes, pool

LEMMA PoolTypesStep ==
  ASSUME PoolTypes, SearchTypes, WorkTypes, [Next]_vars
  PROVE  PoolTypes'
<1>1. CASE RemovePart \/ RemoveInterrupted
  <2>1. PICK p, m : Removed(p, m)
    BY <1>1 DEF RemovePart, RemoveInterrupted
  <2>2. \A here : \A left \in Leaves(m, here) : left \subseteq here
    BY DEF Leaves
  <2>3. Left(m, keyring, "none") \subseteq {keyring, "none"}
    BY DEF Left
  <2>4. extras' \subseteq extras /\ keyring' \in {keyring, "none"}
    BY <2>1, <2>2, <2>3 DEF Removed, pool
  <2> QED
    BY <2>4 DEF PoolTypes, Keyrings
<1>2. CASE LeavePart
  <2>1. extras' = extras /\ keyring' \in {keyring, "ubuntu"}
    BY <1>2 DEF LeavePart
  <2> QED
    BY <2>1 DEF PoolTypes, Keyrings
<1>3. CASE CopyDeb
  <2>1. PICK f \in queue :
          extras' = Put(extras, f) \/ extras' = Put(extras, [f EXCEPT !.whole = FALSE])
    BY <1>3 DEF CopyDeb
  <2>2. f \in Files /\ [f EXCEPT !.whole = FALSE] \in Files
    BY DEF WorkTypes, SearchTypes, Files
  <2>3. PICK g \in Files : extras' = Put(extras, g)
    BY <2>1, <2>2
  <2> QED
    BY <1>3, <2>3 DEF CopyDeb, Put, PoolTypes
<1>4. CASE Keyring
  BY <1>4 DEF Keyring, PoolTypes, Keyrings
<1>5. CASE /\ ~RemovePart /\ ~RemoveInterrupted /\ ~LeavePart /\ ~CopyDeb /\ ~Keyring
  <2>1. UNCHANGED pool
    BY <1>5 DEF Next, Build, Extract, RemoveDone, Mount, EnterPart, CopyFile, Copied, MakeWritable,
                Extracted, Interrupted, Update, UpdateCut, AddDebs, Prepare, IndexMain,
                IndexExtras, Unsign, WriteRelease, Sign, ReadNames, EditSeed, Edited, Abort,
                MakeIso, Imaged, Leave, vars, cdVars, treeVars
  <2> QED
    BY <2>1, PoolStays
<1> QED
  BY <1>1, <1>2, <1>3, <1>4, <1>5

LEMMA IndexTypesStep ==
  ASSUME IndexTypes, PoolTypes, [Next]_vars
  PROVE  IndexTypes'
<1>0. Nothing \in Indices /\ Original \in Indices
  BY DEF Nothing, Original, Indices, Keyrings
<1>1. CASE RemovePart \/ RemoveInterrupted
  <2>1. PICK p, m : Removed(p, m)
    BY <1>1 DEF RemovePart, RemoveInterrupted
  <2>2. \A file, none : Left(m, file, none) \subseteq {file, none}
    BY DEF Left
  <2>3. /\ index' \in {index, Nothing} /\ release' \in {release, Nothing}
        /\ sig' \in {sig, Nothing}
    BY <2>1, <2>2 DEF Removed, dists
  <2> QED
    BY <1>0, <2>3 DEF IndexTypes
<1>2. CASE LeavePart \/ CopyFile
  <2>1. /\ index' \in {index, Original} /\ release' \in {release, Original}
        /\ sig' \in {sig, Original}
    BY <1>2 DEF LeavePart, CopyFile
  <2> QED
    BY <1>0, <2>1 DEF IndexTypes
<1>3. CASE IndexMain
  BY <1>3 DEF IndexMain, IndexTypes, PoolTypes, Indices
<1>4. CASE IndexExtras
  BY <1>4 DEF IndexExtras, IndexTypes, PoolTypes, Indices
<1>5. CASE Unsign \/ WriteRelease \/ Sign
  BY <1>0, <1>5 DEF Unsign, NoSignature, WriteRelease, Sign, IndexTypes
<1>6. CASE /\ ~RemovePart /\ ~RemoveInterrupted /\ ~LeavePart /\ ~CopyFile
           /\ ~IndexMain /\ ~IndexExtras /\ ~Unsign /\ ~WriteRelease /\ ~Sign
  <2>1. UNCHANGED dists
    BY <1>6 DEF Next, Build, Extract, RemoveDone, Mount, EnterPart, Copied, MakeWritable,
                Extracted, Interrupted, Update, UpdateCut, AddDebs, Prepare, CopyDeb, Keyring,
                ReadNames, EditSeed, Edited, Abort, MakeIso, Imaged, Leave, vars, cdVars,
                treeVars
  <2> QED
    BY <2>1 DEF IndexTypes, dists
<1> QED
  BY <1>1, <1>2, <1>3, <1>4, <1>5, <1>6

LEMMA SeedTypesStep ==
  ASSUME SeedTypes, IsoInv, [Next]_vars
  PROVE  SeedTypes'
<1>1. ASSUME \A s \in Seeds : seed'[s] \in {NoSeed, CutSeed, OurSeed, seed[s]}
      PROVE  SeedTypes'
  BY <1>1 DEF SeedTypes, NoSeed, CutSeed, OurSeed
<1>2. seed = [s \in Seeds |-> seed[s]]
  BY DEF IsoInv, SeedInv
<1>3. CASE RemovePart \/ RemoveInterrupted
  <2>1. PICK p, m : Removed(p, m)
    BY <1>3 DEF RemovePart, RemoveInterrupted
  <2>2. \A s \in Seeds : seed'[s] \in {NoSeed, seed[s]}
    BY <2>1 DEF Removed
  <2> QED
    BY <1>1, <2>2
<1>4. CASE Update \/ UpdateCut
  <2>1. \A s \in Seeds : seed'[s] \in {CutSeed, OurSeed, seed[s]}
    BY <1>4 DEF Update, CopiedOver, UpdateCut
  <2> QED
    BY <1>1, <2>1
<1>5. CASE EditSeed
  <2> DEFINE names == {f.deb.name : f \in debs}
  <2>1. PICK s \in preseeds :
          seed' \in {[seed EXCEPT ![s].added = Append(@, names)], [seed EXCEPT ![s] = CutSeed]}
    BY <1>5 DEF EditSeed
  <2>2. CASE seed' = [seed EXCEPT ![s] = CutSeed]
    <3>1. \A t \in Seeds : seed'[t] \in {CutSeed, seed[t]}
      BY <1>2, <2>2
    <3> QED
      BY <1>1, <3>1
  <2>3. CASE seed' = [seed EXCEPT ![s].added = Append(@, names)]
    <3>1. ASSUME NEW t \in Seeds
          PROVE  seed'[t] \in {seed[t], [seed[t] EXCEPT !.added = Append(seed[t].added, names)]}
      BY <1>2, <2>3
    <3> QED
      BY <3>1 DEF SeedTypes
  <2> QED
    BY <2>1, <2>2, <2>3
<1>6. CASE ~RemovePart /\ ~RemoveInterrupted /\ ~Update /\ ~UpdateCut /\ ~EditSeed
  <2>1. seed' = seed
    BY <1>6 DEF Next, Build, Extract, RemoveDone, Mount, EnterPart, CopyFile, LeavePart, Copied,
                MakeWritable, Extracted, Interrupted, AddDebs, Prepare, CopyDeb, Keyring,
                IndexMain, IndexExtras, Unsign, WriteRelease, Sign, ReadNames, Edited, Abort,
                MakeIso, Imaged, Leave, vars, cdVars, treeVars
  <2> QED
    BY <1>1, <2>1
<1> QED
  BY <1>3, <1>4, <1>5, <1>6

LEMMA WorkTypesStep ==
  ASSUME WorkTypes, IsoInv, [Next]_vars
  PROVE  WorkTypes'
<1> USE DEF WorkTypes
<1>1. CASE Resolver /\ UNCHANGED cdVars
  <2>1. pc \in Sourcing /\ pc' \in Sourcing
    BY <1>1, ResolverStep
  <2> QED
    BY <1>1, <2>1 DEF cdVars, work
<1>2. CASE Build
  <2>1. pc = "shell" /\ UNCHANGED <<files, queue, preseeds, debs>>
    BY <1>2 DEF Build, Command
  <2> QED
    BY <2>1
<1>3. CASE Extract
  <2>1. pc # "copydebs" /\ debs' = debs
    BY <1>3 DEF Extract, RemovePart, RemoveDone, RemoveInterrupted, Mount, EnterPart, CopyFile,
                LeavePart, Copied, MakeWritable, Extracted, Interrupted
  <2>2. /\ queue' \in {queue, {}} /\ preseeds' \in {preseeds, {}}
        /\ files' \subseteq files \union {"Release", "Release.gpg"}
    BY <1>3 DEF Extract, RemovePart, RemoveDone, RemoveInterrupted, Mount, EnterPart, CopyFile,
                LeavePart, Copied, MakeWritable, Extracted, Interrupted, cdVars, work
  <2> QED
    BY <2>1, <2>2
<1>4. CASE Update \/ UpdateCut
  BY <1>4 DEF Update, UpdateCut, work
<1>5. CASE Prepare
  BY <1>5 DEF Prepare
<1>6. CASE CopyDeb
  BY <1>6 DEF CopyDeb
<1>7. CASE AddDebs /\ ~Prepare /\ ~CopyDeb
  <2>1. UNCHANGED <<debs, files, queue>> /\ preseeds' \subseteq preseeds \union Seeds
    BY <1>7 DEF AddDebs, Keyring, IndexMain, IndexExtras, Unsign, WriteRelease, Sign,
                ReadNames, EditSeed, Edited, cdVars, work
  <2>2. queue = {}
    BY <1>7 DEF AddDebs, Keyring, IndexMain, IndexExtras, Unsign, WriteRelease, Sign,
                ReadNames, EditSeed, Edited
  <2> QED
    BY <2>1, <2>2
<1>8. CASE Abort
  BY <1>8 DEF Abort
<1>9. CASE MakeIso \/ Imaged \/ Leave \/ UNCHANGED vars
  <2>1. UNCHANGED <<debs, work>> /\ (pc = "copydebs" => pc' = pc)
    BY <1>9 DEF MakeIso, Imaged, Leave, vars, cdVars
  <2> QED
    BY <1>9, <2>1 DEF work, MakeIso, Imaged, Leave, vars
<1> QED
  BY <1>1, <1>2, <1>3, <1>4, <1>5, <1>6, <1>7, <1>8, <1>9 DEF Next

LEMMA CdTypesHold == Spec => [](CdTypes /\ ResolverInv /\ IsoInv)
<1>1. CdTypes /\ ResolverInv /\ IsoInv /\ [Next]_vars => CdTypes'
  BY SearchTypesStep, PoolTypesStep, IndexTypesStep, SeedTypesStep, WorkTypesStep DEF CdTypes
<1> QED
  BY <1>1, TypesInit, ResolverInvHolds, InvHolds, PTL DEF Spec

\* What is downloaded is never a package the CD has (apt.py:372-464), there is one
\* file of each name in the directory and in the pool, and no file is waiting to be
\* copied that has been removed; for all repositories and requests.
THEOREM CdTypeCorrect == Spec => []TypeOK
<1>1. CdTypes /\ IsoInv => TypeOK
  <2> SUFFICES ASSUME CdTypes, IsoInv PROVE TypeOK
    OBVIOUS
  <2>1. start \in 1 .. 4
    <3>1. start \in {1, 2, 3, 4}
      BY DEF IsoInv, StartInv
    <3> HIDE DEF IsoInv, CdTypes
    <3> QED
      BY <3>1
  <2>2. \A k \in {index, release, sig} :
          k.keyring \in {"none", "ubuntu", "ours"} /\ k.extras \subseteq extras \union Files
    BY DEF CdTypes, IndexTypes, Indices, Keyrings
  <2>3. /\ root \in BOOLEAN /\ parts \subseteq Parts
        /\ mode \in [Parts -> {"none", "bare", "half", "open", "ro", "rw"}]
        /\ \A f, g \in debs : f.deb = g.deb => f = g
    BY DEF IsoInv, StartInv, DebsInv, TreeInv
  <2> QED
    BY <2>1, <2>2, <2>3 DEF TypeOK, CdTypes, SearchTypes, PoolTypes, SeedTypes, WorkTypes,
                            Keyrings
<1> QED
  BY <1>1, CdTypesHold, PTL
=============================================================================

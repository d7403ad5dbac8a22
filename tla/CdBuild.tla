-------------------------------- MODULE CdBuild --------------------------------
(***************************************************************************)
(* The building of the install CD, by the user's commands: downloads with     *)
(* get-deb-dependencies.py (AptResolver), and bin/do_it_all.sh from a stage   *)
(* of the user's choice: 1 extract the original CD, 2 copy our files over it, *)
(* 3 add the debs, rebuild the indices and sign them, 4 make the image.  Each *)
(* step may fail or be interrupted, and what it has written stays there.      *)
(***************************************************************************)
EXTENDS AptResolver

CONSTANT Seeds   \* our preseed files; the repository has three

\* The parts of the CD that the stages use.  The first two hold no directories.
Flat  == {"isolinux", "preseed"}
Parts == Flat \union {"dists", "pool"}

VARIABLES
  start,      \* the stage this run of do_it_all.sh began with
  root,       \* whether the user is root, whom no file mode stops
  mode,       \* of each part: none, bare (only what stage 3 makes), half (of it is
              \* there), open (cp has only begun it), ro (or some of it is), rw
  extras,     \* the files in pool/extras
  keyring,    \* whose keys the keyring package in the pool holds
  index,      \* dists/*/Packages: the keyring and the extras it describes
  release,    \* dists/*/Release: the indices it describes
  sig,        \* dists/*/Release.gpg: the Release it signs
  seed,       \* each preseed file: its text, and the package lists added to it
  parts,      \* the parts rm or cp still has to go through
  files,      \* the files of dists cp still has to copy
  queue,      \* the debs that are still to be copied to the pool
  preseeds    \* the preseed files that are still to be edited

pool     == <<extras, keyring>>
dists    == <<index, release, sig>>
treeVars == <<mode, pool, dists, seed>>
work     == <<parts, files, queue, preseeds>>
cdVars   == <<start, root, treeVars, work>>
vars     == <<pc, commands, searchVars, debs, cdVars>>

\* What indices, a Release or a signature may be of: the original CD, an index of
\* this keyring and these extras, or nothing (a file that is cut, or not there).
Nothing  == [keyring |-> "none", extras |-> {}]
Original == [keyring |-> "ubuntu", extras |-> {}]

NoSeed   == [text |-> "none", added |-> <<>>]
CutSeed  == [text |-> "cut", added |-> <<>>]
OurSeed  == [text |-> "ours", added |-> <<>>]

Init ==
  /\ ResolverInit
  /\ start = 1
  /\ root \in BOOLEAN
  /\ mode = [p \in Parts |-> "none"]
  /\ extras = {} /\ keyring = "none"
  /\ index = Nothing /\ release = Nothing /\ sig = Nothing
  /\ seed = [s \in Seeds |-> NoSeed]
  /\ parts = {} /\ files = {} /\ queue = {} /\ preseeds = {}

GoTo(next) == pc' = next
End == GoTo("shell")
NoWork == parts' = {} /\ files' = {} /\ queue' = {} /\ preseeds' = {}

Writable(p) == mode[p] \in {"bare", "half", "open", "rw"} \/ (root /\ mode[p] # "none")

\* do_it_all.sh -s stage.
Build ==
  /\ Command
  /\ start' \in 1 .. 4
  /\ GoTo(<<"remove", "update", "prepare", "mkisofs">>[start'])
  /\ parts' = IF start' = 1 THEN Parts ELSE {}
  /\ UNCHANGED <<searchVars, debs, root, treeVars, files, queue, preseeds>>

-----------------------------------------------------------------------------
(***************************************************************************)
(* Stage 1, extract-cd-contents.sh.                                        *)
(***************************************************************************)

\* What rm -rf makes of a part.  It cannot empty directories that are read-only, such
\* as those an earlier run has copied and not made writable.
AfterRm(p) ==
  IF root \/ mode[p] \in {"none", "bare", "rw"} THEN {"none"}
  ELSE IF p \in Flat THEN {"none"} \union ({"ro"} \intersect {mode[p]})
  ELSE {"half"} \union (IF mode[p] = "ro" THEN {"ro"} ELSE {"none"})

\* What it may have made of it when it is interrupted.
DuringRm(p) ==
  AfterRm(p) \union {mode[p]} \union (IF mode[p] \in {"none", "bare"} THEN {} ELSE {"half"})

\* What can be left of the files of a part, and of one file, when m is left of the part.
Leaves(m, here) ==
  CASE m = "none"         -> {{}}
    [] m \in {"ro", "rw"} -> {here}
    [] OTHER              -> SUBSET here

Left(m, file, none) == {IF left = {} THEN none ELSE file : left \in Leaves(m, {file})}

Removed(p, m) ==
  /\ mode' = [mode EXCEPT ![p] = m]
  /\ IF p = "pool"
     THEN extras' \in Leaves(m, extras) /\ keyring' \in Left(m, keyring, "none")
     ELSE UNCHANGED pool
  /\ IF p = "dists"
     THEN /\ index' \in Left(m, index, Nothing)
          /\ release' \in Left(m, release, Nothing) /\ sig' \in Left(m, sig, Nothing)
     ELSE UNCHANGED dists
  /\ IF p = "preseed"
     THEN \E left \in Leaves(m, Seeds) :
            seed' = [s \in Seeds |-> IF s \in left THEN seed[s] ELSE NoSeed]
     ELSE UNCHANGED seed

\* rm -rf, part by part; its failure is not looked at.  pool/extras is never read-only,
\* and Release and Release.gpg are in one directory, which it can or cannot write to.
RemovePart ==
  /\ pc = "remove"
  /\ \E p \in parts :
       /\ \E m \in AfterRm(p) : Removed(p, m)
       /\ p = "pool" => extras' = {}
       /\ p = "dists" => (release' = Nothing <=> sig' = Nothing)
       /\ parts' = parts \ {p}
  /\ UNCHANGED <<pc, commands, searchVars, debs, start, root, files, queue, preseeds>>

RemoveDone ==
  /\ pc = "remove" /\ parts = {}
  /\ GoTo("mount") \/ End
  /\ UNCHANGED <<commands, searchVars, debs, cdVars>>

\* A signal while rm removes one file after the other: there is no mount point yet,
\* so that cleanup fails at rmdir, and the run ends.
RemoveInterrupted ==
  /\ pc = "remove"
  /\ \E p \in parts : \E m \in DuringRm(p) : Removed(p, m)
  /\ End
  /\ NoWork
  /\ UNCHANGED <<commands, searchVars, debs, start, root>>

\* cp -rT will copy the parts, and the files of dists that rm has left no copy of.
Mount ==
  /\ pc = "mount"
  /\ \/ /\ GoTo("copy")
        /\ parts' = Parts
        /\ files' = IF release = Nothing /\ sig = Nothing THEN {"Release", "Release.gpg"}
                    ELSE {}
     \/ End /\ UNCHANGED <<parts, files>>
  /\ UNCHANGED <<commands, searchVars, debs, start, root, treeVars, queue, preseeds>>

EnterPart ==
  /\ pc = "copy"
  /\ \A q \in Parts : mode[q] # "open"
  /\ \E p \in Parts : mode[p] = "none" /\ mode' = [mode EXCEPT ![p] = "open"]
  /\ UNCHANGED <<pc, commands, searchVars, debs, start, root, pool, dists, seed, work>>

\* It copies one file after the other, in the order of the directory.  The indices,
\* many files, count as copied when dists is.
CopyFile ==
  /\ pc = "copy" /\ mode["dists"] \in {"half", "open"}
  /\ \E f \in files :
       /\ files' = files \ {f}
       /\ release' = IF f = "Release" THEN Original ELSE release
       /\ sig' = IF f = "Release.gpg" THEN Original ELSE sig
  /\ UNCHANGED <<pc, commands, searchVars, debs, start, root, mode, pool, index, seed,
                 parts, queue, preseeds>>

\* When cp leaves a directory it gives it the mode it has on the CD: read-only.
LeavePart ==
  /\ pc = "copy"
  /\ \E p \in parts :
       /\ mode[p] = "open" /\ (p = "dists" => files = {})
       /\ mode' = [mode EXCEPT ![p] = "ro"]
       /\ parts' = parts \ {p}
       /\ IF p = "pool" THEN keyring' = "ubuntu" ELSE UNCHANGED keyring
       /\ IF p = "dists" THEN index' = Original ELSE UNCHANGED index
  /\ UNCHANGED <<pc, commands, searchVars, debs, start, root, extras, release, sig, seed,
                 files, queue, preseeds>>

\* cp fails if it could not write what was there before, and may fail for lack of
\* space; then the script ends with its status, and do_it_all.sh with it.
Copied ==
  /\ pc = "copy"
  /\ \/ parts = {} /\ GoTo("chmod")
     \/ End
  /\ NoWork
  /\ UNCHANGED <<commands, searchVars, debs, start, root, treeVars>>

MakeWritable ==
  /\ pc = "chmod"
  /\ \E p \in Parts : mode[p] = "ro" /\ mode' = [mode EXCEPT ![p] = "rw"]
  /\ UNCHANGED <<pc, commands, searchVars, debs, start, root, pool, dists, seed, work>>

\* cleanup: its status is that of rmdir, which fails if umount has.
Extracted ==
  /\ pc = "chmod" /\ \A p \in Parts : mode[p] = "rw"
  /\ GoTo("update") \/ End
  /\ UNCHANGED <<commands, searchVars, debs, cdVars>>

\* A signal is trapped by the same cleanup, with no status to return: once there
\* is a directory for rmdir to remove, do_it_all.sh goes on with the next stage.
Interrupted ==
  /\ pc \in {"mount", "copy", "chmod"}
  /\ GoTo("update") \/ End
  /\ NoWork
  /\ UNCHANGED <<commands, searchVars, debs, start, root, treeVars>>

Extract == \/ RemovePart \/ RemoveDone \/ RemoveInterrupted \/ Mount \/ EnterPart
           \/ CopyFile \/ LeavePart \/ Copied \/ MakeWritable \/ Extracted \/ Interrupted

-----------------------------------------------------------------------------
\* Mutant: a preseed file that is on the CD already is not copied again.
CopiedUnlessThere == seed' = [s \in Seeds |-> IF seed[s] = NoSeed THEN OurSeed ELSE seed[s]]

\* Our preseed files replace those of an earlier run, with what was added to them.
CopiedOver == seed' = [s \in Seeds |-> OurSeed]

\* Stage 2, update_vanilla_cd.sh: under set -e it ends when a copy fails.
Update ==
  /\ pc = "update" /\ \A p \in Flat : Writable(p)
  /\ CopiedOver
  /\ GoTo("prepare")
  /\ UNCHANGED <<commands, searchVars, debs, start, root, mode, pool, dists, work>>

\* The copy ends early: some files are replaced, and one may be cut.
UpdateCut ==
  /\ pc = "update" /\ \A p \in Flat : Writable(p)
  /\ \E done \in SUBSET Seeds, cut \in {{}} \union {{s} : s \in Seeds} :
       seed' = [s \in Seeds |-> IF s \in cut THEN CutSeed
                               ELSE IF s \in done THEN OurSeed ELSE seed[s]]
  /\ End
  /\ UNCHANGED <<commands, searchVars, debs, start, root, mode, pool, dists, work>>

-----------------------------------------------------------------------------
(***************************************************************************)
(* Stage 3, add-debs-to-cd-image.py.                                       *)
(***************************************************************************)

\* The directories are made, except dists; without a deb, *.deb is the name of no file.
Prepare ==
  /\ pc = "prepare" /\ Writable("dists") /\ (Writable("pool") \/ mode["pool"] = "none")
  /\ mode' = [p \in Parts |-> IF mode[p] = "none" THEN "bare" ELSE mode[p]]
  /\ IF debs = {} THEN End /\ UNCHANGED queue ELSE GoTo("copydebs") /\ queue' = debs
  /\ UNCHANGED <<commands, searchVars, debs, start, root, pool, dists, seed,
                 parts, files, preseeds>>

\* A copy that is cut short ends the stage.
CopyDeb ==
  /\ pc = "copydebs"
  /\ \E f \in queue :
       \/ extras' = Put(extras, f) /\ queue' = queue \ {f} /\ UNCHANGED pc
       \/ extras' = Put(extras, [f EXCEPT !.whole = FALSE]) /\ queue' = {} /\ End
  /\ UNCHANGED <<commands, searchVars, debs, start, root, mode, keyring, dists, seed,
                 parts, files, preseeds>>

\* The keyring package is rebuilt with our key, over the one of the CD, whose
\* directory must be there.
Keyring ==
  /\ pc = "copydebs" /\ queue = {} /\ mode["pool"] # "bare"
  /\ keyring' = "ours"
  /\ GoTo("index main")
  /\ UNCHANGED <<commands, searchVars, debs, start, root, mode, extras, dists, seed, work>>

\* apt-ftparchive describes what is in the pool, not only what was added now.
IndexMain ==
  /\ pc = "index main"
  /\ index' = [index EXCEPT !.keyring = keyring]
  /\ GoTo("index extras")
  /\ UNCHANGED <<commands, searchVars, debs, start, root, mode, pool, release, sig, seed, work>>

\* It leaves out a file that is no package.
IndexExtras ==
  /\ pc = "index extras"
  /\ index' = [index EXCEPT !.extras = {f \in extras : f.whole}]
  /\ GoTo("unsign")
  /\ UNCHANGED <<commands, searchVars, debs, start, root, mode, pool, release, sig, seed, work>>

\* Mutant: gpg is left to replace the old signature.
KeptSignature == sig' = sig

\* The old signature goes before the Release it signs does.
NoSignature == sig' = Nothing

Unsign ==
  /\ pc = "unsign"
  /\ NoSignature
  /\ GoTo("release")
  /\ UNCHANGED <<commands, searchVars, debs, start, root, mode, pool, index, release, seed, work>>

\* The shell truncates Release before apt-ftparchive writes it.
WriteRelease ==
  /\ pc = "release"
  /\ \/ release' = index /\ GoTo("sign")
     \/ release' = Nothing /\ End
  /\ UNCHANGED <<commands, searchVars, debs, start, root, mode, pool, index, sig, seed, work>>

Sign ==
  /\ pc = "sign"
  /\ sig' = release
  /\ GoTo("names")
  /\ UNCHANGED <<commands, searchVars, debs, start, root, mode, pool, index, release, seed, work>>

\* dpkg --info of each deb; it fails on a file that is no package.  Then it looks
\* which preseed files there are.
ReadNames ==
  /\ pc = "names" /\ \A f \in debs : f.whole
  /\ preseeds' = {s \in Seeds : seed[s] # NoSeed}
  /\ GoTo("edit")
  /\ UNCHANGED <<commands, searchVars, debs, start, root, treeVars, parts, files, queue>>

\* The names are added to what a file has; it is truncated and then written.
EditSeed ==
  /\ pc = "edit"
  /\ \E s \in preseeds :
       \/ /\ seed' = [seed EXCEPT ![s].added = Append(@, {f.deb.name : f \in debs})]
          /\ preseeds' = preseeds \ {s}
          /\ UNCHANGED pc
       \/ seed' = [seed EXCEPT ![s] = CutSeed] /\ preseeds' = {} /\ End
  /\ UNCHANGED <<commands, searchVars, debs, start, root, mode, pool, dists,
                 parts, files, queue>>

Edited ==
  /\ pc = "edit" /\ preseeds = {}
  /\ GoTo("mkisofs")
  /\ UNCHANGED <<commands, searchVars, debs, cdVars>>

AddDebs == \/ Prepare \/ CopyDeb \/ Keyring \/ IndexMain \/ IndexExtras \/ Unsign
           \/ WriteRelease \/ Sign \/ ReadNames \/ EditSeed \/ Edited

\* A command of stages 2 and 3 fails or is interrupted, and with it the run.
Abort ==
  /\ pc \in {"update", "prepare", "copydebs", "index main", "index extras", "unsign",
              "release", "sign", "names", "edit"}
  /\ End
  /\ NoWork
  /\ UNCHANGED <<commands, searchVars, debs, start, root, treeVars>>

-----------------------------------------------------------------------------
\* Stage 4, make-cd-iso.py: an image of the CD as it is, if it has its boot loader;
\* otherwise the output is printed and the status is 0 all the same.
MakeIso ==
  /\ pc = "mkisofs"
  /\ \/ mode["isolinux"] \notin {"none", "bare"} /\ GoTo("imaged")
     \/ End
  /\ UNCHANGED <<commands, searchVars, debs, cdVars>>

Imaged == pc = "imaged" /\ End /\ UNCHANGED <<commands, searchVars, debs, cdVars>>

\* The bound on the commands is reached.
Leave == pc = "shell" /\ commands = MaxCommands /\ UNCHANGED vars

Next ==
  \/ Resolver /\ UNCHANGED cdVars
  \/ Build \/ Extract \/ Update \/ UpdateCut \/ AddDebs \/ Abort \/ MakeIso \/ Imaged \/ Leave

Spec == Init /\ [][Next]_vars

-----------------------------------------------------------------------------
(***************************************************************************)
(* Properties.                                                             *)
(***************************************************************************)
Files == [deb : Packages, whole : BOOLEAN]

\* The types; what is downloaded is never on the CD, and no directory has two files
\* of one name.
TypeOK ==
  /\ at \in 1 .. Len(asked) + 1
  /\ chosen \subseteq In(RemoteRepos) \ In(LocalRepos)
  /\ saved \subseteq chosen
  /\ debs \subseteq Files /\ extras \subseteq Files
  /\ \A f, g \in debs : f.deb = g.deb => f = g
  /\ \A f, g \in extras : f.deb = g.deb => f = g
  /\ commands \in 0 .. MaxCommands /\ start \in 1 .. 4 /\ root \in BOOLEAN
  /\ mode \in [Parts -> {"none", "bare", "half", "open", "ro", "rw"}]
  /\ keyring \in {"none", "ubuntu", "ours"}
  /\ \A i \in {index, release, sig} :
       i.keyring \in {"none", "ubuntu", "ours"} /\ i.extras \subseteq extras \union Files
  /\ \A s \in Seeds : seed[s].text \in {"none", "cut", "ours"}
  /\ parts \subseteq Parts /\ queue \subseteq debs
  /\ files \subseteq {"Release", "Release.gpg"} /\ preseeds \subseteq Seeds

\* Wherever a command fails or is interrupted, and whatever is run after it: a whole
\* Release on the CD has no whole Release.gpg beside it that is of another Release.
\* One of them may be missing or cut, when rm or cp was interrupted between them.
SignatureMatchesRelease == release # Nothing /\ sig # Nothing => sig = release

\* The image is what the stages that this run of do_it_all.sh went through promise,
\* whatever earlier runs left behind.  With stage 3, its indices describe the pool,
\* Release the indices, Release.gpg is of that Release and the keyring has the key,
\* and every deb is on it and a package.  With stage 2, each deb is listed for
\* installation once.  With stage 1, only these debs were added, and the CD is
\* all there; if root, whom no file mode stops, built it, an interrupted
\* extraction can leave it incomplete.
IsoIsExact ==
  pc = "imaged" =>
    /\ start <= 3 => /\ index = [keyring |-> "ours", extras |-> {f \in extras : f.whole}]
                     /\ keyring = "ours"
                     /\ release = index /\ sig = release
                     /\ debs \subseteq {f \in extras : f.whole}
    /\ start <= 2 => \A s \in Seeds :
                        seed[s] = [text |-> "ours", added |-> <<{f.deb.name : f \in debs}>>]
    /\ start = 1  => /\ extras = debs
                     /\ ~root => \A p \in Parts : mode[p] = "rw"
=============================================================================

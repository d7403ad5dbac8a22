# camarabuntu / DBAN: models, checks and proofs

The repository builds an Ubuntu installation CD and carries Darik's Boot and Nuke
(`src/dban/dban-1.0.7`), the disk wiper that is booted beside it. DBAN is the program with
state, concurrency and promises: a boot script runs `dwipe`, which lets a user select devices,
forks one wipe process per device, watches them, tells at the end whether the disks have been
wiped, and saves the log on a diskette. The CD tools are sequential scripts over a tree of files
that survives them; what is hard there is what a failed or interrupted run leaves for the next.

Paths below are relative to `src/dban/dban-1.0.7/` unless they start with `bin/`.

## 1. Inventory

| component | state | operations | interaction |
|---|---|---|---|
| wipe methods and passes (`dwipe/method.c`, `pass.c`) | the pattern array; counters of a context in shared memory; file offset; buffers | six methods, rounds, write passes, verify passes, final pass | system calls on the device; the parent reads the counters |
| parent process (`dwipe/dwipe.c`, `context.h`) | the array of contexts: `select`, `pid`, `result`, `signal`; `dwipe_error`, `dwipe_wait` | enumerate, select, share, fork, poll, draw, report | forks the wipe processes, polls with `waitpid(WNOHANG)`; exit status to the script |
| selection menu (`gui.c`, `dwipe_gui_select`) | marks, cursor, scroll offset | one per key | writes `select` before the first fork |
| status window and speed ring (`gui.c`) | ring of samples, throughput, estimate | one redraw per sweep | reads the shared contexts |
| scan and identification (`device.c`) | type, host, bus, target, lun, part | once per device | feeds the menu |
| options and dialogs (`options.c`, `gui.c`) | `dwipe_options` | parse; four dialogs | read by the methods |
| log (`logging.c`) | one file, appended under `flock` | `dwipe_log`: open, lock, print, unlock, close | every process writes it, while the script may have its directory renamed |
| generators (`prng.c`, vendored `isaac_rand.c`, `mt19937ar-cok.c`) | generator state | init, read | random passes |
| boot script (`in.root/rc`) | `rc`, `DBAN_RESULT`, the floppy | boot, seed, run, judge, save log | parent of `dwipe` |
| package resolver (`bin/apt.py`) | sets of packages and dependencies; a directory of downloads | `fulfils`, `dl_depenencies`, `urlretrieve` | repositories over HTTP; its directory feeds the pipeline |
| CD pipeline (`bin/*.py`, `bin/*.sh`) | a directory tree, which outlives each run | extract, copy our files, add packages, index, sign, make ISO | external tools; any stage may be the first of a run |
| preseed, isolinux, packages, busybox, documents | data or vendored code | - | - |

What is hard here, and what each part has to get right:

* **passes**: every byte is overwritten, in phase, by each pattern; what a verified wipe
  returns is true although a device may lose writes, cut transfers short and fail calls; the
  wipe ends.
* **parent**: exits interleave freely with polls; `result` is overwritten by every poll;
  statuses are eight bits wide; forks, polls and the drawing can fail or trap while wipes run.
  Status 0 must be true.
* **menu**: after any sequence of keys, no disk and partition of it that the code recognises are
  both marked, and no partition is implied by a disk that is not wiped.
* **boot script**: what the user is told must follow from what happened; a log that is told to
  be saved is complete, and no earlier archive is lost for it.
* **resolver**: each package asked for has its direct dependencies on the CD or beside it, or
  they are reported, in whatever order a set yields them.
* **pipeline**: signatures, indices, pool and preseed file of an image fit together, whatever
  failed before and at whichever stage the run began.

`PROJECT.json` lists every hazard at its line, with the properties that answer it.

## 2. Modules

| module | models | state and actions |
|---|---|---|
| `DwipePatterns` | the arrays the six methods build | operators, one per method; `Ops2` keeps what the filling loop leaves uninitialised |
| `DwipeMethod` | `dwipe_runmethod` and the pass functions | `c` is the context record; one action per system call on the device, per loop head and per early return |
| `WipeProcess` | what the parent relies on in a process | announce, advance, complete, abort |
| `DwipeMain` | `main()` of `dwipe.c`, and the processes as it sees them | `pc` and `todo` are the loop the parent is in and what that loop has left; one action per turn |
| `WipeJob` | what a wipe of several devices promises | choose, start, end, conclude |
| `DbanRc` | `in.root/rc` around `DwipeMain` | `rc` is what the script does or told; the parent's steps happen only while it runs `dwipe` |
| `RcSaveLog` | `dbanSaveLog` of `in.root/rc`, and `dwipe_log` of the processes that outlived `dwipe` | `pc` is the line the script is at; one action per mount, test, rename, tar, gzip, move and unmount, and per open, lock, unlock and close of a writer |
| `DwipeStatus` | the speed ring and `dwipe_gui_status` | `speedring` is the C structure; the reads of one call are separate actions, between which clock and process move |
| `GuiSelect` | `dwipe_gui_select` and the marks enumeration leaves | one action per key and kind of entry under the cursor |
| `DebVersion` | `Package.fulfils` of `bin/apt.py` | operators, on the pieces a version is cut into, with the exceptions it raises |
| `AptResolver` | `bin/get-deb-dependencies.py`: `dl_depenencies` and the downloads | `unfulfiled`, `chosen` and `unmet` are the sets of the function; one action per name, per dependency and per download |
| `CdBuild` | `bin/do_it_all.sh` and the four stages it runs | `mode`, `extras`, `keyring`, `index`, `release`, `sig`, `seed` are the CD tree; one action per command of the scripts that changes it, and one per file where `rm`, `cp` or the edit of the preseed files goes through several |
| `*MC` | instances for TLC | values of constants |
| `GuiSelectProofs`, `DwipeMethodProofs`, `DwipeMainProofs`, `DbanRcProofs`, `RcSaveLogProofs`, `DwipeStatusProofs`, `AptResolverProofs`, `CdBuildProofs` | theorems | section 5 |

How they are composed. `DwipeMethod` implements `WipeProcess`. `DwipeMain` contains the
processes in the form of `ChildExits`: a process runs and then ends with any result
`WipeProcess` allows, or by a signal. `DwipeMain` implements `WipeJob`, and `DbanRc` extends
`DwipeMain`. The passes of one process and the polling of the parent share no written variable
apart from the progress counters, which is why they are separate modules joined by
`WipeProcess`. `RcSaveLog` begins where `DbanRc` has told the outcome and shares nothing with it
but the processes that may still run. `CdBuild` extends `AptResolver`, which extends
`DebVersion`: the two programs run one after the other, in any order the user likes, and meet in
the directory of downloads (`debs`).

Abstractions. A device is a function from byte offsets to contents; a content is the old byte,
a character, a byte of a PRNG stream (its seed and its place) or stale memory. A static pattern
is its sequence of characters. `MaxByte` stands for 255, `Book` for the 35 Gutmann patterns, and
`MaxDraw` for the 65535 of the shuffle (`Gutmann`), which draws one such number per pattern.
`read` and `write` transfer any number of bytes up to what was asked; a failing call, a short
transfer, a lost byte, or a failing flush each cost one of `MaxFaults`. Error counters saturate
at `MaxErrors`, because the code asks only whether they are positive. `More`, `NextWindow` and
`MaxStale` are the other bounds of a wipe. In `DwipeStatus`, `MaxTime` bounds the clock and
`Rate` the bytes of one second. In `RcSaveLog`, `MaxSuffix` stands for the 9999 of an 8.3 name,
`MaxLines` bounds the calls of one writer, an archive is the number of log lines it holds, and
a diskette has room for so many archives. In `AptResolver` and `CdBuild`, `MaxCommands` bounds
the commands of the user; a version is the sequence of pieces `fulfils` compares, a package a
record of its name, version and dependencies, a file a package and whether it is whole; an
index, a Release and a signature are named by what they describe. The CD tree is four parts, of
each of which `mode` says whether it is there, whole and writable; `rm` and `cp` treat `Release`
and `Release.gpg` as the two files they are, and the indices as one. `Seeds` are the preseed
files, which no operation tells apart: TLC takes them for symmetric. In `RcSaveLog`,
`LogMayFill` says whether the tmpfs of `/log` may run out of space under `tar`, `gzip` or a
writer.

`ghost` in `DwipeMethod`, `samples` in `DwipeStatus`, `before`, `failed` and `reported` in
`RcSaveLog` are history for the properties; no guard reads them. `calls` and `commands` are read
only by the bounds.

Undefined behaviour is a choice: the stale elements of the OPS-II array, the buffer that
`dwipe_isaac_read` leaves alone, and `free` of a name of the command line (`FreeTraps`).

## 3. Runs

| run | instance | shows |
|---|---|---|
| `method` | 5 bytes in blocks of 2, two characters, 2 faults, all methods, verify options, 1 and 2 rounds | `PassWritesPattern`, `SuccessMeansFinalPattern`, `VerifyAllCatchesLoss`, `PromisedOverwrites`, `FlushedAtExit`, `GutmannUsesBookOnce`, the refinement of `WipeProcess`, and `WipeEnds` |
| `rc` | the script and `dwipe` with 3 devices, one signal, everything may fail; the devices may be named, since `$DBAN_NUKE` is any command line (`rc:346`) | `WaitCountsReaped`, `SuccessIsTrue`, `NoProcessLeft`, `BrokenDeviceStopsAll`, `AutonukeWipesAllDisks`, `LastPictureIsFinal`, `ResultsAreFinal`, the refinement of `WipeJob`, `SuccessToldIsTrue`, `FailureToldIsTrue`, and `OutcomeIsTold` |
| `savelog` | any number of saves, names up to 1, two writers of a line each, five kinds of diskettes that are changed or protected in between, `/log` full at any write | `SavedUnlessFailed`, `NoLineLost`, `ArchivesAreKept` |
| `cd` | three commands out of downloads and builds from any stage, 2 local and 2 remote repositories, 8 requests, 2 preseed files, root or not, a failure or an interrupt at any step | `SignatureMatchesRelease`, `IsoIsExact`, `RequestedAreInstallable` |
| `select` | 5 entries, 3 lines, 5 layouts, two of them with names of unknown form | `MarkedAreDisjoint`, `ImpliedHasParent`, `MarkedDiskImpliesAll`, `BlockedHasChild`, `CursorVisible` |
| `status` | a ring of 2, samples 2 s apart, 10 s, 4 devices in 3 lines | `TotalsAreSums`, `TotalsSpanWindow`, `ScrollInRange` |
| `method_isaac` | violation | with ISAAC a random pass writes stale memory (`prng.c:128`) |
| `method_ops2` | violation | with two rounds OPS-II fills one round (`method.c:426`) |
| `method_short` | violation | one short transfer, counted as non-fatal, makes the method return -1 (`pass.c:328`) |
| `main_fork_hang` | violation | after a failed fork the program never returns (`dwipe.c:403`) |
| `select_overlap` | violation | a disk and its partition with names the code does not know are both marked (`device.c:76`) |
| `savelog_stale` | violation | an old archive is moved and told to be the log (`rc:98`) |

Why the bounds are enough. Five bytes in blocks of two give a full block, a wrap of the window
that neither divides nor is divided by the three-byte pattern of `MCBook`, and a short last
block. Two faults give a fault in a pass and another in its verification. Two rounds are the
first number at which rounds differ from one. Three devices give a first, a middle and a last
one in the loops of the parent, which matters to loops that stop early; the proofs remove this
bound. One signal is enough because only its being a signal is asked. Five entries over three
lines scroll in both directions. Ten seconds with samples two seconds apart wrap a ring of two
twice. Three partitions next to two disks give every relation the
menu compares. Three draws decide the shuffle of three patterns in every way, with used elements
to skip. Two names on a diskette give a free first name, a taken one, and none left; two writers
are the fewest that compete for the lock. Three commands are a download, a run that fails
anywhere, and the run that meets what both left; longer histories (a stage 3 over what a failed
removal left of an earlier extraction, which takes a download as well) are left to the theorems,
which hold for any number of commands. The packages of `CdBuildMC` give each way
`fulfils` and `dl_depenencies` have to answer: found on the CD, among what was chosen, remotely,
nowhere; newer, older, of another shape; with alternatives; with an epoch on one side.

Deadlock is checked in every run: the ends of the programs are explicit stuttering actions
(`Gone`, `Left`, `SaveLogForever`, `Stopped`, `Leave`); the log is saved for ever.

Fairness. `DwipeMethod` assumes weak fairness of the process: every system call returns.
`DwipeMain` and `DbanRc` assume it of the script and the parent, whose `waitpid` does not block
and whose `getch` has a timeout, and of each process, which is what `WipeEnds` says of one.
`OutcomeIsTold` excludes a failed fork, `main_fork_hang` shows why. The CD tools and the saving of the log have only safety
properties: a user gives their commands, and need not.

## 4. Observations that are no findings

* A failing `fdatasync` is only logged (`pass.c:348`, `715`); `FlushedAtExit` says what remains
  true. `dev` is what `read` and `write` see, the buffer cache included: an exit value of 0 after
  a failed flush does not speak of the medium.
* `pass_done` is not reset between rounds and passes `pass_size`; nothing reads either.
* The warning about the block size is logged for the last block of every device.
* A device whose fork failed is shown as "(success)", and a device that moves nothing for a
  whole ring of samples kills the parent by a division by zero (`DrawStatusTraps`).
* The speed ring means to ignore its first sample (`gui.c:1766`) but remembers only the time of
  it, so that the first counted sample holds the bytes moved before the first call as well
  (`Sample` keeps this: the first remembered sample has no bytes).
* `WEXITSTATUS` is never negative, so the fatal branch of the report is never taken:
  a method that returned -1 makes the program return 1.
* The script compares `$?` with zero as if it were signed (`rc:349`): its failure branch is never
  taken once `dwipe` ran, and fatal ends are told as "non-fatal errors" (`rc:366`). That is the
  theorem `StartedNeverToldFailed`.
* With autonuke every partition becomes `DWIPE_SELECT_TRUE_PARENT`, one whose disk cannot be
  opened too (`dwipe.c:293-298`): it is implied by nothing and is not wiped.
  `AutonukeWipesAllDisks` speaks of the disks that could be opened.
* The status 22 of a selection of nothing, and the empty `nuke=` that boots `dwipe` without
  arguments of its own, are reached only by what a user types.

The saving of the log (`RcSaveLog`):

* What ends a save early (a read-only diskette, no free name, a file in the way) leaves the
  floppy mounted, so that no later save of this boot works, although `rc:130` tells the user to
  unset the tab and try again.
* After a full diskette, an archive stays in `/log`; gzip does not replace it, and the next save
  under the same number moves the old archive and says that the log is saved (`savelog_stale`).
  The same comes of a `tar` or `gzip` that fails because `/log` is full: what it left is moved.
  `SavedUnlessFailed` says what holds when neither failed.
* An archive that was cut short stays on the diskette, and its name is taken from then on.
* `dwipe_log` unlocks before `fclose` writes. Lines are short and the file is opened for
  appending, so none is lost; the lock orders nothing.

The CD tools (`AptResolver`, `CdBuild`):

* A list of alternatives that is not on the CD ends the program with an exception once any
  package has been chosen (`apt.py:429`); the alternatives are only searched when it comes first.
* What is chosen adds no dependencies (`apt.py:396`): the result is closed under direct
  dependencies of the packages named, and no further.
* `fulfils` is exact for versions of the same shape (`FulfilsIsExact`). For others it is not:
  1.2 fulfils >= 1.2.1, and 1.2.1 does not fulfil >> 1.2. The epoch assertion (`apt.py:134`)
  is never the one that fails; a missing epoch is a `TypeError` before it. An ubuntu revision that
  is not a number, as in 0ubuntu20.4, raises a `ValueError` (`apt.py:241`) once everything before
  it is equal.
* `urlretrieve` saves the page of an HTTP error as the package, and `get-deb-dependencies.py` does
  not notice: `RequestedAreInstallable` speaks of the runs in which it did not happen. The build
  finds it, when `dpkg --info` fails on it.
* An interrupted `rm` or `cp` may leave a `Release` without its `Release.gpg`, or the reverse;
  never two that do not fit (`SignatureMatchesRelease`).
* An interrupted extraction exits with 0. The read-only modes `cp` gives each directory stop an
  ordinary user's run at stage 2, by accident; root gets an incomplete CD. The tree that is
  left cannot be removed by an ordinary user's `rm -rf`, so that later extractions fail until
  its modes are changed by hand.
* The preseed file gets its list once more on every run that starts at stage 3, and extras of
  earlier runs stay in the pool and the indices; `IsoIsExact` says which stage promises what.
* A failing `mkisofs` exits with 0.

## 5. Proofs

All theorems hold for every value of the constants that satisfies the assumption of the module
(`MethodAssumption`, `PatternAssumption`, `MainAssumption`, `SaveLogAssumption`,
`ResolverAssumption`, `SelectAssumption`, `LayoutAssumption`, `StatusAssumption`).

`GuiSelectProofs`: `TypeCorrect`, `CursorAlwaysVisible`, and the marks. `MarkedAreDisjoint` is
not inductive by itself: that a free partition may be marked without harm rests on its disk not
being marked, that is on `MarkedDiskImpliesAll` (else the partition were implied, not free), and
that a disk may be marked rests on `BlockedHasChild` and on the absence of marked partitions
beside a disk that is free. The invariant `Marks` joins these with `UnusableDisabled` (what could
not be opened is never marked). `MarkedAlwaysDisjoint` is about the entries `identify` recognises, from
the assumption only that no device is listed twice (`LayoutAssumption`); `select_overlap` shows the
others. `ImpliedAlwaysHasParent` is about a menu, that is without autonuke.

Every invariant and action property of a passing run is stated by a theorem; four of them hold
under a condition on the options, named below, and the run that violates them without it, or the
reason, is given there.

`DwipeMethodProofs`: all safety properties of `method`, and the refinement of `WipeProcess`, for
every size, block size, book, number of rounds and of faults. Three invariants, each resting on
the one before:

* `BaseInv`. `Balance`: what is left to transfer and the offset add up to the size until a
  transfer is short, and to more ever after, so the pass runs into the end of the device and
  fails: that is `ShortAlwaysFatal`, the reason behind `method_short`. `Window`: the place in a static pattern is the offset modulo
  its length, which needs that a block that does not end the pass is a whole one.
* `ContentInv`. `Kept`: if nothing was lost, what lies before the offset is what the pass lays
  down (`Laid`): the pattern where the buffer is `Genuine`, that is with the Mersenne Twister or a
  static pattern, and stale memory otherwise. `Checked`: while no error is counted, what a
  verification has read is the same. `Caught`: with every pass verified, a loss not counted yet
  lies in the running pass, where its verification has still to come. Hence
  `PassAlwaysWritesPattern` for genuine buffers, `SuccessAlwaysMeansFinalPattern` for all methods
  and generators but OPS-II, whose last pass is random, with ISAAC, and `IsaacAlwaysWritesJunk`,
  which is what `method_isaac` found, for every device. `VerifyAllAlwaysCatchesLoss` needs the
  Mersenne Twister: with ISAAC a verification compares stale memory with stale memory, and a byte
  that was lost may agree with it.
* `CountInv`. The passes done are `Turns`; each byte was overwritten `Turns` times, or once more
  before the offset, and the progress is `Turns * Unit` plus that of the running pass. Hence
  `AlwaysPromisedOverwrites`, `AlwaysFlushedAtExit`, and that the progress never exceeds what was
  announced (`WithinPlan`), which the refinement needs.

Two theorems are about the arrays of patterns. `GutmannAlwaysUsesBookOnce`: the element taken at
a place of the array is one of those no later place has taken, because the draw is scaled below
their number (`Scaled`, at least as many are left as the number of the place) and `ElementAtRank`
finds one for each rank; no element is taken twice, so as many are taken as the book has, and
each is taken once. That the recursive function `Taken` of the draws has a value at all is shown
from the last place downwards. `Ops2AlwaysFillsOneRound` is what `method_ops2` found, for every
number of rounds.

`StepsAlwaysCountDown` is the safety half of `WipeEnds`: `StepsLeft`, the passes that are left
times the steps a pass can take, plus the rounds and what the running pass has left, is a natural
number that every step lowers. That the pass ends rests on the file offset: it moves on even
where a transfer moves nothing (`OffsetMoves`). What `WipeEnds` adds is that a step is possible
and is taken.

`DwipeMainProofs`, with fork, `waitpid` and the drawing failing or not: all safety and action
properties of `dwipe` and the refinement `MainImplementsWipeJob`. The inductive invariant is
`MainInv`. Its argument: only selected devices have processes (`OnlySelected`), a pid that is
still polled belongs to a process that is not reaped (`PidIsOfLive`), so each reaping adds one to
`wait` and to the set of the reaped, and the result of a reaped process stays what its exit
decodes to (`ResultDecoded`). The reaped are therefore a subset of the selected, and as many once
the loop ends: the same set (`AllReapedAtLast`, by cardinality). The report then sees the true
results, and a result is zero only for a process that returned zero (`ResultOfExit`). The
refinement also needs that no process is forked twice (`NotYetForked`). `EnumerationInv`
(what was enumerated so far is usable, or the program is about to stop) gives
`BrokenAlwaysStopsAll` and `AutonukeAlwaysWipesAll`; `PictureInv` (a reaped device is shown with
its outcome from the next drawing on) gives `LastPictureAlwaysFinal`. `ForkFailedNeverReports`
is the reason behind `main_fork_hang`: a device whose fork failed is selected and never reaped,
so the reaped are fewer than the selected for ever, and only a failing `waitpid` or the trap of
the window (`CutShort`) can end the program.

`DbanRcProofs`: each step of the script either is a step of `DwipeMain` or leaves its variables
alone (`RcImplementsDwipe`), so that `MainInv` and `SuccessIsTrue` carry over to the composition;
with `Told`, which relates what is said to the exit status, follow `RcTypeCorrect`,
`SuccessAlwaysToldTruly` and `FailureAlwaysToldTruly`. `StartedNeverToldFailed`: a status the shell
sees is never negative, so each one but 0 is told as a warning.

`RcSaveLogProofs`: `Inv` joins the types with `NameInv` (once a name is found it stays free on
the diskette until the move, because a diskette is changed only at the prompt) and `ArchiveInv`
(unless tar or gzip failed in this save, the archive under way holds what was logged before
ENTER: gzip succeeds only where no earlier save has left one). `CountInv` counts the lines of each writer, an append adding one
to one of them.

`DwipeStatusProofs`: `ClockInv`, `SamplesInv` (samples are in the order of time), `RingInv` and
`ScrollInv`. `RingInv` gives each slot of the ring the sample of its age and says that the totals
reach from the newest sample to the oldest that is still in the ring: when the ring wraps, what
is added and what is subtracted telescope. `TotalsAlwaysSums` says the same against the slots
themselves. The fold is a function on the subsets of the ring (`Sums`), whose equation is solved
by induction on their size (`SumsSolve`); a store changes the sum by what it changes in its slot
(`StoredSum`), in whatever order the fold takes the slots. `DiesOnlyWhenStalled`: the average is
zero only if fewer bytes than seconds went by between the oldest sample and the newest.

`AptResolverProofs`: `FulfilsIsExact` (yes, no or an exception, and when) by the first position at which two sequences differ, its
existence from the well-foundedness of the naturals. `ResolverInv` says that the names looked at
so far are `Settled`: each has its package, and each dependency of it is there, chosen, unmet or
still to do; `chosen` and `unmet` only grow, so that what was settled stays so in any order.

`CdBuildProofs`: `IsoInv` says of each thing a stage establishes that it holds at every later
step of the run: the pool has the downloads (`DebsInv`), the index describes the pool
(`IndexInv`), Release and signature follow (`SignatureInv`), and each preseed file has its list
once it was edited (`SeedInv`). `SignatureInv` also has to say what `cp` meets: it copies
`Release` and `Release.gpg` only where `rm` has removed both, or finds what it copied itself.
`TreeInv` and `FreshInv` show why an incomplete tree does not pass stage 2 for an ordinary user:
what `rm` has gone through is `Swept`, so the two parts stage 2 writes to are not there or
read-only, and at most one of them is writable before `cp` is done. `CdTypeCorrect` is proved from `CdTypes`, which adds to the types that what is
chosen comes from the remote repositories only (`FoundIsNew`), that the pool has one file for a
package, and that the files still to be copied (`queue`) are downloads, and none outside that
step.

Induction. The induction theorems of the library take a predicate as a parameter, which the
provers cannot instantiate. `NatInduct` has a set in its place, and follows from the
well-foundedness of the naturals; it is enough for `Taken` and `Sums`, since each is the solution
of one equation and not a definition with a recursive operator.

Only model-checked: liveness under fairness (`WipeEnds`, `OutcomeIsTold`), which needs ENABLED and
for which the prover has no rules; and the six properties the code violates, of which a run
shows a counterexample.

## 6. Not modelled

* busybox and the kernel parts of DBAN are vendored upstream sources; they make up most of the
  C code of the repository. The tree of busybox has another copy of the `dwipe` sources; the one
  in `dwipe/` is the one mapped.
* The generators' arithmetic (`isaac_rand.c`, `mt19937ar-cok.c`) is third-party; a stream is its
  seed and a place.
* `options.c` and the option dialogs: parsing, and one assignment each; `DwipeMethod` and
  `DwipeMain` take every value of the options as an initial state.
* The parsing of device names (`device.c`): its results are the layouts of `GuiSelect`. Devices
  whose names it does not recognise share one address there as in the code. `LayoutAssumption`
  excludes only that a device is listed twice, which a user can do on the command line.
* The drawing, apart from the states it tells and its division by zero.
* The regular expression of versions and the parsing of Packages files; leading zeros, letters
  and colons inside a part are left out of `DebVersion`, and so is a revision that has "ubuntu"
  twice.
* The copies of files of `/proc` into the log directory (`rc:72-90`), which on a full `/log` fail
  unnoticed, and a diskette pulled while it is mounted.
* The files of the CD outside the four parts. `isolinux/` of the repository has no boot loader,
  so that the one stage 2 alone has made stays no basis of an image (`MakeIso`).
* `make-apt-cdrom.py`, `build.sh` and the scripts that copy or boot the result: linear, and
  nothing of them meets another run. Preseed and boot-loader files are data.

## 7. What is left

The plan the project began with (shuffle, resolver, saving of the log, pipeline, and the proofs
of each) is done. What could still be added:

1. The dialogs and the parsing of options, as the source of the initial states of `DwipeMain`.
2. `device.c` from names to addresses, composed with `GuiSelect`, so that `known` follows from
   the name.
3. The end-to-end statement: `DbanRc` composed with one `DwipeMethod` per device, so that a
   success that is told means the final pattern on every byte of every selected device. Its parts
   are `SuccessAlwaysToldTruly`, `SuccessAlwaysMeansFinalPattern` and the two refinements.

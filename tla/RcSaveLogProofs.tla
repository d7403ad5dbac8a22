---------------------------- MODULE RcSaveLogProofs ----------------------------
(***************************************************************************)
(* The saving of the log, proved for any diskettes, any number of processes  *)
(* that still log, and the 9999 names of the script.                         *)
(***************************************************************************)
EXTENDS RcSaveLog, FiniteSetTheorems, TLAPS

Floppies == [dos : BOOLEAN, tab : BOOLEAN, space : Nat, dir : {"none", "dir", "file"},
             files : [Names -> Contents]]

\* The name was free when it was found, and the script alone writes to the diskette.
NameInv ==
  /\ diskette \in Floppies
  /\ pc = "name" => suffix \in Names
  /\ pc \in {"rename", "tar", "gzip", "move"} => suffix \in Names /\ diskette.files[suffix] = Free
  /\ pc \in {"prompt", "check", "name", "rename"} => ~moved

\* As long as neither tar nor gzip failed in this save, the archive under way holds
\* what was logged before ENTER, first in /log and then on the diskette.
ArchiveInv ==
  /\ pc = "gzip" /\ ~failed => tar[suffix] >= before
  /\ pc = "move" /\ ~failed => gz[suffix] >= before
  /\ pc = "umount" /\ told = "saved" /\ ~failed => diskette.files[suffix] >= before
  /\ SavedUnlessFailed

Inv == TypeOK /\ NameInv /\ ArchiveInv

LEMMA ContentsFacts ==
  ASSUME log \in Seq(Writers)
  PROVE  /\ Free \in Contents /\ CutShort \in Contents /\ Len(log) \in Contents
         /\ Free \in Int /\ CutShort \in Int /\ Free < CutShort /\ CutShort < 0
         /\ \A c \in Contents : c \in Int /\ c <= Len(log) /\ (c = Free \/ c = CutShort \/ c >= 0)
BY DEF Contents, Free, CutShort

LEMMA DisketteType == ASSUME log \in Seq(Writers) PROVE Diskettes \subseteq Floppies
<1>1. {Free, CutShort} \subseteq Contents BY DEF Contents
<1>2. [Names -> {Free, CutShort}] \subseteq [Names -> Contents] BY <1>1
<1> QED BY <1>2, SaveLogAssumption DEF Floppies

LEMMA FloppyFields ==
  ASSUME NEW d \in Floppies
  PROVE  /\ d.files \in [Names -> Contents] /\ d.space \in Nat
         /\ d.dir \in {"none", "dir", "file"} /\ d.dos \in BOOLEAN /\ d.tab \in BOOLEAN
BY DEF Floppies

LEMMA NamesFacts ==
  /\ MaxSuffix \in Nat /\ 0 \in Names
  /\ \A n \in Names : n \in Nat
  /\ \A n \in Nat : n \in Names <=> ~(n > MaxSuffix)
BY SaveLogAssumption DEF Names

LEMMA InitInv == Init => Inv
<1> SUFFICES ASSUME Init PROVE Inv
  OBVIOUS
<1>1. log = <<>> /\ log \in Seq(Writers) /\ Len(log) = 0 BY DEF Init
<1>2. diskette \in Floppies BY <1>1, DisketteType DEF Init
<1>3. Free \in Contents /\ Free # CutShort BY DEF Contents, Free, CutShort
<1>4. /\ tar \in [Names -> Contents] /\ gz \in [Names -> Contents]
  BY <1>3 DEF Init
<1>5. TypeOK
  <2>1. before \in 0 .. Len(log) /\ suffix \in Nat BY <1>1 DEF Init
  <2>2. call \in [Writers -> {"out", "opened", "locked", "unlocked"}]
        /\ calls \in [Writers -> Nat] /\ reported \in [Writers -> Nat]
    BY DEF Init
  <2> QED BY <1>1, <1>2, <1>4, <2>1, <2>2, FloppyFields DEF Init, TypeOK
<1>6. NameInv BY <1>2 DEF Init, NameInv
<1>7. ArchiveInv BY <1>3, <1>4 DEF Init, ArchiveInv, SavedUnlessFailed
<1> QED BY <1>5, <1>6, <1>7 DEF Inv

\* What a step of the script leaves alone.
LEMMA LogKept == ASSUME Inv, UNCHANGED logVars
                 PROVE  /\ Contents' = Contents /\ Floppies' = Floppies
                        /\ log' \in Seq(Writers) /\ log' = log
                        /\ call' \in [Writers -> {"out", "opened", "locked", "unlocked"}]
                        /\ lock' \in SUBSET Writers
                        /\ calls' \in [Writers -> Nat] /\ reported' \in [Writers -> Nat]
BY DEF logVars, Contents, Floppies, Inv, TypeOK

LEMMA SwapKeeps == ASSUME Inv, SwapDiskette PROVE Inv'
<1>1. log \in Seq(Writers) /\ diskette \in Floppies BY DEF Inv, TypeOK, NameInv
<1>2. [diskette EXCEPT !.tab = ~@] \in Floppies BY <1>1 DEF Floppies
<1>3. diskette' \in Floppies BY <1>1, <1>2, DisketteType DEF SwapDiskette
<1> USE LogKept DEF SwapDiskette, Inv
<1>4. TypeOK' BY <1>3, FloppyFields DEF TypeOK
<1>5. NameInv' BY <1>3 DEF NameInv
<1>6. ArchiveInv' BY DEF ArchiveInv, SavedUnlessFailed
<1> QED BY <1>4, <1>5, <1>6

LEMMA MountKeeps == ASSUME Inv, Mount PROVE Inv'
<1>1. before' = Len(log) /\ log \in Seq(Writers) BY DEF Mount, Inv, TypeOK
<1>2. Len(log) \in 0 .. Len(log) BY <1>1
<1>3. before' \in 0 .. Len(log') BY <1>1, <1>2, LogKept DEF Mount
<1>4. /\ mounted' \in {"no", "ro", "rw"} /\ pc' \in {"prompt", "check"}
      /\ pc = "prompt" /\ failed' = FALSE
      /\ UNCHANGED <<diskette, suffix, moved, tar, gz, logVars>>
  BY DEF Mount, Say, Inv, TypeOK
<1> USE <1>4, LogKept DEF Inv
<1>5. TypeOK' BY <1>3 DEF TypeOK
<1>6. NameInv' BY DEF NameInv
<1>7. ArchiveInv' BY DEF ArchiveInv, SavedUnlessFailed
<1> QED BY <1>5, <1>6, <1>7

LEMMA CheckKeeps == ASSUME Inv, CheckFloppy PROVE Inv'
<1>1. PICK dir \in {"none", "dir", "file"} :
        /\ \/ mounted = "ro" /\ Say("read-only") /\ UNCHANGED <<diskette, suffix>>
           \/ /\ diskette' = [diskette EXCEPT !.dir = dir]
              /\ \/ pc' = "name" /\ suffix' = 0 /\ UNCHANGED told
                 \/ Say("a file is in the way") /\ UNCHANGED suffix
        /\ UNCHANGED <<mounted, moved, tar, gz, before, failed, logVars>>
  BY DEF CheckFloppy, Inv, TypeOK
<1>2. pc = "check" BY DEF CheckFloppy
<1>3. diskette' \in Floppies BY <1>1 DEF Inv, NameInv, Floppies
<1>4. diskette'.files = diskette.files BY <1>1 DEF Inv, NameInv, Floppies
<1>5. 0 \in Names BY NamesFacts
<1> USE <1>1, <1>2, LogKept DEF Say, Inv
<1>6. TypeOK'
  <2>1. suffix' \in Nat BY <1>5, NamesFacts DEF TypeOK
  <2>2. /\ diskette'.files \in [Names -> Contents]' /\ diskette'.space \in Nat
        /\ diskette'.dir \in {"none", "dir", "file"}
        /\ diskette'.dos \in BOOLEAN /\ diskette'.tab \in BOOLEAN
    BY <1>3, FloppyFields
  <2>3. pc' \in {"name", "prompt"} /\ (pc' = "name" => suffix' \in Names) BY <1>5
  <2> QED BY <2>1, <2>2, <2>3 DEF TypeOK
<1>7. NameInv' BY <1>3, <1>5 DEF NameInv
<1>8. ArchiveInv' BY DEF ArchiveInv, SavedUnlessFailed
<1> QED BY <1>6, <1>7, <1>8

LEMMA FindNameKeeps == ASSUME Inv, FindName PROVE Inv'
<1>1. pc = "name" /\ suffix \in Names /\ suffix \in Nat
  BY NamesFacts DEF FindName, Inv, NameInv
<1>2. suffix' = suffix \/ suffix' = suffix + 1 BY DEF FindName
<1>3. \/ pc' = "prompt"
      \/ pc' = "name" /\ suffix' \in Names
      \/ pc' = "rename" /\ suffix' = suffix /\ diskette.files[suffix] = Free
  <2>1. suffix + 1 \in Names <=> ~TooMany(suffix + 1) BY <1>1, NamesFacts DEF TooMany
  <2> QED BY <1>1, <2>1 DEF FindName, Say, Taken
<1>4. UNCHANGED <<diskette, mounted, moved, tar, gz, before, failed, logVars>> BY DEF FindName
<1>5. suffix' \in Nat BY <1>1, <1>2
<1> USE <1>1, <1>3, <1>4, LogKept DEF Inv
<1>6. TypeOK' BY <1>5 DEF TypeOK
<1>7. NameInv' BY DEF NameInv
<1>8. ArchiveInv' BY DEF ArchiveInv, SavedUnlessFailed
<1> QED BY <1>6, <1>7, <1>8

LEMMA RenameKeeps == ASSUME Inv, Rename PROVE Inv'
<1> USE LogKept DEF Rename, Inv
<1>1. TypeOK' BY DEF TypeOK
<1>2. NameInv' BY DEF NameInv
<1>3. ArchiveInv' BY DEF ArchiveInv, SavedUnlessFailed
<1> QED BY <1>1, <1>2, <1>3

LEMMA TarKeeps == ASSUME Inv, Tar PROVE Inv'
<1>1. /\ suffix \in Names /\ pc = "tar" /\ pc' = "gzip"
      /\ UNCHANGED <<diskette, mounted, suffix, moved, gz, told, before, logVars>>
  BY DEF Tar, Inv, NameInv
<1>2. /\ tar' \in [Names -> Contents] /\ failed' \in BOOLEAN
      /\ ~failed' => tar'[suffix] >= before
  <2>1. /\ tar \in [Names -> Contents] /\ failed \in BOOLEAN /\ log \in Seq(Writers)
        /\ before <= Len(log)
    BY DEF Inv, TypeOK
  <2>2. CASE tar' = [tar EXCEPT ![suffix] = Len(log)] /\ UNCHANGED failed
    BY <1>1, <2>1, <2>2, ContentsFacts
  <2>3. CASE failed' = TRUE /\ (tar' = tar \/ tar' = [tar EXCEPT ![suffix] = CutShort])
    BY <1>1, <2>1, <2>3, ContentsFacts
  <2> QED BY <2>2, <2>3 DEF Tar
<1> USE <1>1, <1>2, LogKept DEF Inv
<1>3. TypeOK' BY DEF TypeOK
<1>4. NameInv' BY DEF NameInv
<1>5. ArchiveInv' BY DEF ArchiveInv, SavedUnlessFailed
<1> QED BY <1>3, <1>4, <1>5

LEMMA GzipKeeps == ASSUME Inv, Gzip PROVE Inv'
<1>1. /\ suffix \in Names /\ pc = "gzip" /\ pc' = "move"
      /\ UNCHANGED <<diskette, mounted, suffix, moved, told, before, logVars>>
  BY DEF Gzip, Inv, NameInv
<1>2. /\ tar' \in [Names -> Contents] /\ gz' \in [Names -> Contents] /\ failed' \in BOOLEAN
      /\ ~failed' => gz'[suffix] >= before
  <2>1. /\ tar \in [Names -> Contents] /\ gz \in [Names -> Contents] /\ failed \in BOOLEAN
        /\ log \in Seq(Writers)
        /\ ~failed => tar[suffix] >= before
    BY <1>1 DEF Inv, TypeOK, ArchiveInv
  <2>2. CASE /\ gz' = [gz EXCEPT ![suffix] = tar[suffix]]
             /\ tar' = [tar EXCEPT ![suffix] = Free]
             /\ UNCHANGED failed
    BY <1>1, <2>1, <2>2, ContentsFacts
  <2>3. CASE failed' = TRUE /\ UNCHANGED <<tar, gz>>
    BY <2>1, <2>3
  <2>4. CASE gz' = [gz EXCEPT ![suffix] = CutShort] /\ failed' = TRUE /\ UNCHANGED tar
    BY <1>1, <2>1, <2>4, ContentsFacts
  <2> QED BY <2>2, <2>3, <2>4 DEF Gzip
<1> USE <1>1, <1>2, LogKept DEF Inv
<1>3. TypeOK' BY DEF TypeOK
<1>4. NameInv' BY DEF NameInv
<1>5. ArchiveInv' BY DEF ArchiveInv, SavedUnlessFailed
<1> QED BY <1>3, <1>4, <1>5

LEMMA MoveKeeps == ASSUME Inv, Move PROVE Inv'
<1>1. /\ suffix \in Names /\ diskette \in Floppies /\ pc = "move" /\ pc' = "umount"
      /\ UNCHANGED <<mounted, suffix, moved, tar, before, failed, logVars>>
      /\ told' \in {"saved", "full"}
  BY DEF Move, Inv, NameInv
<1>2. /\ gz \in [Names -> Contents] /\ log \in Seq(Writers)
      /\ ~failed => gz[suffix] >= before
  BY <1>1 DEF Inv, TypeOK, ArchiveInv
<1>3. /\ diskette' \in Floppies /\ gz' \in [Names -> Contents]
      /\ told' = "saved" /\ ~failed => diskette'.files[suffix] >= before
  <2>1. CASE gz[suffix] # Free /\ diskette.space > 0
    <3>1. /\ diskette' = [diskette EXCEPT !.files[suffix] = gz[suffix], !.space = diskette.space - 1]
          /\ gz' = [gz EXCEPT ![suffix] = Free]
      BY <2>1 DEF Move
    <3>2. /\ diskette'.files = [diskette.files EXCEPT ![suffix] = gz[suffix]]
          /\ diskette' = [dos |-> diskette.dos, tab |-> diskette.tab, space |-> diskette.space - 1,
                          dir |-> diskette.dir, files |-> diskette'.files]
      BY <1>1, <3>1 DEF Floppies
    <3>3. diskette' \in Floppies BY <1>1, <1>2, <2>1, <3>2 DEF Floppies
    <3>4. diskette'.files[suffix] = gz[suffix] BY <1>1, <3>2 DEF Floppies
    <3> QED BY <1>1, <1>2, <3>1, <3>3, <3>4, ContentsFacts
  <2>2. CASE ~(gz[suffix] # Free /\ diskette.space > 0)
    <3>1. /\ diskette' = diskette \/ diskette' = [diskette EXCEPT !.files[suffix] = CutShort]
          /\ gz' = gz /\ told' = "full"
      BY <2>2 DEF Move
    <3>2. [diskette EXCEPT !.files[suffix] = CutShort] \in Floppies
      BY <1>1, <1>2, ContentsFacts DEF Floppies
    <3>3. diskette' \in Floppies BY <1>1, <3>1, <3>2
    <3> QED BY <1>2, <3>1, <3>3
  <2> QED BY <2>1, <2>2
<1> USE <1>1, <1>3, LogKept DEF Inv
<1>4. TypeOK' BY FloppyFields DEF TypeOK
<1>5. NameInv' BY DEF NameInv
<1>6. ArchiveInv' BY DEF ArchiveInv, SavedUnlessFailed
<1> QED BY <1>4, <1>5, <1>6

LEMMA UmountKeeps == ASSUME Inv, Umount PROVE Inv'
<1> USE LogKept DEF Umount, ToldMounted, Inv
<1>1. TypeOK' BY DEF TypeOK
<1>2. NameInv' BY DEF NameInv
<1>3. ArchiveInv' BY DEF ArchiveInv, SavedUnlessFailed
<1> QED BY <1>1, <1>2, <1>3

LEMMA RestoreKeeps == ASSUME Inv, Restore PROVE Inv'
<1> USE LogKept DEF Restore, RenamedBack, Inv
<1>1. TypeOK' BY DEF TypeOK
<1>2. NameInv' BY DEF NameInv
<1>3. ArchiveInv' BY DEF ArchiveInv, SavedUnlessFailed
<1> QED BY <1>1, <1>2, <1>3

LEMMA StutterKeeps == ASSUME Inv, UNCHANGED vars PROVE Inv'
<1> USE LogKept DEF vars, saveVars, Inv
<1>1. TypeOK' BY DEF TypeOK
<1>2. NameInv' BY DEF NameInv
<1>3. ArchiveInv' BY DEF ArchiveInv, SavedUnlessFailed
<1> QED BY <1>1, <1>2, <1>3

LEMMA ScriptKeeps == ASSUME Inv, Script PROVE Inv' /\ UNCHANGED logVars
<1>1. Inv'
  BY MountKeeps, CheckKeeps, FindNameKeeps, RenameKeeps, TarKeeps, GzipKeeps, MoveKeeps,
     UmountKeeps, RestoreKeeps
  DEF Script
<1>2. UNCHANGED logVars
  BY DEF Script, Mount, CheckFloppy, FindName, Rename, Tar, Gzip, Move, Umount, Restore
<1> QED BY <1>1, <1>2

-----------------------------------------------------------------------------
(***************************************************************************)
(* The processes: the log only grows, and every call is accounted for.     *)
(***************************************************************************)
Lines(l, p) == {k \in DOMAIN l : l[k] = p}

CountInv == \A p \in Writers : calls[p] = reported[p] + Cardinality(Lines(log, p))

\* A line appended by one process is one more of its lines and of nobody else's.
LEMMA AppendCounts ==
  ASSUME NEW l \in Seq(Writers), NEW p \in Writers, NEW q \in Writers
  PROVE  /\ Cardinality(Lines(l, q)) \in Nat
         /\ Cardinality(Lines(Append(l, p), q)) =
              Cardinality(Lines(l, q)) + (IF p = q THEN 1 ELSE 0)
<1> DEFINE k == Len(l) + 1
<1>1. DOMAIN l = 1 .. Len(l) /\ Len(l) \in Nat OBVIOUS
<1>2. IsFiniteSet(Lines(l, q))
  <2>1. IsFiniteSet(1 .. Len(l)) BY <1>1, FS_Interval
  <2>2. Lines(l, q) \subseteq 1 .. Len(l) BY <1>1 DEF Lines
  <2> QED BY <2>1, <2>2, FS_Subset
<1>3. Cardinality(Lines(l, q)) \in Nat BY <1>2, FS_CardinalityType
<1>4. /\ DOMAIN Append(l, p) = 1 .. k /\ Append(l, p)[k] = p
      /\ \A i \in 1 .. Len(l) : Append(l, p)[i] = l[i]
  OBVIOUS
<1>5. CASE p = q
  <2>1. Lines(Append(l, p), q) = Lines(l, q) \union {k} BY <1>1, <1>4, <1>5 DEF Lines
  <2>2. k \notin Lines(l, q) BY <1>1 DEF Lines
  <2> QED BY <1>2, <1>3, <1>5, <2>1, <2>2, FS_AddElement
<1>6. CASE p # q
  <2>1. Lines(Append(l, p), q) = Lines(l, q) BY <1>1, <1>4, <1>6 DEF Lines
  <2> QED BY <1>3, <1>6, <2>1
<1> QED BY <1>3, <1>5, <1>6

LEMMA WriterStep ==
  ASSUME Inv, CountInv, NEW p \in Writers, Writer(p)
  PROVE  /\ CountInv'
         /\ UNCHANGED saveVars /\ log' \in {log, Append(log, p)}
         /\ call' \in [Writers -> {"out", "opened", "locked", "unlocked"}]
         /\ lock' \in SUBSET Writers
         /\ calls' \in [Writers -> Nat] /\ reported' \in [Writers -> Nat]
<1>1. /\ call \in [Writers -> {"out", "opened", "locked", "unlocked"}]
      /\ lock \in SUBSET Writers
      /\ calls \in [Writers -> Nat] /\ reported \in [Writers -> Nat]
      /\ log \in Seq(Writers)
  BY DEF Inv, TypeOK
<1>2. \A q \in Writers : Cardinality(Lines(log, q)) \in Nat BY <1>1, AppendCounts
<1>3. ASSUME UNCHANGED <<log, calls, reported>> PROVE CountInv' BY <1>3 DEF CountInv
<1>4. ASSUME log' = log, LeaveLog(p, 1) PROVE CountInv'
  <2>1. \A q \in Writers : calls'[q] - reported'[q] = calls[q] - reported[q]
    BY <1>1, <1>4 DEF LeaveLog
  <2>2. calls' \in [Writers -> Nat] /\ reported' \in [Writers -> Nat] BY <1>1, <1>4 DEF LeaveLog
  <2> QED BY <1>1, <1>2, <1>4, <2>1, <2>2 DEF CountInv
<1>5. ASSUME log' = Append(log, p), LeaveLog(p, 0) PROVE CountInv'
  <2>1. ASSUME NEW q \in Writers PROVE calls'[q] = reported'[q] + Cardinality(Lines(log', q))
    <3>1. Cardinality(Lines(log', q)) = Cardinality(Lines(log, q)) + (IF p = q THEN 1 ELSE 0)
      BY <1>1, <1>5, AppendCounts
    <3>2. calls[q] = reported[q] + Cardinality(Lines(log, q)) BY DEF CountInv
    <3>3. /\ calls'[q] = calls[q] + (IF p = q THEN 1 ELSE 0)
          /\ reported'[q] = reported[q]
      BY <1>1, <1>5 DEF LeaveLog
    <3> QED BY <1>1, <1>2, <3>1, <3>2, <3>3
  <2> QED BY <2>1 DEF CountInv
<1>6. ASSUME NEW c \in {0, 1}, LeaveLog(p, c)
      PROVE  /\ call' \in [Writers -> {"out", "opened", "locked", "unlocked"}]
             /\ calls' \in [Writers -> Nat] /\ reported' \in [Writers -> Nat]
  BY <1>1, <1>6 DEF LeaveLog
<1>7. CASE OpenLog(p)
  <2>1. UNCHANGED saveVars /\ log' = log /\ lock' = lock BY <1>7 DEF OpenLog
  <2>2. \/ LeaveLog(p, 1)
        \/ call' = [call EXCEPT ![p] = "opened"] /\ UNCHANGED <<calls, reported>>
    BY <1>7 DEF OpenLog
  <2> QED BY <1>1, <1>3, <1>4, <1>6, <2>1, <2>2
<1>8. CASE LockLog(p)
  <2>1. UNCHANGED saveVars /\ log' = log /\ lock' \in SUBSET Writers BY <1>1, <1>8 DEF LockLog
  <2>2. \/ LeaveLog(p, 1)
        \/ call' = [call EXCEPT ![p] = "locked"] /\ UNCHANGED <<calls, reported>>
    BY <1>8 DEF LockLog
  <2> QED BY <1>1, <1>3, <1>4, <1>6, <2>1, <2>2
<1>9. CASE UnlockLog(p) BY <1>1, <1>3, <1>9 DEF UnlockLog
<1>10. CASE CloseLog(p)
  <2>1. UNCHANGED saveVars /\ lock' = lock BY <1>10 DEF CloseLog
  <2>2. FlushedLog(p) BY <1>10 DEF CloseLog
  <2>3. \/ log' = Append(log, p) /\ LeaveLog(p, 0)
        \/ log' = log /\ LeaveLog(p, 1)
    BY <2>2 DEF FlushedLog
  <2> QED BY <1>1, <1>4, <1>5, <1>6, <2>1, <2>3
<1> QED BY <1>7, <1>8, <1>9, <1>10 DEF Writer

LEMMA WriterKeeps ==
  ASSUME Inv, CountInv, NEW p \in Writers, Writer(p)
  PROVE  Inv' /\ CountInv'
<1>1. log \in Seq(Writers) /\ before \in 0 .. Len(log) BY DEF Inv, TypeOK
<1>2. /\ UNCHANGED saveVars /\ log' \in {log, Append(log, p)}
      /\ call' \in [Writers -> {"out", "opened", "locked", "unlocked"}]
      /\ lock' \in SUBSET Writers
      /\ calls' \in [Writers -> Nat] /\ reported' \in [Writers -> Nat]
      /\ CountInv'
  BY WriterStep
<1>3. log' \in Seq(Writers) /\ Len(log) <= Len(log')
  <2>1. Append(log, p) \in Seq(Writers) /\ Len(Append(log, p)) = Len(log) + 1 BY <1>1
  <2>2. Len(log) \in Nat BY <1>1
  <2>3. CASE log' = log BY <1>1, <2>2, <2>3
  <2>4. CASE log' = Append(log, p)
    <3>1. Len(log') = Len(log) + 1 BY <2>1, <2>4
    <3> QED BY <2>1, <2>2, <2>4, <3>1
  <2> QED BY <1>2, <2>3, <2>4
<1>4. Contents \subseteq Contents' BY <1>1, <1>3 DEF Contents
<1>5. Floppies \subseteq Floppies' BY <1>4 DEF Floppies
<1>6. before' \in 0 .. Len(log') BY <1>1, <1>2, <1>3 DEF saveVars
<1>7. TypeOK'
  <2>1. /\ diskette.files \in [Names -> Contents]' /\ tar \in [Names -> Contents]'
        /\ gz \in [Names -> Contents]'
    BY <1>4 DEF Inv, TypeOK
  <2> QED BY <1>2, <1>3, <1>6, <2>1 DEF saveVars, Inv, TypeOK
<1>8. NameInv' BY <1>2, <1>5 DEF saveVars, Inv, NameInv
<1>9. ArchiveInv' BY <1>2 DEF saveVars, Inv, ArchiveInv, SavedUnlessFailed
<1> QED BY <1>2, <1>7, <1>8, <1>9 DEF Inv

LEMMA InvHolds == Spec => [](Inv /\ CountInv)
<1>1. Init => Inv /\ CountInv
  <2> SUFFICES ASSUME Init PROVE CountInv BY InitInv
  <2>1. \A p \in Writers : Lines(log, p) = {} BY DEF Init, Lines
  <2>2. \A p \in Writers : Cardinality(Lines(log, p)) = 0 BY <2>1, FS_EmptySet
  <2> QED BY <2>2 DEF Init, CountInv
<1>2. Inv /\ CountInv /\ [Next]_vars => (Inv /\ CountInv)'
  <2> SUFFICES ASSUME Inv, CountInv, [Next]_vars PROVE Inv' /\ CountInv'
    OBVIOUS
  <2>1. UNCHANGED logVars => CountInv' BY DEF logVars, CountInv
  <2>2. CASE SwapDiskette BY <2>1, <2>2, SwapKeeps DEF SwapDiskette
  <2>3. CASE Script BY <2>1, <2>3, ScriptKeeps
  <2>4. CASE \E p \in Writers : Writer(p) BY <2>4, WriterKeeps
  <2>5. CASE UNCHANGED vars BY <2>1, <2>5, StutterKeeps DEF vars
  <2> QED BY <2>2, <2>3, <2>4, <2>5 DEF Next
<1> QED BY <1>1, <1>2, PTL DEF Spec

-----------------------------------------------------------------------------
\* Every name dbanSaveLog uses fits in the digits it is formatted with, and no
\* archive holds more lines than were logged, however often ENTER is pressed.
THEOREM SaveLogTypes == Spec => []TypeOK
BY InvHolds, PTL DEF Inv

\* When a log is told to be saved the diskette is unmounted, and unless tar or gzip
\* failed in this very save, with a status nobody looks at, it has every line logged
\* before ENTER (rc:97-102).
THEOREM SavedTheorem == Spec => []SavedUnlessFailed
<1>1. Inv => SavedUnlessFailed BY DEF Inv, ArchiveInv
<1> QED BY <1>1, InvHolds, PTL

\* Every line of a process that still logs is in the file or was complained of.
THEOREM LinesTheorem == Spec => []NoLineLost
<1>1. Inv /\ CountInv => NoLineLost BY DEF Inv, NameInv, CountInv, NoLineLost, Lines
<1> QED BY <1>1, InvHolds, PTL

\* dbanSaveLog writes to names that are free on the diskette it has mounted.
THEOREM ArchivesTheorem == Spec => ArchivesAreKept
<1>1. Inv /\ [Next]_vars =>
        [\A n \in Names :
           pc # "prompt" /\ diskette.files[n] # Free =>
             diskette'.files[n] = diskette.files[n]]_vars
  <2> SUFFICES ASSUME Inv, [Next]_vars, NEW n \in Names, pc # "prompt", diskette.files[n] # Free
               PROVE  diskette'.files[n] = diskette.files[n]
    OBVIOUS
  <2>1. diskette \in Floppies BY DEF Inv, NameInv
  <2>2. CASE Move
    <3>1. diskette.files[suffix] = Free BY <2>2 DEF Move, Inv, NameInv
    <3>2. n # suffix BY <3>1
    <3> QED BY <2>1, <2>2, <3>2 DEF Move, Floppies
  <2>3. CASE CheckFloppy BY <2>1, <2>3 DEF CheckFloppy, Floppies, Say
  <2>4. CASE Next /\ ~Move /\ ~CheckFloppy
    BY <2>4 DEF Next, Script, SwapDiskette, Mount, FindName, Rename, Tar, Gzip, Umount, Restore,
                Writer, OpenLog, LockLog, UnlockLog, CloseLog, saveVars
  <2>5. CASE UNCHANGED vars BY <2>5 DEF vars, saveVars
  <2> QED BY <2>2, <2>3, <2>4, <2>5
<1> QED BY <1>1, InvHolds, PTL DEF Spec, ArchivesAreKept
=============================================================================

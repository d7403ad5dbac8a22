----------------------------- MODULE RcSaveLogMC -----------------------------
(* Instances of RcSaveLog for TLC. *)
EXTENDS RcSaveLog

Empty    == [n \in Names |-> Free]
OneTaken == [Empty EXCEPT ![0] = CutShort]

Floppy(space, dir, files) ==
  [dos |-> TRUE, tab |-> FALSE, space |-> space, dir |-> dir, files |-> files]

\* No DOS diskette; a fresh one; a full one; one with an archive and room for one
\* more; one on which a file has the name of the directory.
MCDiskettes ==
  {[Floppy(0, "none", Empty) EXCEPT !.dos = FALSE], Floppy(2, "none", Empty),
   Floppy(0, "dir", Empty), Floppy(1, "dir", OneTaken), Floppy(1, "file", Empty)}
=============================================================================

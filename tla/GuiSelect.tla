------------------------------ MODULE GuiSelect ------------------------------
(***************************************************************************)
(* dwipe_gui_select of dwipe/gui.c: the menu in which the user marks the     *)
(* devices to wipe, one action per keystroke, and the selection that         *)
(* enumeration hands to it (dwipe.c).  A disk and its partitions are         *)
(* separate entries; the code relates them by the type, host, bus, target    *)
(* and lun that dwipe_device_identify read off the file name.                *)
(***************************************************************************)
EXTENDS Integers

CONSTANTS
  N,         \* the number of entries
  Slots,     \* how many of them the window shows
  Layouts,   \* the devices a run considers: what each entry really is
  Autonukes  \* the values of dwipe_options.autonuke a run considers

Entries == 1 .. N

\* disk: which physical disk; part: 0 for the disk itself; known: whether the file
\* name has a form that identify knows; usable: whether the device could be opened.
EntryAttrs == [disk : Nat \ {0}, part : Nat, known : BOOLEAN, usable : BOOLEAN]

ASSUME SelectAssumption ==
  /\ N \in Nat \ {0}
  /\ Slots \in Nat \ {0}
  /\ Autonukes \subseteq BOOLEAN
  /\ Layouts \subseteq [Entries -> EntryAttrs]

\* No device is listed twice, as in /proc/partitions, which is scanned when the user
\* names none: entries of one disk are different parts of it.
ASSUME LayoutAssumption ==
  \A lay \in Layouts, d, e \in Entries :
    d # e /\ lay[d].disk = lay[e].disk => lay[d].part # lay[e].part

VARIABLES
  layout,    \* the devices, fixed
  autonuke,  \* dwipe_options.autonuke
  select,    \* the select member of each context
  focus,     \* the entry under the cursor (one more than the C index)
  offset,    \* how many entries are scrolled off the top
  done       \* whether F10 ended the menu

vars == <<layout, autonuke, select, focus, offset, done>>

Choices == {"TRUE", "TRUE_PARENT", "FALSE", "FALSE_CHILD"}

\* What identify knows: an entry it has not seen or does not recognise keeps the
\* zeroes of the context, the same for all of these.
Identified(d) == layout[d].known /\ layout[d].usable
Address(d)    == IF Identified(d) THEN layout[d].disk ELSE 0
Part(d)       == IF Identified(d) THEN layout[d].part ELSE 0

\* Mutants: only the neighbours of the cursor, or the entries after it, are compared.
SameDiskNext(d, f)  == Address(d) = Address(f) /\ d \in f - 1 .. f + 1
SameDiskBelow(d, f) == Address(d) = Address(f) /\ d >= f

\* The comparison the code makes between an entry and the one under the cursor.
SameDisk(d, f) == Address(d) = Address(f)

\* The select member enumeration leaves in a context that opened without errors.
Enumerated(d) ==
  CASE ~layout[d].usable -> "DISABLED"
    [] layout[d].usable /\ ~autonuke -> "FALSE"
    [] OTHER -> IF Part(d) = 0 THEN "TRUE" ELSE "TRUE_PARENT"

Init ==
  /\ layout \in Layouts
  /\ autonuke \in Autonukes
  /\ select = [d \in Entries |-> Enumerated(d)]
  /\ focus = 1
  /\ offset = 0
  /\ done = autonuke

-----------------------------------------------------------------------------
\* Mutant: the window scrolls one line late.
ScrollDownLate(f) == IF f - offset > Slots + 1 THEN offset + 1 ELSE offset

\* Scrolling when the cursor leaves the window at the bottom.
ScrollDown(f) == IF f - offset > Slots THEN offset + 1 ELSE offset

KeyDown ==
  /\ ~done
  /\ IF focus = N THEN UNCHANGED <<focus, offset>>
     ELSE focus' = focus + 1 /\ offset' = ScrollDown(focus + 1)
  /\ UNCHANGED <<layout, autonuke, select, done>>

\* Mutant: the window scrolls with every step up.
ScrollUpAlways(f) == offset - 1

\* Scrolling when the cursor leaves the window at the top.
ScrollUp(f) == IF f <= offset THEN offset - 1 ELSE offset

KeyUp ==
  /\ ~done
  /\ IF focus = 1 THEN UNCHANGED <<focus, offset>>
     ELSE focus' = focus - 1 /\ offset' = ScrollUp(focus - 1)
  /\ UNCHANGED <<layout, autonuke, select, done>>

\* ENTER on a marked disk: it and all its partitions become free.
DeselectDisk ==
  /\ ~done
  /\ select[focus] = "TRUE" /\ Part(focus) = 0
  /\ select' = [d \in Entries |->
                  IF d = focus \/ (SameDisk(d, focus) /\ Part(d) > 0) THEN "FALSE"
                  ELSE select[d]]
  /\ UNCHANGED <<layout, autonuke, focus, offset, done>>

\* Mutant: the partition counts itself, which is still marked.
OtherMarksSelf(f) == \E d \in Entries : SameDisk(d, f) /\ Part(d) > 0 /\ select[d] = "TRUE"

\* Whether another partition of the disk stays marked when f no longer is.
OtherMarks(f) == \E d \in Entries : /\ d # f /\ SameDisk(d, f) /\ Part(d) > 0
                                    /\ select[d] = "TRUE"

\* ENTER on a marked partition: the disk becomes free with its last one.
DeselectPartition ==
  /\ ~done
  /\ select[focus] = "TRUE" /\ Part(focus) > 0
  /\ select' = [d \in Entries |->
                  IF d = focus THEN "FALSE"
                  ELSE IF ~OtherMarks(focus) /\ SameDisk(d, focus) /\ Part(d) = 0
                  THEN "FALSE" ELSE select[d]]
  /\ UNCHANGED <<layout, autonuke, focus, offset, done>>

\* ENTER on a free disk: its partitions are wiped with it.
SelectDisk ==
  /\ ~done
  /\ select[focus] = "FALSE" /\ Part(focus) = 0
  /\ select' = [d \in Entries |->
                  IF d = focus THEN "TRUE"
                  ELSE IF SameDisk(d, focus) /\ Part(d) > 0 THEN "TRUE_PARENT"
                  ELSE select[d]]
  /\ UNCHANGED <<layout, autonuke, focus, offset, done>>

\* ENTER on a free partition: its disk can no longer be marked.
SelectPartition ==
  /\ ~done
  /\ select[focus] = "FALSE" /\ Part(focus) > 0
  /\ select' = [d \in Entries |->
                  IF d = focus THEN "TRUE"
                  ELSE IF SameDisk(d, focus) /\ Part(d) = 0 THEN "FALSE_CHILD"
                  ELSE select[d]]
  /\ UNCHANGED <<layout, autonuke, focus, offset, done>>

\* ENTER on an implied, blocked or disabled entry changes nothing, nor do the
\* dialogs behind the keys m, p, r and v as far as the selection goes.
OtherKey == ~done /\ UNCHANGED vars

F10 ==
  /\ ~done
  /\ done' = TRUE
  /\ UNCHANGED <<layout, autonuke, select, focus, offset>>

Left == done /\ UNCHANGED vars

Next ==
  \/ KeyDown \/ KeyUp
  \/ DeselectDisk \/ DeselectPartition \/ SelectDisk \/ SelectPartition
  \/ OtherKey \/ F10 \/ Left

Spec == Init /\ [][Next]_vars

-----------------------------------------------------------------------------
(***************************************************************************)
(* Properties.                                                             *)
(***************************************************************************)

\* The types; the scroll offset is never negative.
TypeOK ==
  /\ layout \in Layouts
  /\ autonuke \in BOOLEAN
  /\ select \in [Entries -> Choices \union {"DISABLED"}]
  /\ focus \in Entries
  /\ offset \in 0 .. N
  /\ done \in BOOLEAN

\* An entry of a disk and an entry of one of its partitions.
ParentOf(d, p) == SameDisk(d, p) /\ Part(d) = 0 /\ Part(p) > 0

\* What the disks really are: the disk itself, or two entries of one partition.
Overlap(d, e) == /\ layout[d].disk = layout[e].disk
                 /\ \/ layout[d].part = 0 \/ layout[e].part = 0
                    \/ layout[d].part = layout[e].part

\* Of two marked entries that identify has recognised, none is the disk of the
\* other: their wipe processes write different blocks.  Entries with a name of
\* unknown form are not related at all and may overlap (ChildBlocksDisk below).
MarkedAreDisjoint ==
  \A d, e \in Entries :
    d # e /\ Identified(d) /\ Identified(e) /\ select[d] = "TRUE" /\ select[e] = "TRUE"
      => ~Overlap(d, e)

\* TRUE_PARENT says that the wipe is implied (context.h:49): some marked entry of
\* the same disk is its parent, so that the partition is wiped with it.  Autonuke
\* implies the partitions of a disk it cannot open as well (dwipe.c:293-298).
ImpliedHasParent ==
  ~autonuke =>
    \A p \in Entries : select[p] = "TRUE_PARENT" =>
      \E d \in Entries : ParentOf(d, p) /\ select[d] = "TRUE"

\* No partition of a marked disk is left out of the picture, and no disk is
\* blocked without a marked partition, so that every usable entry can be marked
\* again after unmarking others.
MarkedDiskImpliesAll ==
  \A d, p \in Entries : ParentOf(d, p) /\ select[d] = "TRUE" => select[p] = "TRUE_PARENT"

BlockedHasChild ==
  \A d \in Entries : select[d] = "FALSE_CHILD" =>
    \E p \in Entries : ParentOf(d, p) /\ select[p] = "TRUE"

\* The cursor is always on a visible line, and no line is drawn from beyond the
\* array of contexts (c[i+offset] in the drawing loop).
CursorVisible ==
  /\ offset < focus /\ focus <= offset + Slots
  /\ offset = 0 \/ offset + Slots <= N

(***************************************************************************)
(* What a comment of the source says and the code does not do.             *)
(***************************************************************************)

\* "A child of this device has been selected, so we can't wipe this device"
\* (context.h:51): a disk and a partition of it are never both marked, and no two
\* wipe processes write the same blocks.
ChildBlocksDisk ==
  \A d, p \in Entries :
    layout[d].disk = layout[p].disk /\ layout[d].part = 0 /\ layout[p].part > 0 =>
      ~(select[d] = "TRUE" /\ select[p] = "TRUE")
=============================================================================

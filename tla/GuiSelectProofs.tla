--------------------------- MODULE GuiSelectProofs ---------------------------
(***************************************************************************)
(* The selection menu for every number of entries, every window and every  *)
(* layout of disks and partitions: proofs of the invariants of GuiSelect.  *)
(***************************************************************************)
EXTENDS GuiSelect, TLAPS

\* An entry that could not be opened stays disabled: only identified entries are
\* ever written to, except for the one under the cursor.
UnusableDisabled == \A d \in Entries : ~layout[d].usable => select[d] = "DISABLED"

\* The inductive invariant of the marks.  A key that changes one disk's entries
\* keeps each part only because of the others: a partition can be freed or marked
\* without asking for its disk since the disk of a marked partition is never marked.
Marks == UnusableDisabled /\ MarkedDiskImpliesAll /\ BlockedHasChild

-----------------------------------------------------------------------------
\* The types hold of every initial state.
LEMMA TypeInit == Init => TypeOK
<1> SUFFICES ASSUME Init PROVE TypeOK
  OBVIOUS
<1>1. select \in [Entries -> Choices \union {"DISABLED"}]
  BY DEF Init, Enumerated, Choices
<1>2. focus \in Entries /\ offset \in 0 .. N
  BY SelectAssumption DEF Init, Entries
<1> QED
  BY <1>1, <1>2, SelectAssumption DEF Init, TypeOK

\* The cursor stays among the entries and on a visible line, and the window does
\* not scroll beyond the last entry.
CursorOK == TypeOK /\ CursorVisible

LEMMA CursorStep == CursorOK /\ [Next]_vars => CursorOK'
<1> SUFFICES ASSUME CursorOK, [Next]_vars PROVE CursorOK'
  OBVIOUS
<1> USE SelectAssumption DEF CursorOK, TypeOK, CursorVisible, Entries
<1>1. CASE KeyDown
  BY <1>1 DEF KeyDown, ScrollDown
<1>2. CASE KeyUp
  BY <1>2 DEF KeyUp, ScrollUp
<1>3. CASE DeselectDisk
  BY <1>3 DEF DeselectDisk, Choices
<1>4. CASE DeselectPartition
  BY <1>4 DEF DeselectPartition, Choices
<1>5. CASE SelectDisk
  BY <1>5 DEF SelectDisk, Choices
<1>6. CASE SelectPartition
  BY <1>6 DEF SelectPartition, Choices
<1>7. CASE OtherKey \/ Left \/ UNCHANGED vars
  BY <1>7 DEF OtherKey, Left, vars
<1>8. CASE F10
  BY <1>8 DEF F10
<1> QED
  BY <1>1, <1>2, <1>3, <1>4, <1>5, <1>6, <1>7, <1>8 DEF Next

\* The types of the menu's variables, for every layout: the cursor and the
\* scroll offset never leave the array of contexts (gui.c:483-527).
THEOREM TypeCorrect == Spec => []TypeOK
<1>1. Init => CursorOK
  BY TypeInit, SelectAssumption DEF CursorOK, CursorVisible, Init
<1>2. CursorOK => TypeOK
  BY DEF CursorOK
<1> QED
  BY <1>1, <1>2, CursorStep, PTL DEF Spec

\* The cursor is visible and no line is drawn from beyond the contexts, however
\* many entries there are and however small the window is (gui.c:388-415).
THEOREM CursorAlwaysVisible == Spec => []CursorVisible
<1>1. Init => CursorOK
  BY TypeInit, SelectAssumption DEF CursorOK, CursorVisible, Init
<1>2. CursorOK => CursorVisible
  BY DEF CursorOK
<1> QED
  BY <1>1, <1>2, CursorStep, PTL DEF Spec

-----------------------------------------------------------------------------
\* What the addresses say: two entries of one address, one of them a partition,
\* are both identified and of the same disk, and a partition has one parent at most.
LEMMA Addresses ==
  ASSUME TypeOK, NEW d \in Entries, NEW e \in Entries, SameDisk(d, e),
         Part(d) > 0 \/ Part(e) > 0
  PROVE  Identified(d) /\ Identified(e) /\ layout[d].disk = layout[e].disk
<1>1. layout[d].disk \in Nat \ {0} /\ layout[e].disk \in Nat \ {0}
  BY SelectAssumption DEF TypeOK, EntryAttrs
<1> QED
  BY <1>1 DEF SameDisk, Address, Part, Identified

LEMMA OneParent ==
  ASSUME TypeOK, NEW d \in Entries, NEW e \in Entries, NEW p \in Entries,
         ParentOf(d, p), ParentOf(e, p)
  PROVE  d = e
<1>1. /\ Identified(d) /\ Identified(e)
      /\ layout[d].disk = layout[p].disk /\ layout[e].disk = layout[p].disk
  BY Addresses DEF ParentOf
<1>2. layout[d].part = 0 /\ layout[e].part = 0
  BY <1>1 DEF ParentOf, Part
<1>3. layout \in Layouts
  BY DEF TypeOK
<1> QED
  BY <1>1, <1>2, <1>3, LayoutAssumption

\* Entries of one address are compared alike in both directions, and a part is a
\* natural number.
LEMMA PartType == ASSUME TypeOK, NEW d \in Entries PROVE Part(d) \in Nat
  BY SelectAssumption DEF TypeOK, EntryAttrs, Part

-----------------------------------------------------------------------------
\* Enumeration leaves consistent marks, with autonuke as without.
LEMMA MarksInit == Init => Marks
<1> SUFFICES ASSUME Init PROVE Marks
  OBVIOUS
<1>1. \A d \in Entries : select[d] = Enumerated(d)
  BY DEF Init
<1>2. UnusableDisabled
  BY <1>1 DEF UnusableDisabled, Enumerated
<1>3. MarkedDiskImpliesAll
  <2> SUFFICES ASSUME NEW d \in Entries, NEW p \in Entries,
                      ParentOf(d, p), select[d] = "TRUE"
               PROVE  select[p] = "TRUE_PARENT"
    BY DEF MarkedDiskImpliesAll
  <2>1. autonuke
    BY <1>1 DEF Enumerated
  <2>2. layout[p].usable /\ Part(p) # 0
    BY DEF ParentOf, Part, Identified
  <2> QED
    BY <1>1, <2>1, <2>2 DEF Enumerated
<1>4. BlockedHasChild
  BY <1>1 DEF BlockedHasChild, Enumerated
<1> QED
  BY <1>2, <1>3, <1>4 DEF Marks

\* Freeing a marked disk frees partitions that were all implied by it.
LEMMA DeselectDiskKeeps == TypeOK /\ Marks /\ DeselectDisk => Marks'
<1> SUFFICES ASSUME TypeOK, Marks, DeselectDisk PROVE Marks'
  OBVIOUS
<1>1. focus \in Entries /\ select[focus] = "TRUE" /\ Part(focus) = 0
  BY DEF TypeOK, DeselectDisk
<1>2. \A d \in Entries : select'[d] = IF d = focus \/ (SameDisk(d, focus) /\ Part(d) > 0)
                                      THEN "FALSE" ELSE select[d]
  BY DEF DeselectDisk
<1>3. layout' = layout
  BY DEF DeselectDisk
<1>4. \A d \in Entries : SameDisk(d, focus) /\ Part(d) > 0 => ParentOf(focus, d)
  BY <1>1 DEF ParentOf, SameDisk
<1>5. UnusableDisabled'
  <2> SUFFICES ASSUME NEW d \in Entries, ~layout[d].usable
               PROVE  select'[d] = "DISABLED"
    BY <1>3 DEF UnusableDisabled
  <2>1. select[d] = "DISABLED" /\ ~(Part(d) > 0)
    BY DEF Marks, UnusableDisabled, Part, Identified
  <2> QED
    BY <1>1, <1>2, <2>1
<1>6. MarkedDiskImpliesAll'
  <2> SUFFICES ASSUME NEW d \in Entries, NEW p \in Entries,
                      ParentOf(d, p), select'[d] = "TRUE"
               PROVE  select'[p] = "TRUE_PARENT"
    BY <1>3 DEF MarkedDiskImpliesAll, ParentOf, SameDisk, Address, Part, Identified
  <2>1. d # focus /\ select[d] = "TRUE"
    BY <1>2
  <2>2. select[p] = "TRUE_PARENT"
    BY <2>1 DEF Marks, MarkedDiskImpliesAll
  <2>3. ~ParentOf(focus, p)
    BY <1>1, <2>1, OneParent
  <2>4. p # focus
    BY <1>1, <2>2
  <2> QED
    BY <1>2, <1>4, <2>2, <2>3, <2>4
<1>7. BlockedHasChild'
  <2> SUFFICES ASSUME NEW d \in Entries, select'[d] = "FALSE_CHILD"
               PROVE  \E p \in Entries : ParentOf(d, p) /\ select'[p] = "TRUE"
    BY <1>3 DEF BlockedHasChild, ParentOf, SameDisk, Address, Part, Identified
  <2>1. select[d] = "FALSE_CHILD"
    BY <1>2
  <2>2. PICK p \in Entries : ParentOf(d, p) /\ select[p] = "TRUE"
    BY <2>1 DEF Marks, BlockedHasChild
  <2>3. ~ParentOf(focus, p)
    BY <1>1, <2>2 DEF Marks, MarkedDiskImpliesAll
  <2>4. p # focus
    BY <1>1, <2>2 DEF ParentOf
  <2>5. select'[p] = "TRUE"
    BY <1>2, <1>4, <2>2, <2>3, <2>4
  <2> QED
    BY <2>2, <2>5
<1> QED
  BY <1>5, <1>6, <1>7 DEF Marks

\* Freeing a partition frees its disk only with its last mark.
LEMMA DeselectPartitionKeeps == TypeOK /\ Marks /\ DeselectPartition => Marks'
<1> SUFFICES ASSUME TypeOK, Marks, DeselectPartition PROVE Marks'
  OBVIOUS
<1>1. focus \in Entries /\ select[focus] = "TRUE" /\ Part(focus) > 0
  BY DEF TypeOK, DeselectPartition
<1>2. \A d \in Entries :
        select'[d] = IF d = focus THEN "FALSE"
                     ELSE IF ~OtherMarks(focus) /\ SameDisk(d, focus) /\ Part(d) = 0
                     THEN "FALSE" ELSE select[d]
  BY DEF DeselectPartition
<1>3. layout' = layout
  BY DEF DeselectPartition
<1>5. UnusableDisabled'
  <2> SUFFICES ASSUME NEW d \in Entries, ~layout[d].usable
               PROVE  select'[d] = "DISABLED"
    BY <1>3 DEF UnusableDisabled
  <2>1. select[d] = "DISABLED" /\ ~Identified(d)
    BY DEF Marks, UnusableDisabled, Identified
  <2>2. ~SameDisk(d, focus)
    BY <1>1, <2>1, Addresses
  <2> QED
    BY <1>1, <1>2, <2>1, <2>2
<1>6. MarkedDiskImpliesAll'
  <2> SUFFICES ASSUME NEW d \in Entries, NEW p \in Entries,
                      ParentOf(d, p), select'[d] = "TRUE"
               PROVE  select'[p] = "TRUE_PARENT"
    BY <1>3 DEF MarkedDiskImpliesAll, ParentOf, SameDisk, Address, Part, Identified
  <2>1. select[d] = "TRUE"
    BY <1>2
  <2>2. select[p] = "TRUE_PARENT" /\ Part(p) # 0
    BY <2>1 DEF Marks, MarkedDiskImpliesAll, ParentOf
  <2> QED
    BY <1>1, <1>2, <2>2
<1>7. BlockedHasChild'
  <2> SUFFICES ASSUME NEW d \in Entries, select'[d] = "FALSE_CHILD"
               PROVE  \E p \in Entries : ParentOf(d, p) /\ select'[p] = "TRUE"
    BY <1>3 DEF BlockedHasChild, ParentOf, SameDisk, Address, Part, Identified
  <2>1. select[d] = "FALSE_CHILD"
    BY <1>2
  <2>2. PICK p \in Entries : ParentOf(d, p) /\ select[p] = "TRUE"
    BY <2>1 DEF Marks, BlockedHasChild
  <2>3. CASE p # focus
    <3>1. Part(p) # 0
      BY <2>2 DEF ParentOf
    <3>2. select'[p] = "TRUE"
      BY <1>2, <2>2, <2>3, <3>1 DEF ParentOf
    <3> QED
      BY <2>2, <3>2
  <2>4. CASE p = focus
    <3>1. SameDisk(d, focus) /\ Part(d) = 0
      BY <2>2, <2>4 DEF ParentOf
    <3>2. OtherMarks(focus)
      BY <1>2, <2>1, <3>1
    <3>3. PICK q \in Entries : /\ q # focus /\ SameDisk(q, focus) /\ Part(q) > 0
                               /\ select[q] = "TRUE"
      BY <3>2 DEF OtherMarks
    <3>4. select'[q] = "TRUE"
      BY <1>2, <3>2, <3>3
    <3>5. ParentOf(d, q)
      BY <3>1, <3>3 DEF ParentOf, SameDisk
    <3> QED
      BY <3>4, <3>5
  <2> QED
    BY <2>3, <2>4
<1> QED
  BY <1>5, <1>6, <1>7 DEF Marks

\* Marking a free disk meets no marked partition, or the disk would be blocked.
LEMMA SelectDiskKeeps ==
  TypeOK /\ Marks /\ SelectDisk => Marks'
<1> SUFFICES ASSUME TypeOK, Marks, SelectDisk PROVE Marks'
  OBVIOUS
<1>1. focus \in Entries /\ select[focus] = "FALSE" /\ Part(focus) = 0
  BY DEF TypeOK, SelectDisk
<1>2. \A d \in Entries :
        select'[d] = IF d = focus THEN "TRUE"
                     ELSE IF SameDisk(d, focus) /\ Part(d) > 0 THEN "TRUE_PARENT"
                     ELSE select[d]
  BY DEF SelectDisk
<1>3. layout' = layout
  BY DEF SelectDisk
<1>4. \A d \in Entries : SameDisk(d, focus) /\ Part(d) > 0 => ParentOf(focus, d)
  BY <1>1 DEF ParentOf, SameDisk
<1>5. UnusableDisabled'
  <2> SUFFICES ASSUME NEW d \in Entries, ~layout[d].usable
               PROVE  select'[d] = "DISABLED"
    BY <1>3 DEF UnusableDisabled
  <2>1. select[d] = "DISABLED" /\ ~(Part(d) > 0)
    BY DEF Marks, UnusableDisabled, Part, Identified
  <2> QED
    BY <1>1, <1>2, <2>1
<1>6. MarkedDiskImpliesAll'
  <2> SUFFICES ASSUME NEW d \in Entries, NEW p \in Entries,
                      ParentOf(d, p), select'[d] = "TRUE"
               PROVE  select'[p] = "TRUE_PARENT"
    BY <1>3 DEF MarkedDiskImpliesAll, ParentOf, SameDisk, Address, Part, Identified
  <2>1. p # focus /\ Part(p) > 0
    BY <1>1 DEF ParentOf
  <2>2. CASE SameDisk(p, focus)
    BY <1>2, <2>1, <2>2
  <2>3. CASE ~SameDisk(p, focus)
    <3>1. d # focus
      BY <2>3 DEF ParentOf, SameDisk
    <3>2. select[d] = "TRUE"
      BY <1>2, <3>1 DEF ParentOf
    <3>3. select[p] = "TRUE_PARENT"
      BY <3>2 DEF Marks, MarkedDiskImpliesAll
    <3> QED
      BY <1>2, <2>1, <2>3, <3>3
  <2> QED
    BY <2>2, <2>3
<1>7. BlockedHasChild'
  <2> SUFFICES ASSUME NEW d \in Entries, select'[d] = "FALSE_CHILD"
               PROVE  \E p \in Entries : ParentOf(d, p) /\ select'[p] = "TRUE"
    BY <1>3 DEF BlockedHasChild, ParentOf, SameDisk, Address, Part, Identified
  <2>1. d # focus /\ select[d] = "FALSE_CHILD"
    BY <1>2
  <2>2. PICK p \in Entries : ParentOf(d, p) /\ select[p] = "TRUE"
    BY <2>1 DEF Marks, BlockedHasChild
  <2>3. ~ParentOf(focus, p)
    BY <1>1, <2>1, <2>2, OneParent
  <2>4. p # focus
    BY <1>1, <2>2
  <2>5. select'[p] = "TRUE"
    BY <1>2, <1>4, <2>2, <2>3, <2>4
  <2> QED
    BY <2>2, <2>5
<1> QED
  BY <1>5, <1>6, <1>7 DEF Marks

\* Marking a free partition blocks its disk, which is not marked, or the partition
\* would be implied.
LEMMA SelectPartitionKeeps ==
  TypeOK /\ Marks /\ SelectPartition => Marks'
<1> SUFFICES ASSUME TypeOK, Marks, SelectPartition PROVE Marks'
  OBVIOUS
<1>1. focus \in Entries /\ select[focus] = "FALSE" /\ Part(focus) > 0
  BY DEF TypeOK, SelectPartition
<1>2. \A d \in Entries :
        select'[d] = IF d = focus THEN "TRUE"
                     ELSE IF SameDisk(d, focus) /\ Part(d) = 0 THEN "FALSE_CHILD"
                     ELSE select[d]
  BY DEF SelectPartition
<1>3. layout' = layout
  BY DEF SelectPartition
<1>5. UnusableDisabled'
  <2> SUFFICES ASSUME NEW d \in Entries, ~layout[d].usable
               PROVE  select'[d] = "DISABLED"
    BY <1>3 DEF UnusableDisabled
  <2>1. select[d] = "DISABLED" /\ ~Identified(d)
    BY DEF Marks, UnusableDisabled, Identified
  <2>2. ~SameDisk(d, focus)
    BY <1>1, <2>1, Addresses
  <2> QED
    BY <1>1, <1>2, <2>1, <2>2
<1>6. MarkedDiskImpliesAll'
  <2> SUFFICES ASSUME NEW d \in Entries, NEW p \in Entries,
                      ParentOf(d, p), select'[d] = "TRUE"
               PROVE  select'[p] = "TRUE_PARENT"
    BY <1>3 DEF MarkedDiskImpliesAll, ParentOf, SameDisk, Address, Part, Identified
  <2>1. d # focus /\ Part(d) = 0 /\ Part(p) # 0
    BY <1>1 DEF ParentOf
  <2>2. select[d] = "TRUE"
    BY <1>2, <2>1
  <2>3. select[p] = "TRUE_PARENT"
    BY <2>2 DEF Marks, MarkedDiskImpliesAll
  <2> QED
    BY <1>1, <1>2, <2>1, <2>3
<1>7. BlockedHasChild'
  <2> SUFFICES ASSUME NEW d \in Entries, select'[d] = "FALSE_CHILD"
               PROVE  \E p \in Entries : ParentOf(d, p) /\ select'[p] = "TRUE"
    BY <1>3 DEF BlockedHasChild, ParentOf, SameDisk, Address, Part, Identified
  <2>1. CASE SameDisk(d, focus) /\ Part(d) = 0
    <3>1. ParentOf(d, focus)
      BY <1>1, <2>1 DEF ParentOf
    <3> QED
      BY <1>1, <1>2, <3>1
  <2>2. CASE ~(SameDisk(d, focus) /\ Part(d) = 0)
    <3>1. select[d] = "FALSE_CHILD"
      BY <1>2, <2>2
    <3>2. PICK p \in Entries : ParentOf(d, p) /\ select[p] = "TRUE"
      BY <3>1 DEF Marks, BlockedHasChild
    <3>3. Part(p) # 0
      BY <3>2 DEF ParentOf
    <3>4. select'[p] = "TRUE"
      BY <1>2, <3>2, <3>3
    <3> QED
      BY <3>2, <3>4
  <2> QED
    BY <2>1, <2>2
<1> QED
  BY <1>5, <1>6, <1>7 DEF Marks

\* Every key keeps the marks.
LEMMA MarksStep == TypeOK /\ Marks /\ [Next]_vars => Marks'
<1> SUFFICES ASSUME TypeOK, Marks, [Next]_vars PROVE Marks'
  OBVIOUS
<1>1. CASE UNCHANGED <<layout, select>>
  BY <1>1 DEF Marks, UnusableDisabled, MarkedDiskImpliesAll, BlockedHasChild, ParentOf,
              SameDisk, Address, Part, Identified
<1>2. CASE KeyDown \/ KeyUp \/ OtherKey \/ F10 \/ Left \/ UNCHANGED vars
  BY <1>1, <1>2 DEF KeyDown, KeyUp, OtherKey, F10, Left, vars
<1> QED
  BY <1>2, DeselectDiskKeeps, DeselectPartitionKeeps, SelectDiskKeeps,
     SelectPartitionKeeps DEF Next

LEMMA MarksAlways == Spec => []Marks
<1> QED
  BY MarksInit, MarksStep, TypeCorrect, PTL DEF Spec

\* Whatever keys the user presses, no disk is blocked without a marked partition
\* (gui.c:586-607 frees it with the last one).
THEOREM BlockedAlwaysHasChild == Spec => []BlockedHasChild
<1>1. Marks => BlockedHasChild
  BY DEF Marks
<1> QED
  BY <1>1, MarksAlways, PTL

\* Every partition of a marked disk is shown as implied (gui.c:622-638).
THEOREM MarkedDiskAlwaysImpliesAll == Spec => []MarkedDiskImpliesAll
<1>1. Marks => MarkedDiskImpliesAll
  BY DEF Marks
<1> QED
  BY <1>1, MarksAlways, PTL

\* No two of the processes that dwipe.c:393-419 forks for marked devices of known
\* names write the same blocks, whatever keys the user presses and whatever other
\* devices, unknown ones among them, are listed.
THEOREM MarkedAlwaysDisjoint == Spec => []MarkedAreDisjoint
<1>1. TypeOK /\ Marks => MarkedAreDisjoint
  <2> SUFFICES ASSUME TypeOK, Marks, NEW d \in Entries, NEW e \in Entries, d # e,
                      Identified(d), Identified(e),
                      select[d] = "TRUE", select[e] = "TRUE",
                      Overlap(d, e)
               PROVE  FALSE
    BY DEF MarkedAreDisjoint
  <2>1. layout \in Layouts
    BY DEF TypeOK
  <2>2. layout[d].part # layout[e].part
    BY <2>1, LayoutAssumption DEF Overlap
  <2>3. SameDisk(d, e) /\ SameDisk(e, d)
    BY DEF SameDisk, Address, Overlap
  <2>4. \/ Part(d) = 0 /\ Part(e) # 0
        \/ Part(e) = 0 /\ Part(d) # 0
    BY <2>2 DEF Part, Overlap
  <2>5. ParentOf(d, e) \/ ParentOf(e, d)
    BY <2>3, <2>4, PartType DEF ParentOf
  <2> QED
    BY <2>5 DEF Marks, MarkedDiskImpliesAll
<1> QED
  BY <1>1, MarksAlways, TypeCorrect, PTL

-----------------------------------------------------------------------------
\* When the user marks the devices, each implied partition has a marked parent.
LEMMA ImpliedStep ==
  TypeOK /\ Marks /\ ImpliedHasParent /\ [Next]_vars => ImpliedHasParent'
<1> SUFFICES ASSUME TypeOK, Marks, ImpliedHasParent, [Next]_vars PROVE ImpliedHasParent'
  OBVIOUS
<1>0. layout' = layout /\ autonuke' = autonuke
  BY DEF Next, KeyDown, KeyUp, DeselectDisk, DeselectPartition, SelectDisk,
         SelectPartition, OtherKey, F10, Left, vars
<1> SUFFICES ASSUME ~autonuke, NEW p \in Entries, select'[p] = "TRUE_PARENT"
             PROVE  \E d \in Entries : ParentOf(d, p) /\ select'[d] = "TRUE"
  BY <1>0 DEF ImpliedHasParent, ParentOf, SameDisk, Address, Part, Identified
<1>1. \A q \in Entries : select[q] = "TRUE_PARENT" =>
        \E d \in Entries : ParentOf(d, q) /\ select[d] = "TRUE"
  BY DEF ImpliedHasParent
<1>2. focus \in Entries
  BY DEF TypeOK
<1>3. CASE UNCHANGED select
  BY <1>1, <1>3
<1>4. CASE DeselectDisk
  <2>1. select[p] = "TRUE_PARENT"
    BY <1>4 DEF DeselectDisk
  <2>2. PICK d \in Entries : ParentOf(d, p) /\ select[d] = "TRUE"
    BY <1>1, <2>1
  <2>3. Part(p) > 0 /\ ~SameDisk(p, focus)
    BY <1>4, <2>2 DEF DeselectDisk, ParentOf
  <2>4. d # focus /\ ~(Part(d) > 0)
    BY <2>2, <2>3 DEF ParentOf, SameDisk
  <2>5. select'[d] = "TRUE"
    BY <1>4, <2>2, <2>4 DEF DeselectDisk
  <2> QED
    BY <2>2, <2>5
<1>5. CASE DeselectPartition
  <2>1. select[p] = "TRUE_PARENT"
    BY <1>5 DEF DeselectPartition
  <2>2. PICK d \in Entries : ParentOf(d, p) /\ select[d] = "TRUE"
    BY <1>1, <2>1
  <2>3. select[focus] = "TRUE" /\ Part(focus) > 0
    BY <1>5 DEF DeselectPartition
  <2>4. d # focus /\ ~SameDisk(d, focus)
    BY <1>2, <2>2, <2>3 DEF Marks, MarkedDiskImpliesAll, ParentOf
  <2>5. select'[d] = "TRUE"
    BY <1>5, <2>2, <2>4 DEF DeselectPartition
  <2> QED
    BY <2>2, <2>5
<1>6. CASE SelectDisk
  <2>1. Part(focus) = 0 /\ select'[focus] = "TRUE"
    BY <1>2, <1>6 DEF SelectDisk
  <2>2. CASE SameDisk(p, focus) /\ Part(p) > 0
    <3>1. ParentOf(focus, p)
      BY <2>1, <2>2 DEF ParentOf, SameDisk
    <3> QED
      BY <1>2, <2>1, <3>1
  <2>3. CASE ~(SameDisk(p, focus) /\ Part(p) > 0)
    <3>1. select[p] = "TRUE_PARENT"
      BY <1>6, <2>3 DEF SelectDisk
    <3>2. PICK d \in Entries : ParentOf(d, p) /\ select[d] = "TRUE"
      BY <1>1, <3>1
    <3>3. select'[d] = "TRUE"
      BY <1>6, <3>2 DEF SelectDisk, ParentOf
    <3> QED
      BY <3>2, <3>3
  <2> QED
    BY <2>2, <2>3
<1>7. CASE SelectPartition
  <2>1. select[p] = "TRUE_PARENT"
    BY <1>7 DEF SelectPartition
  <2>2. PICK d \in Entries : ParentOf(d, p) /\ select[d] = "TRUE"
    BY <1>1, <2>1
  <2>3. select[focus] = "FALSE" /\ Part(focus) > 0
    BY <1>7 DEF SelectPartition
  <2>4. d # focus /\ ~SameDisk(d, focus)
    BY <1>2, <2>2, <2>3 DEF Marks, MarkedDiskImpliesAll, ParentOf
  <2>5. select'[d] = "TRUE"
    BY <1>7, <2>2, <2>4 DEF SelectPartition
  <2> QED
    BY <2>2, <2>5
<1> QED
  BY <1>3, <1>4, <1>5, <1>6, <1>7
     DEF Next, KeyDown, KeyUp, OtherKey, F10, Left, vars

\* A partition shown as wiped with its disk is: some entry of that disk is marked,
\* unless autonuke made the marks (dwipe.c:293-298), for which it fails.
THEOREM ImpliedAlwaysHasParent == Spec => []ImpliedHasParent
<1>1. Init => ImpliedHasParent
  <2> SUFFICES ASSUME Init, ~autonuke, NEW p \in Entries PROVE select[p] # "TRUE_PARENT"
    BY DEF ImpliedHasParent
  <2>1. select[p] = Enumerated(p)
    BY DEF Init
  <2> QED
    BY <2>1 DEF Enumerated
<1> QED
  BY <1>1, ImpliedStep, MarksAlways, TypeCorrect, PTL DEF Spec
=============================================================================

----------------------------- MODULE GuiSelectMC -----------------------------
(* Instances of GuiSelect for TLC. *)
EXTENDS GuiSelect, Sequences

Entry(d, p)   == [disk |-> d, part |-> p, known |-> TRUE,  usable |-> TRUE]
Closed(d, p)  == [disk |-> d, part |-> p, known |-> TRUE,  usable |-> FALSE]
Unknown(d, p) == [disk |-> d, part |-> p, known |-> FALSE, usable |-> TRUE]

\* Disks with zero to three partitions, in several orders, next to a partition
\* whose disk is not listed, devices that cannot be opened, and devices of unknown
\* type: a lone one, and a disk with its partition.
MCLayouts == {
  <<Entry(1, 0), Entry(1, 1), Entry(1, 2), Entry(2, 0), Entry(2, 1)>>,
  <<Entry(1, 1), Entry(1, 0), Entry(2, 1), Entry(1, 2), Entry(2, 0)>>,
  <<Entry(1, 0), Entry(1, 1), Entry(1, 2), Entry(1, 3), Entry(2, 0)>>,
  <<Closed(1, 0), Entry(1, 1), Entry(1, 2), Entry(2, 1), Unknown(3, 0)>>,
  <<Entry(1, 0), Closed(1, 1), Entry(1, 2), Unknown(2, 0), Unknown(2, 1)>> }
=============================================================================

----------------------------- MODULE MCTapePath -----------------------------
(***************************************************************************)
(* TapePath on a library of two drives, three storage slots and one I/O    *)
(* slot, writing three physical tapes (two drive-sets).  The drive nodes   *)
(* probe in the opposite order of the changer's elements (#137).           *)
(***************************************************************************)
EXTENDS TapePath

CONSTANTS t1, t2, t3, t4, t5

MCTapes == {t1, t2, t3, t4, t5}
MCBlankSlots == <<1, 2, 3>>
MCElementOf == <<2, 1>>

\* A library with the given contents; tapes in "used" hold foreign data.
Holding(slots, drives, sources, station, used) ==
    [slot |-> slots, drive |-> drives, src |-> sources, io |-> station,
     medium |-> [t \in MCTapes |-> IF t \in used THEN "foreign" ELSE "blank"]]

Empty == <<NoTape, NoTape>>

\* Blanks in every slot, two spares with the operator, one unlabelled (t5).
Clean == Holding(<<t1, t2, t3>>, Empty, <<0, 0>>, <<NoTape>>, {})
\* A used tape waits in the second set's slot, the operator holds a blank.
OldTape == Holding(<<t1, t2, t3>>, Empty, <<0, 0>>, <<NoTape>>, {t3})
\* An earlier run left its tape in the drive, its slot still free.
LeftInDrive == Holding(<<t1, t2, NoTape>>, <<t3, NoTape>>, <<3, 0>>, <<NoTape>>, {t3})
\* The first slot's tape, not blank, is already in the drive it belongs to.
Preloaded == Holding(<<NoTape, t2, t3>>, <<NoTape, t1>>, <<0, 1>>, <<NoTape>>, {t1})
\* Tapes in each other's drives.
Swapped == Holding(<<NoTape, NoTape, t3>>, <<t1, t2>>, <<1, 2>>, <<NoTape>>, {})
\* The library lost track of where the loaded tapes came from.
Forgotten == Holding(<<t1, NoTape, NoTape>>, <<t2, t4>>, <<0, 0>>, <<t3>>, {})
\* Two tapes of a cancelled run: drive element 1 holds slot 2's tape, which is
\* no longer blank, element 2 holds slot 3's, and slot 3 was refilled.
Refilled == Holding(<<t1, NoTape, t4>>, <<t2, t3>>, <<2, 3>>, <<NoTape>>, {t2, t3})

MCLayouts == {Clean, OldTape, LeftInDrive, Preloaded, Swapped, Forgotten, Refilled}
=============================================================================

---------------------------- MODULE TapeLibrary ----------------------------
(***************************************************************************)
(* The robotic tape library as workflows/backup sees it through            *)
(* pkg/tape.Changer: storage slots, drives (data-transfer elements), the   *)
(* import/export station, and the medium each cartridge holds.  A          *)
(* cartridge is its barcode, the identity the code uses throughout.        *)
(*                                                                         *)
(* A MOVE MEDIUM is one atomic step: it either happens, or the changer     *)
(* reports an error and nothing moved.                                     *)
(***************************************************************************)
EXTENDS Integers, FiniteSets

CONSTANTS
    Tapes,      \* cartridges, identified by barcode
    NoTape,     \* an empty element
    NumSlots,   \* storage slots, 1-based friendly addresses
    NumDrives,  \* drives, both configured nodes and changer elements
    NumIO       \* import/export slots

Slots  == 1..NumSlots
Drives == 1..NumDrives
IOs    == 1..NumIO

MaybeTape == Tapes \cup {NoTape}

ASSUME LibraryAssumption ==
    /\ NoTape \notin Tapes
    /\ NumSlots \in Nat /\ NumDrives \in Nat /\ NumIO \in Nat

VARIABLES
    slot,    \* slot[s]: the tape in storage slot s
    drive,   \* drive[e]: the tape in drive element e
    src,     \* src[e]: the reported SourceSlot of the tape in e, 0 unknown
    io,      \* io[i]: the tape in I/O slot i
    medium,  \* medium[t]: what tape t carries
    holds    \* holds[t]: the (tape, copy) pair last streamed to t, 0 none

libVars == <<slot, drive, src, io, medium, holds>>

(***************************************************************************)
(* "blank": nothing at the first block.  "foreign": data that predates the *)
(* run.  "partial": an LTFS volume of this run without its final index.    *)
(* "complete": tree, manifest and index of holds[t] are all on the tape.   *)
(***************************************************************************)
Media == {"blank", "foreign", "partial", "complete"}

Inventory == [slot : [Slots -> MaybeTape], drive : [Drives -> MaybeTape],
              src : [Drives -> Slots \cup {0}]]

\* READ ELEMENT STATUS, the part Load keeps as its snapshot.
Snapshot == [slot |-> slot, drive |-> drive, src |-> src]

\* The library refuses a move from an empty element or to a full one.
CanLoad(s, e)     == slot[s] # NoTape /\ drive[e] = NoTape
CanUnload(s, e)   == drive[e] # NoTape /\ slot[s] = NoTape
CanTransfer(s, i) == slot[s] # NoTape /\ io[i] = NoTape

\* Changer.Load: storage slot s to drive e, which then reports s as source.
MoveLoad(s, e) ==
    /\ slot'  = [slot EXCEPT ![s] = NoTape]
    /\ drive' = [drive EXCEPT ![e] = slot[s]]
    /\ src'   = [src EXCEPT ![e] = s]
    /\ UNCHANGED <<io, medium, holds>>

\* Changer.Unload: drive e to storage slot s.
MoveUnload(s, e) ==
    /\ slot'  = [slot EXCEPT ![s] = drive[e]]
    /\ drive' = [drive EXCEPT ![e] = NoTape]
    /\ src'   = [src EXCEPT ![e] = 0]
    /\ UNCHANGED <<io, medium, holds>>

\* Changer.Transfer: storage slot s to I/O slot i.
MoveTransfer(s, i) ==
    /\ slot' = [slot EXCEPT ![s] = NoTape]
    /\ io'   = [io EXCEPT ![i] = slot[s]]
    /\ UNCHANGED <<drive, src, medium, holds>>

\* Mutant: claims of this Load's earlier relocations are not consulted.
MutFreeStorageSlot(inv, prefer, relocated) ==
    LET free == {s \in Slots : inv.slot[s] = NoTape}
    IN  IF prefer \in free THEN {prefer}
        ELSE {s \in free : \A other \in free : s <= other}

(***************************************************************************)
(* findFreeStorageSlot: the slot chosen, as a set that is empty when the   *)
(* code returns -1.  It reads the snapshot inv, prefers the tape's own     *)
(* source slot, and skips slots claimed by this Load's relocations.        *)
(***************************************************************************)
FreeStorageSlot(inv, prefer, relocated) ==
    LET free == {s \in Slots : inv.slot[s] = NoTape /\ relocated[s] = NoTape}
    IN  IF prefer \in free THEN {prefer}
        ELSE {s \in free : \A other \in free : s <= other}

\* findFreeIOSlot: the first empty I/O slot, as a set that is empty for -1.
FreeIOSlot ==
    LET free == {i \in IOs : io[i] = NoTape}
    IN  {i \in free : \A other \in free : i <= other}

\* The barcode reconcileLoad expects at target: its own relocations first,
\* then the snapshot (slotBarcode).
TargetBarcode(inv, target, relocated) ==
    IF relocated[target] # NoTape THEN relocated[target] ELSE inv.slot[target]

InDrive(t) == \E e \in Drives : drive[e] = t
InSlot(t)  == \E s \in Slots : slot[s] = t
InIO(t)    == \E i \in IOs : io[i] = t
Outside(t) == ~InDrive(t) /\ ~InSlot(t) /\ ~InIO(t)

LibraryTypeOK ==
    /\ slot \in [Slots -> MaybeTape]
    /\ drive \in [Drives -> MaybeTape]
    /\ src \in [Drives -> Slots \cup {0}]
    /\ io \in [IOs -> MaybeTape]
    /\ medium \in [Tapes -> Media]
    /\ holds \in [Tapes -> Nat]

(***************************************************************************)
(* A cartridge is in one place at a time: no two elements hold it.         *)
(***************************************************************************)
OnePlace ==
    /\ \A s1, s2 \in Slots : slot[s1] = slot[s2] /\ slot[s1] # NoTape => s1 = s2
    /\ \A e1, e2 \in Drives : drive[e1] = drive[e2] /\ drive[e1] # NoTape => e1 = e2
    /\ \A i1, i2 \in IOs : io[i1] = io[i2] /\ io[i1] # NoTape => i1 = i2
    /\ \A s \in Slots, e \in Drives : slot[s] = drive[e] => slot[s] = NoTape
    /\ \A s \in Slots, i \in IOs : slot[s] = io[i] => slot[s] = NoTape
    /\ \A e \in Drives, i \in IOs : drive[e] = io[i] => drive[e] = NoTape
=============================================================================

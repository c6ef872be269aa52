--------------------------- MODULE TapePathProofs ---------------------------
(***************************************************************************)
(* Proofs about TapePath, for every library size, number of tapes, fault   *)
(* budget and starting layout.                                             *)
(***************************************************************************)
EXTENDS TapePath, TLAPS

Active == {"formatting", "streaming"}
Loading == {"next", "move", "check"}

\* Where the workflow and the changer activity can be at the same time, and
\* what each activity step may rely on.
Control ==
    /\ wf \in Pauses \cup {"plan", "write", "writing", "ok", "failed"} => act = "idle"
    /\ wf = "load" => act \in LoadSteps \cup {"idle"}
    /\ wf = "return" => act = "return"
    /\ wf = "eject" => act \in {"eject", "transfer"}
    /\ act = "return" => wf = "return"
    /\ act = "transfer" => queue # <<>>
    /\ act \in {"move", "check", "restore"} => todo # <<>>
    /\ act = "check" => barcode \in Tapes
    /\ \A d \in Drives : stage[d] \in Active =>
         /\ act = "idle" /\ wf \in {"writing", "cancelled"}
         /\ \E n \in DOMAIN loaded : loaded[n].drive = d

TypeInv == TypeOK /\ Control

\* No two entries share a drive or a slot.
Apart(s) == \A m, n \in DOMAIN s :
    s[m].drive = s[n].drive \/ s[m].slot = s[n].slot => m = n

\* The drives hold the tapes Load reported.
Held == \A n \in DOMAIN loaded : drive[ElementOf[loaded[n].drive]] = loaded[n].tape

\* How Load's snapshot and relocation claims relate to the library while it
\* works through its assignments.
LoadView ==
    /\ Apart(todo) /\ Apart(loaded) /\ Held
    /\ \A m \in DOMAIN todo, n \in DOMAIN loaded :
         todo[m].drive # loaded[n].drive /\ todo[m].slot # loaded[n].slot
    /\ \A s \in Slots : inv.slot[s] = NoTape /\ relocated[s] = NoTape => slot[s] = NoTape
    /\ \A n \in DOMAIN todo : (act = "check" => n # 1) =>
         slot[todo[n].slot] = TargetBarcode(inv, todo[n].slot, relocated)
    /\ \A n \in DOMAIN todo : (act = "next" \/ n # 1) =>
         drive[ElementOf[todo[n].drive]] = inv.drive[ElementOf[todo[n].drive]]
    /\ act = "move" => drive[ElementOf[todo[1].drive]] = NoTape
    /\ act = "check" => drive[ElementOf[todo[1].drive]] = barcode

\* The assignments of a pass, and the failed tapes it may retry, are apart.
SetsApart ==
    /\ Apart(pending)
    /\ wf \in {"writing", "eject", "ejectPause", "writePause"} =>
         /\ Apart(loaded) /\ Apart(failed)
         /\ \A m \in DOMAIN failed : \E n \in DOMAIN loaded : failed[m] = loaded[n]
    /\ wf = "writing" => \A m \in DOMAIN failed : stage[failed[m].drive] = "done"

LoadInv ==
    /\ OnePlace /\ SetsApart
    /\ act \in Loading => LoadView
    /\ wf \in {"write", "writing"} \/ (\E d \in Drives : stage[d] \in Active) =>
         Held /\ Apart(loaded)

\* Without AllowNonBlank, only blank tapes reach mkltfs and only this run's
\* unfinished tapes are streamed to; finished ones are left alone.
MediaInv ==
    /\ act \in Loading \/ wf = "write" =>
         \A n \in DOMAIN loaded : medium[loaded[n].tape] = "blank"
    /\ \A d \in Drives : stage[d] = "formatting" => medium[MediumIn(d)] = "blank"
    /\ \A d \in Drives : stage[d] = "streaming" => medium[MediumIn(d)] = "partial"
    /\ \A n \in DOMAIN written :
         medium[written[n].tape] = "complete" /\ holds[written[n].tape] = written[n].pair
    /\ RecordedIntact

-----------------------------------------------------------------------------
(* Facts about sequences used below *)

\* What Head and Tail do to a non-empty work list.
LEMMA HeadTail ==
    ASSUME NEW S, NEW s \in Seq(S), s # <<>>
    PROVE  /\ Head(s) \in S /\ Head(s) = s[1] /\ 1 \in DOMAIN s
           /\ Tail(s) \in Seq(S)
           /\ \A n \in DOMAIN Tail(s) : /\ n \in Nat /\ n # 0
                                        /\ n + 1 \in DOMAIN s /\ Tail(s)[n] = s[n + 1]
  OBVIOUS

\* What Append does.
LEMMA AppendOne ==
    ASSUME NEW S, NEW s \in Seq(S), NEW x \in S
    PROVE  /\ Append(s, x) \in Seq(S)
           /\ DOMAIN Append(s, x) = DOMAIN s \cup {Len(s) + 1}
           /\ \A n \in DOMAIN s : Append(s, x)[n] = s[n] /\ n # Len(s) + 1
           /\ Append(s, x)[Len(s) + 1] = x
  OBVIOUS

-----------------------------------------------------------------------------
(* Type correctness *)

\* A changer move, or the operator's hands, leave the library well formed.
LEMMA MoveTransferTypes ==
    ASSUME LibraryTypeOK, NEW s \in Slots, NEW i \in IOs, MoveTransfer(s, i)
    PROVE  LibraryTypeOK'
  BY DEF LibraryTypeOK, MoveTransfer, MaybeTape

LEMMA LoadUnloadTypes ==
    ASSUME LibraryTypeOK, NEW s \in Slots, NEW e \in Drives,
           MoveLoad(s, e) \/ MoveUnload(s, e)
    PROVE  LibraryTypeOK'
  BY DEF LibraryTypeOK, MoveLoad, MoveUnload, MaybeTape

LEMMA LibraryUnchanged == LibraryTypeOK /\ UNCHANGED libVars => LibraryTypeOK'
  BY DEF LibraryTypeOK, libVars

\* The fault budget is never exceeded.
LEMMA FaultTypes ==
    ASSUME faults \in 0..MaxFaults, NEW feasible,
           Fault \/ CommandFails(feasible) \/ UNCHANGED faults
    PROVE  faults' \in 0..MaxFaults
  BY TapePathAssumption DEF Fault, CommandFails

\* The assignment Load is working on, and the tape Eject is working on.
LEMMA TodoHead ==
    ASSUME ActivityTypeOK, todo # <<>>
    PROVE  /\ Head(todo) \in Assignment /\ Head(todo).pair \in Pairs
           /\ Head(todo).slot \in Slots /\ Head(todo).drive \in Drives
           /\ Element(Head(todo)) \in Drives
           /\ Tail(todo) \in Seq(Assignment)
  <1>1. todo \in Seq(Assignment)
    BY DEF ActivityTypeOK
  <1>2. Head(todo) \in Assignment /\ Tail(todo) \in Seq(Assignment)
    BY <1>1, HeadTail
  <1> QED
    BY <1>2, TapePathAssumption DEF Assignment, Element

LEMMA QueueHead ==
    ASSUME ActivityTypeOK, queue # <<>>
    PROVE  /\ Head(queue) \in LoadedTape /\ Head(queue).tape \in Tapes
           /\ Head(queue).slot \in Slots /\ Head(queue).drive \in Drives
           /\ Element(Head(queue)) \in Drives
           /\ Tail(queue) \in Seq(LoadedTape)
  <1>1. queue \in Seq(LoadedTape)
    BY DEF ActivityTypeOK
  <1>2. Head(queue) \in LoadedTape /\ Tail(queue) \in Seq(LoadedTape)
    BY <1>1, HeadTail
  <1> QED
    BY <1>2, TapePathAssumption DEF LoadedTape, Element

LEMMA SlotsOfTypes ==
    ASSUME NEW s, s \in Seq(Assignment) \/ s \in Seq(LoadedTape)
    PROVE  SlotsOf(s) \subseteq Slots
  <1>1. \A n \in DOMAIN s : s[n] \in Assignment \/ s[n] \in LoadedTape
    OBVIOUS
  <1> QED
    BY <1>1 DEF SlotsOf, Range, Assignment, LoadedTape

LEMMA TypeInit == Init => TypeInv
  BY LibraryAssumption, TapePathAssumption
  DEF Init, TypeInv, TypeOK, Control, LibraryTypeOK, FlowTypeOK, ActivityTypeOK, Layout,
      Terminal, Pauses, LoadSteps, EmptyInventory, NoneClaimed, Inventory, MaybeTape, Media,
      Active, Slots, Drives, IOs

LEMMA TypeNext == TypeInv /\ [Next]_vars => TypeInv'
  <1> SUFFICES ASSUME TypeInv, [Next]_vars PROVE TypeInv'
    OBVIOUS
  <1> USE LibraryAssumption, TapePathAssumption
      DEF TypeInv, TypeOK, Terminal, Pauses, LoadSteps, Active
  <1>1. CASE RunTapePath
    <2>1. LibraryTypeOK'
      BY <1>1, LibraryUnchanged DEF RunTapePath, libVars, setVars, writeVars, loadVars, ejectVars
    <2>a. ~PlanError /\ base # Total =>
            /\ NextDriveSet \in Seq(Assignment) /\ base + Len(NextDriveSet) \in 0..Total
      <3> DEFINE size == IF Total - base < NumDrives THEN Total - base ELSE NumDrives
      <3> SUFFICES ASSUME ~PlanError, base # Total
                   PROVE  NextDriveSet \in Seq(Assignment) /\ base + Len(NextDriveSet) \in 0..Total
        OBVIOUS
      <3>1. base \in 0..Total /\ size \in Nat /\ base + size <= Total /\ size <= NumDrives
        BY DEF FlowTypeOK
      <3>2. \A n \in 1..size : base + n \in Pairs /\ n \in Drives /\ BlankSlots[base + n] \in Slots
        BY <3>1 DEF PlanError, Pairs, Drives
      <3>3. NextDriveSet = [n \in 1..size |-> [pair |-> base + n, drive |-> n, slot |-> BlankSlots[base + n]]]
        BY DEF NextDriveSet
      <3>4. \A n \in 1..size : NextDriveSet[n] \in Assignment
        BY <3>2, <3>3 DEF Assignment
      <3> HIDE DEF size
      <3>5. NextDriveSet \in Seq(Assignment) /\ Len(NextDriveSet) = size
        BY <3>1, <3>3, <3>4
      <3> QED
        BY <3>1, <3>5
    <2>2. FlowTypeOK'
      BY <1>1, <2>a DEF RunTapePath, FlowTypeOK, libVars, setVars, writeVars, loadVars, ejectVars
    <2>3. ActivityTypeOK'
      BY <1>1 DEF RunTapePath, ActivityTypeOK, libVars, setVars, writeVars, loadVars, ejectVars
    <2>4. Control'
      BY <1>1 DEF RunTapePath, Control, FlowTypeOK, ActivityTypeOK, libVars, setVars, writeVars, loadVars, ejectVars
    <2> QED
      BY <2>1, <2>2, <2>3, <2>4
  <1>2. CASE LoadStart
    <2>1. LibraryTypeOK'
      BY <1>2, LibraryUnchanged DEF LoadStart, libVars, setVars, writeVars, loadVars, ejectVars
    <2>2. FlowTypeOK'
      BY <1>2 DEF LoadStart, FlowTypeOK, libVars, setVars, writeVars, loadVars, ejectVars
    <2>3. ActivityTypeOK'
      BY <1>2 DEF LoadStart, ActivityTypeOK, FlowTypeOK, LibraryTypeOK, Snapshot, Inventory, NoneClaimed, MaybeTape, libVars, setVars, writeVars, loadVars, ejectVars
    <2>4. Control'
      BY <1>2 DEF LoadStart, Control, FlowTypeOK, ActivityTypeOK, libVars, setVars, writeVars, loadVars, ejectVars
    <2> QED
      BY <2>1, <2>2, <2>3, <2>4
  <1>3. CASE LoadSkip
    <2>1. /\ Head(todo) \in Assignment /\ Element(Head(todo)) \in Drives
          /\ Head(todo).slot \in Slots /\ Tail(todo) \in Seq(Assignment)
      BY <1>3, TodoHead DEF LoadSkip, Control
    <2>2. LibraryTypeOK'
      BY <1>3, <2>1, LibraryUnchanged DEF LoadSkip, libVars, setVars, writeVars, loadVars, ejectVars
    <2>3. FlowTypeOK'
      BY <1>3, <2>1 DEF LoadSkip, FlowTypeOK, libVars, setVars, writeVars, loadVars, ejectVars
    <2>4. ActivityTypeOK'
      BY <1>3, <2>1 DEF LoadSkip, ActivityTypeOK, Inventory, libVars, setVars, writeVars, loadVars, ejectVars
    <2>5. Control'
      BY <1>3, <2>1 DEF LoadSkip, Control, FlowTypeOK, ActivityTypeOK, Inventory, MaybeTape, libVars, setVars, writeVars, loadVars, ejectVars
    <2> QED
      BY <2>2, <2>3, <2>4, <2>5
  <1>4. CASE LoadRelocate
    <2>1. /\ Head(todo) \in Assignment /\ Element(Head(todo)) \in Drives
          /\ Head(todo).slot \in Slots /\ Tail(todo) \in Seq(Assignment)
      BY <1>4, TodoHead DEF LoadRelocate, Control
    <2>2. LibraryTypeOK'
      BY <1>4, <2>1, LoadUnloadTypes, LibraryUnchanged DEF LoadRelocate, FreeStorageSlot, libVars, setVars, writeVars, loadVars, ejectVars
    <2>3. FlowTypeOK'
      BY <1>4, <2>1, FaultTypes DEF LoadRelocate, FlowTypeOK, libVars, setVars, writeVars, loadVars, ejectVars
    <2>4. ActivityTypeOK'
      BY <1>4, <2>1 DEF LoadRelocate, ActivityTypeOK, Inventory, FreeStorageSlot, libVars, setVars, writeVars, loadVars, ejectVars
    <2>5. Control'
      BY <1>4, <2>1 DEF LoadRelocate, Control, FlowTypeOK, ActivityTypeOK, libVars, setVars, writeVars, loadVars, ejectVars
    <2> QED
      BY <2>2, <2>3, <2>4, <2>5
  <1>5. CASE LoadMove
    <2>1. /\ Head(todo) \in Assignment /\ Element(Head(todo)) \in Drives
          /\ Head(todo).slot \in Slots /\ Tail(todo) \in Seq(Assignment)
      BY <1>5, TodoHead DEF LoadMove, Control
    <2>2. LibraryTypeOK'
      BY <1>5, <2>1, LoadUnloadTypes, LibraryUnchanged DEF LoadMove, libVars, setVars, writeVars, loadVars, ejectVars
    <2>3. FlowTypeOK'
      BY <1>5, <2>1, FaultTypes DEF LoadMove, FlowTypeOK, libVars, setVars, writeVars, loadVars, ejectVars
    <2>4. ActivityTypeOK'
      BY <1>5, <2>1 DEF LoadMove, ActivityTypeOK, Inventory, TargetBarcode, libVars, setVars, writeVars, loadVars, ejectVars
    <2>5. Control'
      BY <1>5, <2>1 DEF LoadMove, Control, FlowTypeOK, ActivityTypeOK, TargetBarcode, Inventory, MaybeTape, libVars, setVars, writeVars, loadVars, ejectVars
    <2> QED
      BY <2>2, <2>3, <2>4, <2>5
  <1>6. CASE LoadCheck
    <2>1. /\ Head(todo) \in Assignment /\ Element(Head(todo)) \in Drives
          /\ Head(todo).slot \in Slots /\ Tail(todo) \in Seq(Assignment)
      BY <1>6, TodoHead DEF LoadCheck, Control
    <2>2. LibraryTypeOK'
      BY <1>6, <2>1, LibraryUnchanged DEF LoadCheck, libVars, setVars, writeVars, loadVars, ejectVars
    <2>3. FlowTypeOK'
      BY <1>6, <2>1, FaultTypes DEF LoadCheck, FlowTypeOK, libVars, setVars, writeVars, loadVars, ejectVars
    <2>a. [pair |-> Head(todo).pair, drive |-> Head(todo).drive, slot |-> Head(todo).slot,
           tape |-> barcode] \in LoadedTape
      BY <1>6, <2>1 DEF LoadCheck, Control, Assignment, LoadedTape
    <2>b. Append(inDrives, <<Head(todo).slot, Element(Head(todo))>>) \in Seq(Slots \X Drives)
      BY <2>1, AppendOne DEF ActivityTypeOK
    <2>c. Append(loaded, [pair |-> Head(todo).pair, drive |-> Head(todo).drive,
                          slot |-> Head(todo).slot, tape |-> barcode]) \in Seq(LoadedTape)
      BY <2>a, AppendOne DEF ActivityTypeOK
    <2>4. ActivityTypeOK'
      BY <1>6, <2>1, <2>b, <2>c DEF LoadCheck, ActivityTypeOK, libVars, setVars, writeVars, loadVars, ejectVars
    <2>5. Control'
      BY <1>6, <2>1 DEF LoadCheck, Control, FlowTypeOK, ActivityTypeOK, libVars, setVars, writeVars, loadVars, ejectVars
    <2> QED
      BY <2>2, <2>3, <2>4, <2>5
  <1>7. CASE LoadDone
    <2>1. LibraryTypeOK'
      BY <1>7, LibraryUnchanged DEF LoadDone, libVars, setVars, writeVars, loadVars, ejectVars
    <2>2. FlowTypeOK'
      BY <1>7 DEF LoadDone, FlowTypeOK, libVars, setVars, writeVars, loadVars, ejectVars
    <2>3. ActivityTypeOK'
      BY <1>7 DEF LoadDone, ActivityTypeOK, libVars, setVars, writeVars, loadVars, ejectVars
    <2>4. Control'
      BY <1>7 DEF LoadDone, Control, FlowTypeOK, ActivityTypeOK, libVars, setVars, writeVars, loadVars, ejectVars
    <2> QED
      BY <2>1, <2>2, <2>3, <2>4
  <1>8. CASE LoadRestore
    <2>1. Head(inDrives)[1] \in Slots /\ Head(inDrives)[2] \in Drives
      BY <1>8, HeadTail DEF LoadRestore, ActivityTypeOK
    <2>2. LibraryTypeOK'
      BY <1>8, <2>1, LoadUnloadTypes, LibraryUnchanged DEF LoadRestore, libVars, setVars, writeVars, loadVars, ejectVars
    <2>3. FlowTypeOK'
      BY <1>8, <2>1, FaultTypes DEF LoadRestore, FlowTypeOK, libVars, setVars, writeVars, loadVars, ejectVars
    <2>4. ActivityTypeOK'
      BY <1>8, <2>1, HeadTail DEF LoadRestore, ActivityTypeOK, libVars, setVars, writeVars, loadVars, ejectVars
    <2>5. Control'
      BY <1>8, <2>1 DEF LoadRestore, Control, FlowTypeOK, ActivityTypeOK, libVars, setVars, writeVars, loadVars, ejectVars
    <2> QED
      BY <2>2, <2>3, <2>4, <2>5
  <1>9. CASE LoadFailed
    <2>1. SlotsOf(pending) \subseteq Slots
      BY SlotsOfTypes DEF FlowTypeOK
    <2>2. Head(todo).slot \in Slots
      BY <1>9, TodoHead DEF LoadFailed, Control
    <2>3. LibraryTypeOK'
      BY <1>9, <2>1, <2>2, LibraryUnchanged DEF LoadFailed, libVars, setVars, writeVars, loadVars, ejectVars
    <2>4. FlowTypeOK'
      BY <1>9, <2>1, <2>2 DEF LoadFailed, FlowTypeOK, PauseOnLoad, libVars, setVars, writeVars, loadVars, ejectVars
    <2>5. ActivityTypeOK'
      BY <1>9, <2>1, <2>2 DEF LoadFailed, ActivityTypeOK, libVars, setVars, writeVars, loadVars, ejectVars
    <2>6. Control'
      BY <1>9, <2>1, <2>2 DEF LoadFailed, Control, FlowTypeOK, ActivityTypeOK, PauseOnLoad, libVars, setVars, writeVars, loadVars, ejectVars
    <2> QED
      BY <2>3, <2>4, <2>5, <2>6
  <1>10. CASE LoadLost
    <2>1. SlotsOf(pending) \subseteq Slots
      BY SlotsOfTypes DEF FlowTypeOK
    <2>2. LibraryTypeOK'
      BY <1>10, <2>1, LibraryUnchanged DEF LoadLost, libVars, setVars, writeVars, loadVars, ejectVars
    <2>3. FlowTypeOK'
      BY <1>10, <2>1, FaultTypes DEF LoadLost, FlowTypeOK, PauseOnLoad, libVars, setVars, writeVars, loadVars, ejectVars
    <2>4. ActivityTypeOK'
      BY <1>10, <2>1 DEF LoadLost, ActivityTypeOK, MaybeTape, libVars, setVars, writeVars, loadVars, ejectVars
    <2>5. Control'
      BY <1>10, <2>1 DEF LoadLost, Control, FlowTypeOK, ActivityTypeOK, PauseOnLoad, libVars, setVars, writeVars, loadVars, ejectVars
    <2> QED
      BY <2>2, <2>3, <2>4, <2>5
  <1>11. CASE WriteStart
    <2>1. LibraryTypeOK'
      BY <1>11, LibraryUnchanged DEF WriteStart, libVars, setVars, writeVars, loadVars, ejectVars
    <2>2. FlowTypeOK'
      BY <1>11 DEF WriteStart, FlowTypeOK, libVars, setVars, writeVars, loadVars, ejectVars
    <2>3. ActivityTypeOK'
      BY <1>11 DEF WriteStart, ActivityTypeOK, libVars, setVars, writeVars, loadVars, ejectVars
    <2>4. Control'
      BY <1>11 DEF WriteStart, Control, FlowTypeOK, ActivityTypeOK, Range, libVars, setVars, writeVars, loadVars, ejectVars
    <2> QED
      BY <2>1, <2>2, <2>3, <2>4
  <1>12. CASE WriteFault
    <2>1. LibraryTypeOK'
      BY <1>12, LibraryUnchanged DEF WriteFault, libVars, setVars, writeVars, loadVars, ejectVars
    <2>2. FlowTypeOK'
      BY <1>12, FaultTypes DEF WriteFault, FlowTypeOK, libVars, setVars, writeVars, loadVars, ejectVars
    <2>3. ActivityTypeOK'
      BY <1>12 DEF WriteFault, ActivityTypeOK, LibraryTypeOK, Snapshot, Inventory, libVars, setVars, writeVars, loadVars, ejectVars
    <2>4. Control'
      BY <1>12 DEF WriteFault, Control, FlowTypeOK, ActivityTypeOK, libVars, setVars, writeVars, loadVars, ejectVars
    <2> QED
      BY <2>1, <2>2, <2>3, <2>4
  <1>13. CASE ReturnTape
    <2>1. /\ Head(queue).slot \in Slots /\ Element(Head(queue)) \in Drives
          /\ Tail(queue) \in Seq(LoadedTape)
      BY <1>13, QueueHead DEF ReturnTape
    <2>2. LibraryTypeOK'
      BY <1>13, <2>1, LoadUnloadTypes, LibraryUnchanged DEF ReturnTape, libVars, setVars, writeVars, loadVars, ejectVars
    <2>3. FlowTypeOK'
      BY <1>13, <2>1, FaultTypes DEF ReturnTape, FlowTypeOK, libVars, setVars, writeVars, loadVars, ejectVars
    <2>4. ActivityTypeOK'
      BY <1>13, <2>1 DEF ReturnTape, ActivityTypeOK, libVars, setVars, writeVars, loadVars, ejectVars
    <2>5. Control'
      BY <1>13, <2>1 DEF ReturnTape, Control, FlowTypeOK, ActivityTypeOK, libVars, setVars, writeVars, loadVars, ejectVars
    <2> QED
      BY <2>2, <2>3, <2>4, <2>5
  <1>14. CASE ReturnDone
    <2>1. LibraryTypeOK'
      BY <1>14, LibraryUnchanged DEF ReturnDone, libVars, setVars, writeVars, loadVars, ejectVars
    <2>2. FlowTypeOK'
      BY <1>14 DEF ReturnDone, FlowTypeOK, libVars, setVars, writeVars, loadVars, ejectVars
    <2>3. ActivityTypeOK'
      BY <1>14 DEF ReturnDone, ActivityTypeOK, libVars, setVars, writeVars, loadVars, ejectVars
    <2>4. Control'
      BY <1>14 DEF ReturnDone, Control, FlowTypeOK, ActivityTypeOK, libVars, setVars, writeVars, loadVars, ejectVars
    <2> QED
      BY <2>1, <2>2, <2>3, <2>4
  <1>15. CASE ReturnLost
    <2>1. LibraryTypeOK'
      BY <1>15, LibraryUnchanged DEF ReturnLost, libVars, setVars, writeVars, loadVars, ejectVars
    <2>2. FlowTypeOK'
      BY <1>15, FaultTypes DEF ReturnLost, FlowTypeOK, libVars, setVars, writeVars, loadVars, ejectVars
    <2>3. ActivityTypeOK'
      BY <1>15 DEF ReturnLost, ActivityTypeOK, libVars, setVars, writeVars, loadVars, ejectVars
    <2>4. Control'
      BY <1>15 DEF ReturnLost, Control, FlowTypeOK, ActivityTypeOK, libVars, setVars, writeVars, loadVars, ejectVars
    <2> QED
      BY <2>1, <2>2, <2>3, <2>4
  <1>16. CASE WriteDone
    <2>1. LibraryTypeOK'
      BY <1>16, LibraryUnchanged DEF WriteDone, libVars, setVars, writeVars, loadVars, ejectVars
    <2>2. FlowTypeOK'
      BY <1>16 DEF WriteDone, FlowTypeOK, libVars, setVars, writeVars, loadVars, ejectVars
    <2>3. ActivityTypeOK'
      BY <1>16 DEF WriteDone, ActivityTypeOK, FlowTypeOK, libVars, setVars, writeVars, loadVars, ejectVars
    <2>4. Control'
      BY <1>16 DEF WriteDone, Control, FlowTypeOK, ActivityTypeOK, libVars, setVars, writeVars, loadVars, ejectVars
    <2> QED
      BY <2>1, <2>2, <2>3, <2>4
  <1>17. CASE EjectUnload
    <2>1. Head(queue).slot \in Slots /\ Tail(queue) \in Seq(LoadedTape)
      BY <1>17, QueueHead DEF EjectUnload
    <2>2. LibraryTypeOK'
      BY <1>17, <2>1, LoadUnloadTypes, LibraryUnchanged DEF EjectUnload, libVars, setVars, writeVars, loadVars, ejectVars
    <2>3. FlowTypeOK'
      BY <1>17, <2>1 DEF EjectUnload, FlowTypeOK, libVars, setVars, writeVars, loadVars, ejectVars
    <2>4. ActivityTypeOK'
      BY <1>17, <2>1 DEF EjectUnload, ActivityTypeOK, FreeIOSlot, libVars, setVars, writeVars, loadVars, ejectVars
    <2>5. Control'
      BY <1>17, <2>1 DEF EjectUnload, Control, FlowTypeOK, ActivityTypeOK, libVars, setVars, writeVars, loadVars, ejectVars
    <2> QED
      BY <2>2, <2>3, <2>4, <2>5
  <1>18. CASE EjectTransfer
    <2>1. /\ Head(queue) \in LoadedTape /\ Head(queue).slot \in Slots
          /\ Tail(queue) \in Seq(LoadedTape)
      BY <1>18, QueueHead DEF EjectTransfer, Control
    <2>2. LibraryTypeOK'
      BY <1>18, <2>1, MoveTransferTypes, LibraryUnchanged DEF EjectTransfer, ActivityTypeOK, libVars, setVars, writeVars, loadVars, ejectVars
    <2>3. FlowTypeOK'
      BY <1>18, <2>1 DEF EjectTransfer, FlowTypeOK, libVars, setVars, writeVars, loadVars, ejectVars
    <2>a. Append(remaining, Head(queue)) \in Seq(LoadedTape)
      BY <2>1, AppendOne DEF ActivityTypeOK
    <2>4. ActivityTypeOK'
      BY <1>18, <2>1, <2>a DEF EjectTransfer, ActivityTypeOK, libVars, setVars, writeVars, loadVars, ejectVars
    <2>5. Control'
      BY <1>18, <2>1 DEF EjectTransfer, Control, FlowTypeOK, ActivityTypeOK, libVars, setVars, writeVars, loadVars, ejectVars
    <2> QED
      BY <2>2, <2>3, <2>4, <2>5
  <1>19. CASE EjectLost
    <2>1. LibraryTypeOK'
      BY <1>19, LibraryUnchanged DEF EjectLost, libVars, setVars, writeVars, loadVars, ejectVars
    <2>2. FlowTypeOK'
      BY <1>19, FaultTypes DEF EjectLost, FlowTypeOK, libVars, setVars, writeVars, loadVars, ejectVars
    <2>3. ActivityTypeOK'
      BY <1>19 DEF EjectLost, ActivityTypeOK, libVars, setVars, writeVars, loadVars, ejectVars
    <2>4. Control'
      BY <1>19 DEF EjectLost, Control, FlowTypeOK, ActivityTypeOK, libVars, setVars, writeVars, loadVars, ejectVars
    <2> QED
      BY <2>1, <2>2, <2>3, <2>4
  <1>20. CASE EjectDone
    <2>1. SlotsOf(failed) \subseteq Slots
      BY SlotsOfTypes DEF FlowTypeOK
    <2>2. LibraryTypeOK'
      BY <1>20, <2>1, LibraryUnchanged DEF EjectDone, libVars, setVars, writeVars, loadVars, ejectVars
    <2>3. FlowTypeOK'
      BY <1>20, <2>1 DEF EjectDone, FlowTypeOK, NewlyRecorded, Range, libVars, setVars, writeVars, loadVars, ejectVars
    <2>4. ActivityTypeOK'
      BY <1>20, <2>1 DEF EjectDone, ActivityTypeOK, libVars, setVars, writeVars, loadVars, ejectVars
    <2>5. Control'
      BY <1>20, <2>1 DEF EjectDone, Control, FlowTypeOK, ActivityTypeOK, libVars, setVars, writeVars, loadVars, ejectVars
    <2> QED
      BY <2>2, <2>3, <2>4, <2>5
  <1>21. CASE Resume
    <2>0. \A n \in DOMAIN failed : failed[n] \in LoadedTape
      BY DEF FlowTypeOK
    <2>a. \A n \in DOMAIN failed : RetrySet[n] \in Assignment
      BY <2>0 DEF RetrySet, LoadedTape, Assignment
    <2>b. DOMAIN failed = 1..Len(failed) /\ Len(failed) \in Nat /\ DOMAIN RetrySet = DOMAIN failed
          /\ RetrySet = [n \in 1..Len(failed) |-> RetrySet[n]]
      BY DEF RetrySet, FlowTypeOK
    <2>1. RetrySet \in Seq(Assignment)
      BY <2>a, <2>b
    <2>2. LibraryTypeOK'
      BY <1>21, <2>1, LibraryUnchanged DEF Resume, libVars, setVars, writeVars, loadVars, ejectVars
    <2>3. FlowTypeOK'
      BY <1>21, <2>1 DEF Resume, FlowTypeOK, libVars, setVars, writeVars, loadVars, ejectVars
    <2>4. ActivityTypeOK'
      <3>a. (queue' = queue \/ queue' = remaining) /\ (remaining' = remaining \/ remaining' = <<>>)
        BY <1>21 DEF Resume
      <3>1. queue' \in Seq(LoadedTape) /\ remaining' \in Seq(LoadedTape)
        <4>1. queue \in Seq(LoadedTape) /\ remaining \in Seq(LoadedTape) /\ <<>> \in Seq(LoadedTape)
          BY DEF ActivityTypeOK
        <4> QED
          BY <3>a, <4>1 DEF LoadedTape
      <3> QED
        BY <1>21, <3>1 DEF Resume, ActivityTypeOK, libVars, setVars, writeVars, loadVars, ejectVars
    <2>5. Control'
      BY <1>21, <2>1 DEF Resume, Control, FlowTypeOK, ActivityTypeOK, libVars, setVars, writeVars, loadVars, ejectVars
    <2> QED
      BY <2>2, <2>3, <2>4, <2>5
  <1>22. CASE PauseEnds
    <2>1. LibraryTypeOK'
      BY <1>22, LibraryUnchanged DEF PauseEnds, libVars, setVars, writeVars, loadVars, ejectVars
    <2>2. FlowTypeOK'
      BY <1>22 DEF PauseEnds, FlowTypeOK, libVars, setVars, writeVars, loadVars, ejectVars
    <2>3. ActivityTypeOK'
      BY <1>22 DEF PauseEnds, ActivityTypeOK, libVars, setVars, writeVars, loadVars, ejectVars
    <2>4. Control'
      BY <1>22 DEF PauseEnds, Control, FlowTypeOK, ActivityTypeOK, libVars, setVars, writeVars, loadVars, ejectVars
    <2> QED
      BY <2>1, <2>2, <2>3, <2>4
  <1>23. CASE Cancel
    <2>1. LibraryTypeOK'
      BY <1>23, LibraryUnchanged DEF Cancel, libVars, setVars, writeVars, loadVars, ejectVars
    <2>2. FlowTypeOK'
      BY <1>23 DEF Cancel, FlowTypeOK, libVars, setVars, writeVars, loadVars, ejectVars
    <2>3. ActivityTypeOK'
      BY <1>23 DEF Cancel, ActivityTypeOK, libVars, setVars, writeVars, loadVars, ejectVars
    <2>4. Control'
      BY <1>23 DEF Cancel, Control, FlowTypeOK, ActivityTypeOK, libVars, setVars, writeVars, loadVars, ejectVars
    <2> QED
      BY <2>1, <2>2, <2>3, <2>4
  <1>24. ASSUME NEW d \in Drives, FormatTape(d) PROVE TypeInv'
    <2>1. LoadedIn(d) \in LoadedTape /\ MediumIn(d) \in MaybeTape
      BY <1>24 DEF FormatTape, LoadedIn, MediumIn, Range, Control, FlowTypeOK, ActivityTypeOK, LibraryTypeOK
    <2>2. LibraryTypeOK'
      BY <1>24, <2>1 DEF FormatTape, LibraryTypeOK, Media, MaybeTape, libVars, setVars, writeVars, loadVars, ejectVars
    <2>3. FlowTypeOK'
      BY <1>24, <2>1 DEF FormatTape, FlowTypeOK, libVars, setVars, writeVars, loadVars, ejectVars
    <2>4. ActivityTypeOK'
      BY <1>24, <2>1 DEF FormatTape, ActivityTypeOK, libVars, setVars, writeVars, loadVars, ejectVars
    <2>5. Control'
      BY <1>24, <2>1 DEF FormatTape, Control, FlowTypeOK, ActivityTypeOK, libVars, setVars, writeVars, loadVars, ejectVars
    <2> QED
      BY <2>2, <2>3, <2>4, <2>5
  <1>25. ASSUME NEW d \in Drives, WriteTape(d) PROVE TypeInv'
    <2>1. LoadedIn(d) \in LoadedTape /\ MediumIn(d) \in MaybeTape
      BY <1>25 DEF WriteTape, LoadedIn, MediumIn, Range, Control, FlowTypeOK, ActivityTypeOK, LibraryTypeOK
    <2>2. LibraryTypeOK'
      BY <1>25, <2>1 DEF WriteTape, LibraryTypeOK, Media, MaybeTape, LoadedTape, Pairs, libVars, setVars, writeVars, loadVars, ejectVars
    <2>3. FlowTypeOK'
      BY <1>25, <2>1, AppendOne DEF WriteTape, FlowTypeOK, libVars, setVars, writeVars, loadVars, ejectVars
    <2>4. ActivityTypeOK'
      BY <1>25, <2>1 DEF WriteTape, ActivityTypeOK, libVars, setVars, writeVars, loadVars, ejectVars
    <2>5. Control'
      BY <1>25, <2>1 DEF WriteTape, Control, FlowTypeOK, ActivityTypeOK, libVars, setVars, writeVars, loadVars, ejectVars
    <2> QED
      BY <2>2, <2>3, <2>4, <2>5
  <1>26. ASSUME NEW d \in Drives, WriteTapeFails(d) PROVE TypeInv'
    <2>1. LoadedIn(d) \in LoadedTape /\ MediumIn(d) \in MaybeTape
      BY <1>26 DEF WriteTapeFails, LoadedIn, MediumIn, Range, Control, FlowTypeOK, ActivityTypeOK, LibraryTypeOK
    <2>a. LoadedIn(d).pair \in Nat
      BY <2>1 DEF LoadedTape, Pairs
    <2>b. medium' \in [Tapes -> Media] /\ holds' \in [Tapes -> Nat]
      <3>1. CASE UNCHANGED <<medium, holds>>
        BY <3>1 DEF LibraryTypeOK
      <3>2. CASE /\ MediumIn(d) # NoTape
                 /\ medium' = [medium EXCEPT ![MediumIn(d)] =
                                 IF stage[d] = "streaming" THEN "complete" ELSE "partial"]
                 /\ holds' = [holds EXCEPT ![MediumIn(d)] =
                                 IF stage[d] = "streaming" THEN LoadedIn(d).pair ELSE 0]
        BY <3>2, <2>1, <2>a DEF LibraryTypeOK, Media, MaybeTape
      <3> QED
        BY <1>26, <3>1, <3>2 DEF WriteTapeFails
    <2>2. LibraryTypeOK'
      BY <1>26, <2>b DEF WriteTapeFails, LibraryTypeOK, libVars, setVars, writeVars, loadVars, ejectVars
    <2>3. FlowTypeOK'
      BY <1>26, <2>1, AppendOne, FaultTypes DEF WriteTapeFails, FlowTypeOK, libVars, setVars, writeVars, loadVars, ejectVars
    <2>4. ActivityTypeOK'
      BY <1>26, <2>1 DEF WriteTapeFails, ActivityTypeOK, libVars, setVars, writeVars, loadVars, ejectVars
    <2>5. Control'
      BY <1>26, <2>1 DEF WriteTapeFails, Control, FlowTypeOK, ActivityTypeOK, libVars, setVars, writeVars, loadVars, ejectVars
    <2> QED
      BY <2>2, <2>3, <2>4, <2>5
  <1>27. ASSUME NEW i \in IOs, RemoveFromIO(i) PROVE TypeInv'
    <2>1. LibraryTypeOK'
      BY <1>27 DEF RemoveFromIO, LibraryTypeOK, MaybeTape, libVars, setVars, writeVars, loadVars, ejectVars
    <2>2. FlowTypeOK'
      BY <1>27 DEF RemoveFromIO, FlowTypeOK, libVars, setVars, writeVars, loadVars, ejectVars
    <2>3. ActivityTypeOK'
      BY <1>27 DEF RemoveFromIO, ActivityTypeOK, libVars, setVars, writeVars, loadVars, ejectVars
    <2>4. Control'
      BY <1>27 DEF RemoveFromIO, Control, FlowTypeOK, ActivityTypeOK, libVars, setVars, writeVars, loadVars, ejectVars
    <2> QED
      BY <2>1, <2>2, <2>3, <2>4
  <1>28. ASSUME NEW s \in Slots, Restock(s) PROVE TypeInv'
    <2>1. LibraryTypeOK'
      BY <1>28 DEF Restock, LibraryTypeOK, MaybeTape, libVars, setVars, writeVars, loadVars, ejectVars
    <2>2. FlowTypeOK'
      BY <1>28 DEF Restock, FlowTypeOK, libVars, setVars, writeVars, loadVars, ejectVars
    <2>3. ActivityTypeOK'
      BY <1>28 DEF Restock, ActivityTypeOK, libVars, setVars, writeVars, loadVars, ejectVars
    <2>4. Control'
      BY <1>28 DEF Restock, Control, FlowTypeOK, ActivityTypeOK, libVars, setVars, writeVars, loadVars, ejectVars
    <2> QED
      BY <2>1, <2>2, <2>3, <2>4
  <1>29. CASE UNCHANGED vars
    <2>1. LibraryTypeOK'
      BY <1>29, LibraryUnchanged DEF vars, libVars, setVars, writeVars, loadVars, ejectVars
    <2>2. FlowTypeOK'
      BY <1>29 DEF vars, FlowTypeOK, libVars, setVars, writeVars, loadVars, ejectVars
    <2>3. ActivityTypeOK'
      BY <1>29 DEF vars, ActivityTypeOK, libVars, setVars, writeVars, loadVars, ejectVars
    <2>4. Control'
      BY <1>29 DEF vars, Control, FlowTypeOK, ActivityTypeOK, libVars, setVars, writeVars, loadVars, ejectVars
    <2> QED
      BY <2>1, <2>2, <2>3, <2>4
  <1> QED
    BY <1>1, <1>2, <1>3, <1>4, <1>5, <1>6, <1>7, <1>8, <1>9, <1>10, <1>11, <1>12, <1>13, <1>14, <1>15, <1>16, <1>17, <1>18, <1>19, <1>20, <1>21, <1>22, <1>23, <1>24, <1>25, <1>26, <1>27, <1>28, <1>29
       DEF Next, Worker, LoadNext, WriteNext, EjectNext, Faults, Operator, Ended

\* Every variable of the tape path and the library keeps its type.
THEOREM TypeCorrect == Spec => []TypeOK
  <1>1. TypeInv => TypeOK
    BY DEF TypeInv
  <1> QED
    BY TypeInit, TypeNext, <1>1, PTL DEF Spec

-----------------------------------------------------------------------------
(* A cartridge is in one place *)

LEMMA OnePlaceMoves ==
    ASSUME LibraryTypeOK, OnePlace, NEW s \in Slots, NEW e \in Drives,
           \/ CanLoad(s, e) /\ MoveLoad(s, e)
           \/ CanUnload(s, e) /\ MoveUnload(s, e)
    PROVE  OnePlace'
  <1>1. CASE CanLoad(s, e) /\ MoveLoad(s, e)
    BY <1>1 DEF LibraryTypeOK, OnePlace, CanLoad, MoveLoad
  <1>2. CASE CanUnload(s, e) /\ MoveUnload(s, e)
    BY <1>2 DEF LibraryTypeOK, OnePlace, CanUnload, MoveUnload
  <1> QED
    BY <1>1, <1>2

LEMMA OnePlaceTransfer ==
    ASSUME LibraryTypeOK, OnePlace, NEW s \in Slots, NEW i \in IOs,
           CanTransfer(s, i), MoveTransfer(s, i)
    PROVE  OnePlace'
  BY DEF LibraryTypeOK, OnePlace, CanTransfer, MoveTransfer

LEMMA OnePlaceUnchanged == OnePlace /\ UNCHANGED <<slot, drive, io>> => OnePlace'
  BY DEF OnePlace

LEMMA OnePlaceNext == TypeInv /\ OnePlace /\ [Next]_vars => OnePlace'
  <1> SUFFICES ASSUME TypeInv, OnePlace, [Next]_vars PROVE OnePlace'
    OBVIOUS
  <1> USE DEF TypeInv, TypeOK
  <1>1. CASE LoadRelocate
    <2>1. /\ Element(Head(todo)) \in Drives
          /\ FreeStorageSlot(inv, inv.src[Element(Head(todo))], relocated) \subseteq Slots
      BY <1>1, TodoHead DEF LoadRelocate, FreeStorageSlot
    <2> QED
      BY <1>1, <2>1, OnePlaceMoves, OnePlaceUnchanged DEF LoadRelocate, libVars
  <1>2. CASE LoadMove
    BY <1>2, TodoHead, OnePlaceMoves, OnePlaceUnchanged DEF LoadMove, libVars
  <1>3. CASE LoadRestore
    <2>1. Head(inDrives)[1] \in Slots /\ Head(inDrives)[2] \in Drives
      BY <1>3, HeadTail DEF LoadRestore, ActivityTypeOK
    <2> QED
      BY <1>3, <2>1, OnePlaceMoves, OnePlaceUnchanged DEF LoadRestore, libVars
  <1>4. CASE ReturnTape
    BY <1>4, QueueHead, OnePlaceMoves, OnePlaceUnchanged DEF ReturnTape, libVars
  <1>5. CASE EjectUnload
    BY <1>5, QueueHead, OnePlaceMoves, OnePlaceUnchanged DEF EjectUnload, libVars
  <1>6. CASE EjectTransfer
    BY <1>6, QueueHead, OnePlaceTransfer, OnePlaceUnchanged
    DEF EjectTransfer, libVars, Control, ActivityTypeOK
  <1>7. ASSUME NEW i \in IOs, RemoveFromIO(i) PROVE OnePlace'
    BY <1>7 DEF RemoveFromIO, OnePlace, LibraryTypeOK
  <1>8. ASSUME NEW s \in Slots, Restock(s) PROVE OnePlace'
    BY <1>8, LibraryAssumption
    DEF Restock, OnePlace, LibraryTypeOK, Outside, InSlot, InDrive, InIO
  <1>9. ASSUME NEW d \in Drives, FormatTape(d) \/ WriteTape(d) \/ WriteTapeFails(d) PROVE OnePlace'
    BY <1>9, OnePlaceUnchanged DEF FormatTape, WriteTape, WriteTapeFails
  <1>10. CASE UNCHANGED libVars
    BY <1>10, OnePlaceUnchanged DEF libVars
  <1>11. \/ LoadRelocate \/ LoadMove \/ LoadRestore \/ ReturnTape \/ EjectUnload \/ EjectTransfer
         \/ UNCHANGED libVars
         \/ \E d \in Drives : FormatTape(d) \/ WriteTape(d) \/ WriteTapeFails(d)
         \/ \E i \in IOs : RemoveFromIO(i)
         \/ \E s \in Slots : Restock(s)
    BY DEF Next, Worker, LoadNext, WriteNext, EjectNext, Faults, Operator, Ended, vars,
           RunTapePath, LoadStart, LoadSkip, LoadCheck, LoadDone, LoadFailed, LoadLost, WriteStart,
           WriteFault, ReturnDone, ReturnLost, WriteDone, EjectLost, EjectDone, Resume, PauseEnds,
           Cancel
  <1> QED
    BY <1>1, <1>2, <1>3, <1>4, <1>5, <1>6, <1>7, <1>8, <1>9, <1>10, <1>11

-----------------------------------------------------------------------------
(* Load's stale inventory *)

\* Typing of single entries, for sequences the later proofs index.
LEMMA Entries ==
    ASSUME TypeOK
    PROVE  /\ \A n \in DOMAIN todo : todo[n] \in Assignment /\ todo[n].drive \in Drives
                                     /\ todo[n].slot \in Slots /\ ElementOf[todo[n].drive] \in Drives
           /\ \A n \in DOMAIN loaded : /\ loaded[n] \in LoadedTape /\ loaded[n].drive \in Drives
                                       /\ loaded[n].slot \in Slots /\ loaded[n].tape \in Tapes
                                       /\ loaded[n].pair \in Pairs
                                       /\ ElementOf[loaded[n].drive] \in Drives
  <1>1. \A n \in DOMAIN todo : todo[n] \in Assignment
    BY DEF TypeOK, ActivityTypeOK
  <1>2. \A n \in DOMAIN loaded : loaded[n] \in LoadedTape
    BY DEF TypeOK, ActivityTypeOK
  <1>3. \A n \in DOMAIN todo : todo[n].drive \in Drives /\ todo[n].slot \in Slots
    BY <1>1 DEF Assignment
  <1>4. \A n \in DOMAIN loaded : /\ loaded[n].drive \in Drives /\ loaded[n].slot \in Slots
                                 /\ loaded[n].tape \in Tapes /\ loaded[n].pair \in Pairs
    BY <1>2 DEF LoadedTape
  <1> QED
    BY <1>1, <1>2, <1>3, <1>4, TapePathAssumption

\* reconcileLoad and the blank check keep the snapshot sound.
LEMMA LoadViewStep ==
    ASSUME TypeInv, LoadInv,
           LoadStart \/ LoadSkip \/ LoadRelocate \/ LoadMove \/ LoadCheck, act' \in Loading
    PROVE  LoadView'
  <1> USE DEF TypeInv
  <1> USE TapePathAssumption, LibraryAssumption
  <1>1. CASE LoadStart
    <2>1. /\ todo' = pending /\ loaded' = <<>> /\ act' = "next"
          /\ inv'.slot = slot /\ inv'.drive = drive /\ relocated' = NoneClaimed
          /\ UNCHANGED <<slot, drive>>
      BY <1>1 DEF LoadStart, Snapshot, libVars
    <2>2. Apart(todo') /\ DOMAIN loaded' = {}
      BY <2>1 DEF LoadInv, SetsApart
    <2>3. \A n \in DOMAIN todo' : todo'[n] \in Assignment
      BY <2>1 DEF TypeOK, FlowTypeOK
    <2>4. \A n \in DOMAIN todo' : todo'[n].slot \in Slots
      BY <2>3 DEF Assignment
    <2>5. \A n \in DOMAIN todo' : TargetBarcode(inv', todo'[n].slot, relocated') = slot[todo'[n].slot]
      BY <2>1, <2>4 DEF TargetBarcode, NoneClaimed
    <2> QED
      BY <2>1, <2>2, <2>5 DEF LoadView, Apart, Held, NoneClaimed, TargetBarcode
  <1>2. CASE LoadSkip
    <2>1. LoadView /\ Head(todo) = todo[1] /\ 1 \in DOMAIN todo
      BY <1>2, HeadTail DEF LoadSkip, LoadInv, Loading, TypeOK, ActivityTypeOK
    <2> QED
      BY <1>2, <2>1, Entries DEF LoadSkip, LoadView, Apart, Held, TargetBarcode, libVars, Element
  <1>3. CASE LoadRelocate
    <2>1. LoadView /\ Head(todo) = todo[1] /\ 1 \in DOMAIN todo /\ act = "next"
      BY <1>3, HeadTail DEF LoadRelocate, LoadInv, Loading, TypeOK, ActivityTypeOK
    <2> DEFINE e == ElementOf[todo[1].drive]
    <2>2. PICK s \in FreeStorageSlot(inv, inv.src[e], relocated) :
            /\ relocated' = [relocated EXCEPT ![s] = inv.drive[e]]
            /\ CanUnload(s, e) /\ MoveUnload(s, e) /\ act' = "move"
      BY <1>3, <2>1 DEF LoadRelocate, Loading, Element
    <2>3. s \in Slots /\ e \in Drives
      BY Entries, <2>1 DEF FreeStorageSlot
    <2>4. /\ slot' = [slot EXCEPT ![s] = inv.drive[e]] /\ drive' = [drive EXCEPT ![e] = NoTape]
          /\ inv.drive[e] # NoTape /\ slot[s] = NoTape /\ inv.slot[s] = NoTape
          /\ UNCHANGED <<loaded, todo, inv>>
      BY <1>3, <2>1, <2>2 DEF LoadRelocate, Element, MoveUnload, CanUnload, LoadView, FreeStorageSlot
    <2>5. \A n \in DOMAIN loaded : ElementOf[loaded[n].drive] # e
      BY <2>1, Entries DEF LoadView
    <2>6. \A n \in DOMAIN todo : n # 1 => ElementOf[todo[n].drive] # e
      BY <2>1, Entries DEF LoadView, Apart
    <2>7. Held'
      BY <2>1, <2>3, <2>4, <2>5, Entries DEF LoadView, Held, TypeOK, LibraryTypeOK
    <2>8. \A x \in Slots : inv.slot[x] = NoTape /\ relocated'[x] = NoTape => slot'[x] = NoTape
      BY <2>1, <2>2, <2>3, <2>4 DEF LoadView, TypeOK, LibraryTypeOK, ActivityTypeOK
    <2>9. \A n \in DOMAIN todo :
            slot'[todo[n].slot] = TargetBarcode(inv, todo[n].slot, relocated')
      BY <2>1, <2>2, <2>3, <2>4, Entries
      DEF LoadView, TargetBarcode, TypeOK, LibraryTypeOK, ActivityTypeOK
    <2>10. \A n \in DOMAIN todo : n # 1 =>
             drive'[ElementOf[todo[n].drive]] = inv.drive[ElementOf[todo[n].drive]]
      BY <2>1, <2>3, <2>4, <2>6, Entries DEF LoadView, TypeOK, LibraryTypeOK
    <2>11. drive'[e] = NoTape
      BY <2>3, <2>4 DEF TypeOK, LibraryTypeOK
    <2> QED
      BY <2>1, <2>2, <2>4, <2>7, <2>8, <2>9, <2>10, <2>11 DEF LoadView, Apart, TargetBarcode
  <1>4. CASE LoadMove
    <2>1. LoadView /\ Head(todo) = todo[1] /\ 1 \in DOMAIN todo
      BY <1>4, HeadTail DEF LoadMove, LoadInv, Loading, TypeOK, ActivityTypeOK
    <2> DEFINE e == ElementOf[todo[1].drive]
               s == todo[1].slot
    <2>2. /\ act' = "check" /\ barcode' = TargetBarcode(inv, s, relocated)
          /\ CanLoad(s, e) /\ MoveLoad(s, e)
          /\ act \in {"next", "move"}
          /\ UNCHANGED <<loaded, todo, inv, relocated>>
      BY <1>4, <2>1 DEF LoadMove, Loading, Element
    <2>3. s \in Slots /\ e \in Drives
      BY Entries, <2>1
    <2>4. slot' = [slot EXCEPT ![s] = NoTape] /\ drive' = [drive EXCEPT ![e] = barcode']
      BY <2>1, <2>2 DEF MoveLoad, LoadView
    <2>5. \A n \in DOMAIN loaded : ElementOf[loaded[n].drive] # e
      BY <2>1, Entries DEF LoadView
    <2>6. \A n \in DOMAIN todo : n # 1 => ElementOf[todo[n].drive] # e /\ todo[n].slot # s
      BY <2>1, Entries DEF LoadView, Apart
    <2>7. Held'
      BY <2>1, <2>2, <2>3, <2>4, <2>5, Entries DEF LoadView, Held, TypeOK, LibraryTypeOK
    <2>8. \A x \in Slots : inv.slot[x] = NoTape /\ relocated[x] = NoTape => slot'[x] = NoTape
      BY <2>1, <2>3, <2>4 DEF LoadView, TypeOK, LibraryTypeOK
    <2>9. \A n \in DOMAIN todo : n # 1 =>
            slot'[todo[n].slot] = TargetBarcode(inv, todo[n].slot, relocated)
      BY <2>1, <2>2, <2>3, <2>4, <2>6, Entries DEF LoadView, TypeOK, LibraryTypeOK
    <2>10. \A n \in DOMAIN todo : n # 1 =>
             drive'[ElementOf[todo[n].drive]] = inv.drive[ElementOf[todo[n].drive]]
      BY <2>1, <2>2, <2>3, <2>4, <2>6, Entries DEF LoadView, TypeOK, LibraryTypeOK
    <2>11. drive'[e] = barcode'
      BY <2>3, <2>4 DEF TypeOK, LibraryTypeOK
    <2> QED
      BY <2>1, <2>2, <2>7, <2>8, <2>9, <2>10, <2>11 DEF LoadView, Apart, TargetBarcode
  <1>5. CASE LoadCheck
    <2>1. LoadView /\ Head(todo) = todo[1] /\ 1 \in DOMAIN todo /\ act = "check"
      BY <1>5, HeadTail DEF LoadCheck, LoadInv, Loading, TypeOK, ActivityTypeOK
    <2> DEFINE r == [pair |-> todo[1].pair, drive |-> todo[1].drive,
                     slot |-> todo[1].slot, tape |-> barcode]
    <2>2. /\ act' = "next" /\ todo' = Tail(todo) /\ loaded' = Append(loaded, r)
          /\ UNCHANGED <<slot, drive, inv, relocated>>
      BY <1>5, <2>1 DEF LoadCheck, Loading, libVars
    <2>3. \A n \in DOMAIN todo' : /\ n \in Nat /\ n + 1 \in DOMAIN todo /\ n + 1 # 1
                                  /\ todo'[n] = todo[n + 1]
      BY <1>5, <2>2, HeadTail DEF LoadCheck, TypeOK, ActivityTypeOK
    <2>4. r \in LoadedTape
      BY <2>1, Entries DEF Assignment, LoadedTape, Control
    <2>5. /\ DOMAIN loaded' = DOMAIN loaded \cup {Len(loaded) + 1}
          /\ \A n \in DOMAIN loaded : loaded'[n] = loaded[n] /\ n # Len(loaded) + 1
          /\ loaded'[Len(loaded) + 1] = r
      BY <2>2, <2>4, AppendOne DEF TypeOK, ActivityTypeOK
    <2>6. Apart(todo')
      BY <2>1, <2>3 DEF LoadView, Apart
    <2>7. Apart(loaded')
      BY <2>1, <2>5 DEF LoadView, Apart
    <2>8. Held'
      BY <2>1, <2>2, <2>5 DEF LoadView, Held
    <2>9. \A m \in DOMAIN todo', n \in DOMAIN loaded' :
            todo'[m].drive # loaded'[n].drive /\ todo'[m].slot # loaded'[n].slot
      BY <2>1, <2>3, <2>5 DEF LoadView, Apart
    <2>10. \A n \in DOMAIN todo' :
             /\ slot[todo'[n].slot] = TargetBarcode(inv, todo'[n].slot, relocated)
             /\ drive[ElementOf[todo'[n].drive]] = inv.drive[ElementOf[todo'[n].drive]]
      BY <2>1, <2>3 DEF LoadView
    <2> QED
      BY <2>1, <2>2, <2>6, <2>7, <2>8, <2>9, <2>10 DEF LoadView, TargetBarcode
  <1> QED
    BY <1>1, <1>2, <1>3, <1>4, <1>5

\* While Load works, no other step touches what its snapshot is about.
LEMMA LoadUndisturbed ==
    ASSUME TypeInv, [Next]_vars, act' \in Loading
    PROVE  \/ LoadStart \/ LoadSkip \/ LoadRelocate \/ LoadMove \/ LoadCheck
           \/ UNCHANGED <<act, todo, loaded, inv, relocated, barcode, slot, drive, medium, stage,
                          refused, pending, base, recorded>>
  <1> USE DEF Loading, TypeInv, Control, Pauses, Active,
              libVars, loadVars, setVars, writeVars, ejectVars
  <1>1. CASE LoadNext \/ LoadLost
    BY <1>1 DEF LoadNext, LoadDone, LoadRestore, LoadFailed, LoadLost
  <1>2. CASE RunTapePath \/ WriteStart \/ ReturnTape \/ ReturnDone \/ WriteDone \/ WriteFault
               \/ ReturnLost \/ EjectNext \/ EjectLost
    BY <1>2 DEF RunTapePath, WriteStart, ReturnTape, ReturnDone, WriteDone, WriteFault, ReturnLost,
                EjectNext, EjectUnload, EjectTransfer, EjectDone, EjectLost
  <1>3. CASE \E d \in Drives : FormatTape(d) \/ WriteTape(d) \/ WriteTapeFails(d)
    <2>1. act = "idle" /\ act' = act
      BY <1>3 DEF FormatTape, WriteTape, WriteTapeFails
    <2> QED
      BY <2>1
  <1>4. CASE Resume \/ PauseEnds \/ Cancel \/ UNCHANGED vars
    BY <1>4 DEF Resume, PauseEnds, Cancel, vars
  <1>5. CASE (\E i \in IOs : RemoveFromIO(i)) \/ (\E s \in Slots : Restock(s))
    BY <1>5 DEF RemoveFromIO, Restock
  <1> QED
    BY <1>1, <1>2, <1>3, <1>4, <1>5 DEF Next, Worker, WriteNext, Faults, Operator, Ended

\* After Load, the tapes stay in the drives until the last coroutine is done.
LEMMA HeldUndisturbed ==
    ASSUME TypeInv, [Next]_vars,
           wf' \in {"write", "writing"} \/ \E d \in Drives : stage'[d] \in Active
    PROVE  /\ UNCHANGED <<drive, loaded>>
           /\ \/ wf \in {"write", "writing"} \/ \E d \in Drives : stage[d] \in Active
              \/ act \in Loading
  BY DEF Next, Worker, LoadNext, WriteNext, EjectNext, Faults, Operator, Ended, vars, Loading,
         TypeInv, Control, Pauses, LoadSteps, Active, libVars, loadVars, setVars, writeVars, ejectVars,
         RunTapePath, LoadStart, LoadSkip, LoadRelocate, LoadMove, LoadCheck, LoadDone, LoadRestore,
           LoadFailed, LoadLost, PauseOnLoad, WriteStart, WriteFault, ReturnTape, ReturnDone,
           ReturnLost, FormatTape, WriteTape, WriteTapeFails, WriteDone, EjectUnload,
           EjectTransfer, EjectLost, EjectDone, Resume, PauseEnds, Cancel, RemoveFromIO, Restock

LEMMA SetsApartNext == TypeInv /\ LoadInv /\ [Next]_vars => SetsApart'
  <1> SUFFICES ASSUME TypeInv, LoadInv, [Next]_vars PROVE SetsApart'
    OBVIOUS
  <1> USE DEF TypeInv
  <1>1. CASE RunTapePath
    <2>1. ~PlanError /\ base # Total => Apart(NextDriveSet)
      <3> DEFINE size == IF Total - base < NumDrives THEN Total - base ELSE NumDrives
      <3> SUFFICES ASSUME ~PlanError, base # Total PROVE Apart(NextDriveSet)
        OBVIOUS
      <3>1. base \in 0..Total /\ size \in Nat /\ base + size <= Len(BlankSlots)
        BY TapePathAssumption, LibraryAssumption DEF PlanError, TypeOK, FlowTypeOK
      <3>2. NextDriveSet = [n \in 1..size |-> [pair |-> base + n, drive |-> n, slot |-> BlankSlots[base + n]]]
        BY DEF NextDriveSet
      <3> HIDE DEF size
      <3>3. \A m, n \in 1..size : BlankSlots[base + m] = BlankSlots[base + n] => m = n
        <4> TAKE m, n \in 1..size
        <4>1. base + m \in 1..Len(BlankSlots) /\ base + n \in 1..Len(BlankSlots)
          BY <3>1, TapePathAssumption
        <4> QED
          BY <3>1, <4>1, TapePathAssumption
      <3> QED
        BY <3>2, <3>3 DEF Apart
    <2> QED
      BY <1>1, <2>1 DEF RunTapePath, SetsApart, LoadInv, Apart
  <1>2. CASE Resume
    <2>1. wf = "writePause" => Apart(RetrySet)
      BY DEF LoadInv, SetsApart, Apart, RetrySet
    <2> QED
      BY <1>2, <2>1 DEF Resume, SetsApart, LoadInv, Apart, writeVars, loadVars
  <1>3. CASE WriteStart
    BY <1>3 DEF WriteStart, SetsApart, LoadInv, Apart, loadVars, setVars
  <1>4. ASSUME NEW d \in Drives, FormatTape(d) \/ WriteTape(d) PROVE SetsApart'
    <2>1. /\ stage[d] \in Active /\ \E v \in {"streaming", "done"} : stage' = [stage EXCEPT ![d] = v]
          /\ UNCHANGED <<pending, wf, loaded, failed>>
      BY <1>4 DEF FormatTape, WriteTape, loadVars, setVars, Active
    <2>2. wf = "writing" => \A m \in DOMAIN failed : failed[m].drive # d
      BY <2>1 DEF LoadInv, SetsApart, Active
    <2>3. wf = "writing" => \A m \in DOMAIN failed : stage'[failed[m].drive] = "done"
      <3> SUFFICES ASSUME wf = "writing", NEW m \in DOMAIN failed
                   PROVE  stage'[failed[m].drive] = "done"
        OBVIOUS
      <3>1. failed[m].drive \in Drives
        <4>1. failed[m] \in LoadedTape
          BY DEF TypeOK, FlowTypeOK
        <4> QED
          BY <4>1 DEF LoadedTape
      <3>2. stage[failed[m].drive] = "done" /\ failed[m].drive # d
        BY <2>2 DEF LoadInv, SetsApart
      <3> QED
        BY <2>1, <3>1, <3>2 DEF TypeOK, FlowTypeOK
    <2> QED
      BY <2>1, <2>3 DEF SetsApart, LoadInv, Apart
  <1>5. ASSUME NEW d \in Drives, WriteTapeFails(d) PROVE SetsApart'
    <2>1. stage[d] \in Active /\ \E n \in DOMAIN loaded : loaded[n].drive = d
      BY <1>5 DEF WriteTapeFails, Control, Active
    <2>2. LoadedIn(d).drive = d /\ \E n \in DOMAIN loaded : LoadedIn(d) = loaded[n]
      BY <2>1 DEF LoadedIn, Range
    <2>3. LoadedIn(d) \in LoadedTape
      BY <2>2, Entries
    <2>4. CASE wf # "writing"
      BY <1>5, <2>4, <2>1 DEF WriteTapeFails, SetsApart, LoadInv, Apart, loadVars, setVars, Control
    <2>5. CASE wf = "writing"
      <3>1. /\ failed' = Append(failed, LoadedIn(d)) /\ stage' = [stage EXCEPT ![d] = "done"]
            /\ UNCHANGED <<wf, pending, loaded>>
        BY <1>5, <2>5 DEF WriteTapeFails, loadVars, setVars
      <3>2. /\ DOMAIN failed' = DOMAIN failed \cup {Len(failed) + 1}
            /\ \A n \in DOMAIN failed : failed'[n] = failed[n] /\ n # Len(failed) + 1
            /\ failed'[Len(failed) + 1] = LoadedIn(d)
        BY <3>1, <2>3, AppendOne DEF TypeOK, FlowTypeOK
      <3>3. \A m \in DOMAIN failed : stage[failed[m].drive] = "done" /\ failed[m].drive # d
        BY <2>5, <2>1 DEF LoadInv, SetsApart, Active
      <3>4. \A m \in DOMAIN failed : failed[m].slot # LoadedIn(d).slot
        BY <2>2, <2>5, <3>3 DEF LoadInv, SetsApart, Apart
      <3>5. Apart(failed')
        BY <2>2, <2>5, <3>2, <3>3, <3>4 DEF LoadInv, SetsApart, Apart
      <3>6. \A m \in DOMAIN failed' : stage'[failed'[m].drive] = "done"
        BY <3>1, <3>2, <3>3, <2>2 DEF TypeOK, FlowTypeOK
      <3>7. \A m \in DOMAIN failed' : \E n \in DOMAIN loaded : failed'[m] = loaded[n]
        BY <2>2, <2>5, <3>2 DEF LoadInv, SetsApart
      <3> QED
        BY <2>5, <3>1, <3>5, <3>6, <3>7 DEF LoadInv, SetsApart, Apart
    <2> QED
      BY <2>4, <2>5
  <1>6. CASE /\ UNCHANGED <<pending, failed, stage>>
             /\ \/ UNCHANGED <<wf, loaded>>
                \/ wf' \notin {"writing", "eject", "ejectPause", "writePause"}
                \/ /\ wf \in {"writing", "eject"} /\ wf' # "writing"
                   /\ UNCHANGED loaded
    BY <1>6 DEF SetsApart, LoadInv, Apart
  <1>7. \/ RunTapePath \/ Resume \/ WriteStart
        \/ \E d \in Drives : FormatTape(d) \/ WriteTape(d) \/ WriteTapeFails(d)
        \/ /\ UNCHANGED <<pending, failed, stage>>
           /\ \/ UNCHANGED <<wf, loaded>>
              \/ wf' \notin {"writing", "eject", "ejectPause", "writePause"}
              \/ /\ wf \in {"writing", "eject"} /\ wf' # "writing"
                 /\ UNCHANGED loaded
    BY DEF Next, Worker, LoadNext, WriteNext, EjectNext, Faults, Operator, Ended, vars,
           Control, Pauses, LoadSteps, libVars, loadVars, setVars, writeVars, ejectVars,
           RunTapePath, LoadStart, LoadSkip, LoadRelocate, LoadMove, LoadCheck, LoadDone, LoadRestore,
           LoadFailed, LoadLost, PauseOnLoad, WriteStart, WriteFault, ReturnTape, ReturnDone,
           ReturnLost, FormatTape, WriteTape, WriteTapeFails, WriteDone, EjectUnload,
           EjectTransfer, EjectLost, EjectDone, Resume, PauseEnds, Cancel, RemoveFromIO, Restock
  <1> QED
    BY <1>1, <1>2, <1>3, <1>4, <1>5, <1>6, <1>7

LEMMA LoadInit == Init => LoadInv
  BY DEF Init, LoadInv, SetsApart, Apart, Loading, Active

LEMMA LoadNextInv == TypeInv /\ LoadInv /\ [Next]_vars => LoadInv'
  <1> SUFFICES ASSUME TypeInv, LoadInv, [Next]_vars PROVE LoadInv'
    OBVIOUS
  <1>1. OnePlace' /\ SetsApart'
    BY OnePlaceNext, SetsApartNext DEF LoadInv
  <1>2. act' \in Loading => LoadView'
    <2> SUFFICES ASSUME act' \in Loading PROVE LoadView'
      OBVIOUS
    <2>1. CASE LoadStart \/ LoadSkip \/ LoadRelocate \/ LoadMove \/ LoadCheck
      BY <2>1, LoadViewStep
    <2>2. CASE UNCHANGED <<act, todo, loaded, inv, relocated, barcode, slot, drive, medium, stage,
                            refused, pending, base, recorded>>
      BY <2>2 DEF LoadInv, LoadView, Apart, Held, TargetBarcode
    <2> QED
      BY <2>1, <2>2, LoadUndisturbed
  <1>3. wf' \in {"write", "writing"} \/ (\E d \in Drives : stage'[d] \in Active) =>
          Held' /\ Apart(loaded')
    BY HeldUndisturbed DEF LoadInv, LoadView, Held, Apart
  <1> QED
    BY <1>1, <1>2, <1>3 DEF LoadInv, Held, Apart

\* The inductive invariant behind the theorems that follow.
LEMMA LoadInvariant == Spec => [](TypeInv /\ LoadInv)
  BY TypeInit, TypeNext, LoadInit, LoadNextInv, PTL DEF Spec

(***************************************************************************)
(* What the workflow believes it loaded is in the drives the format, write *)
(* and finalize activities act on, for any relocations Load had to make.   *)
(***************************************************************************)
LEMMA LoadedTapesAreInDrives == TypeInv /\ LoadInv => LoadedMatches
  BY DEF TypeInv, LoadInv, LoadedMatches, Held, MediumIn, Range

(***************************************************************************)
(* Load's one inventory plus its claims never describe an impossible move. *)
(***************************************************************************)
LEMMA LoadMovesAreFeasible == TypeInv /\ LoadInv => StaleInventorySound
  <1> SUFFICES ASSUME TypeInv, LoadInv, act \in {"next", "move"}, todo # <<>>
               PROVE  StaleInventorySound
    BY DEF StaleInventorySound
  <1>1. LoadView /\ Head(todo) = todo[1] /\ 1 \in DOMAIN todo
    BY HeadTail DEF LoadInv, Loading, TypeInv, TypeOK, ActivityTypeOK
  <1>2. FreeStorageSlot(inv, inv.src[Element(Head(todo))], relocated)
           \subseteq {s \in Slots : inv.slot[s] = NoTape /\ relocated[s] = NoTape}
    BY DEF FreeStorageSlot
  <1> QED
    BY <1>1, <1>2 DEF StaleInventorySound, LoadView, Element

(***************************************************************************)
(* Load is right although it works from one inventory that its own moves   *)
(* make stale: every move it asks for is possible, and what it answers is  *)
(* in the drives until the write is over.                                  *)
(***************************************************************************)
THEOREM LoadIsSound == Spec => []LoadSound
  <1>1. TypeInv /\ LoadInv => LoadSound
    BY LoadedTapesAreInDrives, LoadMovesAreFeasible DEF LoadSound
  <1> QED
    BY <1>1, LoadInvariant, PTL

-----------------------------------------------------------------------------
(* What happens to the media *)

\* Two drives never hold the same cartridge.
LEMMA DistinctMedia ==
    ASSUME TypeInv, OnePlace, NEW d1 \in Drives, NEW d2 \in Drives,
           MediumIn(d1) # NoTape, MediumIn(d1) = MediumIn(d2)
    PROVE  d1 = d2
  BY TapePathAssumption DEF OnePlace, MediumIn

\* The tape a coroutine writes is the one Load reported for its drive.
LEMMA StreamedTape ==
    ASSUME TypeInv, LoadInv, NEW d \in Drives, stage[d] \in Active
    PROVE  /\ LoadedIn(d) \in LoadedTape /\ LoadedIn(d).drive = d
           /\ LoadedIn(d).tape = MediumIn(d) /\ MediumIn(d) \in Tapes
           /\ act = "idle" /\ wf \in {"writing", "cancelled"}
  <1>1. /\ act = "idle" /\ wf \in {"writing", "cancelled"}
        /\ \E n \in DOMAIN loaded : loaded[n].drive = d
    BY DEF TypeInv, Control
  <1>2. LoadedIn(d).drive = d /\ \E n \in DOMAIN loaded : LoadedIn(d) = loaded[n]
    BY <1>1 DEF LoadedIn, Range
  <1>3. Held
    BY DEF LoadInv
  <1> QED
    BY <1>1, <1>2, <1>3, Entries DEF Held, MediumIn, TypeInv

\* The only change any step makes to a medium, with what it was before.
MediumStep(d) ==
    /\ stage[d] \in Active
    /\ UNCHANGED <<drive, wf, act, loaded, recorded>>
    /\ \E m \in {"partial", "complete"} :
         /\ m = IF stage[d] = "formatting" THEN "partial" ELSE "complete"
         /\ medium' = [medium EXCEPT ![MediumIn(d)] = m]
         /\ holds' = [holds EXCEPT ![MediumIn(d)] =
                        IF stage[d] = "formatting" THEN 0 ELSE LoadedIn(d).pair]
    /\ \E v \in {"streaming", "done"} :
         /\ v = "streaming" => stage[d] = "formatting"
         /\ stage' = [stage EXCEPT ![d] = v]
    /\ \/ UNCHANGED written
       \/ stage[d] = "streaming" /\ written' = Append(written, LoadedIn(d))

LEMMA WriteSteps ==
    ASSUME NEW d \in Drives, FormatTape(d) \/ WriteTape(d) \/ WriteTapeFails(d)
    PROVE  \/ MediumStep(d)
           \/ /\ stage[d] \in Active /\ stage' = [stage EXCEPT ![d] = "done"]
              /\ UNCHANGED <<medium, holds, drive, wf, act, loaded, recorded, written>>
  <1> USE DEF Active, MediumStep, loadVars, setVars, writeVars
  <1>1. CASE FormatTape(d)
    BY <1>1 DEF FormatTape
  <1>2. CASE WriteTape(d)
    BY <1>2 DEF WriteTape
  <1>3. CASE WriteTapeFails(d)
    BY <1>3 DEF WriteTapeFails
  <1> QED
    BY <1>1, <1>2, <1>3

LEMMA MediumStepKeeps ==
    ASSUME TypeInv, LoadInv, MediaInv, NEW d \in Drives, MediumStep(d)
    PROVE  /\ MediaInv'
           /\ \A t \in Tapes : medium[t] = "foreign" => medium'[t] = "foreign"
  <1> DEFINE t == MediumIn(d)
  <1>1. /\ LoadedIn(d) \in LoadedTape /\ LoadedIn(d).tape = t /\ t \in Tapes
        /\ act = "idle" /\ wf # "write"
    BY StreamedTape DEF MediumStep
  <1>2. medium[t] \in {"blank", "partial"} /\ (stage[d] = "streaming" => medium[t] = "partial")
    BY DEF MediumStep, MediaInv, Active
  <1>3. \A x \in Tapes : x # t => medium'[x] = medium[x] /\ holds'[x] = holds[x]
    BY <1>1 DEF MediumStep, TypeInv, TypeOK, LibraryTypeOK
  <1>4. /\ medium'[t] = (IF stage[d] = "formatting" THEN "partial" ELSE "complete")
        /\ holds'[t] = (IF stage[d] = "formatting" THEN 0 ELSE LoadedIn(d).pair)
    BY <1>1 DEF MediumStep, TypeInv, TypeOK, LibraryTypeOK
  <1>5. \A e \in Drives : e # d /\ stage[e] \in Active =>
          /\ MediumIn(e) \in Tapes /\ MediumIn(e) # t
    BY <1>1, StreamedTape, DistinctMedia, LibraryAssumption DEF LoadInv
  <1>6. \A e \in Drives : /\ MediumIn(e)' = MediumIn(e)
                          /\ e # d => stage'[e] = stage[e]
    BY DEF MediumStep, MediumIn, TypeInv, TypeOK, FlowTypeOK
  <1>7. /\ \A e \in Drives : stage'[e] = "formatting" => medium'[MediumIn(e)'] = "blank"
        /\ \A e \in Drives : stage'[e] = "streaming" => medium'[MediumIn(e)'] = "partial"
    <2> SUFFICES ASSUME NEW e \in Drives, stage'[e] \in Active
                 PROVE  /\ stage'[e] = "formatting" => medium'[MediumIn(e)'] = "blank"
                        /\ stage'[e] = "streaming" => medium'[MediumIn(e)'] = "partial"
      BY DEF Active
    <2>1. CASE e = d
      BY <2>1, <1>4, <1>6 DEF MediumStep, TypeInv, TypeOK, FlowTypeOK
    <2>2. CASE e # d
      BY <2>2, <1>3, <1>5, <1>6 DEF MediaInv
    <2> QED
      BY <2>1, <2>2
  <1>8. \A n \in DOMAIN written : written[n] \in LoadedTape /\ written[n].tape \in Tapes
    <2>1. \A n \in DOMAIN written : written[n] \in LoadedTape
      BY DEF TypeInv, TypeOK, FlowTypeOK
    <2> QED
      BY <2>1 DEF LoadedTape
  <1>9. \A n \in DOMAIN written :
          medium'[written[n].tape] = "complete" /\ holds'[written[n].tape] = written[n].pair
    BY <1>2, <1>3, <1>8 DEF MediaInv
  <1>10. \A n \in DOMAIN written' :
          medium'[written'[n].tape] = "complete" /\ holds'[written'[n].tape] = written'[n].pair
    <2>1. CASE UNCHANGED written
      BY <2>1, <1>9
    <2>2. CASE stage[d] = "streaming" /\ written' = Append(written, LoadedIn(d))
      <3>1. /\ DOMAIN written' = DOMAIN written \cup {Len(written) + 1}
            /\ \A n \in DOMAIN written : written'[n] = written[n] /\ n # Len(written) + 1
            /\ written'[Len(written) + 1] = LoadedIn(d)
        BY <2>2, <1>1, AppendOne DEF TypeInv, TypeOK, FlowTypeOK
      <3> QED
        BY <2>2, <3>1, <1>1, <1>4, <1>9
    <2> QED
      BY <2>1, <2>2 DEF MediumStep
  <1>11. RecordedIntact'
    <2>1. \A r \in recorded : r.tape \in Tapes
      BY DEF TypeInv, TypeOK, FlowTypeOK, LoadedTape
    <2> QED
      BY <2>1, <1>2, <1>3 DEF MediumStep, MediaInv, RecordedIntact
  <1>12. ~(act' \in Loading \/ wf' = "write")
    BY <1>1 DEF MediumStep, Loading
  <1>13. \A x \in Tapes : medium[x] = "foreign" => medium'[x] = "foreign"
    BY <1>2, <1>3
  <1> QED
    BY <1>7, <1>10, <1>11, <1>12, <1>13 DEF MediaInv

LEMMA MediaInit == Init => MediaInv
  <1> SUFFICES ASSUME Init PROVE MediaInv
    OBVIOUS
  <1>1. stage = [d \in Drives |-> "idle"] /\ written = <<>> /\ loaded = <<>> /\ recorded = {}
    BY DEF Init
  <1> QED
    BY <1>1 DEF MediaInv, RecordedIntact

\* The steps that write no medium.
LEMMA QuietSteps ==
    ASSUME TypeInv, [Next]_vars,
           ~ \E d \in Drives : FormatTape(d) \/ WriteTape(d) \/ WriteTapeFails(d)
    PROVE  /\ UNCHANGED <<medium, holds>>
           /\ \/ LoadStart \/ LoadCheck \/ WriteStart \/ EjectDone
              \/ /\ UNCHANGED <<stage, written, recorded, loaded>>
                 /\ act' \in Loading \/ wf' = "write" => act \in Loading \/ wf = "write"
  <1> USE DEF Loading, TypeInv, Control, Pauses, LoadSteps,
              libVars, loadVars, setVars, writeVars, ejectVars
  <1>1. CASE LoadNext \/ LoadLost
    BY <1>1 DEF LoadNext, LoadStart, LoadSkip, LoadRelocate, LoadMove, LoadCheck, LoadDone,
                LoadRestore, LoadFailed, LoadLost, PauseOnLoad, MoveLoad, MoveUnload
  <1>2. CASE RunTapePath \/ WriteStart \/ ReturnTape \/ ReturnDone \/ WriteDone \/ WriteFault
               \/ ReturnLost
    BY <1>2 DEF RunTapePath, WriteStart, ReturnTape, ReturnDone, WriteDone, WriteFault, ReturnLost,
                MoveUnload
  <1>3. CASE EjectNext \/ EjectLost
    BY <1>3 DEF EjectNext, EjectUnload, EjectTransfer, EjectDone, EjectLost, MoveUnload, MoveTransfer
  <1>4. CASE Resume \/ PauseEnds \/ Cancel \/ UNCHANGED vars
    BY <1>4 DEF Resume, PauseEnds, Cancel, vars
  <1>5. CASE (\E i \in IOs : RemoveFromIO(i)) \/ (\E s \in Slots : Restock(s))
    BY <1>5 DEF RemoveFromIO, Restock
  <1> QED
    BY <1>1, <1>2, <1>3, <1>4, <1>5 DEF Next, Worker, WriteNext, Faults, Operator, Ended

LEMMA MediaNext ==
    ASSUME ~AllowNonBlank, TypeInv, LoadInv, MediaInv, [Next]_vars
    PROVE  /\ MediaInv'
           /\ \A t \in Tapes : medium[t] = "foreign" => medium'[t] = "foreign"
  <1>1. ASSUME NEW d \in Drives, FormatTape(d) \/ WriteTape(d) \/ WriteTapeFails(d)
        PROVE  /\ MediaInv'
               /\ \A t \in Tapes : medium[t] = "foreign" => medium'[t] = "foreign"
    <2>1. CASE MediumStep(d)
      BY <2>1, MediumStepKeeps
    <2>2. CASE /\ stage[d] \in Active /\ stage' = [stage EXCEPT ![d] = "done"]
               /\ UNCHANGED <<medium, holds, drive, wf, act, loaded, recorded, written>>
      <3>1. \A e \in Drives : stage'[e] \in Active => stage'[e] = stage[e]
        BY <2>2 DEF Active, TypeInv, TypeOK, FlowTypeOK
      <3> QED
        BY <2>2, <3>1 DEF MediaInv, RecordedIntact, MediumIn, Active
    <2> QED
      BY <1>1, <2>1, <2>2, WriteSteps
  <1>2. ASSUME ~ \E d \in Drives : FormatTape(d) \/ WriteTape(d) \/ WriteTapeFails(d)
        PROVE  MediaInv'
    <2>1. UNCHANGED <<medium, holds>>
      BY <1>2, QuietSteps
    <2>2. \A d \in Drives : stage'[d] \in Active => MediumIn(d)' = MediumIn(d)
      BY HeldUndisturbed DEF MediumIn
    <2>3. CASE LoadStart
      <3>1. loaded' = <<>> /\ UNCHANGED <<stage, written, recorded>>
        BY <2>3 DEF LoadStart, writeVars
      <3> QED
        BY <2>1, <2>2, <3>1 DEF MediaInv, RecordedIntact, Active
    <2>4. CASE LoadCheck
      <3>1. LoadView /\ Head(todo) = todo[1] /\ 1 \in DOMAIN todo /\ act = "check"
        BY <2>4, HeadTail DEF LoadCheck, LoadInv, Loading, TypeInv, TypeOK, ActivityTypeOK
      <3>2. UNCHANGED <<stage, written, recorded, wf>> /\ (wf = "write" => act = "idle")
        BY <2>4 DEF LoadCheck, writeVars, TypeInv, Control
      <3>3. CASE act' \in Loading
        <4> DEFINE r == [pair |-> todo[1].pair, drive |-> todo[1].drive,
                         slot |-> todo[1].slot, tape |-> barcode]
        <4>1. loaded' = Append(loaded, r) /\ medium[drive[ElementOf[todo[1].drive]]] = "blank"
          BY <2>4, <3>1, <3>3 DEF LoadCheck, Loading, IsBlank, Element
        <4>2. medium[barcode] = "blank"
          BY <3>1, <4>1 DEF LoadView
        <4>3. r \in LoadedTape
          BY <3>1, Entries DEF Assignment, LoadedTape, TypeInv, Control
        <4>4. /\ DOMAIN loaded' = DOMAIN loaded \cup {Len(loaded) + 1}
              /\ \A n \in DOMAIN loaded : loaded'[n] = loaded[n]
              /\ loaded'[Len(loaded) + 1].tape = barcode
          BY <4>1, <4>3, AppendOne DEF TypeInv, TypeOK, ActivityTypeOK
        <4>5. \A n \in DOMAIN loaded' : medium[loaded'[n].tape] = "blank"
          BY <3>1, <4>2, <4>4 DEF MediaInv, Loading
        <4> QED
          BY <2>1, <2>2, <3>2, <4>5 DEF MediaInv, RecordedIntact, Active
      <3>4. CASE act' \notin Loading
        BY <2>1, <2>2, <3>1, <3>2, <3>4 DEF MediaInv, RecordedIntact, Active
      <3> QED
        BY <3>3, <3>4
    <2>5. CASE WriteStart
      <3>1. /\ written' = <<>> /\ wf = "write" /\ act = "idle" /\ act' = act /\ wf' = "writing"
            /\ UNCHANGED <<recorded, loaded>>
        BY <2>5 DEF WriteStart, loadVars, TypeInv, Control
      <3>2. \A d \in Drives : /\ stage'[d] # "streaming"
                              /\ stage'[d] = "formatting" =>
                                   \E n \in DOMAIN loaded : loaded[n].drive = d
        BY <2>5 DEF WriteStart, Range
      <3>3. \A n \in DOMAIN loaded : medium[MediumIn(loaded[n].drive)] = "blank"
        BY <3>1 DEF MediaInv, LoadInv, Held, MediumIn
      <3> QED
        BY <2>1, <2>2, <3>1, <3>2, <3>3 DEF MediaInv, RecordedIntact, Active, Loading
    <2>6. CASE EjectDone
      <3>1. /\ recorded' \subseteq recorded \cup {written[n] : n \in DOMAIN written}
            /\ UNCHANGED <<stage, written, loaded>> /\ act' = "idle" /\ (wf' = "write" => wf = "write")
        BY <2>6 DEF EjectDone, NewlyRecorded, Range, loadVars
      <3> QED
        BY <2>1, <2>2, <3>1 DEF MediaInv, RecordedIntact, Active, Loading
    <2>7. CASE /\ UNCHANGED <<stage, written, recorded, loaded>>
               /\ act' \in Loading \/ wf' = "write" => act \in Loading \/ wf = "write"
      BY <2>1, <2>2, <2>7 DEF MediaInv, RecordedIntact, Active
    <2> QED
      BY <1>2, <2>3, <2>4, <2>5, <2>6, <2>7, QuietSteps
  <1> QED
    BY <1>1, <1>2, QuietSteps

\* The inductive invariant for runs that do not reclaim tapes.
LEMMA MediaInvariant ==
    ASSUME ~AllowNonBlank
    PROVE  Spec => [](TypeInv /\ LoadInv /\ MediaInv)
  <1>1. TypeInv /\ LoadInv /\ MediaInv /\ [Next]_vars => MediaInv'
    BY MediaNext
  <1> QED
    BY <1>1, MediaInit, LoadInvariant, PTL DEF Spec

(***************************************************************************)
(* A recorded tape keeps carrying exactly the pair it is recorded for: no  *)
(* later set, retry, restock or interrupted Load makes mkltfs reach it.    *)
(* The premise is needed: with allowNonBlankTapes a recorded tape that is  *)
(* put back into a slot named by a pause is formatted on resume.           *)
(***************************************************************************)
THEOREM RecordedTapesStayIntact ==
    ASSUME ~AllowNonBlank
    PROVE  Spec => []RecordedIntact
  <1>1. MediaInv => RecordedIntact
    BY DEF MediaInv
  <1> QED
    BY <1>1, MediaInvariant, PTL

(***************************************************************************)
(* Load's blank check keeps every cartridge that held data before the run  *)
(* out of reach of mkltfs, for every library and every order of events.    *)
(***************************************************************************)
THEOREM ForeignTapesArePreserved ==
    ASSUME ~AllowNonBlank
    PROVE  Spec => ForeignDataPreserved
  <1>1. TypeInv /\ LoadInv /\ MediaInv /\ [Next]_vars =>
          [\A t \in Tapes : medium[t] = "foreign" => medium'[t] = "foreign"]_vars
    BY MediaNext
  <1> QED
    BY <1>1, MediaInvariant, PTL DEF Spec, ForeignDataPreserved

-----------------------------------------------------------------------------
(* That the tape path implements ArchiveRecord, tells the operator the truth *)
(* and returns what it refuses                                             *)

\* The pass: from planning or retrying a drive-set to its Eject.
Passing == {"load", "loadPause", "write", "writing", "eject", "ejectPause"}
Ejecting == {"eject", "ejectPause"}

Paired(s) == \A m, n \in DOMAIN s : s[m].pair = s[n].pair => m = n

\* The pairs handed out so far are on record or in s, and never in both.
LeftToDo(s) ==
    /\ Paired(s)
    /\ \A n \in DOMAIN s : s[n].pair \in 1..base /\ \A r \in recorded : r.pair # s[n].pair
    /\ \A p \in 1..base : (\E r \in recorded : r.pair = p) \/ (\E n \in DOMAIN s : s[n].pair = p)

\* An entry of loaded answers an assignment.
Answers(l, a) == l.pair = a.pair /\ l.drive = a.drive /\ l.slot = a.slot

\* Every loaded tape is being written, was written, or failed.
Accounted ==
    /\ \A m \in DOMAIN written : \E n \in DOMAIN loaded : written[m] = loaded[n]
    /\ \A m \in DOMAIN written, k \in DOMAIN failed : written[m].drive # failed[k].drive
    /\ \A n \in DOMAIN loaded :
         \/ stage[loaded[n].drive] \in Active
         \/ \E m \in DOMAIN written : written[m] = loaded[n]
         \/ \E m \in DOMAIN failed : failed[m] = loaded[n]

\* The record and what is left to do.
RecordInv ==
    /\ \A r1, r2 \in recorded : r1.pair = r2.pair => r1 = r2
    /\ \A r \in recorded : r.pair \in 1..base
    /\ wf = "plan" => \A p \in 1..base : \E r \in recorded : r.pair = p
    /\ wf \in Passing => LeftToDo(pending)
    /\ wf = "writePause" => LeftToDo(failed)

\* What Load has answered and what it has left to do, in the order it was asked.
InOrder ==
    /\ Len(loaded) + Len(todo) = Len(pending)
    /\ \A n \in DOMAIN loaded : Answers(loaded[n], pending[n])
    /\ \A n \in DOMAIN todo : todo[n] = pending[Len(loaded) + n]

Answered ==
    Len(loaded) = Len(pending) /\ \A n \in DOMAIN loaded : Answers(loaded[n], pending[n])

AnswerInv ==
    /\ wf = "load" /\ act \in Loading => InOrder
    /\ wf \in {"write", "writing"} \cup Ejecting => Answered

WrittenInv ==
    /\ wf \in {"writing"} \cup Ejecting => Accounted
    /\ wf = "writing" => \A m \in DOMAIN written : stage[written[m].drive] = "done"

PairInv == RecordInv /\ AnswerInv /\ WrittenInv

\* A run that cannot be planned tells nothing.
PlanInv == PlanError => wf \in {"plan", "failed"} /\ told = "nothing"

\* "None in a drive": Eject has every tape of the pass that is in a drive
\* still in its queue, and past it when the transfer is on its way.
EmptyInv ==
    /\ wf \in {"return", "loadPause", "writePause"} => told # "noneInDrive"
    /\ wf = "ejectPause" => told = "noneInDrive"
    /\ told = "noneInDrive" /\ wf \in {"ejectPause", "failed"} =>
         \A n \in DOMAIN loaded : ~InDrive(loaded[n].tape)
    /\ wf = "eject" => \A n \in DOMAIN loaded : InDrive(loaded[n].tape) =>
         \E m \in DOMAIN queue : queue[m] = loaded[n] /\ (act = "transfer" => m # 1)

\* ReturnToSlots: what is still to be returned is in its drive, and the
\* inventory shows it there.
ToReturn ==
    /\ Apart(queue)
    /\ \A m \in DOMAIN queue : /\ drive[ElementOf[queue[m].drive]] = queue[m].tape
                               /\ inv.drive[ElementOf[queue[m].drive]] # NoTape
                               /\ \E n \in DOMAIN loaded : queue[m] = loaded[n]

\* "Returned": each tape is in its slot or has its turn coming.
ReturnInv ==
    /\ told = "returned" => wf \in {"return", "failed"} /\ Apart(loaded)
    /\ told = "returned" => \A n \in DOMAIN loaded :
         \/ slot[loaded[n].slot] = loaded[n].tape
         \/ wf = "return" /\ \E m \in DOMAIN queue : queue[m] = loaded[n]
    /\ wf = "return" => ToReturn

\* A recorded tape that is back in a drive was put there by the Load of this
\* pass, or is being ejected with it.
BackInv ==
    \A r \in recorded, e \in Drives : drive[e] = r.tape =>
        /\ wf \in {"load", "loadPause"} => \E n \in DOMAIN pending : ElementOf[pending[n].drive] = e
        /\ wf \in {"write", "writing"} \cup Ejecting => \E n \in DOMAIN loaded : loaded[n].tape = r.tape
        /\ wf \notin {"plan", "ok", "writePause"}

\* A refused tape is in its drive only until its turn to be returned.
RefusedInv ==
    /\ act \in Loading => refused = NoTape
    /\ act = "restore" /\ refused # NoTape /\ faults = 0 =>
         \A e \in Drives : drive[e] = refused =>
            \/ slot[Head(todo).slot] # NoTape
            \/ \E m \in DOMAIN inDrives : inDrives[m] = <<Head(todo).slot, e>>

-----------------------------------------------------------------------------
(* Refused tapes *)

\* Every entry but the first is in the tail.
LEMMA TailOnto ==
    ASSUME NEW S, NEW s \in Seq(S), s # <<>>
    PROVE  \A m \in DOMAIN s : m = 1 \/ (m - 1 \in DOMAIN Tail(s) /\ Tail(s)[m - 1] = s[m])
  OBVIOUS

\* While Load undoes its work, nobody else moves a tape.
LEMMA RestoreUndisturbed ==
    ASSUME TypeInv, [Next]_vars, act' = "restore"
    PROVE  \/ LoadRelocate \/ LoadMove \/ LoadCheck \/ LoadRestore
           \/ UNCHANGED <<act, todo, inDrives, refused, slot, drive, faults>>
  <1> USE DEF TypeInv, Control, Pauses, Active,
              libVars, loadVars, setVars, writeVars, ejectVars
  <1>1. CASE LoadNext \/ LoadLost
    BY <1>1 DEF LoadNext, LoadStart, LoadSkip, LoadDone, LoadFailed, LoadLost
  <1>2. CASE RunTapePath \/ WriteStart \/ ReturnTape \/ ReturnDone \/ WriteDone \/ WriteFault
               \/ ReturnLost \/ EjectNext \/ EjectLost
    BY <1>2 DEF RunTapePath, WriteStart, ReturnTape, ReturnDone, WriteDone, WriteFault, ReturnLost,
                EjectNext, EjectUnload, EjectTransfer, EjectDone, EjectLost
  <1>3. CASE \E d \in Drives : FormatTape(d) \/ WriteTape(d) \/ WriteTapeFails(d)
    <2>1. act = "idle" /\ act' = act
      BY <1>3 DEF FormatTape, WriteTape, WriteTapeFails
    <2> QED
      BY <2>1
  <1>4. CASE Resume \/ PauseEnds \/ Cancel \/ UNCHANGED vars
    BY <1>4 DEF Resume, PauseEnds, Cancel, vars
  <1>5. CASE (\E i \in IOs : RemoveFromIO(i)) \/ (\E s \in Slots : Restock(s))
    BY <1>5 DEF RemoveFromIO, Restock
  <1> QED
    BY <1>1, <1>2, <1>3, <1>4, <1>5 DEF Next, Worker, WriteNext, Faults, Operator, Ended

LEMMA RefusedNext ==
    ASSUME TypeInv, LoadInv, RefusedInv, [Next]_vars
    PROVE  RefusedInv'
  <1>1. act' \in Loading => refused' = NoTape
    BY LoadUndisturbed
       DEF RefusedInv, Loading, LoadStart, LoadSkip, LoadRelocate, LoadMove, LoadCheck, loadVars
  <1>2. ASSUME act' = "restore", refused' # NoTape, faults' = 0
        PROVE  \A e \in Drives : drive'[e] = refused' =>
                  \/ slot'[Head(todo').slot] # NoTape
                  \/ \E m \in DOMAIN inDrives' : inDrives'[m] = <<Head(todo').slot, e>>
    <2>0. faults \in Nat /\ TypeOK
      BY TapePathAssumption DEF TypeInv, TypeOK, FlowTypeOK
    <2>1. CASE LoadRelocate \/ LoadMove
      BY <1>2, <2>1 DEF LoadRelocate, LoadMove, RefusedInv, Loading
    <2>2. CASE LoadCheck
      <3> DEFINE a == todo[1]
                 e0 == ElementOf[todo[1].drive]
      <3>1. LoadView /\ Head(todo) = a /\ 1 \in DOMAIN todo /\ act = "check" /\ refused = NoTape
        BY <2>2, HeadTail DEF LoadCheck, LoadInv, Loading, TypeInv, TypeOK, ActivityTypeOK, RefusedInv
      <3>2. /\ refused' = barcode /\ UNCHANGED <<todo, slot, drive>>
            /\ inDrives' = Append(inDrives, <<a.slot, e0>>)
        BY <1>2, <2>2, <3>1 DEF LoadCheck, libVars, Element
      <3>3. drive[e0] = barcode /\ e0 \in Drives /\ a.slot \in Slots
        BY <2>0, <3>1, Entries DEF LoadView
      <3>4. \A e \in Drives : drive'[e] = refused' => e = e0
        BY <1>2, <3>2, <3>3 DEF LoadInv, OnePlace
      <3>5. Len(inDrives) + 1 \in DOMAIN inDrives' /\ inDrives'[Len(inDrives) + 1] = <<a.slot, e0>>
        BY <2>0, <3>2, <3>3, AppendOne DEF TypeOK, ActivityTypeOK
      <3> QED
        BY <3>1, <3>2, <3>4, <3>5
    <2>3. CASE LoadRestore
      <3>1. PICK p : p = Head(inDrives)
        OBVIOUS
      <3>2. /\ p \in Slots \X Drives /\ p = inDrives[1] /\ inDrives # <<>>
            /\ \A m \in DOMAIN inDrives : m = 1 \/ \E n \in DOMAIN Tail(inDrives) : Tail(inDrives)[n] = inDrives[m]
        <4>1. inDrives \in Seq(Slots \X Drives) /\ inDrives # <<>>
          BY <2>0, <2>3 DEF LoadRestore, TypeOK, ActivityTypeOK
        <4>2. p \in Slots \X Drives /\ p = inDrives[1]
          BY <3>1, <4>1, HeadTail
        <4>3. \A m \in DOMAIN inDrives : m = 1 \/ (m - 1 \in DOMAIN Tail(inDrives) /\ Tail(inDrives)[m - 1] = inDrives[m])
          BY <4>1, TailOnto
        <4> QED
          BY <4>1, <4>2, <4>3
      <3>3. /\ UNCHANGED <<todo, refused>> /\ inDrives' = Tail(inDrives) /\ act = "restore"
            /\ \/ CanUnload(p[1], p[2]) /\ MoveUnload(p[1], p[2]) /\ UNCHANGED faults
               \/ CommandFails(CanUnload(p[1], p[2])) /\ UNCHANGED <<slot, drive>>
        BY <2>3, <3>1 DEF LoadRestore, libVars
      <3>4. faults = 0
        BY <1>2, <2>0, <3>3 DEF CommandFails, Fault
      <3>5. Head(todo).slot \in Slots
        BY <2>0, <3>3, TodoHead DEF TypeInv, TypeOK, Control
      <3>6. CASE CanUnload(p[1], p[2]) /\ MoveUnload(p[1], p[2])
        <4>1. p[1] \in Slots /\ p[2] \in Drives
          BY <3>2
        <4>2. slot'[Head(todo).slot] = NoTape => slot[Head(todo).slot] = NoTape
          BY <2>0, <3>5, <3>6, <4>1 DEF MoveUnload, CanUnload, TypeOK, LibraryTypeOK
        <4>3. \A e \in Drives : drive'[e] = refused' => drive[e] = refused /\ e # p[2]
          BY <1>2, <2>0, <3>3, <3>6, <4>1 DEF MoveUnload, TypeOK, LibraryTypeOK
        <4> QED
          BY <1>2, <3>2, <3>3, <3>4, <4>2, <4>3 DEF RefusedInv
      <3>7. CASE CommandFails(CanUnload(p[1], p[2])) /\ UNCHANGED <<slot, drive>>
        <4>1. ~CanUnload(p[1], p[2])
          BY <1>2, <2>0, <3>7 DEF CommandFails, Fault
        <4>2. drive[p[2]] = refused => slot[p[1]] # NoTape
          BY <1>2, <3>3, <4>1 DEF CanUnload
        <4>3. \A e \in Drives : p = <<Head(todo).slot, e>> => p[1] = Head(todo).slot /\ p[2] = e
          OBVIOUS
        <4> QED
          BY <1>2, <3>2, <3>3, <3>4, <3>7, <4>2, <4>3 DEF RefusedInv
      <3> QED
        BY <3>3, <3>6, <3>7
    <2>4. CASE UNCHANGED <<act, todo, inDrives, refused, slot, drive, faults>>
      BY <1>2, <2>4 DEF RefusedInv
    <2> QED
      BY <1>2, <2>1, <2>2, <2>3, <2>4, RestoreUndisturbed
  <1> QED
    BY <1>1, <1>2 DEF RefusedInv

(***************************************************************************)
(* The tape Load refused as not blank is in no drive when the pause that   *)
(* says it "was returned" begins, unless a command failed or its slot was  *)
(* taken by a relocation of the same Load (Load's deferred restore).       *)
(***************************************************************************)
THEOREM RefusedTapesAreReturned == Spec => RefusedTapeReturned
  <1>1. Init => RefusedInv
    BY DEF Init, RefusedInv, Loading
  <1>2. ASSUME TypeInv, LoadInv, RefusedInv, [Next]_vars,
               wf = "load", wf' = "loadPause", told' = "refusedReturned"
        PROVE  \A e \in Drives : drive'[e] = refused => faults > 0 \/ slot[Head(todo).slot] # NoTape
    <2>1. LoadFailed \/ LoadLost
      BY <1>2 DEF Next, Worker, LoadNext, WriteNext, EjectNext, Faults, Operator, Ended, vars, Pauses,
           libVars, loadVars, setVars, writeVars, ejectVars, TypeInv, Control, LoadSteps,
           RunTapePath, LoadStart, LoadSkip, LoadRelocate, LoadMove, LoadCheck, LoadDone, LoadRestore,
           WriteStart, WriteFault, ReturnTape, ReturnDone,
           ReturnLost, FormatTape, WriteTape, WriteTapeFails, WriteDone, EjectUnload,
           EjectTransfer, EjectLost, EjectDone, Resume, PauseEnds, Cancel, RemoveFromIO, Restock
    <2>2. LoadFailed /\ refused # NoTape
      BY <1>2, <2>1 DEF LoadFailed, LoadLost, PauseOnLoad
    <2>3. act = "restore" /\ inDrives = <<>> /\ drive' = drive /\ faults \in Nat
      BY <1>2, <2>2, TapePathAssumption DEF LoadFailed, libVars, TypeInv, TypeOK, FlowTypeOK
    <2> QED
      BY <1>2, <2>2, <2>3 DEF RefusedInv
  <1> QED
    BY <1>1, <1>2, RefusedNext, LoadInvariant, PTL DEF Spec, RefusedTapeReturned

-----------------------------------------------------------------------------
(* Every pair is written once *)

\* The steps that move a pass on; the others only leave it, or repeat it.
LEMMA PassSteps ==
    ASSUME TypeInv, [Next]_vars
    PROVE  \/ RunTapePath \/ LoadDone \/ WriteStart \/ WriteDone \/ EjectDone \/ Resume
           \/ \E d \in Drives : FormatTape(d) \/ WriteTape(d) \/ WriteTapeFails(d)
           \/ /\ UNCHANGED <<base, pending, recorded, written, failed, stage>>
              /\ \/ wf' = wf
                 \/ wf = "load" /\ wf' = "loadPause"
                 \/ wf' \in {"return", "failed", "cancelled"}
              /\ wf' \in {"write", "writing"} \cup Ejecting => UNCHANGED loaded
  BY DEF Next, Worker, LoadNext, WriteNext, EjectNext, Faults, Operator, Ended, vars, Ejecting,
         TypeInv, Control, Pauses, LoadSteps, libVars, loadVars, setVars, writeVars, ejectVars,
         RunTapePath, LoadStart, LoadSkip, LoadRelocate, LoadMove, LoadCheck, LoadDone, LoadRestore,
         LoadFailed, LoadLost, PauseOnLoad, WriteStart, WriteFault, ReturnTape, ReturnDone,
         ReturnLost, WriteDone, EjectUnload, EjectTransfer, EjectLost, EjectDone, Resume, PauseEnds,
         Cancel, RemoveFromIO, Restock

\* A Load in flight belongs to the pass that waits for it.
LEMMA LoadBegins ==
    ASSUME TypeInv, [Next]_vars, wf' = "load", act \in Loading
    PROVE  wf = "load"
  <1>1. wf \in {"load", "cancelled"}
    BY DEF TypeInv, Control, Loading, TypeOK, FlowTypeOK, Terminal, Pauses
  <1>2. wf = "cancelled" => wf' # "load"
    BY DEF Next, Worker, LoadNext, WriteNext, EjectNext, Faults, Operator, Ended, vars, Pauses,
         RunTapePath, LoadStart, LoadSkip, LoadRelocate, LoadMove, LoadCheck, LoadDone, LoadRestore,
         LoadFailed, LoadLost, PauseOnLoad, WriteStart, WriteFault, ReturnTape, ReturnDone,
         ReturnLost, FormatTape, WriteTape, WriteTapeFails, WriteDone, EjectUnload,
         EjectTransfer, EjectLost, EjectDone, Resume, PauseEnds, Cancel, RemoveFromIO, Restock
  <1> QED
    BY <1>1, <1>2

LEMMA OrderNext ==
    ASSUME TypeInv, PairInv, [Next]_vars, wf' = "load", act' \in Loading
    PROVE  InOrder'
  <1>0. loaded \in Seq(LoadedTape) /\ todo \in Seq(Assignment) /\ pending \in Seq(Assignment)
    BY DEF TypeInv, TypeOK, FlowTypeOK, ActivityTypeOK
  <1>1. wf = "load" /\ act \in Loading => InOrder
    BY DEF PairInv, AnswerInv
  <1>2. CASE LoadStart
    <2>1. loaded' = <<>> /\ todo' = pending /\ pending' = pending
      BY <1>2 DEF LoadStart, setVars
    <2> QED
      BY <1>0, <2>1 DEF InOrder
  <1>3. CASE LoadSkip \/ LoadRelocate \/ LoadMove
    <2>1. UNCHANGED <<loaded, todo, pending, wf>> /\ act \in Loading
      BY <1>3 DEF LoadSkip, LoadRelocate, LoadMove, setVars, Loading
    <2> QED
      BY <1>1, <2>1 DEF InOrder
  <1>4. CASE LoadCheck
    <2>1. PICK r : r = [pair |-> Head(todo).pair, drive |-> Head(todo).drive, slot |-> Head(todo).slot, tape |-> barcode]
      OBVIOUS
    <2>2. /\ loaded' = Append(loaded, r) /\ todo' = Tail(todo) /\ UNCHANGED <<pending, wf>>
          /\ act = "check" /\ todo # <<>>
      BY <1>4, <2>1 DEF LoadCheck, setVars, Loading
    <2>3. InOrder
      BY <1>1, <2>2 DEF Loading
    <2>4. Head(todo) = todo[1] /\ 1 \in DOMAIN todo /\ Head(todo) \in Assignment
      BY <1>0, <2>2, HeadTail
    <2>5. r \in LoadedTape /\ Answers(r, todo[1])
      BY <2>1, <2>2, <2>4 DEF Answers, LoadedTape, Assignment, TypeInv, Control
    <2>6. /\ DOMAIN loaded' = DOMAIN loaded \cup {Len(loaded) + 1} /\ Len(loaded') = Len(loaded) + 1
          /\ \A n \in DOMAIN loaded : loaded'[n] = loaded[n] /\ n # Len(loaded) + 1
          /\ loaded'[Len(loaded) + 1] = r
      BY <1>0, <2>2, <2>5, AppendOne
    <2>7. Len(todo') = Len(todo) - 1 /\ Len(loaded) \in Nat /\ Len(todo) \in Nat
      BY <1>0, <2>2
    <2>8. Len(loaded') + Len(todo') = Len(pending)
      BY <2>3, <2>6, <2>7 DEF InOrder
    <2>9. \A n \in DOMAIN loaded' : Answers(loaded'[n], pending[n])
      BY <2>3, <2>4, <2>5, <2>6 DEF InOrder
    <2>10. \A n \in DOMAIN todo' : todo'[n] = pending[Len(loaded') + n]
      <3> SUFFICES ASSUME NEW n \in DOMAIN todo' PROVE todo'[n] = pending[Len(loaded') + n]
        OBVIOUS
      <3>1. n \in Nat /\ n + 1 \in DOMAIN todo /\ todo'[n] = todo[n + 1]
        BY <1>0, <2>2, HeadTail
      <3>2. Len(loaded') + n = Len(loaded) + (n + 1)
        BY <2>6, <2>7, <3>1
      <3> QED
        BY <2>3, <3>1, <3>2 DEF InOrder
    <2> QED
      BY <2>2, <2>8, <2>9, <2>10 DEF InOrder
  <1>5. CASE UNCHANGED <<act, todo, loaded, inv, relocated, barcode, slot, drive, medium, stage,
                          refused, pending, base, recorded>>
    <2>1. wf = "load" /\ act \in Loading
      BY <1>5, LoadBegins
    <2> QED
      BY <1>1, <1>5, <2>1 DEF InOrder
  <1> QED
    BY <1>2, <1>3, <1>4, <1>5, LoadUndisturbed

LEMMA AnswerNext ==
    ASSUME TypeInv, PairInv, [Next]_vars
    PROVE  AnswerInv'
  <1>1. wf' = "load" /\ act' \in Loading => InOrder'
    BY OrderNext
  <1>2. ASSUME wf' \in {"write", "writing"} \cup Ejecting
        PROVE  Answered'
    <2>1. CASE LoadDone
      <3>1. UNCHANGED <<loaded, pending, todo>> /\ todo = <<>> /\ act = "next"
        BY <2>1 DEF LoadDone, loadVars, setVars
      <3>2. wf = "load"
        BY <1>2, <2>1 DEF LoadDone, TypeInv, Control, Ejecting, Pauses
      <3>3. InOrder
        BY <3>1, <3>2 DEF PairInv, AnswerInv, Loading
      <3>4. Len(loaded) \in Nat
        BY DEF TypeInv, TypeOK, ActivityTypeOK
      <3> QED
        BY <3>1, <3>3, <3>4 DEF InOrder, Answered
    <2>2. CASE wf \in {"write", "writing"} \cup Ejecting /\ UNCHANGED <<loaded, pending>>
      BY <2>2 DEF PairInv, AnswerInv, Answered
    <2>3. LoadDone \/ (wf \in {"write", "writing"} \cup Ejecting /\ UNCHANGED <<loaded, pending>>)
      <3>1. CASE \E d \in Drives : FormatTape(d) \/ WriteTape(d) \/ WriteTapeFails(d)
        BY <1>2, <3>1 DEF FormatTape, WriteTape, WriteTapeFails, loadVars, setVars
      <3>2. CASE RunTapePath \/ WriteStart \/ WriteDone \/ EjectDone \/ Resume
        BY <1>2, <3>2 DEF RunTapePath, WriteStart, WriteDone, EjectDone, Resume, loadVars, setVars, Ejecting
      <3> QED
        BY <1>2, <3>1, <3>2, PassSteps DEF Ejecting
    <2> QED
      BY <2>1, <2>2, <2>3
  <1> QED
    BY <1>1, <1>2 DEF AnswerInv

\* Whatever drive finishes, its tape is the one entry that changes sides.
LEMMA WrittenNext ==
    ASSUME TypeInv, LoadInv, PairInv, [Next]_vars
    PROVE  WrittenInv'
  <1>0. /\ written \in Seq(LoadedTape) /\ failed \in Seq(LoadedTape) /\ TypeOK
        /\ stage \in [Drives -> {"idle", "formatting", "streaming", "done"}]
    BY DEF TypeInv, TypeOK, FlowTypeOK
  <1>1. CASE WriteStart
    <2>1. written' = <<>> /\ failed' = <<>> /\ loaded' = loaded
      BY <1>1 DEF WriteStart, loadVars
    <2>2. \A n \in DOMAIN loaded : stage'[loaded[n].drive] = "formatting"
      BY <1>0, <1>1, Entries DEF WriteStart, Range
    <2> QED
      BY <2>1, <2>2 DEF WrittenInv, Accounted, Active
  <1>2. ASSUME NEW d \in Drives, FormatTape(d) \/ WriteTape(d) \/ WriteTapeFails(d)
        PROVE  WrittenInv'
    <2>1. /\ stage[d] \in Active /\ UNCHANGED <<loaded, wf>>
          /\ \E v \in {"streaming", "done"} : stage' = [stage EXCEPT ![d] = v]
      BY <1>2 DEF FormatTape, WriteTape, WriteTapeFails, loadVars, Active
    <2>2. /\ LoadedIn(d) \in LoadedTape /\ LoadedIn(d).drive = d /\ wf \in {"writing", "cancelled"}
          /\ \E n \in DOMAIN loaded : LoadedIn(d) = loaded[n]
      <3>1. \E n \in DOMAIN loaded : loaded[n].drive = d
        BY <2>1 DEF TypeInv, Control
      <3> QED
        BY <2>1, <3>1, StreamedTape DEF LoadedIn, Range
    <2> SUFFICES ASSUME wf = "writing" PROVE WrittenInv'
      BY <2>1, <2>2 DEF WrittenInv, Ejecting
    <2>3. /\ Accounted /\ Apart(loaded)
          /\ \A m \in DOMAIN written : stage[written[m].drive] = "done" /\ written[m].drive # d
          /\ \A m \in DOMAIN failed : stage[failed[m].drive] = "done" /\ failed[m].drive # d
      BY <2>1 DEF PairInv, WrittenInv, LoadInv, SetsApart, Active
    <2>4. /\ \A m \in DOMAIN written : written[m].drive \in Drives
          /\ \A n \in DOMAIN loaded : loaded[n].drive \in Drives
      <3>1. \A m \in DOMAIN written : written[m] \in LoadedTape
        BY <1>0
      <3> QED
        BY <1>0, <3>1, Entries DEF LoadedTape
    <2>5. \A e \in Drives : e # d => stage'[e] = stage[e]
      BY <1>0, <2>1
    <2>6. \A n \in DOMAIN loaded : loaded[n].drive = d => loaded[n] = LoadedIn(d)
      BY <2>2, <2>3 DEF Apart
    <2>7. CASE FormatTape(d)
      <3>1. stage'[d] \in Active /\ UNCHANGED <<written, failed>>
        BY <1>0, <2>7 DEF FormatTape, Active
      <3> QED
        BY <2>1, <2>3, <2>4, <2>5, <3>1 DEF WrittenInv, Accounted
    <2>8. CASE WriteTape(d)
      <3>1. /\ written' = Append(written, LoadedIn(d)) /\ UNCHANGED failed
            /\ stage'[d] = "done"
        BY <1>0, <2>8 DEF WriteTape
      <3>2. /\ DOMAIN written' = DOMAIN written \cup {Len(written) + 1}
            /\ \A n \in DOMAIN written : written'[n] = written[n]
            /\ written'[Len(written) + 1] = LoadedIn(d)
        BY <1>0, <2>2, <3>1, AppendOne
      <3>3. \A m \in DOMAIN written' : stage'[written'[m].drive] = "done"
        BY <2>2, <2>3, <2>4, <2>5, <3>1, <3>2
      <3>4. \A m \in DOMAIN written' : \E n \in DOMAIN loaded : written'[m] = loaded[n]
        BY <2>2, <2>3, <3>2 DEF Accounted
      <3>5. \A m \in DOMAIN written', k \in DOMAIN failed : written'[m].drive # failed[k].drive
        BY <2>2, <2>3, <3>2 DEF Accounted
      <3>6. \A n \in DOMAIN loaded :
               \/ stage'[loaded[n].drive] \in Active
               \/ \E m \in DOMAIN written' : written'[m] = loaded[n]
               \/ \E m \in DOMAIN failed : failed[m] = loaded[n]
        BY <2>3, <2>4, <2>5, <2>6, <3>2 DEF Accounted
      <3> QED
        BY <2>1, <3>1, <3>3, <3>4, <3>5, <3>6 DEF WrittenInv, Accounted
    <2>9. CASE WriteTapeFails(d)
      <3>1. /\ failed' = Append(failed, LoadedIn(d)) /\ UNCHANGED written
            /\ stage'[d] = "done"
        BY <1>0, <2>9 DEF WriteTapeFails
      <3>2. /\ DOMAIN failed' = DOMAIN failed \cup {Len(failed) + 1}
            /\ \A n \in DOMAIN failed : failed'[n] = failed[n]
            /\ failed'[Len(failed) + 1] = LoadedIn(d)
        BY <1>0, <2>2, <3>1, AppendOne
      <3>3. \A m \in DOMAIN written, k \in DOMAIN failed' : written[m].drive # failed'[k].drive
        BY <2>2, <2>3, <3>2 DEF Accounted
      <3>4. \A n \in DOMAIN loaded :
               \/ stage'[loaded[n].drive] \in Active
               \/ \E m \in DOMAIN written : written[m] = loaded[n]
               \/ \E m \in DOMAIN failed' : failed'[m] = loaded[n]
        BY <2>3, <2>4, <2>5, <2>6, <3>2 DEF Accounted
      <3>5. \A m \in DOMAIN written : stage'[written[m].drive] = "done"
        BY <2>3, <2>4, <2>5
      <3> QED
        BY <2>1, <2>3, <3>1, <3>3, <3>4, <3>5 DEF WrittenInv, Accounted
    <2> QED
      BY <1>2, <2>7, <2>8, <2>9
  <1>3. CASE /\ UNCHANGED <<written, failed, stage>>
             /\ wf' = "writing" => wf = "writing" /\ UNCHANGED loaded
             /\ wf' \in Ejecting => wf \in {"writing"} \cup Ejecting /\ UNCHANGED loaded
    BY <1>3 DEF PairInv, WrittenInv, Accounted
  <1>4. CASE RunTapePath \/ LoadDone \/ WriteDone \/ EjectDone \/ Resume
    <2>1. /\ UNCHANGED <<written, failed, stage, loaded>>
          /\ wf' = "writing" => wf = "writing"
          /\ wf' \in Ejecting => wf \in {"writing"} \cup Ejecting
      BY <1>4 DEF RunTapePath, LoadDone, WriteDone, EjectDone, Resume, loadVars, writeVars, Ejecting
    <2> QED
      BY <1>3, <2>1
  <1> QED
    BY <1>1, <1>2, <1>3, <1>4, PassSteps DEF Ejecting

\* Planning hands out pairs no tape is recorded for; Eject records or retries.
LEMMA RecordNext ==
    ASSUME TypeInv, LoadInv, PairInv, [Next]_vars
    PROVE  RecordInv'
  <1>0. /\ base \in 0..Total /\ pending \in Seq(Assignment) /\ loaded \in Seq(LoadedTape)
        /\ RecordInv /\ Total \in Nat
    BY TapePathAssumption DEF TypeInv, TypeOK, FlowTypeOK, ActivityTypeOK, PairInv
  <1>1. CASE RunTapePath
    <2>1. wf = "plan" /\ recorded' = recorded
      BY <1>1 DEF RunTapePath, writeVars
    <2>2. CASE wf' # "load"
      BY <1>0, <1>1, <2>1, <2>2 DEF RunTapePath, RecordInv, Passing
    <2>3. CASE wf' = "load"
      <3> DEFINE size == IF Total - base < NumDrives THEN Total - base ELSE NumDrives
      <3>1. /\ base' = base + Len(NextDriveSet) /\ pending' = NextDriveSet
            /\ NextDriveSet = [n \in 1..size |-> [pair |-> base + n, drive |-> n, slot |-> BlankSlots[base + n]]]
        BY <1>1, <2>3 DEF RunTapePath, NextDriveSet
      <3>2. size \in Nat
        BY <1>0, LibraryAssumption
      <3> HIDE DEF size
      <3>3. DOMAIN pending' = 1..size /\ base' = base + size /\ \A n \in 1..size : pending'[n].pair = base + n
        BY <3>1, <3>2
      <3>4. Paired(pending')
        BY <1>0, <3>2, <3>3 DEF Paired
      <3>5. \A n \in DOMAIN pending' : pending'[n].pair \in 1..base' /\ \A r \in recorded : r.pair # pending'[n].pair
        BY <1>0, <3>2, <3>3 DEF RecordInv
      <3>6. \A p \in 1..base' : (\E r \in recorded : r.pair = p) \/ (\E n \in DOMAIN pending' : pending'[n].pair = p)
        <4> TAKE p \in 1..base'
        <4>1. CASE p <= base
          BY <1>0, <2>1, <3>3, <4>1 DEF RecordInv
        <4>2. CASE ~(p <= base)
          <5>1. p - base \in 1..size /\ base + (p - base) = p
            BY <1>0, <3>2, <3>3, <4>2
          <5> QED
            BY <3>3, <5>1
        <4> QED
          BY <4>1, <4>2
      <3>7. LeftToDo(pending)'
        BY <2>1, <3>4, <3>5, <3>6 DEF LeftToDo, Paired
      <3>8. \A r \in recorded : r.pair \in 1..base'
        BY <1>0, <3>2, <3>3 DEF RecordInv
      <3> QED
        BY <1>0, <2>1, <2>3, <3>7, <3>8 DEF RecordInv, LeftToDo, Paired
    <2> QED
      BY <2>2, <2>3
  <1>2. CASE Resume
    <2>1. /\ UNCHANGED <<base, recorded, failed>>
          /\ \/ wf = "loadPause" /\ wf' = "load" /\ UNCHANGED pending
             \/ wf = "ejectPause" /\ wf' = "eject" /\ UNCHANGED pending
             \/ wf = "writePause" /\ wf' = "load" /\ pending' = RetrySet
      BY <1>2 DEF Resume, writeVars
    <2>2. wf = "writePause" => LeftToDo(RetrySet)
      <3>1. DOMAIN RetrySet = DOMAIN failed /\ \A n \in DOMAIN failed : RetrySet[n].pair = failed[n].pair
        BY DEF RetrySet
      <3> QED
        BY <1>0, <3>1 DEF RecordInv, LeftToDo, Paired
    <2> QED
      BY <1>0, <2>1, <2>2 DEF RecordInv, LeftToDo, Paired, Passing
  <1>3. CASE EjectDone
    <2>1. CASE recorded' = recorded /\ (wf' = wf \/ (wf' = "ejectPause" /\ wf = "eject"))
      BY <1>0, <1>3, <2>1 DEF EjectDone, RecordInv, LeftToDo, Paired, Passing
    <2>2. CASE /\ recorded' = recorded \cup Range(written) /\ wf = "eject"
               /\ IF failed = <<>> THEN wf' = "plan" ELSE wf' = "writePause"
      <3>1. UNCHANGED <<base, pending, failed, written, loaded>> /\ act = "eject"
        BY <1>3 DEF EjectDone, loadVars
      <3>2. /\ LeftToDo(pending) /\ Answered /\ Accounted /\ Apart(failed)
            /\ \A m \in DOMAIN failed : \E n \in DOMAIN loaded : failed[m] = loaded[n]
        BY <2>2 DEF PairInv, RecordInv, AnswerInv, WrittenInv, Passing, Ejecting, LoadInv, SetsApart
      <3>3. DOMAIN loaded = DOMAIN pending /\ \A n \in DOMAIN loaded : loaded[n].pair = pending[n].pair
        BY <1>0, <3>2 DEF Answered, Answers
      <3>4. \A n \in DOMAIN loaded : \/ \E m \in DOMAIN written : written[m] = loaded[n]
                                     \/ \E m \in DOMAIN failed : failed[m] = loaded[n]
        <4>1. \A n \in DOMAIN loaded : stage[loaded[n].drive] \notin Active
          BY <3>1, Entries DEF TypeInv, Control
        <4> QED
          BY <3>2, <4>1 DEF Accounted
      <3>5. \A r : r \in recorded' <=> r \in recorded \/ \E m \in DOMAIN written : r = written[m]
        BY <2>2 DEF Range
      <3>6. /\ \A r1, r2 \in recorded' : r1.pair = r2.pair => r1 = r2
            /\ \A r \in recorded' : r.pair \in 1..base
        BY <1>0, <3>2, <3>3, <3>5 DEF RecordInv, LeftToDo, Paired, Accounted
      <3>7. \A p \in 1..base : (\E r \in recorded' : r.pair = p) \/ (\E n \in DOMAIN failed : failed[n].pair = p)
        BY <3>2, <3>3, <3>4, <3>5 DEF LeftToDo
      <3>8. Paired(failed)
        BY <3>2, <3>3 DEF Paired, LeftToDo, Apart
      <3>9. \A n \in DOMAIN failed : failed[n].pair \in 1..base /\ \A r \in recorded' : r.pair # failed[n].pair
        BY <3>2, <3>3, <3>5 DEF LeftToDo, Paired, Accounted
      <3> QED
        BY <2>2, <3>1, <3>6, <3>7, <3>8, <3>9 DEF RecordInv, LeftToDo, Paired, Passing
    <2>3. \/ recorded' = recorded /\ (wf' = wf \/ (wf' = "ejectPause" /\ wf = "eject"))
          \/ /\ recorded' = recorded \cup Range(written) /\ wf = "eject"
             /\ IF failed = <<>> THEN wf' = "plan" ELSE wf' = "writePause"
      BY <1>3 DEF EjectDone, NewlyRecorded
    <2> QED
      BY <2>1, <2>2, <2>3
  <1>4. CASE /\ UNCHANGED <<base, pending, recorded>>
             /\ wf' \in Passing => wf \in Passing
             /\ wf' = "plan" => wf = "plan"
             /\ wf' = "writePause" => wf = "writePause" /\ UNCHANGED failed
    BY <1>0, <1>4 DEF RecordInv, LeftToDo, Paired
  <1>5. CASE LoadDone \/ WriteStart \/ WriteDone
               \/ \E d \in Drives : FormatTape(d) \/ WriteTape(d) \/ WriteTapeFails(d)
    <2>1. /\ UNCHANGED <<base, pending, recorded>>
          /\ wf' \in Passing => wf \in Passing
          /\ wf' = "plan" => wf = "plan"
          /\ wf' = "writePause" => wf = "writePause" /\ UNCHANGED failed
      BY <1>5 DEF LoadDone, WriteStart, WriteDone, FormatTape, WriteTape, WriteTapeFails, setVars,
                  writeVars, Passing, TypeInv, Control, Pauses
    <2> QED
      BY <1>4, <2>1
  <1> QED
    BY <1>1, <1>2, <1>3, <1>4, <1>5, PassSteps DEF Passing

LEMMA PairInit == Init => PairInv
  BY TapePathAssumption DEF Init, PairInv, RecordInv, AnswerInv, WrittenInv, Passing, Ejecting

\* Every pair handed out is recorded once or still to do, in every reachable state.
LEMMA PairInvariant == Spec => [](TypeInv /\ LoadInv /\ PairInv)
  <1>1. TypeInv /\ LoadInv /\ PairInv /\ [Next]_vars => PairInv'
    BY RecordNext, AnswerNext, WrittenNext DEF PairInv
  <1> QED
    BY <1>1, PairInit, LoadInvariant, PTL DEF Spec

-----------------------------------------------------------------------------
(* The tape path implements ArchiveRecord *)

\* How a run ends: once, and well only with every drive-set recorded.
LEMMA EndSteps ==
    ASSUME TypeInv, [Next]_vars
    PROVE  /\ wf \in Terminal => wf' = wf
           /\ wf' = "ok" /\ wf # "ok" => wf = "plan" /\ base = Total
  <1>1. CASE Worker
    BY <1>1 DEF Worker, LoadNext, WriteNext, EjectNext, Terminal, TypeInv, Control, Pauses,
         RunTapePath, LoadStart, LoadSkip, LoadRelocate, LoadMove, LoadCheck, LoadDone, LoadRestore,
         LoadFailed, PauseOnLoad, WriteStart, ReturnTape, ReturnDone, FormatTape, WriteTape, WriteDone,
         EjectUnload, EjectTransfer, EjectDone
  <1>2. CASE Faults \/ Operator \/ PauseEnds \/ Ended \/ UNCHANGED vars
    BY <1>2 DEF Faults, Operator, Ended, vars, Terminal, TypeInv, Control, Pauses, LoadLost, PauseOnLoad,
         WriteFault, ReturnLost, WriteTapeFails, EjectLost, Resume, PauseEnds, Cancel, RemoveFromIO, Restock
  <1> QED
    BY <1>1, <1>2 DEF Next

\* Only a completed Eject adds to the record, and the run goes on.
LEMMA RecordSteps ==
    ASSUME [Next]_vars, recorded' # recorded
    PROVE  /\ wf = "eject" /\ wf' \in {"plan", "writePause"}
           /\ recorded' = recorded \cup Range(written)
  <1>1. EjectDone
    BY DEF Next, Worker, LoadNext, WriteNext, EjectNext, Faults, Operator, Ended, vars, writeVars,
         RunTapePath, LoadStart, LoadSkip, LoadRelocate, LoadMove, LoadCheck, LoadDone, LoadRestore,
         LoadFailed, LoadLost, WriteStart, WriteFault, ReturnTape, ReturnDone,
         ReturnLost, FormatTape, WriteTape, WriteTapeFails, WriteDone, EjectUnload,
         EjectTransfer, EjectLost, Resume, PauseEnds, Cancel, RemoveFromIO, Restock
  <1> QED
    BY <1>1 DEF EjectDone, NewlyRecorded

LEMMA ArchiveStep ==
    ASSUME TypeInv, LoadInv, MediaInv, PairInv, MediaInv', PairInv', TypeInv', [Next]_vars
    PROVE  [Archive!Next]_<<Content, Record, Outcome>>
  <1>0. /\ TypeOK /\ RecordedIntact /\ RecordedIntact' /\ RecordInv /\ RecordInv'
        /\ recorded \subseteq LoadedTape /\ recorded' \subseteq LoadedTape
    BY DEF TypeInv, TypeOK, FlowTypeOK, MediaInv, PairInv
  <1>1. CASE UNCHANGED <<medium, holds>>
    <2>1. Content' = Content
      BY <1>1 DEF Content
    <2>2. CASE recorded' # recorded
      <3>1. /\ Outcome' = "running" /\ Outcome = "running" /\ recorded \subseteq recorded'
        BY <2>2, RecordSteps DEF Outcome, Terminal
      <3>2. Record' \in SUBSET Archive!Copy
        BY <1>0 DEF Record, Archive!Copy, LoadedTape
      <3>3. \A r \in Record' : Content[r.tape] = r.pair
        BY <1>0, <1>1 DEF Record, Content, RecordedIntact, LoadedTape
      <3>4. \A q, r \in recorded' : q.pair = r.pair \/ q.tape = r.tape => q = r
        BY <1>0 DEF RecordedIntact, RecordInv
      <3>5. Archive!OneToOne(Record')
        BY <3>4 DEF Archive!OneToOne, Record
      <3>6. Record' = Record \cup Record'
        BY <3>1 DEF Record
      <3>7. Archive!Commit
        BY <2>1, <3>1, <3>2, <3>3, <3>5, <3>6 DEF Archive!Commit
      <3> QED
        BY <3>7 DEF Archive!Next
    <2>3. CASE recorded' = recorded
      <3>1. Record' = Record
        BY <2>3 DEF Record
      <3>2. CASE Outcome' = Outcome
        BY <2>1, <3>1, <3>2
      <3>3. CASE Outcome' # Outcome
        <4>1. Outcome = "running" /\ Outcome' \in {"ok", "ended"}
          BY <3>3, EndSteps DEF Outcome, Terminal
        <4>2. Outcome' = "ok" => {r.pair : r \in Record} = Pairs
          <5> SUFFICES ASSUME Outcome' = "ok" PROVE {r.pair : r \in Record} = Pairs
            OBVIOUS
          <5>1. wf = "plan" /\ base = Total
            BY <3>3, EndSteps DEF Outcome, Terminal
          <5>2. /\ \A r \in recorded : r.pair \in Pairs
                /\ \A p \in Pairs : \E r \in recorded : r.pair = p
            BY <1>0, <5>1 DEF RecordInv, Pairs
          <5>3. {r.pair : r \in Record} \subseteq Pairs
            BY <5>2 DEF Record
          <5>4. Pairs \subseteq {r.pair : r \in Record}
            <6> SUFFICES ASSUME NEW p \in Pairs PROVE p \in {r.pair : r \in Record}
              OBVIOUS
            <6>1. PICK q \in recorded : q.pair = p
              BY <5>2
            <6>2. [pair |-> q.pair, tape |-> q.tape] \in Record
              BY DEF Record
            <6> QED
              BY <6>1, <6>2
          <5> QED
            BY <5>3, <5>4
        <4>3. Archive!End
          BY <2>1, <3>1, <4>1, <4>2 DEF Archive!End
        <4> QED
          BY <4>3 DEF Archive!Next
      <3> QED
        BY <3>2, <3>3
    <2> QED
      BY <2>2, <2>3
  <1>2. ASSUME NEW d \in Drives, MediumStep(d)
        PROVE  [Archive!Next]_<<Content, Record, Outcome>>
    <2>1. Record' = Record /\ Outcome' = Outcome
      BY <1>2 DEF MediumStep, Record, Outcome
    <2>2. PICK t : t = MediumIn(d)
      OBVIOUS
    <2>3. PICK p : p = IF stage[d] = "formatting" THEN 0 ELSE LoadedIn(d).pair
      OBVIOUS
    <2>4. t \in Tapes /\ p \in Pairs \cup {0}
      BY <1>2, <2>2, <2>3, StreamedTape DEF MediumStep, LoadedTape
    <2>5. medium[t] \in {"blank", "partial"}
      BY <1>2, <2>2 DEF MediumStep, MediaInv, Active
    <2>6. t \notin {r.tape : r \in Record}
      BY <1>0, <2>5 DEF Record, RecordedIntact
    <2>7. /\ \A x \in Tapes : x # t => medium'[x] = medium[x] /\ holds'[x] = holds[x]
          /\ medium'[t] = (IF stage[d] = "formatting" THEN "partial" ELSE "complete")
          /\ holds'[t] = p
      BY <1>0, <1>2, <2>2, <2>3, <2>4 DEF MediumStep, TypeOK, LibraryTypeOK
    <2>8. Content' = [Content EXCEPT ![t] = p]
      BY <2>3, <2>4, <2>7 DEF Content
    <2>9. Archive!Write
      BY <2>1, <2>4, <2>6, <2>8 DEF Archive!Write, Archive!Recorded
    <2> QED
      BY <2>9 DEF Archive!Next
  <1> QED
    BY <1>1, <1>2, WriteSteps, QuietSteps

LEMMA ArchiveInit == Init => Archive!Init
  <1> SUFFICES ASSUME Init PROVE Archive!Init
    OBVIOUS
  <1>1. Record = {} /\ Outcome = "running"
    BY DEF Init, Record, Outcome, Terminal
  <1>2. \A t \in Tapes : medium[t] # "complete"
    BY TapePathAssumption DEF Init, Layout
  <1> QED
    BY <1>1, <1>2 DEF Archive!Init, Content

(***************************************************************************)
(* Seen through the finished contents of the tapes and state.written, the  *)
(* tape path only ever writes an unrecorded tape, records tapes that carry *)
(* what they are recorded for, each pair and each tape once, and ends: ok  *)
(* with every pair on record, however many sets, retries, restocks and     *)
(* interrupted activities lie in between.  The premise is needed for the   *)
(* reason it is in RecordedTapesStayIntact.                                *)
(***************************************************************************)
THEOREM TapePathImplementsArchiveRecord ==
    ASSUME ~AllowNonBlank
    PROVE  Spec => ImplementsArchiveRecord
  <1>1. TypeInv /\ LoadInv /\ MediaInv /\ PairInv /\ TypeInv' /\ MediaInv' /\ PairInv' /\ [Next]_vars
          => [Archive!Next]_<<Content, Record, Outcome>>
    BY ArchiveStep
  <1> QED
    BY <1>1, ArchiveInit, MediaInvariant, PairInvariant, PTL DEF Spec, ImplementsArchiveRecord, Archive!Spec

-----------------------------------------------------------------------------
(* What the operator is told *)

\* The steps that neither eject nor return a tape.
LEMMA ToldSteps ==
    ASSUME TypeInv, [Next]_vars
    PROVE  \/ WriteFault \/ ReturnTape \/ ReturnDone \/ WriteDone
           \/ EjectUnload \/ EjectTransfer \/ EjectDone \/ Resume
           \/ /\ \/ UNCHANGED <<wf, told>>
                 \/ told' \notin {"noneInDrive", "returned"} /\ wf' # "ejectPause"
                 \/ told' = told /\ wf \notin {"return", "failed"}
                      /\ wf' \notin {"return", "loadPause", "writePause", "ejectPause", "eject", "failed"}
                 \/ told' = told /\ wf \in Pauses /\ wf' = "failed"
                 \/ told' = told /\ wf = "plan" /\ wf' = "failed" /\ PlanError
              /\ wf \in {"return", "failed", "eject", "ejectPause"} =>
                   UNCHANGED <<loaded, drive, slot, queue, inv>>
              /\ wf' = "eject" => wf = "eject" /\ act' = act
              /\ wf' \in {"return", "ejectPause"} => wf' = wf
  <1> USE DEF TypeInv, Control, Pauses, LoadSteps, Active, libVars, loadVars, setVars, writeVars, ejectVars
  <1>1. CASE LoadNext \/ LoadLost
    BY <1>1 DEF LoadNext, LoadStart, LoadSkip, LoadRelocate, LoadMove, LoadCheck, LoadDone,
                LoadRestore, LoadFailed, LoadLost, PauseOnLoad
  <1>2. CASE RunTapePath \/ WriteStart \/ ReturnLost \/ EjectLost
    BY <1>2 DEF RunTapePath, WriteStart, ReturnLost, EjectLost
  <1>3. CASE \E d \in Drives : FormatTape(d) \/ WriteTape(d) \/ WriteTapeFails(d)
    BY <1>3 DEF FormatTape, WriteTape, WriteTapeFails
  <1>4. CASE PauseEnds \/ Cancel \/ UNCHANGED vars
    BY <1>4 DEF PauseEnds, Cancel, vars
  <1>5. CASE (\E i \in IOs : RemoveFromIO(i)) \/ (\E s \in Slots : Restock(s))
    BY <1>5 DEF RemoveFromIO, Restock
  <1> QED
    BY <1>1, <1>2, <1>3, <1>4, <1>5 DEF Next, Worker, WriteNext, EjectNext, Faults, Operator, Ended

LEMMA PlanNext ==
    ASSUME TypeInv, PlanInv, [Next]_vars
    PROVE  PlanInv'
  <1>1. PlanError' = PlanError
    BY DEF PlanError
  <1> SUFFICES ASSUME PlanError, wf \in {"plan", "failed"}, told = "nothing"
               PROVE  wf' \in {"plan", "failed"} /\ told' = "nothing"
    BY <1>1 DEF PlanInv
  <1>2. act = "idle" /\ \A d \in Drives : stage[d] \notin Active
    BY DEF TypeInv, Control
  <1> QED
    BY <1>2 DEF Next, Worker, LoadNext, WriteNext, EjectNext, Faults, Operator, Ended, vars, setVars,
         Pauses, LoadSteps, Active, RunTapePath,
         LoadStart, LoadSkip, LoadRelocate, LoadMove, LoadCheck, LoadDone, LoadRestore,
         LoadFailed, LoadLost, PauseOnLoad, WriteStart, WriteFault, ReturnTape, ReturnDone,
         ReturnLost, FormatTape, WriteTape, WriteTapeFails, WriteDone, EjectUnload,
         EjectTransfer, EjectLost, EjectDone, Resume, PauseEnds, Cancel, RemoveFromIO, Restock

\* The entries of a concatenation.
LEMMA BothIn ==
    ASSUME NEW S, NEW s \in Seq(S), NEW t \in Seq(S)
    PROVE  /\ \A m \in DOMAIN s : m \in DOMAIN (s \o t) /\ (s \o t)[m] = s[m]
           /\ \A m \in DOMAIN t : Len(s) + m \in DOMAIN (s \o t) /\ (s \o t)[Len(s) + m] = t[m]
  OBVIOUS

\* A tape Eject unloads, or finds at the station, is in no drive afterwards.
LEMMA EjectNextInv ==
    ASSUME TypeInv, LoadInv, EmptyInv, EjectUnload, wf = "eject"
    PROVE  EmptyInv'
  <1>0. TypeOK /\ OnePlace /\ act = "eject" /\ wf' = wf /\ UNCHANGED <<loaded, told>>
    BY DEF TypeInv, LoadInv, EjectUnload, loadVars
  <1>1. PICK r : r = Head(queue)
    OBVIOUS
  <1>2. /\ queue \in Seq(LoadedTape) /\ queue # <<>> /\ r = queue[1] /\ r.tape \in Tapes
        /\ r.slot \in Slots
    BY <1>0, <1>1, HeadTail, QueueHead DEF EjectUnload, TypeOK, ActivityTypeOK
  <1>3. \A m \in DOMAIN queue : m = 1 \/ (m - 1 \in DOMAIN Tail(queue) /\ Tail(queue)[m - 1] = queue[m])
    BY <1>2, TailOnto
  <1>4. \A n \in DOMAIN loaded : InDrive(loaded[n].tape) => \E m \in DOMAIN queue : queue[m] = loaded[n]
    BY <1>0 DEF EmptyInv
  <1> SUFFICES \A n \in DOMAIN loaded : (\E x \in Drives : drive'[x] = loaded[n].tape) =>
                 \E m \in DOMAIN queue' : queue'[m] = loaded[n] /\ (act' = "transfer" => m # 1)
    BY <1>0 DEF EmptyInv, InDrive
  <1>5. CASE InIO(r.tape) /\ queue' = Tail(queue) /\ UNCHANGED <<drive, act>>
    <2>1. ~InDrive(r.tape)
      BY <1>0, <1>2, <1>5, LibraryAssumption DEF OnePlace, InIO, InDrive
    <2>2. \A n \in DOMAIN loaded : (\E x \in Drives : drive'[x] = loaded[n].tape) => InDrive(loaded[n].tape)
      BY <1>5 DEF InDrive
    <2> SUFFICES ASSUME NEW n \in DOMAIN loaded, \E x \in Drives : drive'[x] = loaded[n].tape
                 PROVE  \E m \in DOMAIN queue' : queue'[m] = loaded[n] /\ (act' = "transfer" => m # 1)
      OBVIOUS
    <2>3. PICK m \in DOMAIN queue : queue[m] = loaded[n]
      BY <1>4, <2>2
    <2>4. m # 1
      BY <1>2, <2>1, <2>2, <2>3
    <2>5. m - 1 \in DOMAIN queue' /\ queue'[m - 1] = loaded[n]
      BY <1>3, <1>5, <2>3, <2>4
    <2> QED
      BY <1>0, <1>5, <2>5
  <1>6. CASE ~InDrive(r.tape) /\ UNCHANGED <<drive, queue>>
    <2>1. \A n \in DOMAIN loaded : (\E x \in Drives : drive'[x] = loaded[n].tape) => InDrive(loaded[n].tape)
      BY <1>6 DEF InDrive
    <2> QED
      BY <1>2, <1>4, <1>6, <2>1
  <1>7. ASSUME NEW e \in Drives, drive[e] = r.tape, MoveUnload(r.slot, e), queue' = queue
        PROVE  \A n \in DOMAIN loaded : (\E x \in Drives : drive'[x] = loaded[n].tape) =>
                 \E m \in DOMAIN queue' : queue'[m] = loaded[n] /\ (act' = "transfer" => m # 1)
    <2>1. \A n \in DOMAIN loaded : loaded[n].tape # NoTape
      BY <1>0, Entries, LibraryAssumption
    <2>2. \A n \in DOMAIN loaded : (\E x \in Drives : drive'[x] = loaded[n].tape) =>
                                 InDrive(loaded[n].tape) /\ loaded[n].tape # r.tape
      BY <1>0, <1>7, <2>1 DEF InDrive, MoveUnload, OnePlace, TypeOK, LibraryTypeOK
    <2> QED
      BY <1>2, <1>4, <1>7, <2>1, <2>2
  <1> QED
    BY <1>1, <1>5, <1>6, <1>7 DEF EjectUnload, libVars

LEMMA EmptyNext ==
    ASSUME TypeInv, LoadInv, PairInv, PlanInv, EmptyInv, [Next]_vars
    PROVE  EmptyInv'
  <1>0. TypeOK /\ queue \in Seq(LoadedTape)
    BY DEF TypeInv, TypeOK, ActivityTypeOK
  <1>1. CASE WriteFault \/ ReturnTape \/ ReturnDone
    <2>1. \/ wf' = "return" /\ told' # "noneInDrive"
          \/ wf = "return" /\ wf' = "failed" /\ told' = told
      BY <1>1 DEF WriteFault, ReturnTape, ReturnDone, setVars, TypeInv, Control, EmptyInv
    <2> QED
      BY <2>1 DEF EmptyInv
  <1>2. CASE WriteDone
    <2>1. /\ wf = "writing" /\ wf' = "eject" /\ act' = "eject" /\ queue' = written \o failed
          /\ UNCHANGED loaded /\ \A d \in Drives : stage[d] \notin Active
      BY <1>2 DEF WriteDone, loadVars, Active
    <2>2. \A n \in DOMAIN loaded : \/ \E m \in DOMAIN written : written[m] = loaded[n]
                                   \/ \E m \in DOMAIN failed : failed[m] = loaded[n]
      BY <1>0, <2>1, Entries DEF PairInv, WrittenInv, Accounted
    <2>3. written \in Seq(LoadedTape) /\ failed \in Seq(LoadedTape)
      BY <1>0 DEF TypeOK, FlowTypeOK
    <2>4. /\ \A m \in DOMAIN written : \E k \in DOMAIN queue' : queue'[k] = written[m]
          /\ \A m \in DOMAIN failed : \E k \in DOMAIN queue' : queue'[k] = failed[m]
      <3>1. PICK q : q = written \o failed
        OBVIOUS
      <3>2. /\ \A m \in DOMAIN written : m \in DOMAIN q /\ q[m] = written[m]
            /\ \A m \in DOMAIN failed : Len(written) + m \in DOMAIN q /\ q[Len(written) + m] = failed[m]
        BY <2>3, <3>1, BothIn
      <3> QED
        BY <2>1, <3>1, <3>2
    <2>5. \A n \in DOMAIN loaded : \E m \in DOMAIN queue' : queue'[m] = loaded[n]
      BY <2>2, <2>4
    <2> QED
      BY <2>1, <2>5 DEF EmptyInv
  <1>3. CASE EjectUnload
    <2>1. CASE wf = "eject"
      BY <1>3, <2>1, EjectNextInv
    <2>2. CASE wf # "eject"
      BY <1>3, <2>2 DEF EjectUnload, TypeInv, Control, Pauses, EmptyInv
    <2> QED
      BY <2>1, <2>2
  <1>4. CASE EjectTransfer
    <2>1. CASE wf = "eject"
      <3>1. /\ queue' = Tail(queue) /\ act = "transfer" /\ act' = "eject" /\ queue # <<>>
            /\ UNCHANGED <<drive, loaded, wf, told>>
        BY <1>4 DEF EjectTransfer, loadVars, setVars, libVars, MoveTransfer, TypeInv, Control
      <3>2. \A m \in DOMAIN queue : m = 1 \/ (m - 1 \in DOMAIN Tail(queue) /\ Tail(queue)[m - 1] = queue[m])
        BY <1>0, <3>1, TailOnto
      <3>3. \A n \in DOMAIN loaded : InDrive(loaded[n].tape) =>
              \E m \in DOMAIN queue : queue[m] = loaded[n] /\ m # 1
        BY <2>1, <3>1 DEF EmptyInv
      <3>4. \A n \in DOMAIN loaded : InDrive(loaded[n].tape) => \E m \in DOMAIN queue' : queue'[m] = loaded[n]
        BY <3>1, <3>2, <3>3
      <3> QED
        BY <2>1, <3>1, <3>4 DEF EmptyInv, InDrive
    <2>2. CASE wf # "eject"
      BY <1>4, <2>2 DEF EjectTransfer, TypeInv, Control, Pauses, EmptyInv, setVars
    <2> QED
      BY <2>1, <2>2
  <1>5. CASE EjectDone
    <2>a. /\ act = "eject" /\ act' = "idle" /\ queue = <<>> /\ UNCHANGED <<drive, loaded, queue>>
      BY <1>5 DEF EjectDone, libVars, loadVars, ejectVars
    <2>b. wf # "eject" => UNCHANGED <<wf, told>>
      BY <1>5 DEF EjectDone
    <2>c. wf = "eject" => \/ wf' = "ejectPause" /\ told' = "noneInDrive"
                          \/ wf' = "writePause" /\ told' = "nothing"
                          \/ wf' = "plan"
      BY <1>5 DEF EjectDone
    <2>1. act = "eject" /\ queue = <<>>
      BY <2>a
    <2>2. wf \in {"eject", "cancelled"} \cup {"load"}
      BY <2>1 DEF TypeInv, Control, Pauses, TypeOK, FlowTypeOK, Terminal
    <2>3. wf = "eject" => \A n \in DOMAIN loaded : ~InDrive(loaded[n].tape)
      BY <2>1 DEF EmptyInv
    <2> QED
      BY <2>a, <2>b, <2>c, <2>2, <2>3 DEF EmptyInv, InDrive
  <1>6. CASE Resume
    <2>1. /\ UNCHANGED <<drive, loaded, told>>
          /\ wf' = "load" \/ (wf = "ejectPause" /\ wf' = "eject")
      BY <1>6 DEF Resume, libVars, loadVars
    <2> QED
      BY <2>1 DEF EmptyInv, InDrive
  <1>7. CASE /\ \/ UNCHANGED <<wf, told>>
                \/ told' \notin {"noneInDrive", "returned"} /\ wf' # "ejectPause"
                \/ told' = told /\ wf \notin {"return", "failed"}
                     /\ wf' \notin {"return", "loadPause", "writePause", "ejectPause", "eject", "failed"}
                \/ told' = told /\ wf \in Pauses /\ wf' = "failed"
                \/ told' = told /\ wf = "plan" /\ wf' = "failed" /\ PlanError
             /\ wf \in {"return", "failed", "eject", "ejectPause"} =>
                  UNCHANGED <<loaded, drive, slot, queue, inv>>
             /\ wf' = "eject" => wf = "eject" /\ act' = act
             /\ wf' \in {"return", "ejectPause"} => wf' = wf
    <2>1. wf' = "ejectPause" => told' = "noneInDrive"
      BY <1>7 DEF EmptyInv
    <2>2. wf' \in {"return", "loadPause", "writePause"} => told' # "noneInDrive"
      BY <1>7 DEF EmptyInv
    <2>3. told' = "noneInDrive" /\ wf' \in {"ejectPause", "failed"} =>
            \A n \in DOMAIN loaded' : ~InDrive(loaded[n].tape)'
      BY <1>7 DEF EmptyInv, PlanInv, Pauses, InDrive
    <2>4. wf' = "eject" => \A n \in DOMAIN loaded' : InDrive(loaded[n].tape)' =>
            \E m \in DOMAIN queue' : queue'[m] = loaded'[n] /\ (act' = "transfer" => m # 1)
      BY <1>7 DEF EmptyInv, InDrive
    <2> QED
      BY <2>1, <2>2, <2>3, <2>4 DEF EmptyInv
  <1> QED
    BY <1>1, <1>2, <1>3, <1>4, <1>5, <1>6, <1>7, ToldSteps

\* ReturnToSlots finds the tape the inventory shows, and frees only its drive.
LEMMA ReturnStep ==
    ASSUME TypeInv, LoadInv, ReturnInv, ReturnTape
    PROVE  ReturnInv'
  <1>0. /\ TypeOK /\ wf = "return" /\ wf' = wf /\ queue' = Tail(queue) /\ UNCHANGED <<loaded, inv>>
        /\ queue \in Seq(LoadedTape) /\ queue # <<>> /\ ToReturn
    BY DEF TypeInv, TypeOK, ActivityTypeOK, Control, ReturnTape, ReturnInv, loadVars
  <1>1. PICK r : r = Head(queue)
    OBVIOUS
  <1>2. PICK e : e = Element(r)
    OBVIOUS
  <1>3. /\ r = queue[1] /\ 1 \in DOMAIN queue /\ r.slot \in Slots /\ r.tape \in Tapes /\ r.drive \in Drives
        /\ e \in Drives /\ e = ElementOf[r.drive]
    BY <1>0, <1>1, <1>2, HeadTail, QueueHead DEF TypeOK, Element
  <1>4. drive[e] = r.tape /\ inv.drive[e] # NoTape /\ \E n \in DOMAIN loaded : r = loaded[n]
    BY <1>0, <1>3 DEF ToReturn
  <1>5. \/ MoveUnload(r.slot, e) /\ slot[r.slot] = NoTape /\ told' = told
        \/ told' = "maybeInDrives" /\ UNCHANGED <<slot, drive>>
    BY <1>1, <1>2, <1>4 DEF ReturnTape, libVars, CanUnload
  <1>6. \A m \in DOMAIN queue' : m \in Nat /\ m # 0 /\ m + 1 \in DOMAIN queue /\ queue'[m] = queue[m + 1]
    BY <1>0, HeadTail
  <1>7. Apart(queue')
    BY <1>0, <1>6 DEF ToReturn, Apart
  <1>8. \A m \in DOMAIN queue' : /\ queue'[m].drive # r.drive
                                 /\ queue'[m].drive \in Drives /\ ElementOf[queue'[m].drive] \in Drives
                                 /\ ElementOf[queue'[m].drive] # e
    <2> TAKE m \in DOMAIN queue'
    <2>1. queue[m + 1] \in LoadedTape /\ m + 1 # 1 /\ m + 1 \in DOMAIN queue
      BY <1>0, <1>6
    <2>2. queue'[m].drive # r.drive
      BY <1>0, <1>3, <1>6, <2>1 DEF ToReturn, Apart
    <2>3. queue'[m].drive \in Drives
      BY <1>6, <2>1 DEF LoadedTape
    <2> QED
      BY <1>3, <2>2, <2>3, TapePathAssumption
  <1>9. \A x \in Drives : x # e => drive'[x] = drive[x]
    BY <1>0, <1>3, <1>5 DEF MoveUnload, TypeOK, LibraryTypeOK
  <1>10. ToReturn'
    <2>1. \A m \in DOMAIN queue' :
             /\ drive'[ElementOf[queue'[m].drive]] = queue'[m].tape
             /\ inv.drive[ElementOf[queue'[m].drive]] # NoTape
             /\ \E n \in DOMAIN loaded : queue'[m] = loaded[n]
      BY <1>0, <1>6, <1>8, <1>9 DEF ToReturn
    <2> QED
      BY <1>0, <1>7, <2>1 DEF ToReturn, Apart
  <1>11. ASSUME told' = "returned", NEW n \in DOMAIN loaded
         PROVE  slot'[loaded[n].slot] = loaded[n].tape \/ \E m \in DOMAIN queue' : queue'[m] = loaded[n]
    <2>1. /\ MoveUnload(r.slot, e) /\ slot[r.slot] = NoTape /\ told = "returned" /\ Apart(loaded)
          /\ slot[loaded[n].slot] = loaded[n].tape \/ \E m \in DOMAIN queue : queue[m] = loaded[n]
      BY <1>5, <1>11 DEF ReturnInv
    <2>2. /\ slot'[r.slot] = r.tape /\ \A x \in Slots : x # r.slot => slot'[x] = slot[x]
          /\ loaded[n].slot \in Slots
      BY <1>0, <1>3, <1>4, <2>1, Entries DEF MoveUnload, TypeOK, LibraryTypeOK
    <2>3. loaded[n].slot = r.slot => loaded[n] = r
      BY <1>4, <2>1 DEF Apart
    <2>4. \A m \in DOMAIN queue : m = 1 \/ (m - 1 \in DOMAIN queue' /\ queue'[m - 1] = queue[m])
      BY <1>0, TailOnto
    <2> QED
      BY <1>3, <2>1, <2>2, <2>3, <2>4
  <1>12. told' = "returned" => Apart(loaded)
    BY <1>5 DEF ReturnInv
  <1> QED
    BY <1>0, <1>10, <1>11, <1>12 DEF ReturnInv, Apart

LEMMA ReturnNext ==
    ASSUME TypeInv, LoadInv, ReturnInv, [Next]_vars
    PROVE  ReturnInv'
  <1>0. TypeOK
    BY DEF TypeInv
  <1>1. CASE WriteFault
    <2>1. /\ wf = "write" /\ wf' = "return" /\ told' = "returned" /\ queue' = loaded
          /\ inv'.drive = drive /\ UNCHANGED <<loaded, drive, slot>>
      BY <1>1 DEF WriteFault, Snapshot, libVars
    <2>2. Held /\ Apart(loaded)
      BY <2>1 DEF LoadInv
    <2>3. \A n \in DOMAIN loaded : loaded[n].tape # NoTape
      BY <1>0, Entries, LibraryAssumption
    <2>4. ToReturn'
      BY <2>1, <2>2, <2>3 DEF ToReturn, Held, Apart
    <2> QED
      BY <2>1, <2>2, <2>4 DEF ReturnInv, Apart
  <1>2. CASE ReturnTape
    BY <1>2, ReturnStep
  <1>3. CASE ReturnDone
    <2>1. wf' = "failed" /\ UNCHANGED <<loaded, slot, told>> /\ queue = <<>> /\ wf = "return"
      BY <1>3 DEF ReturnDone, libVars, loadVars, setVars, TypeInv, Control
    <2> QED
      BY <2>1 DEF ReturnInv, Apart
  <1>4. CASE WriteDone \/ EjectUnload \/ EjectTransfer \/ EjectDone \/ Resume
    <2>1. /\ wf \notin {"return", "failed"} /\ wf' # "return" /\ (told' = told \/ told' # "returned")
      BY <1>4 DEF WriteDone, EjectUnload, EjectTransfer, EjectDone, Resume, setVars, TypeInv, Control, Pauses
    <2> QED
      BY <2>1 DEF ReturnInv
  <1>5. CASE /\ \/ UNCHANGED <<wf, told>>
                \/ told' \notin {"noneInDrive", "returned"} /\ wf' # "ejectPause"
                \/ told' = told /\ wf \notin {"return", "failed"}
                     /\ wf' \notin {"return", "loadPause", "writePause", "ejectPause", "eject", "failed"}
                \/ told' = told /\ wf \in Pauses /\ wf' = "failed"
                \/ told' = told /\ wf = "plan" /\ wf' = "failed" /\ PlanError
             /\ wf \in {"return", "failed", "eject", "ejectPause"} =>
                  UNCHANGED <<loaded, drive, slot, queue, inv>>
             /\ wf' = "eject" => wf = "eject" /\ act' = act
             /\ wf' \in {"return", "ejectPause"} => wf' = wf
    <2>1. told' = "returned" => UNCHANGED <<wf, told>> /\ wf \in {"return", "failed"}
      BY <1>5 DEF ReturnInv, Pauses
    <2>2. wf' = "return" => wf = "return" /\ ToReturn'
      BY <1>5 DEF ReturnInv, ToReturn, Apart
    <2> QED
      BY <1>5, <2>1, <2>2 DEF ReturnInv, Apart
  <1> QED
    BY <1>1, <1>2, <1>3, <1>4, <1>5, ToldSteps

\* The steps that leave the drives, the record and the pass alone.
LEMMA BackSteps ==
    ASSUME TypeInv, [Next]_vars
    PROVE  \/ RunTapePath \/ LoadMove \/ LoadDone \/ EjectDone \/ Resume
           \/ /\ UNCHANGED <<recorded, pending>>
              /\ \A e \in Drives : drive'[e] # NoTape => drive'[e] = drive[e]
              /\ \/ wf' = wf
                 \/ wf = "load" /\ wf' = "loadPause"
                 \/ wf = "write" /\ wf' = "writing"
                 \/ wf = "writing" /\ wf' = "eject"
                 \/ wf' \in {"return", "failed", "cancelled"}
              /\ wf' \in {"write", "writing"} \cup Ejecting => UNCHANGED loaded
  <1>0. TypeOK /\ drive \in [Drives -> MaybeTape]
    BY DEF TypeInv, TypeOK, LibraryTypeOK
  <1>1. ASSUME NEW e \in Drives, NEW s, MoveUnload(s, e)
        PROVE  \A x \in Drives : drive'[x] # NoTape => drive'[x] = drive[x]
    BY <1>0, <1>1 DEF MoveUnload
  <1>2. CASE LoadRelocate
    <2>1. Element(Head(todo)) \in Drives
      BY <1>0, <1>2, TodoHead DEF LoadRelocate, TypeOK
    <2> QED
      BY <1>1, <1>2, <2>1 DEF LoadRelocate, libVars, setVars, writeVars, TypeInv, Control, Ejecting, Pauses
  <1>3. CASE LoadRestore
    <2>1. Head(inDrives)[2] \in Drives
      BY <1>0, <1>3, HeadTail DEF LoadRestore, TypeOK, ActivityTypeOK
    <2> QED
      BY <1>1, <1>3, <2>1 DEF LoadRestore, libVars, setVars, writeVars, TypeInv, Control, Ejecting, Pauses
  <1>4. CASE ReturnTape
    <2>1. Element(Head(queue)) \in Drives
      BY <1>0, <1>4, QueueHead DEF ReturnTape, TypeOK
    <2> QED
      BY <1>1, <1>4, <2>1 DEF ReturnTape, libVars, loadVars, writeVars
  <1>5. CASE EjectUnload
    BY <1>1, <1>5 DEF EjectUnload, libVars, loadVars, writeVars
  <1>6. CASE EjectTransfer
    BY <1>6 DEF EjectTransfer, libVars, loadVars, setVars, writeVars, MoveTransfer
  <1>7. CASE \E d \in Drives : FormatTape(d) \/ WriteTape(d) \/ WriteTapeFails(d)
    BY <1>7 DEF FormatTape, WriteTape, WriteTapeFails, loadVars, setVars
  <1>8. CASE LoadStart \/ LoadSkip \/ LoadCheck \/ LoadFailed \/ LoadLost
    BY <1>8 DEF LoadStart, LoadSkip, LoadCheck, LoadFailed, LoadLost, PauseOnLoad, LoadSteps, libVars,
                loadVars, setVars, writeVars, TypeInv, Control, Ejecting, Pauses
  <1>9. CASE WriteStart \/ WriteFault \/ ReturnDone \/ ReturnLost \/ WriteDone \/ EjectLost
    BY <1>9 DEF WriteStart, WriteFault, ReturnDone, ReturnLost, WriteDone, EjectLost, libVars,
                loadVars, setVars, writeVars
  <1>10. CASE PauseEnds \/ Cancel \/ UNCHANGED vars
    BY <1>10 DEF PauseEnds, Cancel, vars, libVars, loadVars, setVars, writeVars
  <1>11. CASE (\E i \in IOs : RemoveFromIO(i)) \/ (\E s \in Slots : Restock(s))
    BY <1>11 DEF RemoveFromIO, Restock, loadVars, setVars, writeVars
  <1> QED
    BY <1>2, <1>3, <1>4, <1>5, <1>6, <1>7, <1>8, <1>9, <1>10, <1>11
       DEF Next, Worker, LoadNext, WriteNext, EjectNext, Faults, Operator, Ended

LEMMA BackNext ==
    ASSUME TypeInv, LoadInv, PairInv, EmptyInv, BackInv, [Next]_vars
    PROVE  BackInv'
  <1>0. /\ TypeOK /\ drive \in [Drives -> MaybeTape]
        /\ \A r \in recorded : r.tape \in Tapes /\ r.tape # NoTape
    BY LibraryAssumption DEF TypeInv, TypeOK, LibraryTypeOK, FlowTypeOK, LoadedTape
  <1>1. CASE RunTapePath
    <2>1. wf = "plan" /\ UNCHANGED <<drive, recorded>>
      BY <1>1 DEF RunTapePath, libVars, writeVars
    <2>2. \A r \in recorded, e \in Drives : drive[e] # r.tape
      BY <2>1 DEF BackInv
    <2> QED
      BY <2>1, <2>2 DEF BackInv
  <1>2. CASE LoadMove
    <2>1. PICK a : a = Head(todo)
      OBVIOUS
    <2>2. PICK x : x = Element(a)
      OBVIOUS
    <2>3. /\ x \in Drives /\ a = todo[1] /\ 1 \in DOMAIN todo /\ x = ElementOf[a.drive]
          /\ act \in Loading /\ UNCHANGED <<wf, recorded, pending, loaded>>
          /\ UNCHANGED drive \/ MoveLoad(a.slot, x)
      BY <1>0, <1>2, <2>1, <2>2, TodoHead, HeadTail
         DEF LoadMove, TypeOK, ActivityTypeOK, Element, Loading, setVars, writeVars, libVars
    <2>4. wf \in {"load", "cancelled"}
      BY <2>3 DEF TypeInv, Control, Loading, TypeOK, FlowTypeOK, Terminal, Pauses
    <2>5. wf = "load" => \E n \in DOMAIN pending : ElementOf[pending[n].drive] = x
      <3> SUFFICES ASSUME wf = "load" PROVE \E n \in DOMAIN pending : ElementOf[pending[n].drive] = x
        OBVIOUS
      <3>1. /\ InOrder /\ Len(loaded) \in Nat /\ Len(todo) \in Nat /\ Len(todo) # 0
            /\ pending \in Seq(Assignment)
        BY <2>3 DEF PairInv, AnswerInv, TypeInv, TypeOK, ActivityTypeOK, FlowTypeOK
      <3>2. todo[1] = pending[Len(loaded) + 1] /\ Len(loaded) + 1 \in DOMAIN pending
        BY <2>3, <3>1 DEF InOrder
      <3> QED
        BY <2>3, <3>2
    <2>6. \A e \in Drives : e # x => drive'[e] = drive[e]
      BY <1>0, <2>3 DEF MoveLoad
    <2> QED
      BY <2>3, <2>4, <2>5, <2>6 DEF BackInv, Ejecting
  <1>3. CASE LoadDone
    <2>1. /\ UNCHANGED <<drive, recorded, pending, loaded>> /\ act = "next"
          /\ wf' = IF wf = "load" THEN "write" ELSE wf
      BY <1>3 DEF LoadDone, libVars, writeVars, setVars, loadVars
    <2>2. CASE wf # "load"
      BY <2>1, <2>2 DEF BackInv
    <2>3. CASE wf = "load"
      <3>1. Held
        BY <2>1 DEF LoadInv, LoadView, Loading
      <3>2. Answered'
        BY <2>1, <2>3, AnswerNext DEF AnswerInv
      <3>3. /\ pending \in Seq(Assignment) /\ loaded \in Seq(LoadedTape)
        BY <1>0 DEF TypeOK, FlowTypeOK, ActivityTypeOK
      <3>4. DOMAIN pending = DOMAIN loaded /\ \A n \in DOMAIN pending : loaded[n].drive = pending[n].drive
        BY <2>1, <3>2, <3>3 DEF Answered, Answers
      <3>5. \A r \in recorded, e \in Drives : drive[e] = r.tape => \E n \in DOMAIN loaded : loaded[n].tape = r.tape
        BY <2>3, <3>1, <3>4 DEF BackInv, Held
      <3> QED
        BY <2>1, <2>3, <3>5 DEF BackInv
    <2> QED
      BY <2>2, <2>3
  <1>4. CASE EjectDone
    <2>1. UNCHANGED <<drive, loaded, pending>> /\ act = "eject" /\ queue = <<>>
      BY <1>4 DEF EjectDone, libVars, loadVars
    <2>2. CASE wf # "eject"
      <3>1. UNCHANGED <<wf, recorded>>
        BY <1>4, <2>2 DEF EjectDone
      <3> QED
        BY <2>1, <3>1 DEF BackInv
    <2>3. CASE wf = "eject"
      <3>1. \A n \in DOMAIN loaded : ~InDrive(loaded[n].tape)
        BY <2>1, <2>3 DEF EmptyInv
      <3>2. \A m \in DOMAIN written : \E n \in DOMAIN loaded : written[m] = loaded[n]
        BY <2>3 DEF PairInv, WrittenInv, Accounted, Ejecting
      <3>3. \A r \in recorded : r \in recorded' => \A e \in Drives : drive[e] # r.tape
        BY <2>3, <3>1 DEF BackInv, InDrive, Ejecting
      <3>4. \A r \in recorded' : r \in recorded \/ \E m \in DOMAIN written : r = written[m]
        BY <1>4, <2>3 DEF EjectDone, NewlyRecorded, Range
      <3>5. \A r \in recorded' : \A e \in Drives : drive[e] # r.tape
        BY <3>1, <3>2, <3>3, <3>4 DEF InDrive
      <3> QED
        BY <2>1, <3>5 DEF BackInv
    <2> QED
      BY <2>2, <2>3
  <1>5. CASE Resume
    <2>1. /\ UNCHANGED <<drive, loaded, recorded>>
          /\ \/ wf = "loadPause" /\ wf' = "load" /\ UNCHANGED pending
             \/ wf = "ejectPause" /\ wf' = "eject"
             \/ wf = "writePause"
      BY <1>5 DEF Resume, libVars, loadVars, writeVars
    <2> QED
      BY <2>1 DEF BackInv, Ejecting
  <1>6. CASE /\ UNCHANGED <<recorded, pending>>
             /\ \A e \in Drives : drive'[e] # NoTape => drive'[e] = drive[e]
             /\ \/ wf' = wf
                \/ wf = "load" /\ wf' = "loadPause"
                \/ wf = "write" /\ wf' = "writing"
                \/ wf = "writing" /\ wf' = "eject"
                \/ wf' \in {"return", "failed", "cancelled"}
             /\ wf' \in {"write", "writing"} \cup Ejecting => UNCHANGED loaded
    BY <1>0, <1>6 DEF BackInv, Ejecting
  <1> QED
    BY <1>1, <1>2, <1>3, <1>4, <1>5, <1>6, BackSteps

(***************************************************************************)
(* The operator is told the truth in every run, however many sets, retries *)
(* and failed commands: the Eject pause and its timeout say no tape of the *)
(* set is in a drive (ejectPhase), a fault before Write that reports its   *)
(* tapes as returned left each in its slot (ReturnToSlots), and a run that *)
(* ends well leaves no recorded tape in a drive, one the operator put back *)
(* by mistake included.                                                    *)
(***************************************************************************)
THEOREM OperatorIsToldTheTruth == Spec => []ToldTheTruth
  <1>1. Init => PlanInv /\ EmptyInv /\ ReturnInv /\ BackInv
    BY DEF Init, PlanInv, EmptyInv, ReturnInv, BackInv
  <1>2. TypeInv /\ LoadInv /\ PairInv /\ PlanInv /\ EmptyInv /\ ReturnInv /\ BackInv /\ [Next]_vars
          => PlanInv' /\ EmptyInv' /\ ReturnInv' /\ BackInv'
    BY PlanNext, EmptyNext, ReturnNext, BackNext
  <1>3. EmptyInv /\ ReturnInv /\ BackInv => ToldTheTruth
    BY DEF EmptyInv, ReturnInv, BackInv, ToldTheTruth, InDrive, Range
  <1> QED
    BY <1>1, <1>2, <1>3, PairInvariant, PTL DEF Spec
=============================================================================

------------------------------ MODULE TapePath ------------------------------
(***************************************************************************)
(* The tape path of a backup run: runTapePath and runDriveSet drive every  *)
(* drive-set through Load, Write and Eject, against the library of         *)
(* TapeLibrary.  wf is where the workflow is, act where the changer        *)
(* activity is.  They are separate because a cancelled run stops waiting   *)
(* while the activity, which does not heartbeat, runs on.                  *)
(*                                                                         *)
(* Every changer command is a step of its own, so a worker crash, a        *)
(* cancellation or the operator at the I/O station can come in between.    *)
(* Hardware errors, worker crashes and failed writes draw on MaxFaults,    *)
(* operator resumes on MaxResumes.                                         *)
(***************************************************************************)
EXTENDS TapeLibrary, Sequences, Functions

CONSTANTS
    Total,          \* len(plan.Tapes) * plan.Copies: physical tapes to write
    BlankSlots,     \* cfg.Library.BlankSlots, one per physical tape
    ElementOf,      \* changer element of each configured drive, by unit serial
    Unlabelled,     \* tapes the changer reads no barcode from
    AllowNonBlank,  \* cfg.Library.AllowNonBlankTapes
    Layouts,        \* what the library may hold when the run reaches Load
    MaxFaults, MaxResumes

Pairs == 1..Total   \* (tape, copy) pairs, in planDriveSets' order

Assignment == [pair : Pairs, drive : Drives, slot : Slots]
LoadedTape == [pair : Pairs, drive : Drives, slot : Slots, tape : Tapes]

Layout == [slot : [Slots -> MaybeTape], drive : [Drives -> MaybeTape],
           src : [Drives -> Slots \cup {0}], io : [IOs -> MaybeTape],
           medium : [Tapes -> {"blank", "foreign"}]]

ASSUME TapePathAssumption ==
    /\ Total \in Nat /\ MaxFaults \in Nat /\ MaxResumes \in Nat
    /\ BlankSlots \in Seq(Slots)
    /\ \A m, n \in 1..Len(BlankSlots) : BlankSlots[m] = BlankSlots[n] => m = n
    /\ ElementOf \in [Drives -> Drives]
    /\ \A d1, d2 \in Drives : ElementOf[d1] = ElementOf[d2] => d1 = d2
    /\ Unlabelled \subseteq Tapes
    /\ AllowNonBlank \in BOOLEAN
    /\ Layouts \subseteq Layout

VARIABLES
    wf,         \* the workflow's position in runDriveSet
    base,       \* pairs handed to drive-sets so far
    pending,    \* the assignments this pass has to drive
    loaded,     \* the tapes Load reported, in order
    stage,      \* stage[d]: the write coroutine of configured drive d
    written,    \* tapes this pass wrote
    failed,     \* tapes this pass failed to write
    recorded,   \* state.written: the run's record of its tapes
    reload,     \* slots the operator was asked to restock
    told,       \* what the last failure told the operator about the tapes
    act,        \* the changer activity in flight
    todo,       \* Load: assignments left
    inv,        \* Load, ReturnToSlots: the inventory, read once
    relocated,  \* Load: slots filled by its own relocations
    barcode,    \* Load: the tape reconcileLoad says is in the drive
    inDrives,   \* Load: <<slot, element>> to undo on failure
    refused,    \* Load: the tape refused as not blank
    queue,      \* Eject, ReturnToSlots: tapes left
    remaining,  \* Eject: tapes that did not fit the I/O station
    ioSlot,     \* Eject: the I/O slot found free, as a set
    faults, resumes

setVars  == <<base, pending, reload, told>>
writeVars == <<stage, written, failed, recorded>>
loadVars == <<loaded, todo, inv, relocated, barcode, inDrives, refused>>
ejectVars == <<queue, remaining, ioSlot>>
vars == <<libVars, wf, act, setVars, writeVars, loadVars, ejectVars, faults, resumes>>

Terminal  == {"ok", "failed", "cancelled"}
Pauses    == {"loadPause", "writePause", "ejectPause"}
LoadSteps == {"next", "move", "check", "restore"}

\* matchDriveElement: the element whose serial is the device node's.
Element(a) == ElementOf[a.drive]
SlotsOf(set) == {a.slot : a \in Range(set)}
NoneClaimed == [s \in Slots |-> NoTape]
EmptyInventory == [slot |-> [s \in Slots |-> NoTape], drive |-> [e \in Drives |-> NoTape],
                   src |-> [e \in Drives |-> 0]]

Fault == faults < MaxFaults /\ faults' = faults + 1
\* A changer command fails when the library refuses it, or on a fault.
CommandFails(feasible) == IF feasible THEN Fault ELSE UNCHANGED faults

Init ==
    /\ \E l \in Layouts :
         /\ slot = l.slot /\ drive = l.drive /\ src = l.src /\ io = l.io
         /\ medium = l.medium
    /\ OnePlace
    /\ holds = [t \in Tapes |-> 0]
    /\ wf = "plan" /\ act = "idle"
    /\ base = 0 /\ pending = <<>> /\ reload = {} /\ told = "nothing"
    /\ stage = [d \in Drives |-> "idle"]
    /\ written = <<>> /\ failed = <<>> /\ recorded = {}
    /\ loaded = <<>> /\ todo = <<>> /\ inv = EmptyInventory
    /\ relocated = NoneClaimed /\ barcode = NoTape /\ inDrives = <<>> /\ refused = NoTape
    /\ queue = <<>> /\ remaining = <<>> /\ ioSlot = {}
    /\ faults = 0 /\ resumes = 0

-----------------------------------------------------------------------------
(* runTapePath and planDriveSets *)

\* The next chunk of pairs, at most one per drive, slots by position.
NextDriveSet ==
    LET size == IF Total - base < NumDrives THEN Total - base ELSE NumDrives
    IN  [n \in 1..size |-> [pair |-> base + n, drive |-> n, slot |-> BlankSlots[base + n]]]

PlanError == Total > 0 /\ (NumDrives = 0 \/ Total > Len(BlankSlots))

RunTapePath ==
    /\ wf = "plan"
    /\ IF PlanError THEN wf' = "failed" /\ UNCHANGED <<base, pending>>
       ELSE IF base = Total THEN wf' = "ok" /\ UNCHANGED <<base, pending>>
       ELSE /\ wf' = "load"
            /\ pending' = NextDriveSet
            /\ base' = base + Len(NextDriveSet)
    /\ UNCHANGED <<libVars, act, reload, told, writeVars, loadVars, ejectVars, faults, resumes>>

-----------------------------------------------------------------------------
(* The Load activity *)

\* Load reads the inventory once; every later decision uses that snapshot.
LoadStart ==
    /\ wf = "load" /\ act = "idle"
    /\ act' = "next" /\ todo' = pending
    /\ inv' = Snapshot /\ relocated' = NoneClaimed
    /\ barcode' = NoTape /\ inDrives' = <<>> /\ loaded' = <<>> /\ refused' = NoTape
    /\ UNCHANGED <<libVars, wf, setVars, writeVars, ejectVars, faults, resumes>>

\* Mutant: a tape found in its drive is taken as checked.
MutLoadSkip ==
    /\ act = "next" /\ todo # <<>>
    /\ LET a == Head(todo) IN
         /\ inv.drive[Element(a)] # NoTape /\ inv.src[Element(a)] = a.slot
         /\ loaded' = Append(loaded, [pair |-> a.pair, drive |-> a.drive, slot |-> a.slot,
                                      tape |-> inv.drive[Element(a)]])
    /\ todo' = Tail(todo)
    /\ UNCHANGED <<libVars, wf, act, setVars, writeVars, ejectVars, faults, resumes,
                   inv, relocated, barcode, inDrives, refused>>

\* reconcileLoad: the tape of the target slot is already in the drive.
LoadSkip ==
    /\ act = "next" /\ todo # <<>>
    /\ LET a == Head(todo) IN
         /\ inv.drive[Element(a)] # NoTape
         /\ inv.src[Element(a)] = a.slot
         /\ barcode' = inv.drive[Element(a)]
    /\ act' = "check"
    /\ UNCHANGED <<libVars, wf, setVars, writeVars, ejectVars, faults, resumes,
                   loaded, todo, inv, relocated, inDrives, refused>>

\* reconcileLoad: an unexpected tape is moved out of the way.  The slot is
\* claimed before the move is tried.
LoadRelocate ==
    /\ act = "next" /\ todo # <<>>
    /\ LET a == Head(todo)
           e == Element(a)
           to == FreeStorageSlot(inv, inv.src[e], relocated)
       IN  /\ inv.drive[e] # NoTape /\ inv.src[e] # a.slot
           /\ \/ \E s \in to :
                   /\ relocated' = [relocated EXCEPT ![s] = inv.drive[e]]
                   /\ \/ /\ CanUnload(s, e) /\ MoveUnload(s, e)
                         /\ act' = "move" /\ UNCHANGED faults
                      \/ /\ CommandFails(CanUnload(s, e))
                         /\ act' = "restore" /\ UNCHANGED libVars
              \/ to = {} /\ act' = "restore" /\ UNCHANGED <<relocated, libVars, faults>>
    /\ UNCHANGED <<wf, setVars, writeVars, ejectVars, resumes,
                   loaded, todo, inv, barcode, inDrives, refused>>

\* reconcileLoad: the drive is empty, so load the target slot's tape.
LoadMove ==
    /\ todo # <<>>
    /\ LET a == Head(todo)
           e == Element(a)
           target == TargetBarcode(inv, a.slot, relocated)
       IN  /\ act = "move" \/ (act = "next" /\ inv.drive[e] = NoTape)
           /\ \/ target = NoTape /\ act' = "restore" /\ UNCHANGED <<barcode, libVars, faults>>
              \/ /\ target # NoTape /\ CanLoad(a.slot, e) /\ MoveLoad(a.slot, e)
                 /\ barcode' = target /\ act' = "check" /\ UNCHANGED faults
              \/ /\ target # NoTape /\ CommandFails(CanLoad(a.slot, e))
                 /\ act' = "restore" /\ UNCHANGED <<barcode, libVars>>
    /\ UNCHANGED <<wf, setVars, writeVars, ejectVars, resumes,
                   loaded, todo, inv, relocated, inDrives, refused>>

\* Mutant: only data from before the run counts as not blank.
MutIsBlank(e) == medium[drive[e]] # "foreign"
\* The blank check reads the cartridge that is physically in the drive.
IsBlank(e) == medium[drive[e]] = "blank"

\* Load after reconcileLoad: note the undo, blank-check, accept or refuse.
LoadCheck ==
    /\ act = "check" /\ todo # <<>>
    /\ LET a == Head(todo)
           e == Element(a)
       IN  /\ inDrives' = Append(inDrives, <<a.slot, e>>)
           /\ \/ /\ drive[e] # NoTape /\ (IsBlank(e) \/ AllowNonBlank)
                 /\ loaded' = Append(loaded, [pair |-> a.pair, drive |-> a.drive,
                                              slot |-> a.slot, tape |-> barcode])
                 /\ todo' = Tail(todo) /\ act' = "next"
                 /\ UNCHANGED <<refused, faults>>
              \/ /\ drive[e] # NoTape /\ ~IsBlank(e) /\ ~AllowNonBlank
                 /\ refused' = barcode /\ act' = "restore"
                 /\ UNCHANGED <<loaded, todo, faults>>
              \/ /\ CommandFails(drive[e] # NoTape)
                 /\ act' = "restore" /\ UNCHANGED <<loaded, todo, refused>>
    /\ UNCHANGED <<libVars, wf, setVars, writeVars, ejectVars, resumes, inv, relocated, barcode>>

LoadDone ==
    /\ act = "next" /\ todo = <<>>
    /\ act' = "idle" /\ wf' = IF wf = "load" THEN "write" ELSE wf
    /\ UNCHANGED <<libVars, setVars, writeVars, loadVars, ejectVars, faults, resumes>>

\* Mutant: a failed Load leaves its tapes where they are.
MutLoadRestore ==
    /\ act = "restore" /\ inDrives # <<>> /\ inDrives' = <<>>
    /\ UNCHANGED <<libVars, wf, act, setVars, writeVars, ejectVars, resumes, faults,
                   loaded, todo, inv, relocated, barcode, refused>>
\* Load's deferred undo: each tape goes back to its target slot, failures are
\* only logged.
LoadRestore ==
    /\ act = "restore" /\ inDrives # <<>>
    /\ LET s == Head(inDrives)[1]
           e == Head(inDrives)[2]
       IN  \/ CanUnload(s, e) /\ MoveUnload(s, e) /\ UNCHANGED faults
           \/ CommandFails(CanUnload(s, e)) /\ UNCHANGED libVars
    /\ inDrives' = Tail(inDrives)
    /\ UNCHANGED <<wf, act, setVars, writeVars, ejectVars, resumes,
                   loaded, todo, inv, relocated, barcode, refused>>

\* runDriveSet on a Load error: ask the operator to restock the refused
\* tape's slot, or every slot of the set.
PauseOnLoad(which) ==
    IF wf # "load" THEN UNCHANGED <<wf, reload, told>>
    ELSE /\ wf' = "loadPause"
         /\ reload' = IF which = NoTape THEN SlotsOf(pending) ELSE {Head(todo).slot}
         /\ told' = IF which = NoTape THEN "nothing" ELSE "refusedReturned"

LoadFailed ==
    /\ act = "restore" /\ inDrives = <<>>
    /\ act' = "idle"
    /\ PauseOnLoad(refused)
    /\ UNCHANGED <<libVars, base, pending, writeVars, loadVars, ejectVars, faults, resumes>>

\* Inventory fails, or the data worker dies in the middle of a Load: the
\* activity has one attempt and the undo never runs.
LoadLost ==
    /\ act \in LoadSteps \/ (wf = "load" /\ act = "idle")
    /\ Fault
    /\ act' = "idle" /\ refused' = NoTape
    /\ PauseOnLoad(NoTape)
    /\ UNCHANGED <<libVars, base, pending, writeVars, ejectVars, resumes,
                   loaded, todo, inv, relocated, barcode, inDrives>>

-----------------------------------------------------------------------------
(* The Write phase; WriteSession has its detail *)

BarcodesValid == \A r \in Range(loaded) : r.tape \notin Unlabelled

\* writePhase starts one coroutine per loaded tape.
WriteStart ==
    /\ wf = "write" /\ BarcodesValid
    /\ wf' = "writing"
    /\ stage' = [d \in Drives |-> IF \E r \in Range(loaded) : r.drive = d
                                  THEN "formatting" ELSE "idle"]
    /\ written' = <<>> /\ failed' = <<>>
    /\ UNCHANGED <<libVars, act, setVars, recorded, loadVars, ejectVars, faults, resumes>>

\* Barcodes do not validate, or no session can be created (a run cancelled
\* here among them): no tape was touched, all go back to their slots.
WriteFault ==
    /\ wf = "write"
    /\ CommandFails(BarcodesValid)
    /\ wf' = "return" /\ act' = "return"
    /\ inv' = Snapshot /\ queue' = loaded /\ told' = "returned"
    /\ UNCHANGED <<libVars, base, pending, reload, writeVars, resumes, remaining, ioSlot,
                   loaded, todo, relocated, barcode, inDrives, refused>>

\* ReturnToSlots: drives the inventory shows empty are skipped, a failed
\* unload is collected and the rest still tried.
ReturnTape ==
    /\ act = "return" /\ queue # <<>>
    /\ LET r == Head(queue)
           e == Element(r)
       IN  \/ inv.drive[e] = NoTape /\ UNCHANGED <<libVars, told, faults>>
           \/ /\ inv.drive[e] # NoTape /\ CanUnload(r.slot, e) /\ MoveUnload(r.slot, e)
              /\ UNCHANGED <<told, faults>>
           \/ /\ inv.drive[e] # NoTape /\ CommandFails(CanUnload(r.slot, e))
              /\ told' = "maybeInDrives" /\ UNCHANGED libVars
    /\ queue' = Tail(queue)
    /\ UNCHANGED <<wf, act, base, pending, reload, writeVars, loadVars, remaining, ioSlot, resumes>>

ReturnDone ==
    /\ act = "return" /\ queue = <<>>
    /\ act' = "idle" /\ wf' = "failed"
    /\ UNCHANGED <<libVars, setVars, writeVars, loadVars, ejectVars, faults, resumes>>

\* The data worker is unreachable or dies during ReturnToSlots.
ReturnLost ==
    /\ act = "return" /\ Fault
    /\ act' = "idle" /\ wf' = "failed" /\ told' = "maybeInDrives"
    /\ UNCHANGED <<libVars, base, pending, reload, writeVars, loadVars, ejectVars, resumes>>

LoadedIn(d) == CHOOSE r \in Range(loaded) : r.drive = d
MediumIn(d) == drive[ElementOf[d]]

\* FormatTape acts on whatever is in the drive.  After a cancel the activity
\* in flight still finishes, but the coroutine starts no other.
FormatTape(d) ==
    /\ stage[d] = "formatting" /\ MediumIn(d) # NoTape
    /\ medium' = [medium EXCEPT ![MediumIn(d)] = "partial"]
    /\ holds'  = [holds EXCEPT ![MediumIn(d)] = 0]
    /\ stage'  = [stage EXCEPT ![d] = IF wf = "writing" THEN "streaming" ELSE "done"]
    /\ UNCHANGED <<slot, drive, src, io, wf, act, setVars, written, failed, recorded,
                   loadVars, ejectVars, faults, resumes>>

\* WriteTree and FinalizeTape: tree, manifest, index on the tape.
WriteTape(d) ==
    /\ stage[d] = "streaming" /\ MediumIn(d) # NoTape
    /\ medium' = [medium EXCEPT ![MediumIn(d)] = "complete"]
    /\ holds'  = [holds EXCEPT ![MediumIn(d)] = LoadedIn(d).pair]
    /\ stage'  = [stage EXCEPT ![d] = "done"]
    /\ written' = IF wf = "writing" THEN Append(written, LoadedIn(d)) ELSE written
    /\ UNCHANGED <<slot, drive, src, io, wf, act, setVars, failed, recorded,
                   loadVars, ejectVars, faults, resumes>>

\* Any of the activities fails; the medium may be untouched, half written or,
\* when only FinalizeTape's answer was lost, complete.
WriteTapeFails(d) ==
    /\ stage[d] \in {"formatting", "streaming"}
    /\ CommandFails(MediumIn(d) # NoTape)
    /\ stage' = [stage EXCEPT ![d] = "done"]
    /\ failed' = IF wf = "writing" THEN Append(failed, LoadedIn(d)) ELSE failed
    /\ \/ UNCHANGED <<medium, holds>>
       \/ /\ MediumIn(d) # NoTape
          /\ medium' = [medium EXCEPT ![MediumIn(d)] =
                          IF stage[d] = "streaming" THEN "complete" ELSE "partial"]
          /\ holds' = [holds EXCEPT ![MediumIn(d)] =
                          IF stage[d] = "streaming" THEN LoadedIn(d).pair ELSE 0]
    /\ UNCHANGED <<slot, drive, src, io, wf, act, setVars, written, recorded,
                   loadVars, ejectVars, resumes>>

\* Every coroutine has sent its result and the session is torn down: the
\* failed tapes are ejected too.
WriteDone ==
    /\ wf = "writing" /\ \A d \in Drives : stage[d] \in {"idle", "done"}
    /\ wf' = "eject" /\ act' = "eject"
    /\ queue' = written \o failed /\ remaining' = <<>>
    /\ UNCHANGED <<libVars, setVars, writeVars, loadVars, ioSlot, faults, resumes>>

-----------------------------------------------------------------------------
(* The Eject activity, ejectTape by ejectTape; each tape gets a fresh      *)
(* inventory, read before its unload.                                      *)

\* Mutant: a full station is noticed before the drive is unloaded.
MutEjectUnload ==
    /\ act = "eject" /\ queue # <<>>
    /\ LET r == Head(queue) IN
         \/ /\ FreeIOSlot = {} /\ ~InIO(r.tape)
            /\ remaining' = Append(remaining, r) /\ queue' = Tail(queue)
            /\ UNCHANGED <<libVars, act, ioSlot>>
         \/ /\ FreeIOSlot # {} /\ \E e \in Drives : drive[e] = r.tape /\ MoveUnload(r.slot, e)
            /\ act' = "transfer" /\ ioSlot' = FreeIOSlot /\ UNCHANGED <<queue, remaining>>
    /\ UNCHANGED <<wf, setVars, writeVars, loadVars, faults, resumes>>

EjectUnload ==
    /\ act = "eject" /\ queue # <<>>
    /\ LET r == Head(queue) IN
         \/ /\ InIO(r.tape) /\ queue' = Tail(queue)
            /\ UNCHANGED <<libVars, act, ioSlot, wf, told>>
         \/ /\ ~InIO(r.tape) /\ ~InDrive(r.tape)
            /\ act' = "transfer" /\ ioSlot' = FreeIOSlot
            /\ UNCHANGED <<libVars, queue, wf, told>>
         \/ /\ ~InIO(r.tape)
            /\ \E e \in Drives : drive[e] = r.tape /\ CanUnload(r.slot, e) /\ MoveUnload(r.slot, e)
            /\ act' = "transfer" /\ ioSlot' = FreeIOSlot
            /\ UNCHANGED <<queue, wf, told>>
    /\ UNCHANGED <<base, pending, reload, writeVars, loadVars, remaining, faults, resumes>>

EjectTransfer ==
    /\ act = "transfer"
    /\ LET r == Head(queue) IN
         \/ ioSlot = {} /\ remaining' = Append(remaining, r) /\ UNCHANGED libVars
         \/ /\ \E i \in ioSlot : CanTransfer(r.slot, i) /\ MoveTransfer(r.slot, i)
            /\ UNCHANGED remaining
    /\ queue' = Tail(queue) /\ act' = "eject"
    /\ UNCHANGED <<wf, setVars, writeVars, loadVars, ioSlot, faults, resumes>>

\* A move or an inventory fails, or the worker dies: single attempt, so the
\* run fails and its tapes stay where they are.
EjectLost ==
    /\ act \in {"eject", "transfer"}
    /\ CommandFails(/\ queue # <<>> /\ act = "eject" =>
                         \A e \in Drives : drive[e] = Head(queue).tape /\ ~InIO(drive[e])
                                             => CanUnload(Head(queue).slot, e)
                    /\ act = "transfer" =>
                         \A i \in ioSlot : CanTransfer(Head(queue).slot, i))
    /\ act' = "idle" /\ wf' = IF wf = "eject" THEN "failed" ELSE wf
    /\ told' = "nothing"
    /\ UNCHANGED <<libVars, base, pending, reload, writeVars, loadVars, ejectVars, resumes>>

\* Mutant: the ejected tapes are recorded, failed ones included.
MutNewlyRecorded == Range(written \o failed)
\* What a completed Eject adds to state.written.
NewlyRecorded == Range(written)

\* ejectPhase and the rest of runDriveSet's pass.
EjectDone ==
    /\ act = "eject" /\ queue = <<>>
    /\ act' = "idle"
    /\ IF wf # "eject" THEN UNCHANGED <<wf, recorded, reload, told>>
       ELSE IF remaining # <<>>
            THEN wf' = "ejectPause" /\ told' = "noneInDrive" /\ UNCHANGED <<recorded, reload>>
       ELSE /\ recorded' = recorded \cup NewlyRecorded
            /\ IF failed = <<>> THEN wf' = "plan" /\ UNCHANGED <<reload, told>>
               ELSE wf' = "writePause" /\ reload' = SlotsOf(failed) /\ told' = "nothing"
    /\ UNCHANGED <<libVars, base, pending, stage, written, failed, loadVars, ejectVars,
                   faults, resumes>>

-----------------------------------------------------------------------------
(* Pauses, and the operator *)

\* Mutant: the drive is carried as a 0-based set position.
MutRetrySet == [n \in DOMAIN failed |-> [pair |-> failed[n].pair, drive |-> n - 1,
                                         slot |-> failed[n].slot]]
\* retrySet: the failed pairs, each to the same drive and source slot.
RetrySet == [n \in DOMAIN failed |-> [pair |-> failed[n].pair, drive |-> failed[n].drive,
                                      slot |-> failed[n].slot]]

\* A resume signal, or at an Eject pause the station poll.
Resume ==
    /\ wf \in Pauses /\ resumes < MaxResumes
    /\ resumes' = resumes + 1
    /\ \/ wf = "loadPause" /\ wf' = "load" /\ UNCHANGED <<act, pending, queue, remaining>>
       \/ /\ wf = "writePause" /\ wf' = "load" /\ pending' = RetrySet
          /\ UNCHANGED <<act, queue, remaining>>
       \/ /\ wf = "ejectPause" /\ wf' = "eject" /\ act' = "eject"
          /\ queue' = remaining /\ remaining' = <<>> /\ UNCHANGED pending
    /\ UNCHANGED <<libVars, base, reload, told, writeVars, loadVars, ioSlot, faults>>

\* Mutant: the Eject wait has no deadline.
MutPauseEnds ==
    /\ wf \in {"loadPause", "writePause"}
    /\ wf' = "failed"
    /\ UNCHANGED <<libVars, act, setVars, writeVars, loadVars, ejectVars, faults, resumes>>

\* The pause's wait elapses, or (Load and Write pauses) an abort signal.
PauseEnds ==
    /\ wf \in Pauses
    /\ wf' = "failed"
    /\ UNCHANGED <<libVars, act, setVars, writeVars, loadVars, ejectVars, faults, resumes>>

\* Cancellation.  The activity or the coroutines' activities in flight run on;
\* Eject is refused by the cancelled context, so tapes stay where they are.
Cancel ==
    /\ wf \in Pauses \cup {"load", "writing", "eject"}
    /\ wf' = "cancelled" /\ told' = "nothing"
    /\ UNCHANGED <<libVars, act, base, pending, reload, writeVars, loadVars, ejectVars,
                   faults, resumes>>

\* The operator empties the I/O station at any time ...
RemoveFromIO(i) ==
    /\ io[i] # NoTape
    /\ io' = [io EXCEPT ![i] = NoTape]
    /\ UNCHANGED <<slot, drive, src, medium, holds, wf, act, setVars, writeVars, loadVars,
                   ejectVars, faults, resumes>>

\* ... and at a Load or Write pause takes tapes out of, or puts any tape at
\* hand into, the slots the alert names.
Restock(s) ==
    /\ wf \in {"loadPause", "writePause"} /\ s \in reload
    /\ \/ slot[s] # NoTape /\ slot' = [slot EXCEPT ![s] = NoTape]
       \/ /\ slot[s] = NoTape
          /\ \E t \in Tapes : Outside(t) /\ slot' = [slot EXCEPT ![s] = t]
    /\ UNCHANGED <<drive, src, io, medium, holds, wf, act, setVars, writeVars, loadVars,
                   ejectVars, faults, resumes>>

-----------------------------------------------------------------------------
LoadNext == LoadStart \/ LoadSkip \/ LoadRelocate \/ LoadMove \/ LoadCheck \/ LoadDone
              \/ LoadRestore \/ LoadFailed
WriteNext == \/ WriteStart \/ ReturnTape \/ ReturnDone \/ WriteDone
             \/ \E d \in Drives : FormatTape(d) \/ WriteTape(d)
EjectNext == EjectUnload \/ EjectTransfer \/ EjectDone

Worker == RunTapePath \/ LoadNext \/ WriteNext \/ EjectNext
Faults == LoadLost \/ WriteFault \/ ReturnLost \/ EjectLost
            \/ \E d \in Drives : WriteTapeFails(d)
Operator == Resume \/ Cancel \/ (\E i \in IOs : RemoveFromIO(i)) \/ (\E s \in Slots : Restock(s))

\* A run that has ended, with nothing left in flight.
Ended ==
    /\ wf \in Terminal /\ act = "idle"
    /\ \A d \in Drives : stage[d] \in {"idle", "done"}
    /\ UNCHANGED vars

Next == Worker \/ Faults \/ Operator \/ PauseEnds \/ Ended

Spec == Init /\ [][Next]_vars

(***************************************************************************)
(* Fairness: the workers keep taking their steps, a refused command or an  *)
(* unusable drive is noticed, and a pause's timer fires.  Nothing is       *)
(* assumed of the operator.                                                *)
(***************************************************************************)
Fairness ==
    /\ WF_vars(Worker) /\ WF_vars(Faults /\ faults' = faults)
    /\ WF_vars(PauseEnds)
FairSpec == Spec /\ Fairness

-----------------------------------------------------------------------------
(* Properties *)

FlowTypeOK ==
    /\ wf \in Terminal \cup Pauses \cup {"plan", "load", "write", "writing", "return", "eject"}
    /\ act \in LoadSteps \cup {"idle", "return", "eject", "transfer"}
    /\ base \in 0..Total /\ pending \in Seq(Assignment)
    /\ reload \subseteq Slots
    /\ told \in {"nothing", "refusedReturned", "returned", "maybeInDrives", "noneInDrive"}
    /\ stage \in [Drives -> {"idle", "formatting", "streaming", "done"}]
    /\ written \in Seq(LoadedTape) /\ failed \in Seq(LoadedTape)
    /\ recorded \subseteq LoadedTape
    /\ faults \in 0..MaxFaults /\ resumes \in 0..MaxResumes

ActivityTypeOK ==
    /\ loaded \in Seq(LoadedTape) /\ todo \in Seq(Assignment)
    /\ inv \in Inventory /\ relocated \in [Slots -> MaybeTape]
    /\ barcode \in MaybeTape /\ refused \in MaybeTape
    /\ inDrives \in Seq(Slots \X Drives)
    /\ queue \in Seq(LoadedTape) /\ remaining \in Seq(LoadedTape)
    /\ ioSlot \subseteq IOs

\* The type of every variable of the tape path and the library.
TypeOK == LibraryTypeOK /\ FlowTypeOK /\ ActivityTypeOK

(***************************************************************************)
(* "A run must never silently overwrite existing data" (SPEC 4.3 step 6):  *)
(* without AllowNonBlank, no step of any handler changes a cartridge that  *)
(* held data before the run, whatever the operator restocks, wherever an   *)
(* earlier Load died and whichever element the drive node pairs with.      *)
(***************************************************************************)
ForeignDataPreserved ==
    [][\A t \in Tapes : medium[t] = "foreign" => medium'[t] = "foreign"]_vars

(***************************************************************************)
(* A tape in the run's record carries the complete tree of exactly the     *)
(* (tape, copy) pair it is recorded for, and keeps carrying it through the *)
(* later sets, the retries of failed pairs and wrong restocks              *)
(* (runDriveSet: "recorded tapes are never re-formatted").                 *)
(***************************************************************************)
RecordedIntact ==
    \A r \in recorded : medium[r.tape] = "complete" /\ holds[r.tape] = r.pair

(***************************************************************************)
(* What the workflow believes it loaded is what is in the drives: each     *)
(* LoadedTape's barcode, taken from a stale inventory and the relocation   *)
(* map (#224), is the cartridge in the element its device node really      *)
(* pairs with (#137) until the tape leaves it.                             *)
(***************************************************************************)
LoadedMatches ==
    wf \in {"write", "writing"} =>
        \A r \in Range(loaded) : MediumIn(r.drive) = r.tape

(***************************************************************************)
(* Load's snapshot plus its relocation claims never send the robot to an   *)
(* impossible move: the slot chosen for a relocation really is empty, and  *)
(* the barcode expected in a target slot really is there (#224).           *)
(***************************************************************************)
StaleInventorySound ==
    act \in {"next", "move"} /\ todo # <<>> =>
        LET a == Head(todo)
            e == Element(a)
            target == TargetBarcode(inv, a.slot, relocated)
        IN  /\ act = "next" => drive[e] = inv.drive[e]
            /\ act = "next" /\ inv.drive[e] # NoTape /\ inv.src[e] # a.slot =>
                 \A s \in FreeStorageSlot(inv, inv.src[e], relocated) : slot[s] = NoTape
            /\ act = "move" => drive[e] = NoTape
            /\ target # NoTape /\ (act = "move" \/ inv.drive[e] = NoTape) =>
                 slot[a.slot] = target

(***************************************************************************)
(* Load works from one inventory and is right: its moves are possible and  *)
(* its answer names what lies in the drives.                               *)
(***************************************************************************)
LoadSound == StaleInventorySound /\ LoadedMatches

(***************************************************************************)
(* The operator is told the truth.  The Eject pause, and its timeout, say  *)
(* no tape of the set is in a drive; a fault before Write that reports the *)
(* tapes as returned left each in its own slot; and a run that ends well   *)
(* leaves no recorded tape in a drive.                                     *)
(***************************************************************************)
ToldTheTruth ==
    /\ told = "noneInDrive" /\ wf \in {"ejectPause", "failed"} =>
         \A r \in Range(loaded) : ~InDrive(r.tape)
    /\ told = "returned" /\ wf = "failed" =>
         \A r \in Range(loaded) : slot[r.slot] = r.tape
    /\ wf = "ok" => \A r \in recorded : ~InDrive(r.tape)

(***************************************************************************)
(* Load's refusal says the non-blank tape "was returned to slot %d": when  *)
(* the Load pause that names a refused tape begins, the tape is in no      *)
(* drive, unless a command failed or another tape is in its slot by then   *)
(* (a relocation of the same Load may have taken it).                      *)
(***************************************************************************)
RefusedTapeReturned ==
    [][wf = "load" /\ wf' = "loadPause" /\ told' = "refusedReturned"
         => \A e \in Drives :
              drive'[e] = refused => faults > 0 \/ slot[Head(todo).slot] # NoTape]_vars

(***************************************************************************)
(* The tape path implements ArchiveRecord: seen through the tapes' final   *)
(* contents and the run's record, every step is one of "write an           *)
(* unrecorded tape", "record finished tapes", "end", or nothing.           *)
(***************************************************************************)
Outcome == IF wf = "ok" THEN "ok" ELSE IF wf \in Terminal THEN "ended" ELSE "running"
Content == [t \in Tapes |-> IF medium[t] = "complete" THEN holds[t] ELSE 0]
Record == {[pair |-> r.pair, tape |-> r.tape] : r \in recorded}
Archive == INSTANCE ArchiveRecord WITH content <- Content, record <- Record, outcome <- Outcome
ImplementsArchiveRecord == Archive!Spec

(***************************************************************************)
(* Every run ends, whichever commands fail and whatever the operator does  *)
(* or fails to do, once the operator stops resuming it.                    *)
(***************************************************************************)
Terminates == <>(wf \in Terminal)
=============================================================================

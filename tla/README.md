# tape-archiver: a verification of the backup run

tape-archiver writes encrypted archives of ZFS snapshots to LTO tape. A backup
is one Temporal workflow (`workflows/backup`). Its control side runs in a
scale-to-zero worker; its data side runs on the host that has the tape library,
the pools and the optical burners. Operators submit runs and answer its pauses
through `tapectl` or the web API.

This directory holds TLA+ modules of the parts where such a run can go wrong in
ways that are hard to test, the TLC configurations that check them on small
instances, and TLAPS proofs of the most important properties for every
instance. `PROJECT.json` maps every definition to the lines it stands for, lists
the hazards of the code and which property is aimed at each, and names a mutant
for every property: a plausible bug under which TLC finds the property violated.

## 1. Inventory

What each part keeps, what it does, and what makes it correct.

| part | state | operations | correct when |
|---|---|---|---|
| Resolve, `resolve.go`, `pkg/k8ssnap`, `pkg/zfs` | the sources as expanded so far, the work list | property and selector expansion, k8s lookup, verification, sizing, slice size | the work list holds what the configuration asks for although pool and cluster change between reads |
| Prepare, `prepare.go`, `pkg/archive` | staged slices, progress | tar, compress, encrypt, slice; purge on retry | a retry beside a lost attempt never mixes two encryptions unnoticed |
| Read-ahead, `archive/readahead.go` | memory and worker semaphores, bounded queue | walk, prefetch, write, drain | the archive of the serial writer; no deadlock of budgets, nothing left on cancellation |
| Pack, PAR2, Verify, `plan.go`, `pkg/par2`, `verify.go` | tape plan, recovery sets | packing, block size, memory plan, generation, read-back | the plan still fits its tapes when the parity exists; limits of par2 and of the host hold |
| Changer, `pkg/tape` | cartridges in slots, drives, I/O station; source slot of each loaded drive | Inventory, Load, Unload, Transfer | no move is asked for that the library refuses |
| Tape path, `library.go`, `writepause.go` | pending assignments of the drive-set, `state.written`, the one inventory of a Load and its relocations | Load, ReturnToSlots, Eject, IOStationStatus, retry after a pause | recorded tapes are complete and stay so; no foreign data is lost; the operator is told where the tapes are |
| Write session, `session.go` | a coroutine for each drive, the `MountRegistry` and its mutex | FormatTape, WriteTree, FinalizeTape, TeardownSession | "written" means a flushed index of this mount; drives are released for Eject; the phase returns |
| LTFS mount, `pkg/ltfs` | ltfs process, FUSE mount, drive lock, captured index | Mount, Unmount, Kill, Abort, ReadIndex | no stale index, no lock left by a killed ltfs |
| Operator pauses | buffered signals, pause timer, child workflow polling the station | drain, alert, wait, resume, abort, timeout, continue-as-new | a pause is ended by an answer to it, never later than its time |
| Run lifecycle, `runsnapshot.go`, `hold.go`, `cleanup.go` | run-scoped snapshots, holds, staging directory, error of the run | create (with sweep of leaks), hold, release, destroy, alert, cleanup | sources stay while they are read; nothing is left behind unnamed; nothing else is destroyed |
| Burn, `burnpath.go`, `burn.go`, `pkg/optical` | pending discs of the burn-set, `state.burnedDiscs`, the disc in each burner | BurnDisc (state, policy, blank, write), VerifyDisc, swap and failure pauses, report | a verified copy is never reclaimed; old data goes only where the policy allows; the phase ends |
| Report, recovery kit, delivery, `report.go`, `pkg/recoverykit`, `deliver.go`, `pkg/webhook` | report, ISO and manifest in staging, messages posted | escrow check, BuildReport, RebuildReport, Deliver | a verified disc is a whole kit; what is delivered is true; nothing leaves with a wrong identity |
| Submission and control API | none of its own: one workflow id | start, resume, abort, cancel | one open run; a signal acts on the pause it was checked against |
| Run history and event streams, `pkg/runsapi` | polls shared by subscribers | derive phases, pause, tapes; subscribe, unsubscribe, broadcast, drain | what is shown is what happened; every subscriber gets the terminal frame |
| Worker, `cmd/worker` | in-flight count, idle window, merged interrupt | start, begin, end, idle exit, SIGTERM | no exit with work in flight, no idle worker that stays |
| Web UI, authentication, configuration, deployment | documents, sessions, settings | rendering, HTTP, validation | outside the model |

How they interact: the workflow calls activities on two task queues and waits
for them; activities share the library, the `MountRegistry`, the staging
directory and the pools; the operator acts on the same library and sends
signals; external pruning acts on the same pools; the API reads the history the
workflow leaves. No activity option waits for a cancelled activity to stop, and
the changer, write, snapshot and hold activities do not heartbeat, so **a
cancelled run can close while its activity runs on**; and an activity that does
heartbeat can be given up and started again **while its first attempt still
writes to the same directory**. The modules have both overlaps.

The hard behaviours, each listed at its line under `hazards`: inventories that
are stale when used, changer commands half done at a crash, retries after a lost
answer, two attempts in one directory, teardown beside a running activity, late
and duplicate signals, a timer racing a reply, pruning between resolve and hold,
the sweep of one run beside the next, budgets taken by one goroutine and given
back by another, subscribers joining a poll that is being stopped, an idle exit
in the instant a task is dispatched, and estimates that must bound what is only
known hours later.

## 2. Modules

| module | models | state to code |
|---|---|---|
| `Resolve` | the Resolve phase's three activities | `sources`, `origin`: `cfg.Sources` as expanded; `k8s`, `resolved`: results; `local`, `snaps`, `claims`, `vsnaps`: pool and cluster; `everLocal`, `alwaysSnaps`...: what was true at some time and all the time |
| `MediaMath` | the arithmetic of capacity, Pack, PAR2 percentage, block size and memory | operators only |
| `Staging` | PrepareArchives, Pack, GeneratePAR2, Verify, the tree each tape gets | `prep`, `par`: attempts, lost ones too; `disk`, `pdisk`: files, each known by the attempt that wrote it; `sets`: recovery files as measured; `tapes`: content and manifest |
| `ReadAhead` | `pkg/archive`'s walk, loads and writer | `walk`, `pos`, `queue`, `load`, `memory`, `workers`, `writer`, `links`: the fields and goroutines; `out`: the tar stream |
| `TapeLibrary` | `pkg/tape` as the workflow uses it | `slot`, `drive`, `src`, `io`: cartridges by address. `medium`, `holds`: what is on a tape, which only the model sees |
| `TapePath` | `runTapePath`, `runDriveSet`, the Load, ReturnToSlots and Eject activities | `wf`: the workflow's position; `act`: the changer activity's, with its locals `todo`, `inv`, `relocated`, `inDrives`, `queue`; `recorded`: `state.written` |
| `ArchiveRecord` | the promise of the tape path | which tape carries which copy, and the record |
| `WriteSession` | `writePhase` and what it runs | `co`: coroutines; `job`: activities; `mounts`: the registry; `ltfs`, `mnt`, `lock`, `detached`: the process and what it holds; `index`, `captured`, `staged`: the index on tape, in the capture directory and in staging |
| `DriveWrite` | what `TapePath` assumes of the Write phase | content and report of each drive |
| `OperatorPause` | pauses, signals and the I/O station wait | `buffer`: signals Temporal holds; `flight`: signals whose sender has decided; `remaining`, `polls`: the child workflow |
| `RunLifecycle` | `Backup`'s first and deferred activities over successive runs | `at`: what the workflow waits for; `jobs`: activity attempts on the worker, those of closed runs too; `snaps`, `holds`, `staging` |
| `BurnPath` | `runBurnPath`, `runBurnSet`, BurnDisc and VerifyDisc | `step`: the coroutine of each burner; `guard`: `driveHasVerifiedCopy`; `burned`: `state.burnedDiscs`, with the disc and copy, which only the model sees; `tray`, `medium`, `erased`: the discs |
| `Delivery` | Report, Burn (read-back) and Deliver | `at`, `ren`: the running attempt; `old`, `oldRen`: a lost one that still writes; `pdf`, `iso`, `man`: the files in staging; `discs`: verified discs; `posts`: what the webhook accepted |
| `RunTimeline` | what the API derives from a history | operators only |
| `RunEvents` | a run's history as it grows, requests for it, and event streams | `h`: the history; `completed`, `pause`: what the workflow answers to queries; `conn`, `poll`, `current`: streams and poll loops; `view`: a request between its two calls |
| `IdleExit` | a worker process | `proc`: process, signal channel, merging goroutine; `tracker`: `idleTracker`; `task`: activity tasks of the queue |
| `MC...` | instances for TLC | values of the constants |
| `TapePathProofs` | theorems about `TapePath`: its own invariants, then what it promises (`ArchiveRecord`) and tells | |
| `WaitProofs` | theorems about the two parts that wait, `OperatorPause` and `IdleExit` | |
| `PrepareProofs` | theorems about what is made for the tapes, `ReadAhead` and `Staging` with `MediaMath` | |
| `PhaseProofs` | theorems about the first phase and the last, `Resolve` and `BurnPath` | |
| `WriteSessionProofs`, `RunLifecycleProofs`, `DeliveryProofs`, `RunEventsProofs` | theorems about the module they are named after | |

Composition. `TapePath` extends `TapeLibrary`. It treats the write of a tape as
blank, partial, complete and a report; `WriteSession` has every step of it and
is shown to refine `DriveWrite`, which is that view. `TapePath` refines
`ArchiveRecord`. `TapePath` leaves how a pause is answered to a choice;
`OperatorPause` is about the answers only, and `BurnPath` leaves its pauses to it in
the same way. `Staging` extends `MediaMath`: it packs and fills with the same
operators whose bounds are checked alone over `Samples`. `RunEvents` extends
`RunTimeline` and applies it to the history its workflow leaves. `Delivery`
has what is on the discs and leaves which disc lies in which burner to `BurnPath`.
`Resolve` ends with the work list that `Staging` starts from, `Staging` with the
trees that `WriteSession` copies as one step.

Granularity. One changer, fusermount, xorriso, par2 or zfs command, one remote
call and one file written is one step, because a crash, a cancellation or another
actor can come between two of them. Code between two such steps, or between two
workflow awaits or channel operations, is part of the step. `StageIndex` also
covers the answer to the activity, which may be lost.

Abstractions. Bytes, messages and logs are left out; what a message says is kept
where a property is about it (`told`, `alert`, `posts`). Content is known by who
wrote it: an attempt in `Staging`, a set of facts in `Delivery`. Names are sequences
of characters only where two names becoming one is the hazard: labels and
members in `Resolve`, file names on a disc in `Delivery`. A hardware error, a
crash, a lost answer or a wedged process draws on `MaxFaults` (`MaxMishaps` in
`Staging`, where a damaged file does too; `MaxErrors` in `Resolve`), resumes on
`MaxResumes`, signals on `MaxSends`. A conflict of state (a full slot, a held
snapshot, an exited ltfs) is never a fault: it follows from the state.

### Plan

Done in this order: the tape path (it can destroy data), the write session it
rests on, pauses, the run lifecycle, burning; then read-ahead, the staging of
archives with its arithmetic, Resolve, the API's history and streams, the idle
exit, and report and delivery. Then proofs: the tape path with its refinement of
`ArchiveRecord`, the write session with its refinement of `DriveWrite`, pauses,
the run lifecycle, burning, the idle exit, delivery, the read-ahead, the event
streams and Resolve have all their safety properties proved, and the staging of
archives its `TapesSound` (section 4). What is left to prove is the arithmetic of
`Staging` (`ArithmeticSound`, `ProgressSound`).

## 3. Runs

`tlc -config X.cfg M` with the module of the table.

| run | module, cfg | situation | checks |
|---|---|---|---|
| `resolve` | `MCResolve`, `Resolve.cfg` | sources of every kind while datasets, properties, snapshots and claims change between two reads | `WorkListSound`, `ToldApart`, `SlicesBounded`, `ResolveEnds` |
| `read_ahead` | `MCReadAhead`, `ReadAhead.cfg` | two trees with every kind of entry, damaged sources, colliding members, cancellation | `ArchiveSound`, `BudgetsSound`, `TarReturns` |
| `staging` | `MCStaging`, `Staging.cfg` | lost, failed and overlapping attempts, bit rot, and the arithmetic over a sample of plans and hosts | `TapesSound`, `ArithmeticSound`, `StagingProgresses` |
| `tape_path` | `MCTapePath`, `TapePath.cfg` | two drive-sets on two drives, a fault, a cancellation, three resumes, wrong restocks, a tape without a label, which Write refuses and returns | `TypeOK`, `LoadSound`, `RecordedIntact`, `ToldTheTruth`, `ForeignDataPreserved`, `RefusedTapeReturned`, `Terminates`, `ImplementsArchiveRecord` |
| `write_session` | `WriteSession`, `WriteSession.cfg` | two drives, two faults, cancellation | `SessionSound`, `ImplementsDriveWrite`, `PhaseReturns` |
| `operator_pause` | `OperatorPause`, `OperatorPause.cfg` | three pauses, two signals from either client | `PauseSound`, `RunEnds` |
| `run_lifecycle` | `RunLifecycle`, `RunLifecycle.cfg` | two runs, two pools, a named snapshot, a fault and a cancellation | `LifecycleSound`, `OnlyOwnDestroyed`, `RunCloses` |
| `run_lifecycle_sweep` | `RunLifecycle`, `RunLifecycleSweep.cfg` | the claim that only one run is active; ends in a counterexample (below) | `SourcesExist` |
| `burn_path` | `BurnPath`, `BurnPath.cfg` | three copies on two burners, a fault, two resumes, discs changed at will during pauses | `BurnSound`, `OldDiscsKept`, `BurnEnds` |
| `delivery` | `MCDelivery`, `Delivery.cfg` | barcodes that become one name on a disc, a wrong or missing identity, unusable tools, lost attempts, damaged discs, a webhook that fails or loses its answer | `DiscsSound`, `DeliveredSound`, `EscrowHolds`, `RunEnds` |
| `run_events` | `MCRunEvents`, `RunEvents.cfg` | a history as it grows, what is derived from it, two streams on one poll | `EventsSound`, `NeverMisleads`, `PauseShown`, `StreamsEnd` |
| `idle_exit` | `IdleExit`, `IdleExit.cfg` | a worker of either role, two tasks, failures, a kill and a SIGTERM | `EndsAsMeant`, `WindowHonoured`, `WorkersFollow` |

Most of these are conjunctions of named parts, each with its own comment in the
module; the type invariant is a part of the first one.

| property | its parts |
|---|---|
| `LoadSound` | `StaleInventorySound` (no move the library refuses), `LoadedMatches` (the answer names what is in the drives) |
| `SessionSound` | `WrittenIsFinalized`, `MissingMeansFinalized`, `ReleasedForEject` |
| `PauseSound` | `BufferedSignalsAreFresh`, `ReplyBeatsTimeout`, `WaitBounded` |
| `LifecycleSound` | `PinnedWhileRead`, `NothingLeftBehind`, `AlertNamesLeaks`, `LeaksSwept` |
| `BurnSound` | `CopiesIntact`, `BurnComplete` |
| `ArchiveSound`, `BudgetsSound` | `SameAsSerial`, `LinksResolve`, `NamesDistinct`; `FdsBounded`, `NothingOutlives` |
| `TapesSound` | `TapesMatchManifest`, `RecoverySetProtects`, `RetriesStartClean` |
| `ArithmeticSound` | `PlanSound`, `NoLateOverflow`, `ParityFills`, `BlocksWithinLimit`, `MemoryWithinBudget` |
| `StagingProgresses` | `ProgressSound`, `StagingEnds` |
| `WorkListSound` | `NoLiveReads`, `WorkListFaithful`, `OnlySelected`, `AllSelected`, `NewestChosen`, `NewestPerClaim` |
| `ToldApart` | `LabelsTellApart`, `MembersDistinct` |
| `EventsSound` | `PauseDerived`, `FailureNamed`, `OutcomesTrue`, `OneLoop` |
| `NeverMisleads`, `StreamsEnd` | `WaitingTrue`, `KnownStaysKnown`; `DoneReaches`, `DrainEnds` |
| `EndsAsMeant`, `WorkersFollow` | `ExitsClean`, `StaysUp`; `NoneForgotten`, `ScalesToZero`, `PlainStops` |
| `DiscsSound`, `DeliveredSound` | `VerifiedIsKit`, `GoodDiscPasses`; `DeliveredTrue`, `DeliveredNamesDiscs`, `OkMeansDelivered` |

### Bounds

* `tape_path`: two drives are what a set needs for one to fail beside another and
  for a relocation to disturb another drive; three slots and one I/O slot give a
  second, shorter set, a full station and a free slot to relocate to. Five tapes
  let the operator hold a spare, restock the wrong one, or one that Write refuses;
  seven starting conditions put foreign tapes in slots, drives and station. The
  drive nodes are in the opposite order of the changer elements, so that position
  and identity differ.
* `write_session`, `run_lifecycle`: two attempts show a first and a last one. Two
  runs are an old one and its successor; pools are interchangeable and two make a
  partly done create, release and destroy.
* `operator_pause`: three pauses let a signal miss one and hit the next; five
  polls with a budget of two make the child continue twice.
* `burn_path`: three copies on two burners reuse one of them; the four discs are
  two blank rewritable ones, a used rewritable one and a used write-once one.
* `resolve`: two changes let something disappear and come back, or two things
  change between two reads; one failed command makes an activity start over after it.
* `read_ahead`: a queue of two and memory of three units are smaller than the
  trees, so that the walk blocks on each budget; files are smaller than, equal to
  and larger than the memory.
* `staging`: two attempts and two mishaps give a lost attempt, its retry and a
  damaged file at the same time. The constants of par2 are scaled down (eight
  target blocks instead of thousands), so that every rounding matters; the sample
  plans go through all percentages, the hosts through all kinds of memory limit.
* `delivery`: disc names keep three characters of a stem; barcodes collide by
  case, by dot, by a character outside the set and by length, two faults overlap a
  lost attempt with a failing one. Five attempts of Deliver are the code's.
* `run_events`: the whole run is taken without streams, pauses with one and
  the end of a run with two, since streams only read; two poll loops are one being
  stopped and its successor.
* `idle_exit`: one process at a time, started again by the scaler; a window of two
  poll intervals tells "idle now" from "idle for the whole window".

`MaxRuns`, `MaxFaults`, `MaxErrors`, `MaxMishaps`, `MaxResumes`, `MaxPauses`, `MaxSends`, `MaxCancels`,
`MaxChanges`, `MaxSignals`, `MaxStreams`, `MaxTapes` and `MaxPolls` are the only
bounds the code does not have. Deadlock is checked in every run; what has finished
stutters in an action of its own, enabled only when nothing is left to do.

### Fairness

Weak fairness of the workflow and its activities: Temporal re-dispatches tasks
until a worker takes them, timers fire, and every activity has a start-to-close
limit. In `WriteSession` also that ltfs finishes mounting and flushing or is timed
out; in `ReadAhead` that goroutines are scheduled; in `RunEvents` that calls
return, tickers tick, and a `select` one of whose cases stays ready takes it in
the end (strong for the end of a poll, which competes with its ticker); in
`IdleExit` that the scaler starts a worker while tasks wait and that the server
hands out a queued task (strong, since workers come and go); in `Delivery` that a
request to the webhook ends, by its timeout if not by an answer, and that lost
attempts stop. Nothing is assumed of the operator, of pruning, of clients, of the
delivery of signals, or of faults. `PhaseReturns` makes one exception, which the
code has: TeardownSession scheduled on the queue of a worker that died before
starting it has no limit on the time until it starts. `BurnEnds` and `Delivery`'s
`RunEnds` need the report to be built in the end: that activity is retried without
limit, and `MaxFaults` is what ends its failures.

### What does not hold

Where the code does less than a comment or a document of it says, the properties
above state what it does. The differences met while modelling:

* The sweep of leaked snapshots (`runsnapshot.go:258`, "Only one run is ever
  active (fixed workflow id), so they are leaks"): a run cancelled while
  CreateRunSnapshots runs closes at once, the activity goes on, and its sweep
  destroys the snapshots of the next run. `run_lifecycle_sweep` shows it;
  `PinnedWhileRead` is the same property for runs no cancelled run precedes.
* A refused tape (`library.go:80`, "never left in a drive"): a relocation in the
  same Load may have taken its slot (`library.go:308`), and the failed undo is
  only logged. `RefusedTapeReturned` allows a slot another tape is in.
* Re-formatting (`writepause.go:35`, `SPEC.md:240`: the blank check gates it): with
  `allowNonBlankTapes` the check only reports, so a recorded tape put back into a
  slot named by a pause is formatted on resume. `RecordedIntact` is checked and
  proved without that option.
* Teardown (`session.go:368`, "every live LTFS mount the session still owns"): a
  run cancelled while Mount is under way tears down a registry with no entry yet;
  the mount follows and stays. `MissingMeansFinalized` says what a missing entry
  does mean on a living worker.
* Late signals (`runsapi.go:702`, "cannot leak onto a later pause"): the drain
  removes what has arrived; of two requests that saw one pause, the second can land
  after the next pause's drain and resolve it.
* Overwritten discs (`SPEC.md:601`, `docs/configuration.md:478`: recorded in the
  report): when the burn after the blanking, or the verification, fails, the note
  is dropped with the result (`burn.go:145`) and the retry meets a blank disc.
* Verified discs (`SPEC.md:596`, never reclaimed): the guard is the burner's
  (`burnpath.go:192`); a verified disc moved during a pause into a burner whose own
  disc failed is reclaimed. `CopiesIntact` is checked with discs that stay with
  their burner (`Crosses`).
* SIGTERM (`main.go:44`, "One SIGTERM stops either phase"): with the idle exit
  installed, the goroutine that merges the two channels takes the signal
  (`idle.go:242`) and may be the only reader as the idle window elapses.
  `PlainStops` is about workers without idle exit.
* The idle exit "never terminates mid-task" (`docs/configuration.md:1216`): a task
  dispatched as the drain begins is cut off, since no `WorkerStopTimeout` is set.
  `NoneForgotten` says that it is tried again.
* `InIOStation` "is cumulative" (`facts.go:279`): Eject reports what is in the
  station at that time (`library.go:666`), so tapes taken out between two sets are
  no longer counted. `OutcomesTrue` says the count never overstates.
* BuildReport is retried without limit, also when barcodes collide on the disc or
  a recovery tool is unusable, which no retry mends.
* A lost BuildReport attempt can leave an ISO and a manifest that do not match;
  then good discs are refused, never bad ones accepted (`GoodDiscPasses`,
  `VerifiedIsKit`). Collisions of the names of recovery binaries and sources on the
  disc are not checked by the code.

## 4. Proofs

`tlapm M.tla` checks every leaf of the module `M` of the table. A theorem holds for
every value of the constants that satisfies the module's assumptions: any number
of tapes, drives, slots, copies, pools, runs, burners, discs, workers, faults,
resumes, signals and polls, and any starting layout.

| module | theorem | states |
|---|---|---|
| `TapePathProofs` | `TypeCorrect` | `TypeOK` |
| | `LoadIsSound` | `LoadSound`: the stale inventory and the relocations never mislead Load, and what it reported is in the drive it named until the write is over |
| | `RecordedTapesStayIntact` | `RecordedIntact`, without `allowNonBlankTapes` |
| | `ForeignTapesArePreserved` | `ForeignDataPreserved`, without `allowNonBlankTapes` |
| | `TapePathImplementsArchiveRecord` | `ImplementsArchiveRecord`, without `allowNonBlankTapes` |
| | `OperatorIsToldTheTruth` | `ToldTheTruth` |
| | `RefusedTapesAreReturned` | `RefusedTapeReturned` |
| `WriteSessionProofs` | `SessionIsSound` | `SessionSound` |
| | `SessionImplementsDriveWrite` | `ImplementsDriveWrite` |
| `RunLifecycleProofs` | `LifecycleIsSound` | `LifecycleSound` |
| | `GivenSnapshotsAreSafe` | `OnlyOwnDestroyed` |
| `PhaseProofs` | `BurnedCopiesAreSound` | `BurnSound`, where discs stay with their burner (`~Crosses`) or non-blank discs are refused |
| | `OldDiscsAreKept` | `OldDiscsKept` |
| | `WorkListIsSound` | `WorkListSound` |
| | `SourcesAreToldApart` | `ToldApart` |
| | `SlicesAreBounded` | `SlicesBounded` |
| `WaitProofs` | `PausesAreSound` | `PauseSound` |
| | `WorkersEndAsMeant` | `EndsAsMeant` |
| | `WindowIsHonoured` | `WindowHonoured` |
| `DeliveryProofs` | `VerifiedDiscsAreKits` | `DiscsSound` |
| | `DeliveredReportsAreTrue` | `DeliveredSound` |
| | `IdentityLeavesWithTheKit` | `EscrowHolds` |
| `PrepareProofs` | `ArchiveIsSerial` | `ArchiveSound` |
| | `BudgetsAreKept` | `BudgetsSound` |
| | `TapesAreSound` | `TapesSound` |
| `RunEventsProofs` | `EventsAreSound` | `EventsSound` |
| | `ViewsNeverMislead` | `NeverMisleads` |

Assumptions. From `LibraryAssumption` and `TapePathAssumption` the proofs use that
the configured slots and the drives' elements are distinct, which configuration
validation and unit serials give; from `IdleExitAssumption` that the tasks are
finitely many and that no worker is called 0, which stands for "no worker"; from
`DeliveryAssumption` what the earlier phases hand over: at least one tape was
written, each of a place in the plan, and the tools are files or directories; from
`ReadAheadAssumption` that a tree is a finite list in which every entry comes after
its directory; from `StagingAssumption` and `MediaMathAssumption` that there is an
archive, that every archive has a slice, that sizes and percentages are numbers, and
that par2 is asked for more than three blocks; from `RunEventsAssumption` that a run that is watched from its middle
has a history that ends in a phase and has tried no tape yet; from `CasesAssumption`
that pool and cluster are finite, that a dataset has no two snapshots of one name and
none yet of the run's own, which contains the run's ID, and that claims and
VolumeSnapshots have names; from `ResolveAssumption` that the slice targets and the
unit are not 0. `Sanitize`, `TooLong`, `Managed` and `Staging` are arbitrary. The
hypotheses `~AllowNonBlank` and `~Crosses` are settings of the run and habits of
the operator; without them the theorem is false, as said under "What does not
hold". `OldDiscsKept`, `ToldTheTruth` and `RefusedTapeReturned` need neither.

Every invariant theorem has the same shape: an inductive invariant that holds
initially, that each action preserves, shown action by action, and that implies
the property. What had to be added to the property:

* `TapePath`. `TypeInv` is `TypeOK` and `Control`: which positions of the workflow
  and of the changer activity occur together. Without `Control` nothing keeps an
  Eject from overlapping a Load, since a cancelled run's activity runs on.
  `LoadInv`: a cartridge is in one place (`OnePlace`); the assignments of a set
  have different drives and slots (`SetsApart`); during a Load the snapshot agrees
  with the library on every drive and slot the Load has yet to visit, except where
  `relocated` says what moved (`LoadView`); from then on the tapes are held in
  their drives (`Held`). `LoadView` is the part that is hard to find: it has to
  say what the snapshot still means after any number of the Load's own moves.
  `MediaInv`: a tape that passed the blank check is blank until it is formatted,
  a tape being streamed is not recorded, and a recorded tape carries its pair. It
  needs `LoadInv` to know that two drives never hold the same cartridge.
* `ArchiveRecord`. The refinement needs to know why a success has every pair on
  record: `RecordInv` says that the record is one-to-one with the pairs handed out
  so far, except those still to be done by the set or by its failed part;
  `AnswerInv` that Load's answers are in the order of the set; `WrittenInv` that
  each of them is being written, written with its own pair, or failed. `PlanInv`,
  `EmptyInv`, `ReturnInv` and `BackInv` follow the tapes of a set from the drives
  back to their slots or to the station, and give `ToldTheTruth`; `RefusedInv` the
  one tape a Load refuses. Each step of the tape path is then shown to write one
  unrecorded tape, to record finished tapes, to end, or to leave the view alone.
* `WriteSession`. `CoInv` ties each coroutine to the activity that runs for it,
  `TapeInv` what is on the tape, in the registry and of the ltfs process to how far
  they have come; `LockInv` says that an ltfs that runs, or left its drive locked,
  can still be reached through an activity or the registry; `TearInv` that a
  teardown has every entry before it. The refinement of `DriveWrite` is read off
  the same invariant.
* `OperatorPause`. `ClockAddsUp`: the polls spent and those left to the child are the
  whole wait, which is what a continuation could lose. `ReplyKept`: a reply that
  came in stays buffered while the pause lasts, so the timer cannot win.
* `RunLifecycle`. `FlowInv` and `JobInv` say which attempts exist for which position
  of which run, those of closed runs included; `OwnInv` that what exists, is held,
  staged or logged belongs to a run that was submitted; `PinInv` that what a run
  has held so far is there and what it has swept is gone; `GivenBack` what a run,
  and each of its attempts, has given back and has left to; `AlertInv` that the
  alert names what was given up before it.
* `BurnPath`. `BurnerInv`: a disc is in one burner, and a coroutine's locals agree
  with it; `StaysPut` keeps a verified disc with its burner; `CopyInv`: the copies
  handed out are on record or pending, each once; `DiscInv`: no burner works on a
  disc on record.
* `Resolve`. `EnvInv` and `ClusterInv`: what was there all the time is there now, and
  what changes keeps its name. `ListInv`: every source of the list was made of a
  configured one (`Derives`), and every configured one is still in it; `StageInv`: how
  far the list is expanded, and that labels given by then differ. `MatchInv`: a dataset
  selected all the time is a match already, or among the records still to be confirmed.
  `AnswerInv`: what is resolved answers its source (`Answers`), where answering is said
  relative to what was there all the time, so that later changes can only make it
  weaker (`AnswersAge`); a group's newest snapshot exists because the snapshots are
  finitely many (`NewestExists`). Places in an expanded list and sums are recursive
  functions, and what they compute is shown by looking at the smallest index for which
  it would not hold (`UpTo`). `SlicesFacts` is the arithmetic of `DeriveSliceSize`: n
  archives rounded up have at most `RunTarget` + n slices.
* `IdleExit`. `ProcInv`: which parts of a process's state occur together;
  `TaskInv`: an attempt is on a worker that came up; `CountInv`: the in-flight
  count is the number of activities running on the worker, and the idle time
  counted is no more than the time nothing has run for.
* `Delivery`. `FlowInv`: where the running and the lost attempt are in each phase.
  `ReportInv`: every report, rendered, staged or held by a lost attempt, is true of
  the tapes, and names the discs from the second rendering on. `KitInv`: whatever
  attempt wrote it, a manifest is that of a whole kit (`WholeKit`), which is why a
  disc that passes is one; and where no attempt was lost the image is the manifest's
  kit. It rests on two facts about names: the ISO writer's and the manifest's agree
  (`NamesAgree`), and where two files get one name both keep the last
  (`KeyedValue`), so an index may only be lost to another index, which
  `Input.validate` excludes. `DiscInv`, `EscrowInv`, `PostInv`: the same of what has
  left the system.
* `ReadAhead`. `FlowInv`, `QueueInv` and `LoadInv`: where walk, writer and loads are,
  and that the queue is in the order of the walk. `BudgetInv`: what is left of a
  budget and what the entries in flight hold of it add up to the whole; a load hands
  its worker back before or after the writer lets go of the file, which is the case a
  sum over the queue alone gets wrong. `ArchiveInv`: the entries pending between the
  writer and the walk are those after a point r of the tree (`Split`), and the stream
  is that of the serial path at r (`SameInv`). The serial path is a recursive
  function over entries and members; that it exists, and that its stream only grows,
  is proved by looking at the smallest entry for which it would not.
* `Staging`. `AttemptInv` and `PhaseInv`: only the attempt the server waits for runs,
  and what the workflow has from each phase. `SetInv` is what the exception for lost
  attempts costs: as long as the slices of an archive are those of the attempt that
  was reported (`Good`), every recovery file on disk, every set an attempt has read
  and every one it has measured is of these slices or unfinished; slices that are
  not, Verify refuses. `PartInv`: an unfinished recovery file belongs to a par2 that
  still works on it, or was stopped at it, or will be purged. `VerifyInv`: what was
  verified still matches, since nothing writes any more. `RetryInv`: for files that
  an attempt meets after its own purge, or misses after its own par2, there is
  another attempt that made or purged them; the set of those that have touched the
  files since the last attempt began (`Causes`) is what makes that inductive. Initially
  the plan has to be one: `PackFacts`, by first fit on items in an order that is one
  (`InOrderFacts`).
* `RunEvents`. `RunInv` says what the history tells: the last activity of a paused run
  is the alert of that pause (`PauseOK`), the phase the run would fail in is that of
  its last activity in a phase (`PhaseOK`), no activity is scheduled twice on one tape,
  nor before those it follows (`TapeOK`), and the fate of a tape is in the history
  (`TruthOK`). `ViewInv`: a history that was read is a beginning of the history.
  `LoopInv`: a loop that has not been stopped is the one in the map, and a stream is a
  subscriber of its loop, which goes on; a subscriber that joins while the last one
  leaves would break it.

Only model-checked:

* liveness (`Terminates`, `PhaseReturns`, `RunEnds`, `RunCloses`, `BurnEnds`,
  `TarReturns`, `StagingEnds`, `ResolveEnds`, `PauseShown`, `StreamsEnd`,
  `WorkersFollow`), which rests on fairness;
* `ArithmeticSound` (Pack and the PAR2 arithmetic: products and quotients of
  variables, which the SMT solver does not settle) and `ProgressSound` (a sum over
  archives).

## 5. Not modelled

Inside the modelled parts:

* `Staging`: a lost PAR2 attempt that is stopped in the middle of par2 can leave
  partial files that its retry measures and records (`RecoverySetProtects` excepts
  it); a recovery file damaged before it is measured is recorded as it is; lost
  attempts are taken to have stopped when Verify starts.
* `Delivery`: lost attempts are taken to have stopped once all discs are burned;
  the truncation of messages and the redaction of the webhook's URL are left out.
* `BurnPath`: a disc is changed only during a pause, and a burn that timed out has
  stopped before the pause begins.
* `RunEvents`: a done frame may carry an older pause or phase, a stream may go
  back to an older detail for one poll, and the last completed phase the workflow
  answers may differ from the one derived from the history inside the tape path;
  no property says otherwise, since the code does not promise it.
* `WriteSession`: the copying of the files is one step; write health is a
  measurement that never fails a run.

Left out altogether: byte streams (tar headers, sparse maps, compression,
encryption), SCSI and XML encodings, command lines, the layout of the PDF, logs,
metrics, presets and listings, authentication, the web interface, configuration
parsing and deployment. They hold no state that another step relies on. The dry
run's mirror of the library (`pkg/mhvtl`) sets up virtual hardware before the
same phases run; what it produces is one of the starting conditions of the tape
path. `PROJECT.json` has the reason for each.

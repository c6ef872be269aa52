------------------------------ MODULE Staging ------------------------------
(***************************************************************************)
(* From resolved archives to tape trees: Prepare stages each archive as    *)
(* encrypted slices, Pack plans the tapes, Generate PAR2 adds a recovery   *)
(* set to each archive, Verify reads everything back, and Write copies the *)
(* verified files under a manifest of their checksums.                     *)
(*                                                                         *)
(* Prepare and Generate PAR2 are activities with retries.  An attempt that *)
(* misses its heartbeats is given up by the server while it still runs,    *)
(* and its retry works in the same directories.  Encryption makes every    *)
(* attempt's bytes different, so the content of a file is the attempt that *)
(* wrote it.  A lost attempt is told so by its next heartbeat; it is taken *)
(* to have stopped by the time Verify starts.  MaxMishaps bounds losses,   *)
(* failures, crashes and damaged files together.                           *)
(***************************************************************************)
EXTENDS MediaMath

CONSTANTS
    Inputs,        \* the configurations and archives to choose from
    Samples,       \* those the arithmetic alone is checked on
    MaxAttempts,   \* prepareMaxAttempts, generatePAR2MaxAttempts
    Hosts, MinMemory, MaxMemory,   \* what MemoryBudget may read, MinMemoryLimit, MaxMemoryBudget
    MaxMishaps

\* An input: slices[a] the sizes of archive a's slices, logical[a] its size as
\* Resolve measured it, tarred[a] the bytes tar emits for it, native and
\* redundancy of the configuration.
ASSUME StagingAssumption ==
    /\ MaxAttempts \in Nat \ {0} /\ MaxMishaps \in Nat /\ {MinMemory, MaxMemory} \subseteq Nat
    /\ \A i \in Inputs \cup Samples :
          /\ i.slices \in Seq(Seq(Nat) \ {<<>>}) \ {<<>>} /\ i.native \in Nat
          /\ i.redundancy.mode \in {"target", "fill"} /\ i.redundancy.tenths \in 0..10 * MaxPercent
    /\ \A i \in Inputs : {i.logical, i.tarred} \subseteq [DOMAIN i.slices -> Nat]

Attempts == 1..MaxAttempts
None == <<0, "absent">>
NoPrepare == [st |-> "none", a |-> 1, s |-> 1, pc |-> "create"]
NoPAR2 == [st |-> "none", a |-> 1, pc |-> "purge", seen |-> <<>>, got |-> <<>>]

VARIABLES
    input,
    phase,     \* prepare, pack, par2, verify, write, done, failed
    attempt,   \* the attempt the server is waiting for
    prep, par, \* the attempts of the two activities
    disk,      \* disk[a][s]: the content of a staged slice
    pdisk,     \* pdisk[a][f]: the content of a recovery file
    staged,    \* the Prepare attempt whose result the workflow has
    sets,      \* sets[a]: the recovery files as they were measured
    plan,      \* the tapes of the plan
    checked,   \* the tape Verify is at, and how many of its archives it has been through
    tapes,     \* tapes[t]: what each written tape holds, and its manifest
    reason,    \* why the run failed
    mishaps

stagingVars == <<input, phase, attempt, prep, par, disk, pdisk, staged, sets, plan, checked, tapes,
                 reason, mishaps>>

Archives == DOMAIN input.slices
Slices(a) == DOMAIN input.slices[a]
SetFiles == 1..2         \* par2's index file and a volume
\* What a lost attempt does once the run has failed is left out.
Alive(k, act) == act[k].st \in {"run", "lost"} /\ phase # "failed"
Mishap == mishaps < MaxMishaps /\ mishaps' = mishaps + 1

\* The bytes of each tape's tree: the slices, and the sets par2 makes of them.
OnDiskBytes(i, tapesPlanned) ==
    [t \in DOMAIN tapesPlanned |->
       LET tape == tapesPlanned[t]  percent == PAR2Percentage(tape, i.redundancy, i.native)
       IN  Total([n \in DOMAIN tape |-> tape[n].data + PAR2Output(i.slices[tape[n].index], percent)])]

\* An input with what Pack will answer and what par2 will fill the tapes to,
\* which depend on nothing else.
WorkedOut(i) ==
    LET p == Pack(i.slices, i.redundancy, i.native)
    IN  [slices |-> i.slices, logical |-> i.logical, tarred |-> i.tarred, native |-> i.native,
         pack |-> p, onDisk |-> OnDiskBytes(i, p.tapes)]

AtFirst == <<1, 0>>

StagingInit ==
    /\ input \in {WorkedOut(i) : i \in Inputs} /\ phase = "prepare" /\ attempt = 1
    /\ prep = [[k \in Attempts |-> NoPrepare] EXCEPT ![1].st = "run"]
    /\ par = [k \in Attempts |-> NoPAR2]
    /\ disk = [a \in Archives |-> [s \in Slices(a) |-> None]]
    /\ pdisk = [a \in Archives |-> [f \in SetFiles |-> None]]
    /\ staged = 0 /\ sets = <<>> /\ plan = <<>> /\ checked = AtFirst /\ tapes = <<>>
    /\ reason = "none" /\ mishaps = 0

-----------------------------------------------------------------------------
(* Attempts *)

Activity == IF phase = "prepare" THEN prep ELSE par

\* The server's answer to the end of the attempt it waits for: the next one, or
\* the end of the run.  ends is the activity with the attempt's own new state.
Retried(ends, retry, why) ==
    IF retry /\ attempt < MaxAttempts
    THEN /\ attempt' = attempt + 1 /\ UNCHANGED <<phase, reason>>
         /\ IF phase = "prepare" THEN prep' = [ends EXCEPT ![attempt + 1].st = "run"] /\ UNCHANGED par
            ELSE par' = [ends EXCEPT ![attempt + 1].st = "run"] /\ UNCHANGED prep
    ELSE /\ phase' = "failed" /\ reason' = why /\ UNCHANGED attempt
         /\ IF phase = "prepare" THEN prep' = ends /\ UNCHANGED par ELSE par' = ends /\ UNCHANGED prep

\* A write that ends in a file another attempt has since truncated leaves a mix.
Torn(k) ==
    LET p == prep[k]  c == disk[p.a][p.s] IN
    IF p.pc = "write" /\ c[1] # k THEN {c, <<c[1], "mixed">>} ELSE {c}
Abandons(k) ==
    \E c \in Torn(k) : disk' = [disk EXCEPT ![prep[k].a][prep[k].s] = c]

\* Any stage fails: the pipes are closed with its error, the group is waited
\* for, and what was written stays.  A misconfiguration is not retried.
PrepareFails ==
    /\ phase = "prepare" /\ Mishap /\ Abandons(attempt)
    /\ \E retry \in BOOLEAN : Retried([prep EXCEPT ![attempt].st = "over"], retry, "prepare")
    /\ UNCHANGED <<input, pdisk, staged, sets, plan, checked, tapes>>

\* Heartbeats are missed while the attempt runs on.
AttemptLost ==
    /\ phase \in {"prepare", "par2"} /\ Activity[attempt].st = "run" /\ Mishap
    /\ Retried([Activity EXCEPT ![attempt].st = "lost"], TRUE, "timeout")
    /\ UNCHANGED <<input, disk, pdisk, staged, sets, plan, checked, tapes>>

\* Its next heartbeat cancels a lost attempt.
LostPrepareStops(k) ==
    /\ Alive(k, prep) /\ prep[k].st = "lost" /\ Abandons(k)
    /\ prep' = [prep EXCEPT ![k].st = "over"]
    /\ UNCHANGED <<input, phase, attempt, par, pdisk, staged, sets, plan, checked, tapes, reason, mishaps>>

LostPAR2Stops(k) ==
    /\ Alive(k, par) /\ par[k].st = "lost" /\ par' = [par EXCEPT ![k].st = "stopped"]
    /\ UNCHANGED <<input, phase, attempt, prep, disk, pdisk, staged, sets, plan, checked, tapes, reason, mishaps>>

\* The data worker dies with everything it runs.  Verify starts over, without a
\* limit on its attempts.
WorkerCrashes ==
    /\ phase \in {"prepare", "par2", "verify"} /\ Mishap
    /\ LET dead(act) == [k \in Attempts |-> IF Alive(k, act) THEN [act[k] EXCEPT !.st = "over"] ELSE act[k]]
       IN  IF phase = "verify"
           THEN checked' = AtFirst /\ UNCHANGED <<attempt, phase, reason, prep, par>>
           ELSE /\ UNCHANGED checked
                /\ IF attempt < MaxAttempts
                   THEN /\ attempt' = attempt + 1 /\ UNCHANGED <<phase, reason>>
                        /\ prep' = IF phase = "prepare"
                                   THEN [dead(prep) EXCEPT ![attempt + 1].st = "run"] ELSE dead(prep)
                        /\ par' = IF phase = "par2"
                                  THEN [dead(par) EXCEPT ![attempt + 1].st = "run"] ELSE par
                   ELSE /\ phase' = "failed" /\ reason' = "timeout" /\ UNCHANGED attempt
                        /\ prep' = dead(prep) /\ par' = dead(par)
    /\ UNCHANGED <<input, disk, pdisk, staged, sets, plan, tapes>>

-----------------------------------------------------------------------------
(* Prepare *)

\* writeSlice, os.Create: the file is there, empty, whoever wrote it before.
SliceCreate(k) ==
    LET p == prep[k] IN
    /\ Alive(k, prep) /\ p.pc = "create"
    /\ disk' = [disk EXCEPT ![p.a][p.s] = <<k, "part">>]
    /\ prep' = [prep EXCEPT ![k].pc = "write"]
    /\ UNCHANGED <<input, phase, attempt, par, pdisk, staged, sets, plan, checked, tapes, reason, mishaps>>

\* Split goes on to the next slice, stageArchive to the next archive.
NextSlice(p) ==
    IF p.s < Len(input.slices[p.a]) THEN [p EXCEPT !.s = p.s + 1, !.pc = "create"]
    ELSE IF p.a < Len(input.slices) THEN [p EXCEPT !.a = p.a + 1, !.s = 1, !.pc = "create"]
    ELSE [p EXCEPT !.st = "over", !.pc = "end"]

\* The slice is complete, and its checksum is that of the bytes this attempt
\* wrote.  The last slice ends the attempt; only the one the server waits for
\* can report.
SliceDone(k) ==
    LET p == prep[k]  c == disk[p.a][p.s] IN
    /\ Alive(k, prep) /\ p.pc = "write"
    /\ disk' = [disk EXCEPT ![p.a][p.s] = IF c = <<k, "part">> THEN <<k, "whole">> ELSE <<c[1], "mixed">>]
    /\ prep' = [prep EXCEPT ![k] = NextSlice(p)]
    /\ IF NextSlice(p).st = "over" /\ p.st = "run"
       THEN phase' = "pack" /\ staged' = k
       ELSE UNCHANGED <<phase, staged>>
    /\ UNCHANGED <<input, attempt, par, pdisk, sets, plan, checked, tapes, reason, mishaps>>

\* The tracker's snapshot: archives done count in full, the one under way by
\* what tar has emitted, at most its logical size.
SourceBytesRead(k) ==
    LET p == prep[k] IN
    Total([a \in 1..p.a - 1 |-> input.logical[a]])
    + IF p.pc = "end" THEN input.logical[p.a]
      ELSE Smallest(input.logical[p.a],
                    (input.tarred[p.a] \div Len(input.slices[p.a])) * (p.s - 1))

-----------------------------------------------------------------------------
(* Pack *)

PackPhase ==
    LET p == input.pack IN
    /\ phase = "pack"
    /\ IF p.fits
       THEN /\ plan' = p.tapes /\ phase' = "par2" /\ attempt' = 1 /\ UNCHANGED reason
            /\ par' = [par EXCEPT ![1].st = "run"]
       ELSE phase' = "failed" /\ reason' = "capacity" /\ UNCHANGED <<plan, attempt, par>>
    /\ UNCHANGED <<input, prep, disk, pdisk, staged, sets, checked, tapes, mishaps>>

-----------------------------------------------------------------------------
(* Generate PAR2 *)

\* purgeStagedPAR2Files: every recovery file of the archive goes.
Purged(a) == [f \in SetFiles |-> None]

Purge(k) ==
    LET p == par[k] IN
    /\ Alive(k, par) /\ p.pc = "purge"
    /\ pdisk' = [pdisk EXCEPT ![p.a] = Purged(p.a)]
    /\ par' = [par EXCEPT ![k].pc = "open"]
    /\ UNCHANGED <<input, phase, attempt, prep, disk, staged, sets, plan, checked, tapes, reason, mishaps>>

\* par2 create refuses when a file of the set exists; otherwise it creates them
\* all and starts to read the slices.
Par2Open(k) ==
    LET p == par[k] IN
    /\ Alive(k, par) /\ p.pc = "open" /\ \A f \in SetFiles : pdisk[p.a][f] = None
    /\ pdisk' = [pdisk EXCEPT ![p.a] = [f \in SetFiles |-> <<k, "part">>]]
    /\ par' = [par EXCEPT ![k] = [p EXCEPT !.pc = "compute", !.seen = disk[p.a]]]
    /\ UNCHANGED <<input, phase, attempt, prep, disk, staged, sets, plan, checked, tapes, reason, mishaps>>

\* Mutant: the error is not returned.
MutPAR2Ends(k, why) ==
    par' = [par EXCEPT ![k].st = "over"] /\ UNCHANGED <<attempt, phase, reason, prep>>
\* The attempt fails: refused by par2, or for a fault of its own.
PAR2Ends(k, why) ==
    IF par[k].st = "run" THEN Retried([par EXCEPT ![k].st = "over"], TRUE, why)
    ELSE par' = [par EXCEPT ![k].st = "over"] /\ UNCHANGED <<attempt, phase, reason, prep>>

Par2Refuses(k) ==
    /\ Alive(k, par) /\ par[k].pc = "open" /\ \E f \in SetFiles : pdisk[par[k].a][f] # None
    /\ PAR2Ends(k, "exists")
    /\ UNCHANGED <<input, disk, pdisk, staged, sets, plan, checked, tapes, mishaps>>

Par2Fails ==
    /\ phase = "par2" /\ par[attempt].st = "run" /\ Mishap
    /\ PAR2Ends(attempt, "par2")
    /\ UNCHANGED <<input, disk, pdisk, staged, sets, plan, checked, tapes>>

\* The set is written from what was read, to the files this par2 has open: files
\* purged meanwhile are lost with it.
Par2Compute(k) ==
    LET p == par[k]
        made == IF p.seen = disk[p.a] THEN <<k, "set", p.seen>> ELSE <<k, "mixed">>
    IN
    /\ Alive(k, par) /\ p.pc = "compute"
    /\ pdisk' = [pdisk EXCEPT ![p.a] = [f \in SetFiles |-> IF pdisk[p.a][f] = <<k, "part">> THEN made ELSE pdisk[p.a][f]]]
    /\ par' = [par EXCEPT ![k].pc = "measure"]
    /\ UNCHANGED <<input, phase, attempt, prep, disk, staged, sets, plan, checked, tapes, reason, mishaps>>

\* stagePAR2Files: the recovery files that are there, as they are.
Measured(k) ==
    LET made == pdisk[par[k].a] IN [f \in {f \in SetFiles : made[f] # None} |-> made[f]]

PAR2Measure(k) ==
    LET p == par[k]  all == Append(p.got, Measured(k)) IN
    /\ Alive(k, par) /\ p.pc = "measure"
    /\ IF DOMAIN Measured(k) = {}
       THEN PAR2Ends(k, "no files") /\ UNCHANGED sets
       ELSE IF p.a < Len(input.slices)
       THEN /\ par' = [par EXCEPT ![k] = [p EXCEPT !.a = p.a + 1, !.pc = "purge", !.seen = <<>>, !.got = all]]
            /\ UNCHANGED <<attempt, phase, reason, prep, sets>>
       ELSE /\ par' = [par EXCEPT ![k] = [p EXCEPT !.st = "over", !.pc = "end"]] /\ UNCHANGED <<attempt, reason, prep>>
            /\ IF p.st = "run" THEN phase' = "verify" /\ sets' = all ELSE UNCHANGED <<phase, sets>>
    /\ UNCHANGED <<input, disk, pdisk, staged, plan, checked, tapes, mishaps>>

-----------------------------------------------------------------------------
(* Verify and Write *)

\* A staged file is damaged on disk after its checksum was recorded and before
\* Verify reads it.
FileDamaged ==
    /\ phase \in {"pack", "par2", "verify"} /\ checked = AtFirst /\ Mishap
    /\ \/ \E a \in Archives : \E s \in Slices(a) :
            disk[a][s] # None /\ disk' = [disk EXCEPT ![a][s] = <<0, "damaged">>] /\ UNCHANGED pdisk
       \/ \E a \in Archives : \E f \in SetFiles :
            phase = "verify" /\ pdisk' = [pdisk EXCEPT ![a][f] = <<0, "damaged">>] /\ UNCHANGED disk
    /\ UNCHANGED <<input, phase, attempt, prep, par, staged, sets, plan, checked, tapes, reason>>

\* Mutant: the recovery files are not read back.
MutMatches(a) == \A s \in Slices(a) : disk[a][s] = <<staged, "whole">>
\* verifyFiles: every slice and recovery file has the checksum recorded for it.
Matches(a) ==
    /\ \A s \in Slices(a) : disk[a][s] = <<staged, "whole">>
    /\ \A f \in DOMAIN sets[a] : sets[a][f] = pdisk[a][f]

\* The archives of a tape in turn, then what the tape comes to; tape after tape.
VerifyArchive ==
    LET t == checked[1]  n == checked[2] + 1 IN
    /\ phase = "verify" /\ t <= Len(plan)
    /\ \A k \in Attempts : ~Alive(k, prep) /\ ~Alive(k, par)
    /\ IF ~Matches(plan[t][n].index) THEN phase' = "failed" /\ reason' = "checksum" /\ UNCHANGED checked
       ELSE IF n < Len(plan[t]) THEN checked' = <<t, n>> /\ UNCHANGED <<phase, reason>>
       ELSE IF input.onDisk[t] > UsableCapacity(input.native)
       THEN phase' = "failed" /\ reason' = "overflow" /\ UNCHANGED checked
       ELSE /\ checked' = <<t + 1, 0>> /\ UNCHANGED reason
            /\ phase' = IF t = Len(plan) THEN "write" ELSE phase
    /\ UNCHANGED <<input, attempt, prep, par, disk, pdisk, staged, sets, plan, tapes, mishaps>>

\* archivesForTape: the archives planned onto the tape.
ArchivesForTape(t) == [i \in DOMAIN plan[t] |-> plan[t][i].index]

\* One tape of every copy: the manifest from the recorded checksums, the files
\* copied as they are.
WriteTape ==
    LET t == Len(tapes) + 1  as == ArchivesForTape(t) IN
    /\ phase = "write" /\ t <= Len(plan)
    /\ tapes' = Append(tapes,
         [i \in DOMAIN as |->
            [index |-> as[i], slices |-> disk[as[i]], par2 |-> pdisk[as[i]],
             manifest |-> [by |-> staged, par2 |-> sets[as[i]]]]])
    /\ phase' = IF t = Len(plan) THEN "done" ELSE phase
    /\ UNCHANGED <<input, attempt, prep, par, disk, pdisk, staged, sets, plan, checked, reason, mishaps>>

Stops == phase \in {"done", "failed"} /\ UNCHANGED stagingVars

\* What the workers and the workflow do of themselves.
Works ==
    \/ \E k \in Attempts : \/ SliceCreate(k) \/ SliceDone(k)
                           \/ Purge(k) \/ Par2Open(k) \/ Par2Refuses(k) \/ Par2Compute(k) \/ PAR2Measure(k)
    \/ PackPhase \/ VerifyArchive \/ WriteTape

StagingNext ==
    \/ Works \/ PrepareFails \/ AttemptLost \/ WorkerCrashes \/ FileDamaged \/ Par2Fails
    \/ \E k \in Attempts : LostPrepareStops(k) \/ LostPAR2Stops(k)
    \/ Stops

\* The workers and the workflow go on; a lost attempt need not be told.
Fairness == WF_stagingVars(Works)

StagingSpec == StagingInit /\ [][StagingNext]_stagingVars /\ Fairness

-----------------------------------------------------------------------------
(* Properties *)

\* The types of the variables.
StagingTypeOK ==
    /\ phase \in {"prepare", "pack", "par2", "verify", "write", "done", "failed"}
    /\ attempt \in Attempts /\ staged \in 0..MaxAttempts
    /\ checked[1] \in 1..Len(plan) + 1
    /\ checked[2] \in 0..(IF checked[1] \in DOMAIN plan THEN Len(plan[checked[1]]) - 1 ELSE 0)
    /\ \A k \in Attempts : /\ {prep[k].st, par[k].st} \subseteq {"none", "run", "lost", "stopped", "over"}
                           /\ {prep[k].a, par[k].a} \subseteq Archives /\ prep[k].s \in Slices(prep[k].a)
    /\ \A a \in Archives : DOMAIN disk[a] = Slices(a) /\ DOMAIN pdisk[a] = SetFiles
    /\ Len(sets) \in {0, Len(input.slices)} /\ mishaps \in 0..MaxMishaps
    /\ Cardinality({k \in Attempts : prep[k].st = "run" \/ par[k].st = "run"}) <= 1

\* What is on a tape is what its manifest says, file by file, and every planned
\* archive is there, whatever attempts staged it (verify, archivesForTape,
\* buildManifest).
TapesMatchManifest ==
    \A t \in DOMAIN tapes :
       /\ [i \in DOMAIN tapes[t] |-> tapes[t][i].index] = [i \in DOMAIN plan[t] |-> plan[t][i].index]
       /\ \A i \in DOMAIN tapes[t] :
             LET e == tapes[t][i] IN
             /\ \A s \in DOMAIN e.slices : e.slices[s] = <<e.manifest.by, "whole">>
             /\ e.par2 = e.manifest.par2

\* The recovery files on a tape were computed from the slices on that tape.
\* The exception is a lost attempt that was stopped in the middle of par2, whose
\* files its retry may have recorded (generateArchivePAR2).
RecoverySetProtects ==
    \/ \E k \in Attempts : par[k].st = "stopped"
    \/ \A t \in DOMAIN tapes : \A i \in DOMAIN tapes[t] :
          \A f \in SetFiles : \E k \in Attempts : tapes[t][i].par2[f] = <<k, "set", tapes[t][i].slices>>

\* The arithmetic depends on the input alone: it is checked once, over Samples.
Fresh == phase = "prepare" /\ disk[1][1] = None /\ prep[1].st = "run"

\* Every archive is planned exactly once, no tape is planned past its usable
\* capacity, and no two tapes would have fit on one (pack).
PlanSound ==
    Fresh => \A i \in Samples :
       LET p == Pack(i.slices, i.redundancy, i.native).tapes IN
       p # <<>> =>
          /\ \A a \in DOMAIN i.slices : \E t \in DOMAIN p : \E n \in DOMAIN p[t] : p[t][n].index = a
          /\ \A t, u \in DOMAIN p : \A n \in DOMAIN p[t] : \A m \in DOMAIN p[u] :
                p[t][n].index = p[u][m].index => t = u /\ n = m
          /\ \A t \in DOMAIN p : PlannedBytes(p[t]) <= UsableCapacity(i.native)
          /\ \A t, u \in DOMAIN p :
                t # u => PlannedBytes(p[t]) + PlannedBytes(p[u]) > UsableCapacity(i.native)

\* A run that Pack let through never fails in Verify because a tree is too large
\* for its tape, after hours of PAR2 (fillPercent, MaxOutputBytes, issue 148).
NoLateOverflow ==
    /\ reason # "overflow"
    /\ Fresh => \A i \in Samples :
          LET p == Pack(i.slices, i.redundancy, i.native).tapes
          IN  \A t \in DOMAIN p : OnDiskBytes(i, p)[t] <= UsableCapacity(i.native)

\* The parity of a tape is no less than the configured floor, its bound fits,
\* and no larger percentage of the whole range would have fit (fillPercent stops
\* at the first that does not).
ParityFills ==
    Fresh => \A i \in {x \in Samples : x.redundancy.mode = "fill"} :
       LET p == Pack(i.slices, i.redundancy, i.native).tapes IN
       \A t \in DOMAIN p :
          LET percent == PAR2Percentage(p[t], i.redundancy, i.native) IN
          /\ 10 * percent >= i.redundancy.tenths
          /\ DataBytes(p[t]) + TapePAR2Bound(p[t], percent) <= UsableCapacity(i.native)
          /\ \A q \in percent + 1..MaxPercent :
                DataBytes(p[t]) + TapePAR2Bound(p[t], q) > UsableCapacity(i.native)

\* par2's limit on source blocks holds for every archive, and the bound Pack
\* reserves with covers the set par2 makes at every percentage.
BlocksWithinLimit ==
    Fresh => \A i \in Samples : \A a \in DOMAIN i.slices :
       /\ SourceBlocks(i.slices[a]) <= MaxBlocks
       /\ \A p \in MinPercent..MaxPercent :
             PAR2Output(i.slices[a], p) <= MaxOutputBytes(Total(i.slices[a]), Len(i.slices[a]), p)

\* par2 is never given more memory than its budget, nor more than half of what
\* any limit around the worker leaves it unless that is the least par2 works
\* with, and always enough to read a part of each block per pass (PlanMemory
\* divides by that part).
MemoryWithinBudget ==
    Fresh => \A h \in Hosts :
       LET budget == MemoryBudget(h, MinMemory, MaxMemory) IN
       /\ \A n \in h.available \cup UNION {Headroom(d) : d \in Range(h.v2)} :
             budget = MinMemory \/ 2 * budget <= n
       /\ \A i \in Samples : \A a \in DOMAIN i.slices : \A p \in {MinPercent, 10, MaxPercent} :
             LET m == PlanMemory(i.slices[a], p, budget)
             IN  m.limit <= budget /\ m.chunk > 0 /\ m.chunk * m.buffers <= m.limit

\* par2 refuses to overwrite, but a run does not fail of it unless an attempt
\* lost to its heartbeats was still at work (purgeStagedPAR2Files).
RetriesStartClean ==
    reason = "exists" => \E k \in Attempts : par[k].st \in {"lost", "stopped"} \/ par[k].pc = "end"

\* The progress an attempt reports never goes back and never passes its total
\* (prepareProgressTracker).
ProgressSound ==
    [][\A k \in Attempts :
          /\ SourceBytesRead(k)' >= SourceBytesRead(k)
          /\ SourceBytesRead(k)' <= Total(input.logical)]_stagingVars

\* Every run gets to the end of Write or fails.
StagingEnds == <>(phase \in {"done", "failed"})

\* Every tape holds what was planned, verified and recorded for it, with parity
\* that was made of it, whatever attempts took part.
TapesSound == StagingTypeOK /\ TapesMatchManifest /\ RecoverySetProtects /\ RetriesStartClean

\* What Pack and PAR2 work out before the recovery files exist still holds when
\* they do: the plan fits, the parity fills the tape, par2 stays within its limits.
ArithmeticSound == PlanSound /\ NoLateOverflow /\ ParityFills /\ BlocksWithinLimit /\ MemoryWithinBudget

\* The progress shown only goes forward, and the run comes to an end.
StagingProgresses == ProgressSound /\ StagingEnds
=============================================================================

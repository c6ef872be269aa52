---------------------------- MODULE WriteSession ----------------------------
(***************************************************************************)
(* The Write phase of one drive-set (writePhase): a Temporal session pins  *)
(* its activities to one data worker, where WriteTree parks a live LTFS    *)
(* mount in the MountRegistry for FinalizeTape to unmount.                 *)
(*                                                                         *)
(* Three parties run side by side for each drive: the workflow's coroutine *)
(* (co, result), the activity on the worker (job), and the ltfs process    *)
(* (ltfs), which outlives both.  Nothing makes ltfs get anywhere: it may   *)
(* hang for good at any point, and one hung in the kernel cannot even be   *)
(* killed.  A workflow that was cancelled, or whose activity timed out,    *)
(* stops waiting while the activity, which does not heartbeat, runs on.    *)
(* Barcodes are validated before, so drive, mountpoint and work directory  *)
(* correspond one to one.  MeasureWriteHealth never changes a result and   *)
(* is left out.                                                            *)
(***************************************************************************)
EXTENDS Naturals

CONSTANTS
    Drives,            \* drives with a loaded tape
    NoDrive,           \* no mount is being unmounted
    FinalizeAttempts,  \* RetryPolicy of FinalizeTape
    TeardownAttempts,  \* RetryPolicy of TeardownSession
    Leftovers,         \* what an earlier run may have left as newest index in a work directory
    MaxFaults,         \* faults: failed copies, reads and releases, crashes, hangs, lost answers
    Cancels            \* whether the run may be cancelled

ASSUME SessionAssumption ==
    /\ NoDrive \notin Drives
    /\ FinalizeAttempts \in Nat \ {0} /\ TeardownAttempts \in Nat \ {0}
    /\ Leftovers \subseteq {"none", "stale"} /\ MaxFaults \in Nat /\ Cancels \in BOOLEAN

VARIABLES
    phase,      \* "writing"; TeardownSession scheduled ("teardown"), waiting for the
                \* mutex, or "tearing" down; "returned"
    co,         \* co[d]: the activity the coroutine of d waits for, or "sent"
    result,     \* result[d]: what the coroutine sent
    attempt,    \* attempt[d]: failed FinalizeTape attempts
    cancelled,  \* the run was cancelled
    worker,     \* "up", or "lost" when the data worker died
    job,        \* job[d]: the step of the activity running for d
    mounts,     \* the MountRegistry: no entry, a live one, an unmounted one
    detached,   \* Mount.detached: fusermount -u succeeded
    ltfs,       \* ltfs[d]: the ltfs process
    hung,       \* the drives whose ltfs hangs in the kernel, where no kill reaches it
    mnt,        \* mnt[d]: the mountpoint is in /proc/self/mountinfo
    lock,       \* lock[d]: the drive prevents medium removal
    tree,       \* tree[d]: what is on the tape, manifest last
    index,      \* index[d]: the index of that tree is on the tape
    captured,   \* captured[d]: the newest index file in the work directory
    staged,     \* staged[d]: the staged index
    held,       \* an attempt of TeardownSession, maybe a timed out one, has the mutex
    teardown,   \* TeardownSession: entries left, while it holds the mutex
    current,    \* TeardownSession: the mount it is unmounting
    tdAttempt,  \* failed TeardownSession attempts
    tdErr,      \* this attempt joined an error
    abortErr,   \* an Abort left the lock or the mountpoint behind
    late,       \* drives whose WriteTree nobody waited for any more while it was mounting
    faults

flow   == <<phase, co, result, attempt, cancelled, worker>>
td     == <<held, teardown, current, tdAttempt, tdErr, abortErr>>
tape   == <<tree, index, captured, staged>>
proc   == <<detached, ltfs, mnt, lock>>
vars   == <<flow, job, mounts, proc, tape, td, hung, late, faults>>

Running == {"starting", "live", "flushing"}
Exited  == {"exited", "failed"}

Each(v) == [d \in Drives |-> v]
Fault == faults < MaxFaults /\ faults' = faults + 1

Init ==
    /\ phase = "writing" /\ co = Each("format") /\ result = Each("none")
    /\ attempt = Each(0) /\ cancelled = FALSE /\ worker = "up"
    /\ job = Each("none") /\ mounts = Each("none") /\ detached = Each(FALSE)
    /\ ltfs = Each("none") /\ mnt \in [Drives -> BOOLEAN] /\ lock = Each(FALSE)
    /\ tree = Each("blank") /\ index = Each(FALSE)
    /\ captured \in [Drives -> Leftovers] /\ staged = Each("none")
    /\ held = FALSE /\ teardown = {} /\ current = NoDrive /\ tdAttempt = 0 /\ tdErr = FALSE
    /\ abortErr = FALSE /\ hung = {} /\ late = {} /\ faults = 0

-----------------------------------------------------------------------------
(* What an activity's end does to the coroutine waiting for it.  Nobody    *)
(* waits for the activities of a cancelled run, or for a timed out one.    *)

Waiting(d) == co[d] # "sent"

Completes(d, next) ==
    /\ co' = IF Waiting(d) THEN [co EXCEPT ![d] = next] ELSE co
    /\ UNCHANGED <<result, attempt>>

\* Mutant: a result that comes in late replaces the one already sent.
MutSends(d, res) ==
    /\ co' = [co EXCEPT ![d] = "sent"]
    /\ result' = [result EXCEPT ![d] = res]
    /\ UNCHANGED attempt

Sends(d, res) ==
    /\ co' = [co EXCEPT ![d] = "sent"]
    /\ result' = IF Waiting(d) THEN [result EXCEPT ![d] = res] ELSE result
    /\ UNCHANGED attempt

\* FormatTape and WriteTree have one attempt.
Fails(d) == Sends(d, "err")

\* FinalizeTape is retried.
AttemptFails(d) ==
    IF Waiting(d) /\ attempt[d] + 1 < FinalizeAttempts
    THEN attempt' = [attempt EXCEPT ![d] = @ + 1] /\ UNCHANGED <<co, result>>
    ELSE Fails(d)

\* Only TeardownSession holds the registry's mutex for longer than a step.
MutexFree == ~held

-----------------------------------------------------------------------------
(* FormatTape and WriteTree *)

FormatStart(d) ==
    /\ worker = "up" /\ co[d] = "format" /\ job[d] = "none"
    /\ job' = [job EXCEPT ![d] = "format"]
    /\ UNCHANGED <<flow, mounts, proc, tape, td, hung, late, faults>>

\* mkltfs ends, or its deadline does; one that failed may have erased the tape.
FormatTape(d) ==
    /\ job[d] = "format"
    /\ \/ Completes(d, "write") /\ tree' = [tree EXCEPT ![d] = "empty"]
       \/ Fails(d) /\ tree' \in {tree, [tree EXCEPT ![d] = "empty"]}
    /\ job' = [job EXCEPT ![d] = "none"]
    /\ UNCHANGED <<phase, cancelled, worker, mounts, proc, index, captured, staged, td, hung, late, faults>>

\* Volume.Mount refuses a mountpoint in use, else starts ltfs.
Mount(d) ==
    /\ worker = "up" /\ co[d] = "write" /\ job[d] = "none"
    /\ IF mnt[d] THEN Fails(d) /\ UNCHANGED <<job, ltfs>>
       ELSE /\ job' = [job EXCEPT ![d] = "mount"]
            /\ ltfs' = [ltfs EXCEPT ![d] = "starting"]
            /\ UNCHANGED <<co, result, attempt>>
    /\ UNCHANGED <<phase, cancelled, worker, mounts, detached, mnt, lock, tape, td, hung, late, faults>>

\* ltfs locks the drive and brings the mount up.
MountLive(d) ==
    /\ ltfs[d] = "starting" /\ d \notin hung
    /\ ltfs' = [ltfs EXCEPT ![d] = "live"]
    /\ lock' = [lock EXCEPT ![d] = TRUE] /\ mnt' = [mnt EXCEPT ![d] = TRUE]
    /\ UNCHANGED <<flow, job, mounts, detached, tape, td, hung, late, faults>>

\* Mount.Abort: kill ltfs and wait until it is gone, detach a stale mountpoint, clear
\* the lock; every step is tried and either release may fail.
Abort(d) ==
    /\ d \notin hung
    /\ ltfs' = [ltfs EXCEPT ![d] = IF @ \in Running THEN "failed" ELSE @]
    /\ \E stuck \in SUBSET {"mnt", "lock"} :
         /\ mnt' = [mnt EXCEPT ![d] = @ /\ "mnt" \in stuck]
         /\ lock' = [lock EXCEPT ![d] = @ /\ "lock" \in stuck]
         /\ detached' = [detached EXCEPT ![d] = @ \/ (mnt[d] /\ "mnt" \notin stuck)]
         /\ abortErr' = (abortErr \/ stuck # {})
         /\ IF stuck = {} THEN UNCHANGED faults ELSE Fault

\* waitForMount fails: ltfs exited by itself, which leaves no lock, or it
\* crashed or the deadline passed, and Mount aborts it.
MountFails(d) ==
    /\ job[d] = "mount"
    /\ \/ /\ ltfs[d] = "starting" /\ d \notin hung /\ ltfs' = [ltfs EXCEPT ![d] = "failed"]
          /\ UNCHANGED <<detached, mnt, lock, abortErr, faults>>
       \/ Abort(d)
    /\ Fails(d) /\ job' = [job EXCEPT ![d] = "none"]
    /\ UNCHANGED <<phase, cancelled, worker, mounts, tape, held, teardown, current, tdAttempt, tdErr,
                   hung, late>>

\* The mount is seen live, if the stat of its root returns, and parked; Put takes the
\* registry's mutex.
MountSeen(d) ==
    /\ job[d] = "mount" /\ ltfs[d] = "live" /\ d \notin hung /\ MutexFree
    /\ mounts' = [mounts EXCEPT ![d] = "live"]
    /\ job' = [job EXCEPT ![d] = "copy"]
    /\ UNCHANGED <<flow, proc, tape, td, hung, late, faults>>

\* copyTape and writeManifest, and WriteTree returns, unless a write to the mount hangs.
Copy(d) ==
    /\ job[d] = "copy" /\ d \notin hung
    /\ \/ /\ ltfs[d] = "live" /\ Completes(d, "finalize")
          /\ tree' = [tree EXCEPT ![d] = "full"] /\ UNCHANGED faults
       \/ /\ IF ltfs[d] = "live" THEN Fault ELSE UNCHANGED faults
          /\ Fails(d) /\ tree' = [tree EXCEPT ![d] = "partial"]
    /\ job' = [job EXCEPT ![d] = "none"]
    /\ UNCHANGED <<phase, cancelled, worker, mounts, proc, index, captured, staged, td, hung, late>>

\* StartToCloseTimeout of WriteTree, which has one attempt.
TimesOut(d) ==
    /\ job[d] \in {"mount", "copy"} /\ Waiting(d) /\ Fails(d)
    /\ late' = IF job[d] = "mount" THEN late \cup {d} ELSE late
    /\ UNCHANGED <<phase, cancelled, worker, job, mounts, proc, tape, td, hung, faults>>

-----------------------------------------------------------------------------
(* The ltfs process on its own *)

\* It enters a command of the drive that does not return.
Hangs(d) ==
    /\ ltfs[d] \in Running /\ d \notin hung /\ Fault
    /\ hung' = hung \cup {d}
    /\ UNCHANGED <<flow, job, mounts, proc, tape, td, late>>

\* A crash leaves the mountpoint orphaned and the drive locked.
LtfsCrash(d) ==
    /\ ltfs[d] \in Running /\ d \notin hung /\ Fault
    /\ ltfs' = [ltfs EXCEPT ![d] = "failed"]
    /\ UNCHANGED <<flow, job, mounts, detached, mnt, lock, tape, td, hung, late>>

\* The unmount-time index write ends: on tape and (unless the capture fails
\* silently) in the work directory, or with an error.  The exit is orderly.
Flush(d) ==
    /\ ltfs[d] = "flushing" /\ d \notin hung
    /\ lock' = [lock EXCEPT ![d] = FALSE]
    /\ \/ /\ ltfs' = [ltfs EXCEPT ![d] = "exited"] /\ index' = [index EXCEPT ![d] = TRUE]
          /\ \/ captured' = [captured EXCEPT ![d] = "fresh"] /\ UNCHANGED faults
             \/ Fault /\ UNCHANGED captured
       \/ /\ Fault /\ ltfs' = [ltfs EXCEPT ![d] = "failed"] /\ UNCHANGED <<index, captured>>
    /\ UNCHANGED <<flow, job, mounts, detached, mnt, tree, staged, td, hung, late>>

-----------------------------------------------------------------------------
(* FinalizeTape *)

FinalizeStart(d) ==
    /\ worker = "up" /\ co[d] = "finalize" /\ job[d] = "none" /\ MutexFree
    /\ \/ /\ mounts[d] = "none" /\ Fails(d) /\ UNCHANGED job  \* mount-lost, not retryable
       \/ /\ mounts[d] # "none"
          /\ job' = [job EXCEPT ![d] = IF mounts[d] = "unmounted" THEN "read" ELSE "unmount"]
          /\ UNCHANGED <<co, result, attempt>>
    /\ UNCHANGED <<phase, cancelled, worker, mounts, proc, tape, td, hung, late, faults>>

\* fusermount -u, unless an earlier attempt detached the mount already; ltfs
\* then starts to write the index.  It may fail if ltfs has exited, which is
\* taken as detached, and it may fail or run into the deadline while ltfs runs.
Detaches(d) ==
    /\ detached' = [detached EXCEPT ![d] = TRUE]
    /\ mnt' \in {[mnt EXCEPT ![d] = FALSE]} \cup IF ltfs[d] \in Running THEN {} ELSE {mnt}
    /\ ltfs' = [ltfs EXCEPT ![d] = IF @ = "live" THEN "flushing" ELSE @]
    /\ UNCHANGED lock

Unmount(d) ==
    /\ job[d] = "unmount"
    /\ \/ /\ detached[d] /\ UNCHANGED <<proc, co, result, attempt>>
          /\ job' = [job EXCEPT ![d] = "flush"]
       \/ /\ ~detached[d] /\ Detaches(d) /\ UNCHANGED <<co, result, attempt>>
          /\ job' = [job EXCEPT ![d] = "flush"]
       \/ /\ ~detached[d] /\ ltfs[d] \in Running /\ AttemptFails(d)
          /\ job' = [job EXCEPT ![d] = "none"] /\ UNCHANGED proc
    /\ UNCHANGED <<faults, phase, cancelled, worker, mounts, tape, td, hung, late>>

\* The wait for ltfs to exit: MarkUnmounted, an ltfs error, or the deadline
\* of a wedged index write.
Flushed(d) ==
    /\ job[d] = "flush"
    /\ \/ /\ ltfs[d] = "exited" /\ MutexFree
          /\ mounts' = [mounts EXCEPT ![d] = IF @ = "live" THEN "unmounted" ELSE @]
          /\ job' = [job EXCEPT ![d] = "read"] /\ UNCHANGED <<co, result, attempt>>
       \/ /\ ltfs[d] \in {"failed", "flushing"} /\ AttemptFails(d)
          /\ job' = [job EXCEPT ![d] = "none"] /\ UNCHANGED mounts
    /\ UNCHANGED <<faults, phase, cancelled, worker, proc, tape, td, hung, late>>

\* Mutant: the newest index file is taken, whatever its age.
MutNewestIndex(d) ==
    /\ job[d] = "read" /\ MutexFree
    /\ staged' = [staged EXCEPT ![d] = captured[d]]
    /\ mounts' = [mounts EXCEPT ![d] = "none"]
    /\ Sends(d, "ok") /\ job' = [job EXCEPT ![d] = "none"]
    /\ UNCHANGED <<phase, cancelled, worker, proc, tree, index, captured, td, hung, late, faults>>

\* ReadIndex picks the newest captured index and rejects one older than the
\* mount.
ReadIndex(d) == captured[d] = "fresh"

\* stageIndex writes the index out; only then is the entry deleted.  The answer
\* may still be lost.
StageIndex(d) ==
    /\ job[d] = "read" /\ MutexFree
    /\ \/ /\ ReadIndex(d)
          /\ staged' = [staged EXCEPT ![d] = "fresh"]
          /\ mounts' = [mounts EXCEPT ![d] = "none"]
          /\ \/ Sends(d, "ok") /\ UNCHANGED faults
             \/ Fault /\ AttemptFails(d)
       \/ /\ IF ReadIndex(d) THEN Fault ELSE UNCHANGED faults
          /\ AttemptFails(d) /\ UNCHANGED <<staged, mounts>>
    /\ job' = [job EXCEPT ![d] = "none"]
    /\ UNCHANGED <<phase, cancelled, worker, proc, tree, index, captured, td, hung, late>>

-----------------------------------------------------------------------------
(* The end of the phase: the deferred TeardownSession *)

\* All results are in.  A session whose worker died refuses the activity.
AllSent ==
    /\ phase = "writing" /\ \A d \in Drives : co[d] = "sent"
    /\ phase' = IF worker = "up" THEN "teardown" ELSE "returned"
    /\ UNCHANGED <<co, result, attempt, cancelled, worker, job, mounts, proc, tape, td, hung, late, faults>>

\* An attempt starts, and waits for the mutex.
TeardownStart ==
    /\ phase = "teardown" /\ worker = "up" /\ phase' = "waiting"
    /\ UNCHANGED <<co, result, attempt, cancelled, worker, job, mounts, proc, tape, td, hung, late, faults>>

\* It takes the mutex, and goes over the entries it finds.
TeardownLock ==
    /\ phase = "waiting" /\ ~held
    /\ phase' = "tearing" /\ held' = TRUE /\ tdErr' = FALSE
    /\ teardown' = {d \in Drives : mounts[d] # "none"}
    /\ UNCHANGED <<co, result, attempt, cancelled, worker, job, mounts, proc, tape, current,
                   tdAttempt, abortErr, hung, late, faults>>

\* Open files keep fusermount -u from detaching the mount.
Busy(d) == job[d] = "copy" /\ ltfs[d] = "live"

\* Unmount's first half.  fusermount -u may fail while ltfs runs, also because an earlier
\* mount used up the time they share.  The check of detached is not synchronised with a
\* FinalizeTape left running by a cancelled run.
TeardownUnmount(d) ==
    /\ held /\ current = NoDrive /\ d \in teardown
    /\ \/ /\ mounts[d] = "unmounted"
          /\ mounts' = [mounts EXCEPT ![d] = "none"] /\ teardown' = teardown \ {d}
          /\ UNCHANGED <<proc, current, tdErr, abortErr, faults>>
       \/ /\ mounts[d] = "live" /\ ~Busy(d)
          /\ IF detached[d] THEN UNCHANGED proc ELSE Detaches(d)
          /\ current' = d /\ UNCHANGED <<mounts, teardown, tdErr, abortErr, faults>>
       \/ /\ mounts[d] = "live" /\ ltfs[d] \in Running /\ (detached[d] => job[d] = "flush")
          /\ Abort(d)
          /\ mounts' = [mounts EXCEPT ![d] = "none"] /\ teardown' = teardown \ {d}
          /\ tdErr' = TRUE /\ UNCHANGED current
    /\ UNCHANGED <<flow, job, tape, held, tdAttempt, hung, late>>

\* Mutant: no deadline ends the wait for the index write.
MutTeardownWait ==
    /\ current \in Drives
    /\ \/ ltfs[current] = "exited" /\ UNCHANGED <<proc, tdErr, abortErr, faults>>
       \/ ltfs[current] = "failed" /\ Abort(current) /\ tdErr' = TRUE
    /\ mounts' = [mounts EXCEPT ![current] = "none"]
    /\ teardown' = teardown \ {current} /\ current' = NoDrive
    /\ UNCHANGED <<flow, job, tape, held, tdAttempt, hung, late>>

\* Unmount's wait: the index is written, or Abort cleans up after an ltfs that failed or
\* has not ended by teardownUnmountTimeout.
TeardownWait ==
    /\ current \in Drives
    /\ \/ ltfs[current] = "exited" /\ UNCHANGED <<proc, tdErr, abortErr, faults>>
       \/ ltfs[current] # "exited" /\ Abort(current) /\ tdErr' = TRUE
    /\ mounts' = [mounts EXCEPT ![current] = "none"]
    /\ teardown' = teardown \ {current} /\ current' = NoDrive
    /\ UNCHANGED <<flow, job, tape, held, tdAttempt, hung, late>>

\* The RetryPolicy of TeardownSession; writePhase does not look at its error.
AnotherAttempt ==
    IF tdAttempt + 1 < TeardownAttempts
    THEN phase' = "teardown" /\ tdAttempt' = tdAttempt + 1
    ELSE phase' = "returned" /\ UNCHANGED tdAttempt

\* Every entry is gone: the mutex is free, and the attempt, unless it had timed out,
\* ends; it is retried on an error.
TeardownEnd ==
    /\ held /\ teardown = {} /\ held' = FALSE
    /\ \/ phase = "tearing" /\ tdErr /\ AnotherAttempt
       \/ phase = "tearing" /\ ~tdErr /\ phase' = "returned" /\ UNCHANGED tdAttempt
       \/ phase # "tearing" /\ UNCHANGED <<phase, tdAttempt>>
    /\ UNCHANGED <<co, result, attempt, cancelled, worker, job, mounts, proc, tape, teardown,
                   current, tdErr, abortErr, hung, late, faults>>

\* teardownTimeout: the attempt with the mutex takes too long, or never ends, or the next
\* one waits for it.  The one with the mutex runs on; one that waits is no longer looked
\* at, all it could do is to find an entry that came too late for the others.
TeardownTimesOut ==
    /\ phase \in {"waiting", "tearing"} /\ held /\ AnotherAttempt
    /\ UNCHANGED <<co, result, attempt, cancelled, worker, job, mounts, proc, tape, held, teardown,
                   current, tdErr, abortErr, hung, late, faults>>

-----------------------------------------------------------------------------
\* Cancellation: every coroutine gets a cancelled error at once.
Cancel ==
    /\ Cancels /\ phase = "writing" /\ ~cancelled
    /\ cancelled' = TRUE
    /\ co' = Each("sent")
    /\ result' = [d \in Drives |-> IF Waiting(d) THEN "err" ELSE result[d]]
    /\ late' = late \cup {d \in Drives : job[d] = "mount"}
    /\ UNCHANGED <<phase, attempt, worker, job, mounts, proc, tape, td, hung, faults>>

\* The data worker dies: activities, registry and mutex are gone, the session
\* fails.  An ltfs that does not hang may die with it or live on.
WorkerLost ==
    /\ worker = "up" /\ phase # "returned" /\ Fault
    /\ worker' = "lost"
    /\ co' = Each("sent")
    /\ result' = [d \in Drives |-> IF Waiting(d) THEN "err" ELSE result[d]]
    /\ job' = Each("none") /\ mounts' = Each("none")
    /\ \E dead \in SUBSET (Drives \ hung) :
         ltfs' = [d \in Drives |-> IF d \in dead /\ ltfs[d] \in Running THEN "failed" ELSE ltfs[d]]
    /\ phase' = IF phase \in {"waiting", "tearing"} THEN "teardown" ELSE phase
    /\ held' = FALSE /\ teardown' = {} /\ current' = NoDrive
    /\ UNCHANGED <<attempt, cancelled, detached, mnt, lock, tape, tdAttempt, tdErr, abortErr, hung, late>>

\* TeardownSession is scheduled on the queue of a worker that is gone, with no
\* limit on the time until it starts.
Stranded == phase = "teardown" /\ worker = "lost"

Ended == (phase = "returned" \/ Stranded) /\ UNCHANGED vars

DriveNext(d) ==
    \/ FormatStart(d) \/ FormatTape(d) \/ Mount(d) \/ MountSeen(d) \/ MountFails(d) \/ Copy(d) \/ TimesOut(d)
    \/ FinalizeStart(d) \/ Unmount(d) \/ Flushed(d) \/ StageIndex(d)
TeardownNext ==
    \/ AllSent \/ TeardownStart \/ TeardownLock \/ TeardownWait \/ TeardownEnd \/ TeardownTimesOut
    \/ \E d \in Drives : TeardownUnmount(d)
LtfsNext(d) == MountLive(d) \/ Flush(d) \/ LtfsCrash(d) \/ Hangs(d)

Next ==
    \/ \E d \in Drives : DriveNext(d) \/ LtfsNext(d)
    \/ TeardownNext \/ Cancel \/ WorkerLost \/ Ended

Spec == Init /\ [][Next]_vars

(***************************************************************************)
(* Fairness: activities that can go on do, by their deadlines at the       *)
(* latest, and the server times out the ones that cannot.  Nothing is      *)
(* assumed of ltfs: that it mounts, takes data, writes its index or exits; *)
(* nor of a copy that depends on it.                                       *)
(***************************************************************************)
Fairness ==
    /\ WF_vars(AllSent \/ TeardownStart \/ TeardownLock) /\ WF_vars(TeardownTimesOut)
    /\ WF_vars(TeardownWait \/ TeardownEnd \/ \E d \in Drives : TeardownUnmount(d))
    /\ \A d \in Drives :
         /\ WF_vars(FormatStart(d) \/ FormatTape(d) \/ Mount(d)) /\ WF_vars(TimesOut(d))
         /\ WF_vars(FinalizeStart(d) \/ Unmount(d) \/ Flushed(d) \/ StageIndex(d))
FairSpec == Spec /\ Fairness

-----------------------------------------------------------------------------
(* Properties *)

\* The type of every variable.
TypeOK ==
    /\ phase \in {"writing", "teardown", "waiting", "tearing", "returned"}
    /\ co \in [Drives -> {"format", "write", "finalize", "sent"}]
    /\ result \in [Drives -> {"none", "ok", "err"}]
    /\ attempt \in [Drives -> 0..FinalizeAttempts - 1]
    /\ cancelled \in BOOLEAN /\ worker \in {"up", "lost"}
    /\ job \in [Drives -> {"none", "format", "mount", "copy", "unmount", "flush", "read"}]
    /\ mounts \in [Drives -> {"none", "live", "unmounted"}]
    /\ detached \in [Drives -> BOOLEAN]
    /\ ltfs \in [Drives -> Running \cup Exited \cup {"none"}]
    /\ mnt \in [Drives -> BOOLEAN] /\ lock \in [Drives -> BOOLEAN]
    /\ tree \in [Drives -> {"blank", "empty", "partial", "full"}] /\ index \in [Drives -> BOOLEAN]
    /\ captured \in [Drives -> {"none", "stale", "fresh"}]
    /\ staged \in [Drives -> {"none", "stale", "fresh"}]
    /\ teardown \in SUBSET Drives /\ current \in Drives \cup {NoDrive}
    /\ tdAttempt \in 0..TeardownAttempts - 1 /\ tdErr \in BOOLEAN /\ abortErr \in BOOLEAN
    /\ held \in BOOLEAN /\ hung \in SUBSET Drives /\ late \in SUBSET Drives /\ faults \in 0..MaxFaults

(***************************************************************************)
(* A tape reported written has its whole tree and the index of that tree   *)
(* on it, and the staged index is the one of this mount, whatever was      *)
(* retried, crashed or lost on the way (SPEC 14).                          *)
(***************************************************************************)
WrittenIsFinalized ==
    \A d \in Drives : result[d] = "ok" =>
        tree[d] = "full" /\ index[d] /\ staged[d] = "fresh"

(***************************************************************************)
(* A FinalizeTape attempt that finds no registry entry while its worker is *)
(* up has nothing left to do: an earlier attempt finalized the tape and    *)
(* staged its index ("stage before deleting the entry").                   *)
(***************************************************************************)
MissingMeansFinalized ==
    \A d \in Drives : co[d] = "finalize" /\ job[d] = "none" /\ worker = "up" /\ mounts[d] = "none"
        => index[d] /\ staged[d] = "fresh"

(***************************************************************************)
(* When the phase returns, cancelled or not, no ltfs of it runs and no     *)
(* drive is locked, so Eject can unload the failed tapes too (#442).       *)
(* Exceptions: a WriteTree that was cancelled or timed out while it        *)
(* mounted, which no registry entry names; an Abort that reported it could *)
(* not release a drive; a Teardown given up while it still has the mutex.  *)
(***************************************************************************)
ReleasedForEject ==
    phase = "returned" /\ worker = "up" /\ ~abortErr /\ ~held =>
        \A d \in Drives \ late : ltfs[d] \notin Running /\ ~lock[d]

(***************************************************************************)
(* The session implements what TapePath assumes of the Write phase: media  *)
(* only advance, and "ok" is reported once and only of a complete tape.    *)
(***************************************************************************)
Content == [d \in Drives |-> IF tree[d] = "blank" THEN "blank"
                             ELSE IF tree[d] = "full" /\ index[d] THEN "complete" ELSE "partial"]
Writes == INSTANCE DriveWrite WITH content <- Content, report <- result
ImplementsDriveWrite == Writes!Spec

(***************************************************************************)
(* The Write phase returns, whatever crashes and however long ltfs hangs,  *)
(* killable or not, unless the worker died with TeardownSession scheduled  *)
(* on its queue; and TeardownSession gives the registry's mutex back,      *)
(* however long ltfs takes over its index, unless an ltfs cannot be        *)
(* killed: the wait for it in Kill has no deadline.                        *)
(***************************************************************************)
PhaseReturns ==
    /\ <>(phase = "returned" \/ Stranded)
    /\ held ~> (~held \/ hung # {})

(***************************************************************************)
(* What the session leaves to the phases after it: what it reports as      *)
(* written is finalized, also by a retry that finds no entry, and every    *)
(* drive can be ejected.                                                   *)
(***************************************************************************)
SessionSound == TypeOK /\ WrittenIsFinalized /\ MissingMeansFinalized /\ ReleasedForEject
=============================================================================

------------------------- MODULE WriteSessionProofs -------------------------
(***************************************************************************)
(* Proofs about WriteSession, for any set of drives, retry policies and    *)
(* number of faults, with and without cancellation.                        *)
(***************************************************************************)
EXTENDS WriteSession, TLAPS

\* A coroutine waits for the activity that runs for it, or has sent its result
\* and left the activity behind, by a cancellation or by the activity's timeout.
\* A WriteTree that is left behind while it mounts is late.
CoInv ==
    \A d \in Drives :
        /\ result[d] = "none" <=> co[d] # "sent"
        /\ co[d] # "sent" => phase = "writing" /\ worker = "up" /\ ~cancelled
        /\ job[d] # "none" => worker = "up" /\ result[d] # "ok"
        /\ job[d] = "mount" /\ co[d] = "sent" => d \in late
        /\ job[d] = "format" => co[d] \in {"format", "sent"}
        /\ job[d] \in {"mount", "copy"} => co[d] \in {"write", "sent"}
        /\ job[d] \in {"unmount", "flush", "read"} => co[d] \in {"finalize", "sent"}

\* What is on the tape, in the registry and of the ltfs process at each step.
TapeInv ==
    \A d \in Drives :
        /\ co[d] = "format" \/ job[d] = "format" =>
             tree[d] = "blank" /\ ltfs[d] = "none" /\ mounts[d] = "none"
        /\ co[d] = "write" /\ job[d] = "none" =>
             tree[d] = "empty" /\ ltfs[d] = "none" /\ mounts[d] = "none"
        /\ job[d] = "mount" =>
             tree[d] = "empty" /\ ltfs[d] \in {"starting", "live", "failed"} /\ mounts[d] = "none"
        /\ job[d] = "copy" => tree[d] = "empty" /\ ltfs[d] \in {"live", "failed"}
        /\ job[d] = "copy" /\ co[d] = "write" => mounts[d] = "live"
        /\ co[d] = "finalize" \/ job[d] \in {"unmount", "flush", "read"} => tree[d] = "full"
        /\ co[d] = "finalize" => mounts[d] # "none" \/ (index[d] /\ staged[d] = "fresh")
        /\ mounts[d] # "none" => job[d] = "copy" \/ tree[d] \in {"partial", "full"}
        /\ ltfs[d] = "flushing" => tree[d] \in {"partial", "full"}
        /\ tree[d] \in {"blank", "empty"} => ~index[d]
        /\ captured[d] = "fresh" => index[d]
        /\ job[d] = "read" \/ mounts[d] = "unmounted" => ltfs[d] = "exited"
        /\ result[d] = "ok" => tree[d] = "full" /\ index[d] /\ staged[d] = "fresh"

\* An ltfs that runs, or that left its drive locked, can be reached: by the
\* activity that mounts it or through the registry, unless a late mount was
\* put there when nobody was to look any more.
LockInv ==
    \A d \in Drives :
        /\ ltfs[d] \in {"none", "starting", "exited"} => ~lock[d]
        /\ worker = "up" /\ ~abortErr /\ (ltfs[d] \in Running \/ lock[d]) =>
             job[d] = "mount" \/ mounts[d] = "live"

\* The attempt of TeardownSession that has the mutex has every entry of the
\* registry before it, and after it only a late mount is entered.
TearInv ==
    /\ current \in Drives => held /\ current \in teardown
    /\ phase = "tearing" => held
    /\ phase \in {"waiting", "tearing"} => worker = "up"
    /\ held => worker = "up" /\ phase # "writing" /\ \A d \in Drives : mounts[d] # "none" => d \in teardown
    /\ worker = "lost" => \A d \in Drives : mounts[d] = "none"
    /\ phase = "returned" /\ ~held => \A d \in Drives \ late : mounts[d] = "none"

SessionInv == TypeOK /\ CoInv /\ TapeInv /\ LockInv /\ TearInv

-----------------------------------------------------------------------------
(* Types *)

\* Abort leaves an ltfs that does not run, whatever it could not release.
LEMMA AbortType ==
    ASSUME TypeOK, NEW d \in Drives, Abort(d)
    PROVE  /\ ltfs' \in [Drives -> Running \cup Exited \cup {"none"}]
           /\ mnt' \in [Drives -> BOOLEAN] /\ lock' \in [Drives -> BOOLEAN]
           /\ detached' \in [Drives -> BOOLEAN] /\ abortErr' \in BOOLEAN
           /\ faults' \in 0..MaxFaults
<1>1. PICK stuck \in SUBSET {"mnt", "lock"} :
         /\ mnt' = [mnt EXCEPT ![d] = @ /\ "mnt" \in stuck]
         /\ lock' = [lock EXCEPT ![d] = @ /\ "lock" \in stuck]
         /\ detached' = [detached EXCEPT ![d] = @ \/ (mnt[d] /\ "mnt" \notin stuck)]
         /\ abortErr' = (abortErr \/ stuck # {})
         /\ IF stuck = {} THEN UNCHANGED faults ELSE Fault
  BY DEF Abort
<1>2. ltfs' \in [Drives -> Running \cup Exited \cup {"none"}]
  BY DEF Abort, TypeOK, Running, Exited
<1>3. mnt' \in [Drives -> BOOLEAN] /\ lock' \in [Drives -> BOOLEAN]
  BY <1>1 DEF TypeOK
<1>4. detached' \in [Drives -> BOOLEAN] /\ abortErr' \in BOOLEAN
  BY <1>1 DEF TypeOK
<1>5. faults' \in 0..MaxFaults
  BY <1>1, SessionAssumption DEF TypeOK, Fault
<1> QED
  BY <1>2, <1>3, <1>4, <1>5

\* So does the first half of Unmount.
LEMMA DetachesType ==
    ASSUME TypeOK, NEW d \in Drives, Detaches(d)
    PROVE  /\ ltfs' \in [Drives -> Running \cup Exited \cup {"none"}]
           /\ mnt' \in [Drives -> BOOLEAN] /\ lock' = lock
           /\ detached' \in [Drives -> BOOLEAN]
<1>1. ltfs' \in [Drives -> Running \cup Exited \cup {"none"}]
  BY DEF Detaches, TypeOK, Running
<1>2. mnt' \in [Drives -> BOOLEAN] /\ lock' = lock
  BY DEF Detaches, TypeOK
<1>3. detached' \in [Drives -> BOOLEAN]
  BY DEF Detaches, TypeOK
<1> QED
  BY <1>1, <1>2, <1>3

\* Every step keeps the types.
LEMMA TypePreserved ==
    ASSUME TypeOK, [Next]_vars
    PROVE  TypeOK'
<1> USE SessionAssumption DEF TypeOK, flow, td, tape, proc, vars
<1>1. ASSUME NEW d \in Drives, FormatStart(d)
      PROVE  TypeOK'
  BY <1>1 DEF FormatStart
<1>2. ASSUME NEW d \in Drives, FormatTape(d)
      PROVE  TypeOK'
  BY <1>2 DEF FormatTape, Completes, Fails, Sends, Waiting, Fault
<1>3. ASSUME NEW d \in Drives, Mount(d)
      PROVE  TypeOK'
  BY <1>3 DEF Mount, Fails, Sends, Waiting, Running
<1>4. ASSUME NEW d \in Drives, MountLive(d)
      PROVE  TypeOK'
  BY <1>4 DEF MountLive, Running
<1>5. ASSUME NEW d \in Drives, MountFails(d)
      PROVE  TypeOK'
  <2>1. job' \in [Drives -> {"none", "format", "mount", "copy", "unmount", "flush", "read"}]
    BY <1>5 DEF MountFails
  <2>2. /\ ltfs' \in [Drives -> Running \cup Exited \cup {"none"}]
        /\ mnt' \in [Drives -> BOOLEAN] /\ lock' \in [Drives -> BOOLEAN]
        /\ detached' \in [Drives -> BOOLEAN] /\ abortErr' \in BOOLEAN
        /\ faults' \in 0..MaxFaults
    BY <1>5, AbortType DEF MountFails, Exited
  <2>3. /\ co' \in [Drives -> {"format", "write", "finalize", "sent"}]
        /\ result' \in [Drives -> {"none", "ok", "err"}] /\ attempt' = attempt
    BY <1>5 DEF MountFails, Fails, Sends
  <2> QED
    BY <1>5, <2>1, <2>2, <2>3 DEF MountFails
<1>6. ASSUME NEW d \in Drives, MountSeen(d)
      PROVE  TypeOK'
  BY <1>6 DEF MountSeen, MutexFree
<1>7. ASSUME NEW d \in Drives, Copy(d)
      PROVE  TypeOK'
  BY <1>7 DEF Copy, Completes, Fails, Sends, Waiting, Fault
<1>8. ASSUME NEW d \in Drives, LtfsCrash(d)
      PROVE  TypeOK'
  BY <1>8 DEF LtfsCrash, Fault, Exited
<1>9. ASSUME NEW d \in Drives, Flush(d)
      PROVE  TypeOK'
  <2>5. index' = index \/ index' = [index EXCEPT ![d] = TRUE]
    BY <1>9 DEF Flush
  <2>6. [index EXCEPT ![d] = TRUE] \in [Drives -> BOOLEAN]
    OBVIOUS
  <2>1. index' \in [Drives -> BOOLEAN]
    <3>1. index \in [Drives -> BOOLEAN]
      OBVIOUS
    <3> HIDE DEF TypeOK
    <3> QED
      BY <2>5, <2>6, <3>1
  <2>4. lock' \in [Drives -> BOOLEAN]
    BY <1>9 DEF Flush
  <2>2. ltfs' \in [Drives -> Running \cup Exited \cup {"none"}] /\ faults' \in 0..MaxFaults
    BY <1>9 DEF Flush, Fault, Running, Exited
  <2>3. captured' \in [Drives -> {"none", "stale", "fresh"}]
    BY <1>9 DEF Flush
  <2> QED
    BY <1>9, <2>1, <2>2, <2>3, <2>4 DEF Flush
<1>10. ASSUME NEW d \in Drives, FinalizeStart(d)
      PROVE  TypeOK'
  BY <1>10 DEF FinalizeStart, Fails, Sends, Waiting, MutexFree
<1>11. ASSUME NEW d \in Drives, Unmount(d)
      PROVE  TypeOK'
  <2>1. /\ ltfs' \in [Drives -> Running \cup Exited \cup {"none"}]
        /\ mnt' \in [Drives -> BOOLEAN] /\ lock' = lock /\ detached' \in [Drives -> BOOLEAN]
    BY <1>11, DetachesType DEF Unmount
  <2>2. /\ co' \in [Drives -> {"format", "write", "finalize", "sent"}]
        /\ result' \in [Drives -> {"none", "ok", "err"}]
        /\ attempt' \in [Drives -> 0..FinalizeAttempts - 1] /\ faults' \in 0..MaxFaults
    BY <1>11 DEF Unmount, AttemptFails, Fails, Sends, Waiting, Fault
  <2> QED
    BY <1>11, <2>1, <2>2 DEF Unmount
<1>12. ASSUME NEW d \in Drives, Flushed(d)
      PROVE  TypeOK'
  BY <1>12 DEF Flushed, AttemptFails, Fails, Sends, Waiting, MutexFree, Fault
<1>13. ASSUME NEW d \in Drives, StageIndex(d)
      PROVE  TypeOK'
  BY <1>13 DEF StageIndex, ReadIndex, AttemptFails, Fails, Sends, Waiting, MutexFree, Fault
<1>14. ASSUME NEW d \in Drives, TeardownUnmount(d)
      PROVE  TypeOK'
  <2>1. /\ ltfs' \in [Drives -> Running \cup Exited \cup {"none"}]
        /\ mnt' \in [Drives -> BOOLEAN] /\ lock' \in [Drives -> BOOLEAN]
        /\ detached' \in [Drives -> BOOLEAN] /\ abortErr' \in BOOLEAN
        /\ faults' \in 0..MaxFaults
    BY <1>14, AbortType, DetachesType DEF TeardownUnmount
  <2>2. mounts' \in [Drives -> {"none", "live", "unmounted"}]
    BY <1>14 DEF TeardownUnmount
  <2>3. teardown' \in SUBSET Drives /\ current' \in Drives \cup {NoDrive} /\ tdErr' \in BOOLEAN
    BY <1>14 DEF TeardownUnmount
  <2> QED
    BY <1>14, <2>1, <2>2, <2>3 DEF TeardownUnmount
<1>15. CASE AllSent
  BY <1>15 DEF AllSent
<1>16. CASE TeardownStart
  BY <1>16 DEF TeardownStart
<1>17. CASE TeardownWait
  <2>1. /\ ltfs' \in [Drives -> Running \cup Exited \cup {"none"}]
        /\ mnt' \in [Drives -> BOOLEAN] /\ lock' \in [Drives -> BOOLEAN]
        /\ detached' \in [Drives -> BOOLEAN] /\ abortErr' \in BOOLEAN
        /\ faults' \in 0..MaxFaults
    BY <1>17, AbortType DEF TeardownWait
  <2>2. mounts' \in [Drives -> {"none", "live", "unmounted"}]
    BY <1>17 DEF TeardownWait
  <2>3. teardown' \in SUBSET Drives /\ current' \in Drives \cup {NoDrive} /\ tdErr' \in BOOLEAN
    BY <1>17 DEF TeardownWait
  <2> QED
    BY <1>17, <2>1, <2>2, <2>3 DEF TeardownWait
<1>18. CASE TeardownEnd
  <2>1. phase' \in {"writing", "teardown", "waiting", "tearing", "returned"}
    BY <1>18 DEF TeardownEnd, AnotherAttempt
  <2>2. tdAttempt' \in 0..TeardownAttempts - 1
    BY <1>18 DEF TeardownEnd, AnotherAttempt
  <2> QED
    BY <1>18, <2>1, <2>2 DEF TeardownEnd
<1>19. CASE Cancel
  BY <1>19 DEF Cancel, Each, Waiting
<1>20. CASE WorkerLost
  <2>1. /\ phase' \in {"writing", "teardown", "waiting", "tearing", "returned"}
        /\ worker' \in {"up", "lost"} /\ held' \in BOOLEAN
        /\ teardown' \in SUBSET Drives /\ current' \in Drives \cup {NoDrive}
    BY <1>20 DEF WorkerLost
  <2>2. /\ co' \in [Drives -> {"format", "write", "finalize", "sent"}]
        /\ result' \in [Drives -> {"none", "ok", "err"}]
        /\ job' \in [Drives -> {"none", "format", "mount", "copy", "unmount", "flush", "read"}]
        /\ mounts' \in [Drives -> {"none", "live", "unmounted"}]
    BY <1>20 DEF WorkerLost, Each, Waiting
  <2>3. ltfs' \in [Drives -> Running \cup Exited \cup {"none"}]
    BY <1>20 DEF WorkerLost, Running, Exited
  <2>4. faults' \in 0..MaxFaults
    BY <1>20 DEF WorkerLost, Fault
  <2> QED
    BY <1>20, <2>1, <2>2, <2>3, <2>4 DEF WorkerLost
<1>21. CASE Ended \/ UNCHANGED vars
  BY <1>21 DEF Ended
<1>22. ASSUME NEW d \in Drives, TimesOut(d)
      PROVE  TypeOK'
  BY <1>22 DEF TimesOut, Fails, Sends, Waiting
<1>23. ASSUME NEW d \in Drives, Hangs(d)
      PROVE  TypeOK'
  BY <1>23 DEF Hangs, Fault
<1>24. CASE TeardownLock
  BY <1>24 DEF TeardownLock
<1>25. CASE TeardownTimesOut
  BY <1>25 DEF TeardownTimesOut, AnotherAttempt
<1> QED
  BY <1>22, <1>23, <1>24, <1>25, <1>1, <1>2, <1>3, <1>4, <1>5, <1>6, <1>7, <1>8, <1>9, <1>10, <1>11, <1>12, <1>13, <1>14, <1>15, <1>16, <1>17, <1>18, <1>19, <1>20, <1>21
     DEF Next, DriveNext, LtfsNext, TeardownNext

-----------------------------------------------------------------------------
(* The inductive invariant, part by part *)

\* Activities are started by a waiting coroutine, end with it, or outlive one
\* that was cancelled or timed out, whose result they no longer touch.
LEMMA CoPreserved ==
    ASSUME TypeOK, CoInv, [Next]_vars
    PROVE  CoInv'
<1> USE SessionAssumption DEF TypeOK, CoInv, flow, td, tape, proc
<1>1. ASSUME NEW d \in Drives, FormatStart(d)
      PROVE  CoInv'
  BY <1>1 DEF FormatStart
<1>2. ASSUME NEW d \in Drives, FormatTape(d)
      PROVE  CoInv'
  BY <1>2 DEF FormatTape, Completes, Fails, Sends, Waiting, Fault
<1>3. ASSUME NEW d \in Drives, Mount(d)
      PROVE  CoInv'
  BY <1>3 DEF Mount, Fails, Sends, Waiting
<1>4. ASSUME NEW d \in Drives, MountFails(d)
      PROVE  CoInv'
  BY <1>4 DEF MountFails, Abort, Fails, Sends, Waiting, Fault
<1>5. ASSUME NEW d \in Drives, MountSeen(d)
      PROVE  CoInv'
  BY <1>5 DEF MountSeen, MutexFree
<1>6. ASSUME NEW d \in Drives, Copy(d)
      PROVE  CoInv'
  BY <1>6 DEF Copy, Completes, Fails, Sends, Waiting, Fault
<1>7. ASSUME NEW d \in Drives, FinalizeStart(d)
      PROVE  CoInv'
  BY <1>7 DEF FinalizeStart, Fails, Sends, Waiting, MutexFree
<1>8. ASSUME NEW d \in Drives, Unmount(d)
      PROVE  CoInv'
  BY <1>8 DEF Unmount, Detaches, AttemptFails, Fails, Sends, Waiting, Fault
<1>9. ASSUME NEW d \in Drives, Flushed(d)
      PROVE  CoInv'
  BY <1>9 DEF Flushed, AttemptFails, Fails, Sends, Waiting, MutexFree, Fault
<1>10. ASSUME NEW d \in Drives, StageIndex(d)
      PROVE  CoInv'
  BY <1>10 DEF StageIndex, ReadIndex, AttemptFails, Fails, Sends, Waiting, MutexFree, Fault
<1>11. CASE AllSent
  BY <1>11 DEF AllSent
<1>12. CASE TeardownStart
  BY <1>12 DEF TeardownStart
<1>13. CASE TeardownEnd
  BY <1>13 DEF TeardownEnd, AnotherAttempt
<1>14. CASE Cancel
  BY <1>14 DEF Cancel, Each, Waiting
<1>15. CASE WorkerLost
  BY <1>15 DEF WorkerLost, Each, Waiting, Fault
<1>16. CASE UNCHANGED <<phase, co, result, cancelled, worker, job, late>>
  BY <1>16
<1>17. ASSUME NEW d \in Drives, TimesOut(d)
      PROVE  CoInv'
  BY <1>17 DEF TimesOut, Fails, Sends, Waiting
<1>18. CASE TeardownLock
  BY <1>18 DEF TeardownLock
<1>19. CASE TeardownTimesOut
  BY <1>19 DEF TeardownTimesOut, AnotherAttempt
<1> QED
  BY <1>17, <1>18, <1>19, <1>1, <1>2, <1>3, <1>4, <1>5, <1>6, <1>7, <1>8, <1>9, <1>10, <1>11, <1>12, <1>13, <1>14, <1>15, <1>16
     DEF Next, DriveNext, LtfsNext, TeardownNext, Ended, vars, MountLive, LtfsCrash, Hangs, Flush,
         TeardownUnmount, Detaches, Abort, TeardownWait

\* The tape, its mount and its registry entry follow the activities; only an
\* index that was captured after the flush is staged, and only then is the
\* entry deleted.
LEMMA TapePreserved ==
    ASSUME TypeOK, CoInv, TapeInv, TearInv, [Next]_vars
    PROVE  TapeInv'
<1> USE SessionAssumption DEF TypeOK, CoInv, TapeInv, TearInv, Running, flow, td, tape, proc
<1>1. ASSUME NEW d \in Drives, FormatStart(d)
      PROVE  TapeInv'
  BY <1>1 DEF FormatStart
<1>2. ASSUME NEW d \in Drives, FormatTape(d)
      PROVE  TapeInv'
  BY <1>2 DEF FormatTape, Completes, Fails, Sends, Waiting, Fault
<1>3. ASSUME NEW d \in Drives, Mount(d)
      PROVE  TapeInv'
  BY <1>3 DEF Mount, Fails, Sends, Waiting
<1>4. ASSUME NEW d \in Drives, MountLive(d)
      PROVE  TapeInv'
  BY <1>4 DEF MountLive
<1>5. ASSUME NEW d \in Drives, MountFails(d)
      PROVE  TapeInv'
  BY <1>5 DEF MountFails, Abort, Fails, Sends, Waiting, Fault
<1>6. ASSUME NEW d \in Drives, MountSeen(d)
      PROVE  TapeInv'
  BY <1>6 DEF MountSeen, MutexFree
<1>7. ASSUME NEW d \in Drives, Copy(d)
      PROVE  TapeInv'
  BY <1>7 DEF Copy, Completes, Fails, Sends, Waiting, Fault
<1>8. ASSUME NEW d \in Drives, LtfsCrash(d)
      PROVE  TapeInv'
  BY <1>8 DEF LtfsCrash, Fault
<1>9. ASSUME NEW d \in Drives, Flush(d)
      PROVE  TapeInv'
  BY <1>9 DEF Flush, Fault
<1>10. ASSUME NEW d \in Drives, FinalizeStart(d)
      PROVE  TapeInv'
  BY <1>10 DEF FinalizeStart, Fails, Sends, Waiting, MutexFree
<1>11. ASSUME NEW d \in Drives, Unmount(d)
      PROVE  TapeInv'
  BY <1>11 DEF Unmount, Detaches, AttemptFails, Fails, Sends, Waiting, Fault
<1>12. ASSUME NEW d \in Drives, Flushed(d)
      PROVE  TapeInv'
  BY <1>12 DEF Flushed, AttemptFails, Fails, Sends, Waiting, MutexFree, Fault
<1>13. ASSUME NEW d \in Drives, StageIndex(d)
      PROVE  TapeInv'
  BY <1>13 DEF StageIndex, ReadIndex, AttemptFails, Fails, Sends, Waiting, MutexFree, Fault
<1>14. ASSUME NEW d \in Drives, TeardownUnmount(d)
      PROVE  TapeInv'
  BY <1>14 DEF TeardownUnmount, Busy, Detaches, Abort
<1>15. CASE TeardownWait
  BY <1>15 DEF TeardownWait, Abort, Fault
<1>16. CASE Cancel
  BY <1>16 DEF Cancel, Each, Waiting
<1>17. CASE WorkerLost
  BY <1>17 DEF WorkerLost, Each, Waiting, Fault
<1>18. CASE UNCHANGED <<co, result, job, mounts, ltfs, tape>>
  BY <1>18
<1>19. ASSUME NEW d \in Drives, TimesOut(d)
      PROVE  TapeInv'
  BY <1>19 DEF TimesOut, Fails, Sends, Waiting
<1> QED
  BY <1>19, <1>1, <1>2, <1>3, <1>4, <1>5, <1>6, <1>7, <1>8, <1>9, <1>10, <1>11, <1>12, <1>13, <1>14, <1>15, <1>16, <1>17, <1>18
     DEF Next, DriveNext, LtfsNext, TeardownNext, Ended, vars, AllSent, TeardownStart,
         TeardownLock, TeardownTimesOut, TeardownEnd, Hangs

\* No step takes an ltfs that runs or holds a lock out of reach, except an
\* Abort that says so.
LEMMA LockPreserved ==
    ASSUME TypeOK, CoInv, TapeInv, LockInv, TearInv, [Next]_vars
    PROVE  LockInv'
<1> USE SessionAssumption DEF TypeOK, TapeInv, LockInv, TearInv, Running, flow, td, tape, proc
<1>1. ASSUME NEW d \in Drives, FormatStart(d)
      PROVE  LockInv'
  BY <1>1 DEF FormatStart
<1>2. ASSUME NEW d \in Drives, FormatTape(d)
      PROVE  LockInv'
  BY <1>2 DEF FormatTape, Completes, Fails, Sends, Waiting, Fault
<1>3. ASSUME NEW d \in Drives, Mount(d)
      PROVE  LockInv'
  BY <1>3 DEF Mount, Fails, Sends, Waiting
<1>4. ASSUME NEW d \in Drives, MountLive(d)
      PROVE  LockInv'
  BY <1>4 DEF MountLive
<1>5. ASSUME NEW d \in Drives, MountFails(d)
      PROVE  LockInv'
  BY <1>5 DEF MountFails, Abort, Fails, Sends, Waiting, Fault
<1>6. ASSUME NEW d \in Drives, MountSeen(d)
      PROVE  LockInv'
  BY <1>6 DEF MountSeen, MutexFree
<1>7. ASSUME NEW d \in Drives, Copy(d)
      PROVE  LockInv'
  BY <1>7 DEF Copy, Completes, Fails, Sends, Waiting, Fault
<1>8. ASSUME NEW d \in Drives, LtfsCrash(d)
      PROVE  LockInv'
  BY <1>8 DEF LtfsCrash, Fault
<1>9. ASSUME NEW d \in Drives, Flush(d)
      PROVE  LockInv'
  BY <1>9 DEF Flush, Fault
<1>10. ASSUME NEW d \in Drives, FinalizeStart(d)
      PROVE  LockInv'
  BY <1>10 DEF FinalizeStart, Fails, Sends, Waiting, MutexFree
<1>11. ASSUME NEW d \in Drives, Unmount(d)
      PROVE  LockInv'
  BY <1>11 DEF Unmount, Detaches, AttemptFails, Fails, Sends, Waiting, Fault
<1>12. ASSUME NEW d \in Drives, Flushed(d)
      PROVE  LockInv'
  BY <1>12 DEF Flushed, AttemptFails, Fails, Sends, Waiting, MutexFree, Fault
<1>13. ASSUME NEW d \in Drives, StageIndex(d)
      PROVE  LockInv'
  BY <1>13 DEF StageIndex, ReadIndex, AttemptFails, Fails, Sends, Waiting, MutexFree, Fault
<1>14. ASSUME NEW d \in Drives, TeardownUnmount(d)
      PROVE  LockInv'
  BY <1>14 DEF TeardownUnmount, Busy, Detaches, Abort
<1>15. CASE TeardownWait
  BY <1>15 DEF TeardownWait, Abort, Fault
<1>16. CASE WorkerLost
  BY <1>16 DEF WorkerLost, Each, Waiting, Fault
<1>17. CASE UNCHANGED <<worker, job, mounts, ltfs, lock, abortErr>>
  BY <1>17
<1> QED
  BY <1>1, <1>2, <1>3, <1>4, <1>5, <1>6, <1>7, <1>8, <1>9, <1>10, <1>11, <1>12, <1>13, <1>14, <1>15, <1>16, <1>17
     DEF Next, DriveNext, LtfsNext, TeardownNext, Ended, vars, AllSent, TeardownStart,
         TeardownLock, TeardownTimesOut, TeardownEnd, TimesOut, Hangs, Cancel, Each

\* While TeardownSession holds the mutex nothing enters the registry, and
\* nothing but a late mount does so after it.
LEMMA TearPreserved ==
    ASSUME TypeOK, CoInv, TearInv, [Next]_vars
    PROVE  TearInv'
<1> USE SessionAssumption DEF TypeOK, CoInv, TearInv, flow, td, tape, proc
<1>1. ASSUME NEW d \in Drives, MountSeen(d)
      PROVE  TearInv'
  BY <1>1 DEF MountSeen, MutexFree
<1>2. ASSUME NEW d \in Drives, Flushed(d)
      PROVE  TearInv'
  BY <1>2 DEF Flushed, AttemptFails, Fails, Sends, Waiting, MutexFree, Fault
<1>3. ASSUME NEW d \in Drives, StageIndex(d)
      PROVE  TearInv'
  BY <1>3 DEF StageIndex, ReadIndex, AttemptFails, Fails, Sends, Waiting, MutexFree, Fault
<1>4. ASSUME NEW d \in Drives, TeardownUnmount(d)
      PROVE  TearInv'
  BY <1>4 DEF TeardownUnmount, Busy, Detaches, Abort
<1>5. CASE AllSent
  BY <1>5 DEF AllSent
<1>6. CASE TeardownStart
  BY <1>6 DEF TeardownStart
<1>7. CASE TeardownWait
  BY <1>7 DEF TeardownWait, Abort, Fault
<1>8. CASE TeardownEnd
  BY <1>8 DEF TeardownEnd, AnotherAttempt
<1>9. CASE Cancel
  BY <1>9 DEF Cancel, Each, Waiting
<1>10. CASE WorkerLost
  BY <1>10 DEF WorkerLost, Each, Waiting, Fault
<1>11. CASE UNCHANGED <<phase, worker, mounts, held, teardown, current, late>>
  BY <1>11
<1>12. CASE TeardownLock
  BY <1>12 DEF TeardownLock
<1>13. CASE TeardownTimesOut
  BY <1>13 DEF TeardownTimesOut, AnotherAttempt
<1>14. ASSUME NEW d \in Drives, TimesOut(d)
      PROVE  TearInv'
  BY <1>14 DEF TimesOut
<1> QED
  BY <1>12, <1>13, <1>14, <1>1, <1>2, <1>3, <1>4, <1>5, <1>6, <1>7, <1>8, <1>9, <1>10, <1>11
     DEF Next, DriveNext, LtfsNext, TeardownNext, Ended, vars, FormatStart, FormatTape,
         Mount, MountLive, MountFails, Abort, Copy, LtfsCrash, Hangs, Flush, FinalizeStart,
         MutexFree, Unmount, Detaches

-----------------------------------------------------------------------------
(* Theorems *)

LEMMA SessionInit ==
    ASSUME Init
    PROVE  SessionInv
<1> USE SessionAssumption DEF Init, Each
<1>1. TypeOK
  <2>1. /\ detached \in [Drives -> BOOLEAN] /\ lock \in [Drives -> BOOLEAN] /\ index \in [Drives -> BOOLEAN]
        /\ cancelled \in BOOLEAN /\ tdErr \in BOOLEAN /\ abortErr \in BOOLEAN
    OBVIOUS
  <2>2. captured \in [Drives -> {"none", "stale", "fresh"}]
    OBVIOUS
  <2>3. /\ attempt \in [Drives -> 0..FinalizeAttempts - 1] /\ tdAttempt \in 0..TeardownAttempts - 1
        /\ faults \in 0..MaxFaults
    OBVIOUS
  <2>4. /\ teardown \in SUBSET Drives /\ current \in Drives \cup {NoDrive}
        /\ held \in BOOLEAN /\ hung \in SUBSET Drives /\ late \in SUBSET Drives
    OBVIOUS
  <2> QED
    BY <2>1, <2>2, <2>3, <2>4 DEF TypeOK
<1>2. CoInv /\ TapeInv
  BY DEF CoInv, TapeInv
<1>3. LockInv /\ TearInv
  BY DEF LockInv, TearInv, Running
<1> QED
  BY <1>1, <1>2, <1>3 DEF SessionInv

LEMMA SessionPreserved == SessionInv /\ [Next]_vars => SessionInv'
BY TypePreserved, CoPreserved, TapePreserved, LockPreserved, TearPreserved DEF SessionInv

(***************************************************************************)
(* For any number of drives, retries and faults: a tape writePhase reports *)
(* as written has its tree, the index of that tree and this mount's staged *)
(* index; a FinalizeTape that finds no entry comes after one that did all  *)
(* the work; and once the phase has returned and the registry's mutex is   *)
(* free, no ltfs runs and no drive is locked, except the drives whose      *)
(* WriteTree nobody waited for any more while it mounted, unless an Abort  *)
(* reported that it could not release one.                                 *)
(***************************************************************************)
THEOREM SessionIsSound == Spec => []SessionSound
<1>1. SessionInv => SessionSound
  <2> SUFFICES ASSUME SessionInv
               PROVE  SessionSound
    OBVIOUS
  <2>1. WrittenIsFinalized /\ MissingMeansFinalized
    BY DEF SessionInv, TapeInv, WrittenIsFinalized, MissingMeansFinalized
  <2>2. ReleasedForEject
    BY DEF SessionInv, CoInv, LockInv, TearInv, ReleasedForEject
  <2> QED
    BY <2>1, <2>2 DEF SessionInv, SessionSound
<1> QED
  BY <1>1, SessionInit, SessionPreserved, PTL DEF Spec

\* A coroutine that fails before anything changed on the tape: DriveWrite fails
\* with it, or has done so before.
LEMMA FailIsFail ==
    ASSUME TypeOK, CoInv, NEW d \in Drives, Fails(d) \/ AttemptFails(d), Content' = Content
    PROVE  Writes!Next \/ UNCHANGED <<Content, result>>
<1>1. CASE result' = result
  BY <1>1
<1>2. CASE result' # result
  <2>1. result[d] = "none" /\ result' = [result EXCEPT ![d] = "err"]
    BY <1>2 DEF Fails, AttemptFails, Sends, Waiting, CoInv
  <2>2. result' = [e \in Drives |-> IF e \in {d} THEN "err" ELSE result[e]]
    BY <2>1 DEF TypeOK
  <2>3. Writes!Fail({d})
    BY <2>1, <2>2 DEF Writes!Fail
  <2> QED
    BY <2>3 DEF Writes!Next
<1> QED
  BY <1>1, <1>2

\* A cancellation or the loss of the worker fails every coroutine that waits.
LEMMA AllFailIsFail ==
    ASSUME CoInv, result' = [d \in Drives |-> IF Waiting(d) THEN "err" ELSE result[d]], Content' = Content
    PROVE  Writes!Next
<1> DEFINE set == {d \in Drives : Waiting(d)}
<1>1. \A d \in set : result[d] = "none"
  BY DEF Waiting, CoInv
<1>2. result' = [d \in Drives |-> IF d \in set THEN "err" ELSE result[d]]
  OBVIOUS
<1>3. Writes!Fail(set) /\ set \in SUBSET Drives
  BY <1>1, <1>2 DEF Writes!Fail
<1> QED
  BY <1>3 DEF Writes!Next

(***************************************************************************)
(* writePhase implements what TapePath takes it to do: every step of the   *)
(* session either leaves media and reports alone, or advances one medium,  *)
(* reports one complete tape, or fails drives that had not reported.       *)
(***************************************************************************)
THEOREM SessionImplementsDriveWrite == Spec => ImplementsDriveWrite
<1>1. Init => Writes!Init
  BY DEF Init, Each, Content, Writes!Init
<1>2. SessionInv /\ [Next]_vars => [Writes!Next]_<<Content, result>>
  <2> SUFFICES ASSUME SessionInv, [Next]_vars
               PROVE  Writes!Next \/ UNCHANGED <<Content, result>>
    OBVIOUS
  <2>0. TypeOK /\ CoInv /\ TapeInv
    BY DEF SessionInv
  <2>1. ASSUME UNCHANGED <<tree, index, result>>
        PROVE  UNCHANGED <<Content, result>>
    BY <2>1 DEF Content
  <2>2. ASSUME NEW d \in Drives, FormatTape(d)
        PROVE  Writes!Next \/ UNCHANGED <<Content, result>>
    <3>1. tree[d] = "blank" /\ index' = index
      BY <2>0, <2>2 DEF FormatTape, TapeInv
    <3>2. CASE tree' = tree
      <4>1. Content' = Content
        BY <3>1, <3>2 DEF Content
      <4>2. Fails(d) \/ result' = result
        BY <2>2 DEF FormatTape, Completes
      <4> QED
        BY <2>0, <4>1, <4>2, FailIsFail
    <3>3. CASE tree' = [tree EXCEPT ![d] = "empty"]
      <4>1. Content[d] = "blank" /\ Content' = [Content EXCEPT ![d] = "partial"]
        BY <2>0, <3>1, <3>3 DEF Content, TypeOK
      <4>2. result' \in {result, [result EXCEPT ![d] = IF @ = "none" THEN "err" ELSE @]}
        BY <2>0, <2>2 DEF FormatTape, Completes, Fails, Sends, Waiting, CoInv, TypeOK
      <4>3. Writes!Write(d)
        BY <4>1, <4>2 DEF Writes!Write, Writes!Advance
      <4> QED
        BY <4>3 DEF Writes!Next
    <3> QED
      BY <2>2, <3>2, <3>3 DEF FormatTape
  <2>3. ASSUME NEW d \in Drives, Mount(d) \/ MountFails(d) \/ TimesOut(d) \/ FinalizeStart(d) \/ Unmount(d) \/ Flushed(d)
        PROVE  Writes!Next \/ UNCHANGED <<Content, result>>
    <3>1. UNCHANGED <<tree, index>> /\ (Fails(d) \/ AttemptFails(d) \/ result' = result)
      BY <2>3 DEF Mount, MountFails, TimesOut, FinalizeStart, Unmount, Flushed, tape
    <3>2. Content' = Content
      BY <3>1 DEF Content
    <3> QED
      BY <2>0, <3>1, <3>2, FailIsFail
  <2>4. ASSUME NEW d \in Drives, Copy(d)
        PROVE  Writes!Next \/ UNCHANGED <<Content, result>>
    <3>1. tree[d] = "empty" /\ ~index[d] /\ index' = index
      BY <2>0, <2>4 DEF Copy, TapeInv
    <3>2. \E t \in {"partial", "full"} : tree' = [tree EXCEPT ![d] = t]
      BY <2>4 DEF Copy
    <3>3. Content' = Content
      BY <2>0, <3>1, <3>2 DEF Content, TypeOK
    <3>4. Fails(d) \/ result' = result
      BY <2>4 DEF Copy, Completes
    <3> QED
      BY <2>0, <3>3, <3>4, FailIsFail
  <2>5. ASSUME NEW d \in Drives, Flush(d)
        PROVE  Writes!Next \/ UNCHANGED <<Content, result>>
    <3>1. UNCHANGED <<tree, result>> /\ (index' = index \/ index' = [index EXCEPT ![d] = TRUE])
      BY <2>5 DEF Flush, flow
    <3>2. CASE index' = index \/ index[d] \/ tree[d] # "full"
      <4>1. Content' = Content
        BY <2>0, <3>1, <3>2 DEF Content, TypeOK
      <4> QED
        BY <3>1, <4>1
    <3>3. CASE index' = [index EXCEPT ![d] = TRUE] /\ ~index[d] /\ tree[d] = "full"
      <4>a. index'[d] /\ \A e \in Drives : e # d => index'[e] = index[e]
        BY <2>0, <3>3 DEF TypeOK
      <4>b. Content[d] = "partial" /\ Content'[d] = "complete"
        BY <3>1, <3>3, <4>a DEF Content
      <4>c. \A e \in Drives : e # d => Content'[e] = Content[e]
        BY <3>1, <4>a DEF Content
      <4>1. Content[d] = "partial" /\ Content' = [Content EXCEPT ![d] = "complete"]
        BY <4>b, <4>c DEF Content
      <4>2. Writes!Write(d)
        BY <3>1, <4>1 DEF Writes!Write, Writes!Advance
      <4> QED
        BY <4>2 DEF Writes!Next
    <3> QED
      BY <3>1, <3>2, <3>3
  <2>6. ASSUME NEW d \in Drives, StageIndex(d)
        PROVE  Writes!Next \/ UNCHANGED <<Content, result>>
    <3>1. Content' = Content
      BY <2>6 DEF StageIndex, Content
    <3>2. Fails(d) \/ AttemptFails(d) \/ (ReadIndex(d) /\ Sends(d, "ok"))
      BY <2>6 DEF StageIndex
    <3>3. CASE ReadIndex(d) /\ Sends(d, "ok") /\ result[d] = "none"
      <4>1. tree[d] = "full" /\ index[d]
        BY <2>0, <2>6, <3>3 DEF StageIndex, ReadIndex, TapeInv
      <4>2. Content[d] = "complete" /\ result' = [result EXCEPT ![d] = "ok"]
        BY <2>0, <3>3, <4>1 DEF Content, Sends, Waiting, CoInv
      <4>3. Writes!Succeed(d)
        BY <3>1, <3>3, <4>2 DEF Writes!Succeed
      <4> QED
        BY <4>3 DEF Writes!Next
    <3>4. CASE Sends(d, "ok") /\ result[d] # "none"
      BY <2>0, <3>1, <3>4 DEF Sends, Waiting, CoInv
    <3> QED
      BY <2>0, <3>1, <3>2, <3>3, <3>4, FailIsFail
  <2>7. CASE Cancel \/ WorkerLost
    <3>1. Content' = Content /\ result' = [d \in Drives |-> IF Waiting(d) THEN "err" ELSE result[d]]
      BY <2>7 DEF Cancel, WorkerLost, Content, tape
    <3> QED
      BY <2>0, <3>1, AllFailIsFail
  <2>8. CASE UNCHANGED <<tree, index, result>>
    BY <2>1, <2>8
  <2> QED
    BY <2>2, <2>3, <2>4, <2>5, <2>6, <2>7, <2>8
       DEF Next, DriveNext, LtfsNext, TeardownNext, Ended, vars, flow, tape, FormatStart, MountLive, MountSeen,
           LtfsCrash, Hangs, AllSent, TeardownStart, TeardownLock, TeardownTimesOut, TeardownUnmount, TeardownWait, TeardownEnd
<1> QED
  BY <1>1, <1>2, SessionInit, SessionPreserved, PTL DEF Spec, ImplementsDriveWrite, Writes!Spec
=============================================================================

---------------------------- MODULE WaitProofs -----------------------------
(***************************************************************************)
(* Proofs about the two parts that wait: OperatorPause, for any number of  *)
(* pauses and signals, any I/O wait and any poll budget of the child       *)
(* workflow; and IdleExit, for any workers, tasks, idle window, attempts,  *)
(* faults and signals.                                                     *)
(***************************************************************************)
EXTENDS OperatorPause, IdleExit, SequenceTheorems, FiniteSetTheorems, WellFoundedInduction, TLAPS

-----------------------------------------------------------------------------
(* The pauses of a run *)

Paused == wf \in {"alert", "wait"}

\* The buffered signals the current pause listens for.
Heard == {n \in DOMAIN buffer :
    buffer[n].name = "resume" \/ (buffer[n].name = "abort" /\ kind # "eject")}

\* The type of the clock PauseTypeOK leaves to WaitBounded, and what the place of
\* the workflow says about the pause counter and the outcome.
PauseType ==
    /\ PauseTypeOK /\ waited \in 0..IOWait
    /\ Paused => pauses # 0
    /\ outcome = "none" <=> wf # "over"

\* The polls remaining to the child and those spent add up to the whole wait.
ClockAddsUp == wf = "wait" /\ kind = "eject" => waited + remaining = IOWait

\* A reply that came in stays buffered for as long as the pause lasts.
ReplyKept == Paused /\ replied => Heard # {}

PauseInv ==
    /\ PauseType /\ ClockAddsUp /\ ReplyKept
    /\ BufferedSignalsAreFresh /\ ReplyBeatsTimeout

-----------------------------------------------------------------------------
(* The signal buffer *)

\* A set of positions that is not empty has a least one.
LEMMA LeastPosition ==
    ASSUME NEW T, T \subseteq Nat, T # {}
    PROVE  \E n \in T : \A m \in T : n <= m
<1> DEFINE R == OpToRel(<, Nat)
<1>1. PICK n \in T : \A m \in T : ~(<<m, n>> \in R)
  <2>1. IsWellFoundedOn(R, Nat)
    BY NatLessThanWellFounded
  <2> QED
    BY ONLY <2>1, T \subseteq Nat, T # {}, WFMin
<1>2. \A m \in T : ~(m < n)
  BY <1>1 DEF OpToRel
<1> QED
  BY <1>2

\* When the selector finds no signal of a name, none is buffered: what it
\* takes first is the oldest, and there is an oldest if there is any.
LEMMA NoneOldest ==
    ASSUME NEW name, PauseTypeOK, Oldest(name) = {}
    PROVE  \A n \in DOMAIN buffer : buffer[n].name # name
<1> SUFFICES ASSUME NEW n \in DOMAIN buffer, buffer[n].name = name
             PROVE  FALSE
  OBVIOUS
<1> DEFINE T == {m \in DOMAIN buffer : buffer[m].name = name}
<1>1. DOMAIN buffer = 1..Len(buffer) /\ Len(buffer) \in Nat
  BY DEF PauseTypeOK
<1>2. T \subseteq Nat /\ T # {}
  BY <1>1
<1>3. PICK k \in T : \A m \in T : k <= m
  BY <1>2, LeastPosition
<1>4. k \in Oldest(name)
  BY <1>1, <1>3 DEF Oldest
<1> QED
  BY <1>4

\* The selector finds nothing it listens for only when nothing was heard.
LEMMA NothingHeard ==
    ASSUME PauseTypeOK, Oldest("resume") = {}, kind = "eject" \/ Oldest("abort") = {}
    PROVE  Heard = {}
BY NoneOldest, NoneOldest DEF Heard

\* Taking a signal out of the buffer leaves a buffer.
LEMMA WithoutType ==
    ASSUME PauseTypeOK, NEW n \in DOMAIN buffer
    PROVE  Without(n) \in Seq(Buffered) /\ buffer[n] \in Buffered
<1>1. /\ buffer \in Seq(Buffered) /\ Len(buffer) \in Nat
      /\ n \in 1..Len(buffer) /\ \A i \in 1..Len(buffer) : buffer[i] \in Buffered
  BY DEF PauseTypeOK
<1>2. SubSeq(buffer, 1, n - 1) \in Seq(Buffered)
  BY <1>1, SubSeqProperties
<1>3. SubSeq(buffer, n + 1, Len(buffer)) \in Seq(Buffered)
  BY <1>1, SubSeqProperties
<1> QED
  BY <1>1, <1>2, <1>3, ConcatProperties DEF Without

\* Delivering a signal appends one of the current pause and keeps the rest.
LEMMA DeliverBuffer ==
    ASSUME PauseTypeOK, NEW s \in flight,
           buffer' = Append(buffer, [name |-> s.name, meant |-> s.meant, nth |-> s.nth,
                                     at |-> pauses])
    PROVE  /\ buffer' \in Seq(Buffered)
           /\ DOMAIN buffer' = DOMAIN buffer \cup {Len(buffer) + 1}
           /\ Len(buffer) + 1 \notin DOMAIN buffer
           /\ \A n \in DOMAIN buffer : buffer'[n] = buffer[n]
           /\ buffer'[Len(buffer) + 1].name = s.name
           /\ buffer'[Len(buffer) + 1].at = pauses
<1> DEFINE b == [name |-> s.name, meant |-> s.meant, nth |-> s.nth, at |-> pauses]
<1>1. b \in Buffered /\ b.name = s.name /\ b.at = pauses
  BY DEF PauseTypeOK, Signal, Buffered
<1>2. buffer \in Seq(Buffered) /\ buffer' = Append(buffer, b)
  BY DEF PauseTypeOK
<1> HIDE DEF b
<1> QED
  BY <1>1, <1>2, AppendProperties

-----------------------------------------------------------------------------
(* Types *)

\* What the type invariant knows about the run's own part of the state.
LEMMA PauseTypePreserved ==
    ASSUME PauseType, ClockAddsUp, [PauseNext]_pauseVars
    PROVE  PauseType'
<1> USE PauseAssumption
<1>1. ASSUME NEW k \in Kinds, BeginPause(k)
      PROVE  PauseType'
  <2>1. buffer' \in Seq(Buffered)
    BY <1>1, EmptySeq DEF BeginPause, Drained
  <2>2. replied' \in BOOLEAN
    BY <1>1 DEF BeginPause
  <2> QED
    BY <1>1, <2>1, <2>2 DEF BeginPause, PauseType, PauseTypeOK, Paused, child
<1>2. CASE StartWait
  BY <1>2 DEF StartWait, PauseType, PauseTypeOK, Paused, signals
<1>3. CASE Resume
  <2>1. PICK n \in DOMAIN buffer : cleared' = buffer[n] /\ buffer' = Without(n)
    BY <1>3 DEF Resume, Oldest
  <2>2. cleared' \in Buffered /\ buffer' \in Seq(Buffered)
    BY <2>1, WithoutType DEF PauseType
  <2> QED
    BY <1>3, <2>2 DEF Resume, PauseType, PauseTypeOK, Paused, child
<1>4. CASE Abort
  <2>1. PICK n \in DOMAIN buffer : cleared' = buffer[n] /\ buffer' = Without(n)
    BY <1>4 DEF Abort, Oldest
  <2>2. cleared' \in Buffered /\ buffer' \in Seq(Buffered)
    BY <2>1, WithoutType DEF PauseType
  <2> QED
    BY <1>4, <2>2 DEF Abort, Ends, PauseType, PauseTypeOK, Paused, child
<1>5. CASE Timeout
  BY <1>5 DEF Timeout, Ends, PauseType, PauseTypeOK, Paused, signals, child
<1>6. CASE Poll
  <2>1. waited' \in 0..IOWait
    BY <1>6 DEF Poll, PauseType, PauseTypeOK, ClockAddsUp
  <2>2. remaining' \in 0..IOWait /\ polls' \in 0..PollBudget - 1
    BY <1>6, <2>1 DEF Poll, Ends, Continue, BudgetSpent, PauseType, PauseTypeOK
  <2> QED
    BY <1>6, <2>1, <2>2 DEF Poll, Ends, PauseType, PauseTypeOK, Paused, signals
<1>7. CASE Deadline
  BY <1>7 DEF Deadline, Ends, PauseType, PauseTypeOK, Paused, signals, child
<1>8. CASE Finish
  BY <1>8 DEF Finish, Ends, PauseType, PauseTypeOK, Paused, signals, child
<1>9. CASE Cancel
  BY <1>9 DEF Cancel, Ends, PauseType, PauseTypeOK, Paused, signals, child
<1>10. CASE Learn
  BY <1>10 DEF Learn, PauseType, PauseTypeOK, Paused, run, child
<1>11. ASSUME NEW name \in {"resume", "abort"}, Decide(name), told \in 1..MaxPauses
       PROVE  PauseType'
  <2>1. flight' \subseteq Signal /\ sends' \in 0..MaxSends
    BY <1>11 DEF Decide, PauseType, PauseTypeOK, Signal
  <2> QED
    BY <1>11, <2>1 DEF Decide, PauseType, PauseTypeOK, Paused, run, child
<1>12. ASSUME NEW name \in {"resume", "abort"}, SignalPausedRun(name)
       PROVE  PauseType'
  BY <1>11, <1>12 DEF SignalPausedRun, PauseType, PauseTypeOK, Paused
<1>13. ASSUME NEW name \in {"resume", "abort"}, TapectlSignal(name)
       PROVE  PauseType'
  BY <1>11, <1>13 DEF TapectlSignal, PauseType, PauseTypeOK
<1>14. ASSUME NEW s \in flight, Deliver(s)
       PROVE  PauseType'
  <2>1. buffer' \in Seq(Buffered) /\ replied' \in BOOLEAN
    BY <1>14, DeliverBuffer DEF Deliver, PauseType, PauseTypeOK
  <2> QED
    BY <1>14, <2>1 DEF Deliver, PauseType, PauseTypeOK, Paused, run, child
<1>15. CASE UseStation
  BY <1>15 DEF UseStation, PauseType, PauseTypeOK, Paused, run, signals, child
<1>16. CASE RunOver \/ UNCHANGED pauseVars
  BY <1>16 DEF RunOver, PauseType, PauseTypeOK, Paused, pauseVars, run, signals, child
<1> QED
  BY <1>1, <1>2, <1>3, <1>4, <1>5, <1>6, <1>7, <1>8, <1>9, <1>10, <1>12, <1>13,
     <1>14, <1>15, <1>16 DEF PauseNext, Workflow, Operator

-----------------------------------------------------------------------------
(* Every pause ends as the operator or the clock decided *)

LEMMA PausePreserved ==
    ASSUME PauseInv, [PauseNext]_pauseVars
    PROVE  PauseInv'
<1> USE PauseAssumption
<1> DEFINE Rest == ClockAddsUp /\ ReplyKept /\ BufferedSignalsAreFresh /\ ReplyBeatsTimeout
<1>t. PauseType'
  BY PauseTypePreserved DEF PauseInv
<1> SUFFICES Rest'
  BY <1>t DEF PauseInv
<1>a. PauseTypeOK /\ waited \in Nat /\ (outcome = "none" <=> wf # "over") /\ Rest
  BY DEF PauseInv, PauseType
<1>1. ASSUME NEW k \in Kinds, BeginPause(k)
      PROVE  Rest'
  BY <1>a, <1>1 DEF BeginPause, Drained, ClockAddsUp, ReplyKept, BufferedSignalsAreFresh,
                    ReplyBeatsTimeout, Paused
<1>2. CASE StartWait
  BY <1>a, <1>2 DEF StartWait, signals, ClockAddsUp, ReplyKept, Heard, Paused,
                    BufferedSignalsAreFresh, ReplyBeatsTimeout, PauseTypeOK
<1>3. CASE Resume
  BY <1>a, <1>3 DEF Resume, ClockAddsUp, ReplyKept, Paused, BufferedSignalsAreFresh, ReplyBeatsTimeout
<1>4. CASE Abort
  BY <1>a, <1>4 DEF Abort, Ends, ClockAddsUp, ReplyKept, Paused, BufferedSignalsAreFresh, ReplyBeatsTimeout
<1>5. CASE Timeout
  <2>1. ~replied
    BY <1>a, <1>5, NothingHeard DEF Timeout, ReplyKept, Paused, PauseTypeOK
  <2> QED
    BY <1>5, <2>1 DEF Timeout, Ends, signals, ClockAddsUp, ReplyKept, Paused,
                      BufferedSignalsAreFresh, ReplyBeatsTimeout
<1>6. CASE Poll
  <2>1. ClockAddsUp'
    <3>1. /\ waited + remaining = IOWait /\ remaining > 0 /\ waited' = waited + 1
          /\ wf' = "wait" => remaining' \in {remaining - 1, Continue(waited + 1)}
      BY <1>a, <1>6 DEF Poll, Ends, ClockAddsUp
    <3>2. Continue(waited + 1) = remaining - 1 /\ waited' + (remaining - 1) = IOWait
      BY <1>a, <3>1 DEF Continue, PauseTypeOK
    <3> QED
      BY <3>1, <3>2 DEF ClockAddsUp
  <2> QED
    BY <1>a, <1>6, <2>1 DEF Poll, Ends, signals, ReplyKept, Heard, Paused,
                      BufferedSignalsAreFresh, ReplyBeatsTimeout, PauseTypeOK
<1>7. CASE Deadline
  <2>1. ~replied
    BY <1>a, <1>7, NothingHeard DEF Deadline, ReplyKept, Paused, PauseTypeOK
  <2> QED
    BY <1>7, <2>1 DEF Deadline, Ends, signals, ClockAddsUp, ReplyKept, Paused,
                      BufferedSignalsAreFresh, ReplyBeatsTimeout
<1>8. CASE Finish \/ Cancel
  BY <1>8 DEF Finish, Cancel, Ends, ClockAddsUp, ReplyKept, Paused,
              BufferedSignalsAreFresh, ReplyBeatsTimeout
<1>9. ASSUME UNCHANGED <<run, buffer, replied, child>>
      PROVE  Rest'
  BY <1>a, <1>9 DEF run, child, ClockAddsUp, ReplyKept, Heard, Paused, BufferedSignalsAreFresh,
                    ReplyBeatsTimeout
<1>10. CASE Learn \/ UseStation \/ RunOver \/ UNCHANGED pauseVars
  BY <1>9, <1>10 DEF Learn, UseStation, RunOver, pauseVars, signals
<1>11. ASSUME NEW name, SignalPausedRun(name) \/ TapectlSignal(name)
       PROVE  Rest'
  BY <1>9, <1>11 DEF SignalPausedRun, TapectlSignal, Decide
<1>12. ASSUME NEW s \in flight, Deliver(s)
       PROVE  Rest'
  <2>1. CASE wf = "over"
    BY <1>9, <1>12, <2>1 DEF Deliver
  <2>2. CASE wf # "over"
    <3>1. /\ buffer' = Append(buffer, [name |-> s.name, meant |-> s.meant, nth |-> s.nth,
                                       at |-> pauses])
          /\ replied' => replied \/ (s.name = "abort" => kind # "eject")
          /\ UNCHANGED <<wf, kind, pauses, outcome, remaining, waited>>
      BY <1>12, <2>2 DEF Deliver, run, child
    <3>2. /\ DOMAIN buffer' = DOMAIN buffer \cup {Len(buffer) + 1}
          /\ \A n \in DOMAIN buffer : buffer'[n] = buffer[n]
          /\ buffer'[Len(buffer) + 1].name = s.name
          /\ buffer'[Len(buffer) + 1].at = pauses
          /\ s.name \in {"resume", "abort"}
      BY <1>a, <3>1, DeliverBuffer DEF PauseTypeOK, Signal
    <3>3. BufferedSignalsAreFresh'
      BY <1>a, <3>1, <3>2 DEF BufferedSignalsAreFresh
    <3>4. ReplyKept'
      BY <1>a, <3>1, <3>2 DEF ReplyKept, Heard, Paused
    <3> QED
      BY <1>a, <2>2, <3>1, <3>3, <3>4 DEF ClockAddsUp, ReplyBeatsTimeout
  <2> QED
    BY <2>1, <2>2
<1> HIDE DEF Rest
<1> QED
  BY <1>1, <1>2, <1>3, <1>4, <1>5, <1>6, <1>7, <1>8, <1>10, <1>11, <1>12
     DEF PauseNext, Workflow, Operator

(***************************************************************************)
(* However many pauses, signals, late duplicates and child executions a    *)
(* run has, a pause of waitForOperator, waitForBurnOperator or ejectPhase  *)
(* is resolved by signals sent during it, never times out on a reply it    *)
(* listens for, and its I/O wait never exceeds EffectiveIOWaitTimeout.     *)
(***************************************************************************)
THEOREM PausesAreSound == PauseSpec => []PauseSound
<1>1. PauseInit => PauseInv
  <2>1. PauseInit => PauseType
    <3>1. PauseInit => buffer \in Seq(Buffered) /\ replied \in BOOLEAN
      BY EmptySeq DEF PauseInit
    <3> QED
      BY <3>1, PauseAssumption DEF PauseInit, PauseType, PauseTypeOK, Paused, Kinds
  <2> QED
    BY <2>1 DEF PauseInit, PauseInv, Paused, ClockAddsUp, ReplyKept, BufferedSignalsAreFresh,
                ReplyBeatsTimeout
<1>2. PauseInv /\ [PauseNext]_pauseVars => PauseInv'
  BY PausePreserved
<1>3. PauseInv => PauseSound
  BY PauseAssumption DEF PauseInv, PauseSound, PauseType, WaitBounded
<1> QED
  BY <1>1, <1>2, <1>3, PTL DEF PauseSpec

-----------------------------------------------------------------------------
(* The exit of an idle worker *)

TaskSet == [st : {"none", "queued", "dispatched", "running", "done", "failed"}, on : Workers \cup {0},
            attempts : 0..MaxAttempts]
ProcSet == [st : {"off", "starting", "running", "stopped", "exited"}, ctx : BOOLEAN, sent : BOOLEAN,
            ch : BOOLEAN, merge : BOOLEAN, idle : {"none", "poll", "elapsed"}, drain : BOOLEAN,
            cause : {"none", "signal", "start", "idle", "killed", "fatal", "panic"}, code : {0, 1, 2, SigkillCode}]

\* How a process may be over: the cause, with its code.
Over(cause, code) ==
    \/ cause \in {"signal", "idle"} /\ code = 0
    \/ cause \in {"start", "fatal"} /\ code = 1
    \/ cause = "killed" /\ code = SigkillCode

\* What every process satisfies: the handlers of a signal run only if one was
\* sent, a drain has a cause, a signal that ends it was sent, an idle window
\* that does was installed, only one that is up watches the clock, and none
\* drains or watches where no idle exit was installed.
ProcOK(p) ==
    /\ p \in ProcSet
    /\ p.ch \/ p.ctx \/ p.cause \in {"signal", "killed"} => p.sent
    /\ p.cause = "idle" => Installed
    /\ p.drain \/ p.st = "stopped" => p.cause \in {"signal", "idle"}
    /\ p.st = "exited" => Over(p.cause, p.code)
    /\ p.st \notin {"running", "stopped"} => p.idle = "none"
    /\ ~Installed =>
         ~p.merge /\ ~p.drain /\ p.idle = "none"

\* An attempt is on a worker from its dispatch to its end, never on one that is
\* only starting.
TaskInv ==
    /\ task \in [Tasks -> TaskSet]
    /\ \A t \in Tasks : task[t].st \in {"dispatched", "running"} => task[t].on \in Workers
    /\ \A w \in Workers : proc[w].st \in {"off", "starting"} => \A t \in Tasks : task[t].on # w

\* The tracker of a worker that is up counts the activities running on it, and
\* its idle time is never more than the time nothing has run for.
CountInv ==
    /\ tracker \in [Workers -> [inFlight : 0..Cardinality(Tasks), idleFor : 0..Window]]
    /\ quiet \in [Workers -> 0..Window]
    /\ \A w \in Workers : proc[w].st \in {"running", "stopped"} =>
         /\ tracker[w].inFlight = Cardinality(Running(w))
         /\ Running(w) = {} => tracker[w].idleFor <= quiet[w]

ProcInv ==
    /\ cfg \in Configs /\ left \in [faults : 0..MaxFaults, signals : 0..MaxSignals]
    /\ proc \in [Workers -> ProcSet] /\ \A w \in Workers : ProcOK(proc[w])

IdleInv == ProcInv /\ TaskInv /\ CountInv

-----------------------------------------------------------------------------
(* The processes *)

\* A step of one process that leaves it well-formed leaves all of them so.
LEMMA SetProc ==
    ASSUME ProcInv, NEW w \in Workers, NEW p, ProcOK(p), Set(w, p), cfg' = cfg,
           left' \in [faults : 0..MaxFaults, signals : 0..MaxSignals]
    PROVE  ProcInv'
<1>1. proc' \in [Workers -> ProcSet] /\ \A v \in Workers : proc'[v] = IF v = w THEN p ELSE proc[v]
  BY DEF Set, ProcInv, ProcOK
<1>2. Installed' = Installed
  BY DEF Installed
<1>3. \A v \in Workers : ProcOK(proc[v])'
  BY <1>1, <1>2 DEF ProcInv, ProcOK
<1> QED
  BY <1>1, <1>3 DEF ProcInv

\* A process that is not there.
LEMMA OffFields ==
    /\ Off \in ProcSet /\ Off.merge = FALSE /\ Off.drain = FALSE /\ Off.ch = FALSE /\ Off.ctx = FALSE
    /\ Off.idle = "none" /\ Off.cause = "none" /\ Off.code = 0
<1>1. FALSE \in BOOLEAN
  OBVIOUS
<1> QED
  BY <1>1 DEF Off, ProcSet

\* A process that ends, with the code of what ends it.
LEMMA ExitOK ==
    ASSUME ProcInv, NEW w \in Workers, NEW cause, NEW code, Over(cause, code), Exit(w, cause, code),
           cause \in {"signal", "killed"} => proc[w].sent, cause = "idle" => Installed
    PROVE  \E p : ProcOK(p) /\ Set(w, p)
<1> DEFINE p == [Off EXCEPT !.st = "exited", !.sent = proc[w].sent, !.cause = cause, !.code = code]
<1>1. Set(w, p)
  BY DEF Exit
<1>2. p \in ProcSet
  <2>1. code \in {0, 1, 2, SigkillCode} /\ cause \in {"none", "signal", "start", "idle", "killed", "fatal", "panic"}
    BY DEF Over
  <2>2. proc[w].sent \in BOOLEAN
    BY DEF ProcInv, ProcSet
  <2> QED
    BY <2>1, <2>2, OffFields DEF ProcSet
<1>3. /\ p.st = "exited" /\ p.cause = cause /\ p.code = code /\ p.sent = proc[w].sent
      /\ p.merge = FALSE /\ p.drain = FALSE /\ p.idle = "none" /\ p.ch = FALSE /\ p.ctx = FALSE
  BY OffFields DEF ProcSet
<1> HIDE DEF p
<1>4. ProcOK(p)
  BY <1>2, <1>3 DEF ProcOK, Over
<1> QED
  BY <1>1, <1>4

\* What each step makes of the state of the process that takes it.
LEMMA StepsOfProc ==
    ASSUME ProcInv, NEW w \in Workers
    PROVE  /\ StartFails(w) \/ RunFails(w) \/ ScrapeEnds(w) \/ Killed(w) => \E p : Set(w, p) /\ p.st = "exited"
           /\ Spawn(w) => \E p : Set(w, p) /\ p.st = "starting"
           /\ Starts(w) => \E p : Set(w, p) /\ p.st = "running"
           /\ RunReturns(w) => \E p : Set(w, p) /\ p.st = "stopped"
           /\ MergeInterrupt(w) \/ IdleTrigger(w) \/ MergeEnds(w) \/ IdleCheck(w) \/ IdleEnds(w) \/ Sigterm(w)
                \/ CtxCancelled(w) \/ Interrupted(w) => \E p : Set(w, p) /\ p.st = proc[w].st
<1>0. proc[w] \in ProcSet
  BY DEF ProcInv
<1>1. \A cause, code : Exit(w, cause, code) => \E p : Set(w, p) /\ p.st = "exited"
  <2> SUFFICES ASSUME NEW cause, NEW code, Exit(w, cause, code)
               PROVE  \E p : Set(w, p) /\ p.st = "exited"
    OBVIOUS
  <2> DEFINE p == [Off EXCEPT !.st = "exited", !.sent = proc[w].sent, !.cause = cause, !.code = code]
  <2>1. p.st = "exited" /\ Set(w, p)
    BY DEF Off, Exit
  <2> QED
    BY <2>1
<1>2. StartFails(w) \/ RunFails(w) \/ ScrapeEnds(w) \/ Killed(w) => \E p : Set(w, p) /\ p.st = "exited"
  BY <1>1 DEF StartFails, RunFails, ScrapeEnds, Killed
<1>3. Spawn(w) => \E p : Set(w, p) /\ p.st = "starting"
  <2>1. [Off EXCEPT !.st = "starting"].st = "starting"
    BY DEF Off
  <2> QED
    BY <2>1 DEF Spawn
<1>4. Starts(w) => \E p : Set(w, p) /\ p.st = "running"
  <2> DEFINE p == [proc[w] EXCEPT !.st = "running", !.merge = Installed,
                                  !.idle = IF Installed THEN "poll" ELSE "none"]
  <2>1. p.st = "running"
    BY <1>0 DEF ProcSet
  <2> HIDE DEF p
  <2>2. Starts(w) => Set(w, p)
    BY DEF Starts, p
  <2> QED
    BY <2>1, <2>2
<1>5. RunReturns(w) => \E p : Set(w, p) /\ p.st = "stopped"
  <2> DEFINE p == [proc[w] EXCEPT !.st = "stopped", !.cause = IF Installed THEN @ ELSE "signal"]
  <2>1. p.st = "stopped"
    BY <1>0 DEF ProcSet
  <2> HIDE DEF p
  <2>2. RunReturns(w) => Set(w, p)
    BY DEF RunReturns, p
  <2> QED
    BY <2>1, <2>2
<1>6. MergeInterrupt(w) \/ IdleTrigger(w) => \E p : Set(w, p) /\ p.st = proc[w].st
  <2>1. Trigger(w, [proc[w] EXCEPT !.merge = FALSE], "signal").st = proc[w].st
    BY <1>0 DEF Trigger, ProcSet
  <2>2. Trigger(w, [proc[w] EXCEPT !.idle = "none"], "idle").st = proc[w].st
    BY <1>0 DEF Trigger, ProcSet
  <2> QED
    BY <2>1, <2>2 DEF MergeInterrupt, IdleTrigger
<1>7. MergeEnds(w) \/ IdleCheck(w) \/ IdleEnds(w) \/ Sigterm(w) \/ CtxCancelled(w) \/ Interrupted(w)
        => \E p : Set(w, p) /\ p.st = proc[w].st
  BY <1>0 DEF MergeEnds, IdleCheck, IdleEnds, Sigterm, CtxCancelled, Interrupted, ProcSet
<1> QED
  BY <1>2, <1>3, <1>4, <1>5, <1>6, <1>7

LEMMA ProcPreserved ==
    ASSUME ProcInv, [Next]_vars
    PROVE  ProcInv'
<1> USE IdleExitAssumption
<1>0. Fault => left' \in [faults : 0..MaxFaults, signals : 0..MaxSignals]
  BY DEF Fault, ProcInv
<1>p. ASSUME NEW w \in Workers, \E p : ProcOK(p) /\ Set(w, p), cfg' = cfg, UNCHANGED left \/ Fault
      PROVE  ProcInv'
  BY <1>0, <1>p, SetProc DEF ProcInv
<1>1. ASSUME NEW w \in Workers, StartFails(w) \/ RunFails(w)
      PROVE  ProcInv'
  <2>1. proc[w].ctx => proc[w].sent
    BY DEF ProcInv, ProcOK
  <2>2. Over("signal", 0) /\ Over("start", 1) /\ Over("fatal", 1)
    BY DEF Over
  <2>3. Exit(w, "start", 1) \/ Exit(w, "fatal", 1) \/ (proc[w].ctx /\ Exit(w, "signal", 0))
    BY <1>1 DEF StartFails, RunFails
  <2>4. \E p : ProcOK(p) /\ Set(w, p)
    BY <2>1, <2>2, <2>3, ExitOK
  <2> QED
    BY <1>1, <1>p, <2>4 DEF StartFails, RunFails
<1>2. ASSUME NEW w \in Workers, Starts(w)
      PROVE  ProcInv'
  <2> DEFINE p == [proc[w] EXCEPT !.st = "running", !.merge = Installed,
                                  !.idle = IF Installed THEN "poll" ELSE "none"]
  <2>0. proc[w] \in ProcSet /\ ProcOK(proc[w]) /\ Installed \in BOOLEAN
    BY DEF ProcInv, Installed
  <2>1. p \in ProcSet
    BY <2>0 DEF ProcSet
  <2>2. /\ p.st = "running" /\ p.merge = Installed /\ p.idle = IF Installed THEN "poll" ELSE "none"
        /\ p.cause = proc[w].cause /\ p.code = proc[w].code /\ p.drain = proc[w].drain
        /\ p.ch = proc[w].ch /\ p.ctx = proc[w].ctx /\ p.sent = proc[w].sent
    BY <2>0 DEF ProcSet
  <2>3. proc[w].st = "starting" /\ Set(w, p)
    BY <1>2 DEF Starts
  <2> HIDE DEF p
  <2>4. ProcOK(p)
    BY <2>0, <2>1, <2>2, <2>3 DEF ProcOK
  <2> QED
    BY <1>2, <1>p, <2>3, <2>4 DEF Starts
<1>3. ASSUME NEW w \in Workers, MergeInterrupt(w)
      PROVE  ProcInv'
  <2>0. proc[w] \in ProcSet /\ ProcOK(proc[w]) /\ proc[w].merge /\ proc[w].ch /\ proc[w].st # "exited"
    BY <1>3 DEF MergeInterrupt, Alive, ProcInv
  <2>1. ProcOK(Trigger(w, [proc[w] EXCEPT !.merge = FALSE], "signal"))
    BY <2>0 DEF Trigger, ProcOK, ProcSet
  <2> QED
    BY <1>3, <1>p, <2>1 DEF MergeInterrupt
<1>4. ASSUME NEW w \in Workers, MergeEnds(w)
      PROVE  ProcInv'
  <2>1. ProcOK([proc[w] EXCEPT !.merge = FALSE])
    BY DEF ProcInv, ProcOK, ProcSet
  <2> QED
    BY <1>4, <1>p, <2>1 DEF MergeEnds
<1>5. ASSUME NEW w \in Workers, RunReturns(w)
      PROVE  ProcInv'
  <2>1. ProcOK([proc[w] EXCEPT !.st = "stopped", !.cause = IF Installed THEN @ ELSE "signal"])
    BY <1>5 DEF RunReturns, Stops, ProcInv, ProcOK, ProcSet
  <2> QED
    BY <1>5, <1>p, <2>1 DEF RunReturns
<1>6. ASSUME NEW w \in Workers, ScrapeEnds(w)
      PROVE  ProcInv'
  <2>1. /\ Over(proc[w].cause, 0) /\ (proc[w].cause = "idle" => Installed)
        /\ proc[w].cause \in {"signal", "killed"} => proc[w].sent
    BY <1>6 DEF ScrapeEnds, ProcInv, ProcOK, Over
  <2> QED
    BY <1>6, <1>p, <2>1, ExitOK DEF ScrapeEnds
<1>7. ASSUME NEW w \in Workers, IdleCheck(w)
      PROVE  ProcInv'
  <2>1. ProcOK([proc[w] EXCEPT !.idle = "elapsed"])
    BY <1>7 DEF IdleCheck, ProcInv, ProcOK, ProcSet
  <2> QED
    BY <1>7, <1>p, <2>1 DEF IdleCheck
<1>8. ASSUME NEW w \in Workers, IdleTrigger(w)
      PROVE  ProcInv'
  <2>0. proc[w] \in ProcSet /\ ProcOK(proc[w]) /\ proc[w].idle = "elapsed" /\ Installed /\ proc[w].st # "exited"
    BY <1>8 DEF IdleTrigger, Alive, ProcInv, ProcOK
  <2>1. ProcOK(Trigger(w, [proc[w] EXCEPT !.idle = "none"], "idle"))
    BY <2>0 DEF Trigger, ProcOK, ProcSet
  <2> QED
    BY <1>8, <1>p, <2>1 DEF IdleTrigger
<1>9. ASSUME NEW w \in Workers, IdleEnds(w)
      PROVE  ProcInv'
  <2>1. ProcOK([proc[w] EXCEPT !.idle = "none"])
    BY DEF ProcInv, ProcOK, ProcSet
  <2> QED
    BY <1>9, <1>p, <2>1 DEF IdleEnds
<1>10. ASSUME NEW w \in Workers, Spawn(w)
       PROVE  ProcInv'
  <2>1. ProcOK([Off EXCEPT !.st = "starting"])
    BY OffFields DEF ProcOK, ProcSet
  <2> QED
    BY <1>10, <1>p, <2>1 DEF Spawn
<1>11. ASSUME NEW w \in Workers, Sigterm(w)
       PROVE  ProcInv'
  <2>1. ProcOK([proc[w] EXCEPT !.sent = TRUE])
    BY DEF ProcInv, ProcOK, ProcSet
  <2>2. left' \in [faults : 0..MaxFaults, signals : 0..MaxSignals]
    BY <1>11 DEF Sigterm, ProcInv
  <2> QED
    BY <1>11, <2>1, <2>2, SetProc DEF Sigterm
<1>12. ASSUME NEW w \in Workers, CtxCancelled(w) \/ Interrupted(w)
       PROVE  ProcInv'
  <2>0. proc[w] \in ProcSet /\ ProcOK(proc[w]) /\ proc[w].sent
    BY <1>12 DEF CtxCancelled, Interrupted, ProcInv
  <2>1. ProcOK([proc[w] EXCEPT !.ctx = TRUE])
    BY <2>0 DEF ProcOK, ProcSet
  <2>2. ProcOK([proc[w] EXCEPT !.ch = TRUE])
    BY <2>0 DEF ProcOK, ProcSet
  <2> QED
    BY <1>12, <1>p, <2>1, <2>2 DEF CtxCancelled, Interrupted
<1>13. ASSUME NEW w \in Workers, Killed(w)
       PROVE  ProcInv'
  <2>1. Over("killed", SigkillCode)
    BY DEF Over
  <2> QED
    BY <1>13, <1>p, <2>1, ExitOK DEF Killed
<1>14. CASE UNCHANGED <<cfg, proc>> /\ (UNCHANGED left \/ Fault)
  BY <1>0, <1>14 DEF ProcInv, ProcOK, Installed
<1> QED
  BY <1>1, <1>2, <1>3, <1>4, <1>5, <1>6, <1>7, <1>8, <1>9, <1>10, <1>11, <1>12, <1>13, <1>14
     DEF Next, Process, Tick, Schedule, TimedOut, Begin, End, Dispatch, Rests, vars

-----------------------------------------------------------------------------
(* The tasks *)

\* A retried attempt, or one that is out of retries, is on no worker.
LEMMA AgainOK ==
    ASSUME TaskInv, NEW t \in Tasks
    PROVE  Again(t) \in TaskSet /\ Again(t).st \in {"queued", "failed"} /\ Again(t).on = 0
<1>1. task[t] \in TaskSet /\ task[t].attempts \in 0..MaxAttempts
  BY DEF TaskInv, TaskSet
<1>2. CASE task[t].attempts < MaxAttempts
  <2>1. task[t].attempts + 1 \in 0..MaxAttempts
    BY <1>1, <1>2, IdleExitAssumption
  <2> QED
    BY <1>2, <2>1 DEF TaskSet, Again
<1>3. CASE ~(task[t].attempts < MaxAttempts)
  BY <1>1, <1>3 DEF TaskSet, Again
<1> QED
  BY <1>2, <1>3

LEMMA TaskPreserved ==
    ASSUME ProcInv, TaskInv, [Next]_vars
    PROVE  TaskInv'
<1> USE IdleExitAssumption
<1>a. ASSUME NEW t \in Tasks, NEW k \in TaskSet, task' = [task EXCEPT ![t] = k], proc' = proc,
             k.st \in {"dispatched", "running"} => k.on \in Workers,
             k.on = 0 \/ (k.on \in Workers /\ proc[k.on].st \notin {"off", "starting"})
      PROVE  TaskInv'
  BY <1>a DEF TaskInv
<1>1. ASSUME NEW t \in Tasks, Schedule(t)
      PROVE  TaskInv'
  <2>1. 1 \in 0..MaxAttempts
    OBVIOUS
  <2>2. [st |-> "queued", on |-> 0, attempts |-> 1] \in TaskSet
    BY <2>1 DEF TaskSet
  <2> QED
    BY <1>1, <1>a, <2>2 DEF Schedule
<1>2. ASSUME NEW t \in Tasks, TimedOut(t)
      PROVE  TaskInv'
  BY <1>2, <1>a, AgainOK DEF TimedOut
<1>3. ASSUME NEW t \in Tasks, Begin(t)
      PROVE  TaskInv'
  <2>1. task[t] \in TaskSet /\ task[t].on \in Workers /\ proc[task[t].on].st \notin {"off", "starting"}
    BY <1>3 DEF Begin, TaskInv
  <2>2. task' = [task EXCEPT ![t] = [task[t] EXCEPT !.st = "running"]] /\ proc' = proc
    BY <1>3 DEF Begin
  <2> QED
    BY <1>a, <2>1, <2>2 DEF TaskSet
<1>4. ASSUME NEW t \in Tasks, NEW out, End(t, out)
      PROVE  TaskInv'
  <2>1. CASE task' = [task EXCEPT ![t] = Again(t)]
    BY <1>4, <1>a, <2>1, AgainOK DEF End
  <2>2. CASE task' = [task EXCEPT ![t].st = "done", ![t].on = 0]
    <3>1. task[t] \in TaskSet
      BY DEF TaskInv
    <3>2. task' = [task EXCEPT ![t] = [task[t] EXCEPT !.st = "done", !.on = 0]] /\ proc' = proc
      BY <1>4, <2>2 DEF End, TaskInv
    <3> QED
      BY <1>a, <3>1, <3>2 DEF TaskSet
  <2> QED
    BY <1>4, <2>1, <2>2 DEF End
<1>5. ASSUME NEW t \in Tasks, NEW w \in Workers, Dispatch(t, w)
      PROVE  TaskInv'
  <2>1. task[t] \in TaskSet /\ proc[w].st = "running"
    BY <1>5 DEF Dispatch, TaskInv
  <2>2. task' = [task EXCEPT ![t] = [task[t] EXCEPT !.st = "dispatched", !.on = w]] /\ proc' = proc
    BY <1>5 DEF Dispatch, TaskInv
  <2> QED
    BY <1>a, <2>1, <2>2 DEF TaskSet
<1>6. ASSUME NEW w \in Workers, NEW p, Set(w, p), task' = task,
             p.st \in {"off", "starting"} => \A t \in Tasks : task[t].on # w
      PROVE  TaskInv'
  BY <1>6 DEF Set, TaskInv, ProcInv
<1>7. ASSUME NEW w \in Workers, Process(w) \/ RunFails(w) \/ Sigterm(w) \/ CtxCancelled(w) \/ Interrupted(w) \/ Killed(w)
      PROVE  TaskInv'
  <2>1. CASE StartFails(w) \/ RunFails(w) \/ ScrapeEnds(w) \/ Killed(w)
    BY <1>6, <2>1, StepsOfProc DEF StartFails, RunFails, ScrapeEnds, Killed
  <2>2. CASE Starts(w) \/ RunReturns(w)
    BY <1>6, <2>2, StepsOfProc DEF Starts, RunReturns
  <2>3. CASE MergeInterrupt(w) \/ IdleTrigger(w) \/ MergeEnds(w) \/ IdleCheck(w) \/ IdleEnds(w)
    BY <1>6, <2>3, StepsOfProc DEF MergeInterrupt, IdleTrigger, MergeEnds, IdleCheck, IdleEnds, TaskInv
  <2>4. CASE Sigterm(w) \/ CtxCancelled(w) \/ Interrupted(w)
    BY <1>6, <2>4, StepsOfProc DEF Sigterm, CtxCancelled, Interrupted, TaskInv
  <2>5. CASE Tick(w)
    BY <2>5 DEF Tick, TaskInv
  <2> QED
    BY <1>7, <2>1, <2>2, <2>3, <2>4, <2>5 DEF Process
<1>8. ASSUME NEW w \in Workers, Spawn(w)
      PROVE  TaskInv'
  <2>1. Set(w, [Off EXCEPT !.st = "starting"]) /\ task' = task /\ \A t \in Tasks : task[t].on # w
    BY <1>8 DEF Spawn
  <2> QED
    BY <1>6, <2>1
<1>9. CASE Rests \/ UNCHANGED vars
  BY <1>9 DEF Rests, vars, TaskInv
<1> QED
  BY <1>1, <1>2, <1>3, <1>4, <1>5, <1>7, <1>8, <1>9 DEF Next

-----------------------------------------------------------------------------
(* The tracker *)

\* No worker runs more activities than there are.
LEMMA RunningFinite ==
    ASSUME NEW w
    PROVE  /\ IsFiniteSet(Running(w)) /\ Cardinality(Running(w)) \in 0..Cardinality(Tasks)
           /\ Cardinality(Running(w)) = 0 <=> Running(w) = {}
<1>1. Running(w) \in SUBSET Tasks
  BY DEF Running
<1>2. IsFiniteSet(Running(w)) /\ Cardinality(Running(w)) <= Cardinality(Tasks)
  BY <1>1, IdleExitAssumption, FS_Subset
<1>3. Cardinality(Running(w)) \in Nat /\ Cardinality(Tasks) \in Nat
  BY <1>2, IdleExitAssumption, FS_CardinalityType
<1>4. Cardinality(Running(w)) = 0 <=> Running(w) = {}
  BY <1>2, FS_EmptySet
<1> QED
  BY <1>2, <1>3, <1>4

LEMMA CountPreserved ==
    ASSUME ProcInv, TaskInv, CountInv, [Next]_vars
    PROVE  CountInv'
<1> USE IdleExitAssumption
<1> DEFINE Up(w) == proc[w].st \in {"running", "stopped"}
<1>t. TaskInv' /\ ProcInv'
  BY TaskPreserved, ProcPreserved
<1>a. ASSUME UNCHANGED <<tracker, quiet>>,
             \A w \in Workers : proc'[w].st \in {"running", "stopped"} => Up(w) /\ Running(w)' = Running(w)
      PROVE  CountInv'
  BY <1>a DEF CountInv
<1>1. ASSUME NEW t \in Tasks, Schedule(t) \/ TimedOut(t) \/ \E w \in Workers : Dispatch(t, w)
      PROVE  CountInv'
  <2>1. \A u \in Tasks : u # t => task'[u] = task[u]
    BY <1>1 DEF Schedule, TimedOut, Dispatch, TaskInv
  <2>2. task'[t].st # "running"
    <3>1. CASE Schedule(t)
      BY <3>1 DEF Schedule, TaskInv
    <3>2. CASE TimedOut(t)
      BY <3>2, AgainOK DEF TimedOut, TaskInv
    <3>3. CASE \E w \in Workers : Dispatch(t, w)
      BY <3>3 DEF Dispatch, TaskInv, TaskSet
    <3> QED
      BY <1>1, <3>1, <3>2, <3>3
  <2>3. task[t].st = "running" => ~Alive(task[t].on)
    BY <1>1 DEF Schedule, TimedOut, Dispatch
  <2>4. UNCHANGED <<proc, tracker, quiet>>
    BY <1>1 DEF Schedule, TimedOut, Dispatch
  <2>5. \A w \in Workers : Up(w) => Running(w)' = Running(w)
    BY <2>1, <2>2, <2>3 DEF Running, Alive
  <2> QED
    BY <1>a, <2>4, <2>5
<1>2. ASSUME NEW t \in Tasks, Begin(t)
      PROVE  CountInv'
  <2>0. PICK w \in Workers : w = task[t].on
    BY <1>2 DEF Begin, TaskInv
  <2>1. /\ Up(w) /\ task[t].st = "dispatched" /\ proc' = proc
        /\ task' = [task EXCEPT ![t].st = "running"]
        /\ tracker' = [tracker EXCEPT ![w] = [inFlight |-> tracker[w].inFlight + 1, idleFor |-> 0]]
        /\ quiet' = [quiet EXCEPT ![w] = 0]
    BY <1>2, <2>0 DEF Begin, Begun, TaskInv, Alive, CountInv
  <2>2. t \notin Running(w) /\ Running(w)' = Running(w) \cup {t}
    BY <2>0, <2>1 DEF Running, TaskInv, TaskSet
  <2>3. \A v \in Workers : v # w => Running(v)' = Running(v)
    BY <2>0, <2>1 DEF Running, TaskInv, TaskSet
  <2>4. Cardinality(Running(w)') = Cardinality(Running(w)) + 1
    BY <2>2, RunningFinite, FS_AddElement
  <2>5. tracker[w].inFlight + 1 = Cardinality(Running(w)')
    BY <2>1, <2>4 DEF CountInv
  <2>6. Cardinality(Running(w)') \in 0..Cardinality(Tasks)
    <3>1. Running(w)' \in SUBSET Tasks
      BY DEF Running
    <3>2. Cardinality(Running(w)') <= Cardinality(Tasks) /\ IsFiniteSet(Running(w)')
      BY <3>1, FS_Subset
    <3> QED
      BY <3>2, FS_CardinalityType
  <2>7. tracker' \in [Workers -> [inFlight : 0..Cardinality(Tasks), idleFor : 0..Window]]
    BY <2>1, <2>5, <2>6 DEF CountInv
  <2>8. quiet' \in [Workers -> 0..Window]
    BY <2>1 DEF CountInv
  <2>9. /\ tracker'[w].inFlight = Cardinality(Running(w)') /\ tracker'[w].idleFor = 0 /\ quiet'[w] = 0
        /\ \A v \in Workers : v # w => tracker'[v] = tracker[v] /\ quiet'[v] = quiet[v]
    BY <2>1, <2>5 DEF CountInv
  <2> QED
    BY <2>1, <2>3, <2>7, <2>8, <2>9 DEF CountInv
<1>3. ASSUME NEW t \in Tasks, NEW out, End(t, out)
      PROVE  CountInv'
  <2>0. PICK w \in Workers : w = task[t].on
    BY <1>3 DEF End, TaskInv
  <2>1. /\ Up(w) /\ task[t].st = "running" /\ proc' = proc
        /\ tracker' = [tracker EXCEPT ![w] = [inFlight |-> tracker[w].inFlight - 1, idleFor |-> 0]]
        /\ quiet' = [quiet EXCEPT ![w] = 0]
    BY <1>3, <2>0 DEF End, TrackEnd, Ended, TaskInv, Alive, CountInv
  <2>2. task'[t].st # "running" /\ \A u \in Tasks : u # t => task'[u] = task[u]
    BY <1>3, AgainOK DEF End, TaskInv, TaskSet
  <2>3. t \in Running(w) /\ Running(w)' = Running(w) \ {t}
    BY <2>0, <2>1, <2>2 DEF Running
  <2>4. \A v \in Workers : v # w => Running(v)' = Running(v)
    BY <2>0, <2>2 DEF Running
  <2>5. Cardinality(Running(w)') = Cardinality(Running(w)) - 1
    <3>1. IsFiniteSet(Running(w))
      BY RunningFinite
    <3>2. Cardinality(Running(w) \ {t}) = Cardinality(Running(w)) - 1
      BY <2>3, <3>1, FS_RemoveElement
    <3> QED
      BY <2>3, <3>2
  <2>6. /\ tracker[w].inFlight - 1 = Cardinality(Running(w)')
        /\ tracker[w].inFlight - 1 \in 0..Cardinality(Tasks)
    <3>1. tracker[w].inFlight = Cardinality(Running(w))
      BY <2>1 DEF CountInv
    <3>2. Cardinality(Running(w)) \in 0..Cardinality(Tasks) /\ Cardinality(Running(w)) # 0
      BY <2>3, RunningFinite
    <3>3. Cardinality(Tasks) \in Nat
      BY FS_CardinalityType
    <3> QED
      BY <2>5, <3>1, <3>2, <3>3
  <2>7. tracker' \in [Workers -> [inFlight : 0..Cardinality(Tasks), idleFor : 0..Window]]
    BY <2>1, <2>6 DEF CountInv
  <2>8. quiet' \in [Workers -> 0..Window]
    BY <2>1 DEF CountInv
  <2>9. /\ tracker'[w].inFlight = Cardinality(Running(w)') /\ tracker'[w].idleFor = 0 /\ quiet'[w] = 0
        /\ \A v \in Workers : v # w => tracker'[v] = tracker[v] /\ quiet'[v] = quiet[v]
    BY <2>1, <2>6 DEF CountInv
  <2> QED
    BY <2>1, <2>4, <2>7, <2>8, <2>9 DEF CountInv
<1>4. ASSUME NEW w \in Workers, Tick(w)
      PROVE  CountInv'
  <2>1. /\ proc' = proc /\ \A v \in Workers : Running(v)' = Running(v)
        /\ tracker' = [tracker EXCEPT ![w].idleFor = IF @ < Window THEN @ + 1 ELSE @]
        /\ quiet' = [quiet EXCEPT ![w] = IF Running(w) = {} /\ @ < Window THEN @ + 1 ELSE @]
    BY <1>4 DEF Tick, Running
  <2>2. /\ tracker' \in [Workers -> [inFlight : 0..Cardinality(Tasks), idleFor : 0..Window]]
        /\ quiet' \in [Workers -> 0..Window]
    BY <2>1 DEF CountInv
  <2>3. /\ tracker'[w].inFlight = tracker[w].inFlight
        /\ \A v \in Workers : v # w => tracker'[v] = tracker[v] /\ quiet'[v] = quiet[v]
    BY <2>1 DEF CountInv
  <2>4. Running(w) = {} /\ tracker[w].idleFor <= quiet[w] => tracker'[w].idleFor <= quiet'[w]
    BY <2>1 DEF CountInv
  <2> QED
    BY <2>1, <2>2, <2>3, <2>4 DEF CountInv
<1>5. ASSUME NEW w \in Workers, Starts(w)
      PROVE  CountInv'
  <2>1. /\ tracker' = [tracker EXCEPT ![w] = [inFlight |-> 0, idleFor |-> 0]]
        /\ quiet' = [quiet EXCEPT ![w] = 0]
        /\ task' = task /\ \A v \in Workers : v # w => proc'[v] = proc[v]
    BY <1>5 DEF Starts, NewTracker, Set, ProcInv
  <2>2. \A v \in Workers : Running(v)' = Running(v)
    BY <2>1 DEF Running
  <2>3. Running(w) = {} /\ Cardinality(Running(w)) = 0
    <3>1. Running(w) = {}
      BY <1>5 DEF Starts, TaskInv, Running
    <3> QED
      BY <3>1, RunningFinite
  <2>4. Cardinality(Tasks) \in Nat
    BY FS_CardinalityType
  <2>5. /\ tracker' \in [Workers -> [inFlight : 0..Cardinality(Tasks), idleFor : 0..Window]]
        /\ quiet' \in [Workers -> 0..Window]
    BY <2>1, <2>4 DEF CountInv
  <2>6. /\ tracker'[w].inFlight = 0 /\ tracker'[w].idleFor = 0 /\ quiet'[w] = 0
        /\ \A v \in Workers : v # w => tracker'[v] = tracker[v] /\ quiet'[v] = quiet[v]
    BY <2>1 DEF CountInv
  <2>7. ASSUME NEW v \in Workers, proc'[v].st \in {"running", "stopped"}
        PROVE  /\ tracker'[v].inFlight = Cardinality(Running(v))
               /\ Running(v) = {} => tracker'[v].idleFor <= quiet'[v]
    <3>1. CASE v = w
      BY <2>3, <2>6, <3>1
    <3>2. CASE v # w
      BY <2>1, <2>6, <2>7, <3>2 DEF CountInv
    <3> QED
      BY <3>1, <3>2
  <2> QED
    BY <2>2, <2>5, <2>7 DEF CountInv
<1>6. ASSUME NEW w \in Workers, NEW p, Set(w, p), UNCHANGED <<task, tracker, quiet>>,
             p.st \in {"running", "stopped"} => Up(w)
      PROVE  CountInv'
  BY <1>a, <1>6 DEF Set, ProcInv, Running
<1>7. ASSUME NEW w \in Workers, StartFails(w) \/ RunFails(w) \/ ScrapeEnds(w) \/ Killed(w) \/ Spawn(w)
      PROVE  CountInv'
  BY <1>6, <1>7, StepsOfProc DEF StartFails, RunFails, ScrapeEnds, Killed, Spawn
<1>8. ASSUME NEW w \in Workers,
             \/ MergeInterrupt(w) \/ MergeEnds(w) \/ IdleCheck(w) \/ IdleTrigger(w)
             \/ IdleEnds(w) \/ Sigterm(w) \/ CtxCancelled(w) \/ Interrupted(w)
      PROVE  CountInv'
  <2>1. PICK p : Set(w, p) /\ p.st = proc[w].st
    BY <1>8, StepsOfProc
  <2>2. UNCHANGED <<task, tracker, quiet>>
    BY <1>8 DEF MergeInterrupt, MergeEnds, IdleCheck, IdleTrigger, IdleEnds, Sigterm, CtxCancelled, Interrupted
  <2> QED
    BY <1>6, <2>1, <2>2
<1>10. ASSUME NEW w \in Workers, RunReturns(w)
       PROVE  CountInv'
  BY <1>6, <1>10, StepsOfProc DEF RunReturns
<1>9. CASE Rests \/ UNCHANGED vars
  <2>1. UNCHANGED <<task, proc, tracker, quiet>>
    BY <1>9 DEF Rests, vars
  <2> QED
    BY <1>a, <2>1 DEF Running
<1> QED
  BY <1>1, <1>2, <1>3, <1>4, <1>5, <1>7, <1>8, <1>9, <1>10 DEF Next, Process

-----------------------------------------------------------------------------
(* Theorems *)

LEMMA IdleInit ==
    ASSUME Init
    PROVE  IdleInv
<1> USE IdleExitAssumption
<1>1. ProcInv
  <2>1. proc \in [Workers -> ProcSet] /\ \A w \in Workers : proc[w] = Off
    BY OffFields DEF Init
  <2>2. Off.st = "off"
    BY DEF Off
  <2>3. ProcOK(Off)
    BY <2>2, OffFields DEF ProcOK
  <2> QED
    BY <2>1, <2>3 DEF Init, ProcInv
<1>2. TaskInv
  BY DEF Init, TaskInv, TaskSet
<1>3. CountInv
  <2>1. Cardinality(Tasks) \in Nat
    BY FS_CardinalityType
  <2>2. \A w \in Workers : proc[w].st = "off"
    BY DEF Init, Off
  <2> QED
    BY <2>1, <2>2 DEF Init, CountInv, NewTracker
<1> QED
  BY <1>1, <1>2, <1>3 DEF IdleInv

LEMMA IdlePreserved == IdleInv /\ [Next]_vars => IdleInv'
BY ProcPreserved, TaskPreserved, CountPreserved DEF IdleInv

(***************************************************************************)
(* However signals, kills, failures, retries and the idle window           *)
(* interleave, the worker of cmd/worker ends with the code of what ended   *)
(* it, and one that was not signalled and did not fail ends only if an     *)
(* idle exit was installed; its idleTracker never counts below zero or     *)
(* beyond the tasks there are.                                             *)
(***************************************************************************)
THEOREM WorkersEndAsMeant == Spec => []EndsAsMeant
<1>1. Init => IdleInv
  BY IdleInit
<1>2. IdleInv => EndsAsMeant
  <2> SUFFICES ASSUME IdleInv
               PROVE  EndsAsMeant
    OBVIOUS
  <2>1. Cardinality(Tasks) \in Nat /\ Cardinality(Tasks) <= Cardinality(Tasks) * MaxAttempts
    <3>1. \A c \in Nat, m \in Nat \ {0} : c <= c * m
      OBVIOUS
    <3> QED
      BY <3>1, IdleExitAssumption, FS_CardinalityType
  <2>2. tracker \in [Workers -> [inFlight : 0..Cardinality(Tasks) * MaxAttempts, idleFor : 0..Window]]
    BY <2>1, IdleExitAssumption DEF IdleInv, CountInv
  <2>3. TypeOK
    BY <2>2 DEF IdleInv, ProcInv, TaskInv, CountInv, TypeOK, TaskSet, ProcSet
  <2>4. ExitsClean /\ StaysUp
    <3>1. ASSUME NEW w \in Workers, proc[w].st \in {"stopped", "exited"}, ~proc[w].sent
          PROVE  proc[w].cause \in {"start", "fatal"} \/ (proc[w].cause = "idle" /\ Installed)
      BY <3>1 DEF IdleInv, ProcInv, ProcOK, Over
    <3>2. ASSUME NEW w \in Workers, proc[w].st = "exited"
          PROVE  Over(proc[w].cause, proc[w].code)
      BY <3>2 DEF IdleInv, ProcInv, ProcOK
    <3>3. ExitsClean
      BY <3>2 DEF ExitsClean, Over
    <3> QED
      BY <3>1, <3>3 DEF StaysUp, Installed
  <2> QED
    BY <2>3, <2>4 DEF EndsAsMeant
<1> QED
  BY <1>1, <1>2, IdlePreserved, PTL DEF Spec

(***************************************************************************)
(* runIdleExit sees the window elapsed only when no activity is running    *)
(* and none has been for the whole window, whatever the tracker's begin    *)
(* and end calls, failures and lost attempts did before.                   *)
(***************************************************************************)
THEOREM WindowIsHonoured == Spec => WindowHonoured
<1> DEFINE Honoured == \A w \in Workers :
      proc[w].idle = "poll" /\ proc'[w].idle = "elapsed" => Running(w) = {} /\ quiet[w] >= Window
<1>1. Init => IdleInv
  BY IdleInit
<1>2. IdleInv /\ [Next]_vars => [Honoured]_vars
  <2> SUFFICES ASSUME IdleInv, [Next]_vars, NEW w \in Workers, proc[w].idle = "poll", proc'[w].idle = "elapsed"
               PROVE  Running(w) = {} /\ quiet[w] >= Window
    OBVIOUS
  <2>0. proc \in [Workers -> ProcSet] /\ proc' # proc
    BY DEF IdleInv, ProcInv
  <2>1. IdleCheck(w)
    <3>1. ASSUME NEW v \in Workers, NEW p, Set(v, p), p.idle # "elapsed" \/ v # w
          PROVE  FALSE
      BY <2>0, <3>1 DEF Set
    <3>2. \A v \in Workers : ~(StartFails(v) \/ RunFails(v) \/ ScrapeEnds(v) \/ Killed(v) \/ Spawn(v))
      BY <3>1 DEF StartFails, RunFails, ScrapeEnds, Killed, Spawn, Exit, Off
    <3>3. \A v \in Workers : ~Starts(v)
      BY <2>0, <3>1 DEF Starts, ProcSet
    <3>4. \A v \in Workers : ~(MergeInterrupt(v) \/ IdleTrigger(v))
      BY <2>0, <3>1 DEF MergeInterrupt, IdleTrigger, Trigger, ProcSet
    <3>5. \A v \in Workers : ~(MergeEnds(v) \/ RunReturns(v) \/ IdleEnds(v))
      BY <2>0, <3>1 DEF MergeEnds, RunReturns, IdleEnds, ProcSet
    <3>6. \A v \in Workers : ~(Sigterm(v) \/ CtxCancelled(v) \/ Interrupted(v))
      BY <2>0, <3>1 DEF Sigterm, CtxCancelled, Interrupted, ProcSet
    <3>7. \A v \in Workers : IdleCheck(v) => v = w
      BY <3>1 DEF IdleCheck
    <3> QED
      BY <2>0, <3>2, <3>3, <3>4, <3>5, <3>6, <3>7
         DEF Next, Process, Tick, Schedule, TimedOut, Begin, End, Dispatch, Rests, vars
  <2>2. proc[w].st \in {"running", "stopped"} /\ tracker[w].inFlight = 0 /\ tracker[w].idleFor >= Window
    BY <2>1 DEF IdleCheck, ShouldExit, IdleInv, ProcInv, ProcOK
  <2>3. Running(w) = {}
    BY <2>2, RunningFinite DEF IdleInv, CountInv
  <2> QED
    BY <2>2, <2>3, IdleExitAssumption DEF IdleInv, CountInv
<1> QED
  BY <1>1, <1>2, IdlePreserved, PTL DEF Spec, WindowHonoured
=============================================================================

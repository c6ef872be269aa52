------------------------------ MODULE IdleExit ------------------------------
(***************************************************************************)
(* A worker process (cmd/worker: main.go, idle.go): its start, the idle    *)
(* window after which a control worker drains itself, signals, and its     *)
(* end.  The Temporal server, the SDK's worker and the scaler (KEDA, or    *)
(* systemd for a data worker) are external.                                *)
(*                                                                         *)
(* Time is counted in poll intervals, and only from a worker's last start  *)
(* or end of an activity up to the idle window.  MaxFaults bounds failed   *)
(* starts, fatal errors of a running worker and failed activities,         *)
(* MaxSignals the SIGTERMs, MaxAttempts is the retry policy's bound.       *)
(***************************************************************************)
EXTENDS Integers, FiniteSets

CONSTANTS Tasks, Workers, Window, MaxAttempts, MaxFaults, MaxSignals

ASSUME IdleExitAssumption ==
    /\ IsFiniteSet(Tasks) /\ Workers # {} /\ 0 \notin Workers
    /\ {Window, MaxAttempts} \subseteq Nat \ {0}
    /\ {MaxFaults, MaxSignals} \subseteq Nat

VARIABLES
    cfg,        \* [role, idleExit]: ROLE, and whether WORKER_IDLE_EXIT_AFTER is set
    task,       \* task[t]: an activity task on the worker's queue
    proc,       \* proc[w]: a worker process
    tracker,    \* tracker[w]: its idleTracker
    quiet,      \* ghost: since when no activity ran on w, up to the window
    left        \* the failures and signals still to come

vars == <<cfg, task, proc, tracker, quiet, left>>

Configs == [role : {"control", "data"}, idleExit : BOOLEAN]

Off == [st |-> "off", ctx |-> FALSE, sent |-> FALSE, ch |-> FALSE, merge |-> FALSE, idle |-> "none",
        drain |-> FALSE, cause |-> "none", code |-> 0]
NewTracker == [inFlight |-> 0, idleFor |-> 0]

Init ==
    /\ cfg \in Configs
    /\ task = [t \in Tasks |-> [st |-> "none", on |-> 0, attempts |-> 0]]
    /\ proc = [w \in Workers |-> Off] /\ tracker = [w \in Workers |-> NewTracker]
    /\ quiet = [w \in Workers |-> 0] /\ left = [faults |-> MaxFaults, signals |-> MaxSignals]

Fault == left.faults > 0 /\ left' = [left EXCEPT !.faults = @ - 1]
Set(w, p) == proc' = [proc EXCEPT ![w] = p]
\* The process ends; that it was sent a signal is remembered.
Exit(w, cause, code) ==
    Set(w, [Off EXCEPT !.st = "exited", !.sent = proc[w].sent, !.cause = cause, !.code = code])
SigkillCode == 137
Alive(w) == proc[w].st \in {"starting", "running", "stopped"}
Queued == {t \in Tasks : task[t].st = "queued"}
Running(w) == {t \in Tasks : task[t].on = w /\ task[t].st = "running"}

\* installIdleExit: for the control role, and only when the window is set.
Installed == cfg.idleExit /\ cfg.role = "control"

-----------------------------------------------------------------------------
(* The server and the scaler *)

Schedule(t) ==
    /\ task[t].st = "none" /\ task' = [task EXCEPT ![t] = [st |-> "queued", on |-> 0, attempts |-> 1]]
    /\ UNCHANGED <<cfg, proc, tracker, quiet, left>>

\* A backlog spawns a worker that exits when idle; any other is always there.
\* A name is used again once no attempt is left on it.
Spawn(w) ==
    /\ ~Alive(w) /\ \A t \in Tasks : task[t].on # w
    /\ IF Installed THEN Queued # {} ELSE \A v \in Workers : ~Alive(v)
    /\ Set(w, [Off EXCEPT !.st = "starting"])
    /\ UNCHANGED <<cfg, task, tracker, quiet, left>>

\* A task is handed to a worker that polls.
Dispatch(t, w) ==
    /\ task[t].st = "queued" /\ proc[w].st = "running"
    /\ task' = [task EXCEPT ![t].st = "dispatched", ![t].on = w]
    /\ UNCHANGED <<cfg, proc, tracker, quiet, left>>

Again(t) ==
    IF task[t].attempts < MaxAttempts
    THEN [st |-> "queued", on |-> 0, attempts |-> task[t].attempts + 1]
    ELSE [task[t] EXCEPT !.st = "failed", !.on = 0]

\* An attempt whose worker is gone times out.
TimedOut(t) ==
    /\ task[t].st \in {"dispatched", "running"} /\ ~Alive(task[t].on)
    /\ task' = [task EXCEPT ![t] = Again(t)]
    /\ UNCHANGED <<cfg, proc, tracker, quiet, left>>

Sigterm(w) ==
    /\ Alive(w) /\ left.signals > 0 /\ left' = [left EXCEPT !.signals = @ - 1]
    /\ ~proc[w].sent /\ Set(w, [proc[w] EXCEPT !.sent = TRUE])
    /\ UNCHANGED <<cfg, task, tracker, quiet>>

\* The two handlers of a signal: one cancels the context, the other yields on
\* the interrupt channel.
CtxCancelled(w) ==
    /\ proc[w].sent /\ ~proc[w].ctx /\ Alive(w) /\ Set(w, [proc[w] EXCEPT !.ctx = TRUE])
    /\ UNCHANGED <<cfg, task, tracker, quiet, left>>
Interrupted(w) ==
    /\ proc[w].sent /\ ~proc[w].ch /\ Alive(w) /\ Set(w, [proc[w] EXCEPT !.ch = TRUE])
    /\ UNCHANGED <<cfg, task, tracker, quiet, left>>

\* A pod that outlives its grace period is killed.
Killed(w) ==
    /\ Alive(w) /\ proc[w].sent /\ Exit(w, "killed", SigkillCode)
    /\ UNCHANGED <<cfg, task, tracker, quiet, left>>

-----------------------------------------------------------------------------
(* run *)

\* A signal while it connects is an orderly stop.  A configuration, metrics, probes or
\* idle exit that cannot be set up is not, signal or no signal, and neither is a
\* connection that fails without one.
StartFails(w) ==
    /\ proc[w].st = "starting"
    /\ \/ proc[w].ctx /\ Exit(w, "signal", 0) /\ UNCHANGED left
       \/ Fault /\ Exit(w, "start", 1)
    /\ UNCHANGED <<cfg, task, tracker, quiet>>

Starts(w) ==
    /\ proc[w].st = "starting"
    /\ Set(w, [proc[w] EXCEPT !.st = "running", !.merge = Installed, !.idle = IF Installed THEN "poll" ELSE "none"])
    /\ tracker' = [tracker EXCEPT ![w] = NewTracker] /\ quiet' = [quiet EXCEPT ![w] = 0]
    /\ UNCHANGED <<cfg, task, left>>

\* Mutant: the drain channel is closed without the once.
MutTrigger(w, p, cause) ==
    IF p.drain THEN [Off EXCEPT !.st = "exited", !.cause = "panic", !.code = 2] ELSE [p EXCEPT !.drain = TRUE, !.cause = cause]
\* trigger: the first one closes the drain channel.
Trigger(w, p, cause) == IF p.drain THEN p ELSE [p EXCEPT !.drain = TRUE, !.cause = cause]

\* The merging goroutine: the interrupt closes the drain channel, a cancelled
\* context only ends the goroutine.
MergeInterrupt(w) ==
    /\ Alive(w) /\ proc[w].merge /\ proc[w].ch
    /\ Set(w, Trigger(w, [proc[w] EXCEPT !.merge = FALSE], "signal"))
    /\ UNCHANGED <<cfg, task, tracker, quiet, left>>
MergeEnds(w) ==
    /\ Alive(w) /\ proc[w].merge /\ proc[w].ctx /\ Set(w, [proc[w] EXCEPT !.merge = FALSE])
    /\ UNCHANGED <<cfg, task, tracker, quiet, left>>

\* The channel Run blocks on: interruptCh, or the drain channel.
Stops(w) == IF Installed THEN proc[w].drain ELSE proc[w].ch

\* worker.Run returns: the SDK stops polling, and waits for running activities
\* no longer than WorkerStopTimeout, which is not set.
RunReturns(w) ==
    /\ proc[w].st = "running" /\ Stops(w)
    /\ Set(w, [proc[w] EXCEPT !.st = "stopped", !.cause = IF Installed THEN @ ELSE "signal"])
    /\ UNCHANGED <<cfg, task, tracker, quiet, left>>

\* worker.Run returns an error, as it starts or on a fatal one of the SDK: the process
\* ends at once, with whatever runs on it, and without a last scrape.
RunFails(w) ==
    /\ proc[w].st = "running" /\ Fault /\ Exit(w, "fatal", 1)
    /\ UNCHANGED <<cfg, task, tracker, quiet>>

\* Mutant: the wait for a last scrape, which nobody may make, has no timeout.
MutScrapeEnds(w) == proc[w].st = "stopped" /\ UNCHANGED vars
\* After a last scrape, or a timeout, the process ends.
ScrapeEnds(w) == proc[w].st = "stopped" /\ Exit(w, proc[w].cause, 0) /\ UNCHANGED <<cfg, task, tracker, quiet, left>>

-----------------------------------------------------------------------------
(* The idle tracker *)

\* begin.
Begun(k) == [inFlight |-> k.inFlight + 1, idleFor |-> 0]

\* Mutant: the countdown goes on from the start of the activity.
MutEnded(k) == [k EXCEPT !.inFlight = @ - 1]
\* end.
Ended(k) == [inFlight |-> k.inFlight - 1, idleFor |-> 0]

Begin(t) ==
    LET w == task[t].on IN
    /\ task[t].st = "dispatched" /\ Alive(w) /\ task' = [task EXCEPT ![t].st = "running"]
    /\ tracker' = [tracker EXCEPT ![w] = Begun(@)] /\ quiet' = [quiet EXCEPT ![w] = 0]
    /\ UNCHANGED <<cfg, proc, left>>

\* ExecuteActivity: end is deferred.
TrackEnd(k, out) == Ended(k)

End(t, out) ==
    LET w == task[t].on IN
    /\ task[t].st = "running" /\ Alive(w)
    /\ \/ out = "ok" /\ UNCHANGED left /\ task' = [task EXCEPT ![t].st = "done", ![t].on = 0]
       \/ out = "error" /\ Fault /\ task' = [task EXCEPT ![t] = Again(t)]
    /\ tracker' = [tracker EXCEPT ![w] = TrackEnd(@, out)] /\ quiet' = [quiet EXCEPT ![w] = 0]
    /\ UNCHANGED <<cfg, proc>>

\* A poll interval goes by.
Tick(w) ==
    /\ proc[w].st = "running" /\ proc[w].idle = "poll" /\ (tracker[w].idleFor < Window \/ quiet[w] < Window)
    /\ tracker' = [tracker EXCEPT ![w].idleFor = IF @ < Window THEN @ + 1 ELSE @]
    /\ quiet' = [quiet EXCEPT ![w] = IF Running(w) = {} /\ @ < Window THEN @ + 1 ELSE @]
    /\ UNCHANGED <<cfg, task, proc, left>>

\* state, shouldExit: while an activity is in flight the idle time is zero.
ShouldExit(k) == k.inFlight = 0 /\ k.idleFor >= Window

\* runIdleExit reads the tracker, and then acts on what it read.
IdleCheck(w) ==
    /\ Alive(w) /\ proc[w].idle = "poll" /\ ShouldExit(tracker[w])
    /\ Set(w, [proc[w] EXCEPT !.idle = "elapsed"])
    /\ UNCHANGED <<cfg, task, tracker, quiet, left>>
IdleTrigger(w) ==
    /\ Alive(w) /\ proc[w].idle = "elapsed" /\ Set(w, Trigger(w, [proc[w] EXCEPT !.idle = "none"], "idle"))
    /\ UNCHANGED <<cfg, task, tracker, quiet, left>>
IdleEnds(w) ==
    /\ Alive(w) /\ proc[w].idle = "poll" /\ proc[w].ctx /\ Set(w, [proc[w] EXCEPT !.idle = "none"])
    /\ UNCHANGED <<cfg, task, tracker, quiet, left>>
-----------------------------------------------------------------------------

Process(w) ==
    \/ StartFails(w) \/ Starts(w) \/ MergeInterrupt(w) \/ MergeEnds(w) \/ RunReturns(w) \/ ScrapeEnds(w)
    \/ Tick(w) \/ IdleCheck(w) \/ IdleTrigger(w) \/ IdleEnds(w)

\* Every task is over and every worker that exits on its own has.
Rests == (\A t \in Tasks : task[t].st \in {"none", "done", "failed"}) /\ UNCHANGED vars

Next ==
    \/ \E w \in Workers : Process(w) \/ Spawn(w) \/ Sigterm(w) \/ CtxCancelled(w) \/ Interrupted(w) \/ Killed(w)
                          \/ RunFails(w)
    \/ \E t \in Tasks : Schedule(t) \/ TimedOut(t) \/ Begin(t) \/ End(t, "ok") \/ End(t, "error")
    \/ \E t \in Tasks, w \in Workers : Dispatch(t, w)
    \/ Rests

\* Signals that were sent are handled, time goes by, goroutines that can go on
\* do, activities end, and the server and the scaler do their part; nobody has
\* to send a signal, to kill or to schedule, and nothing has to fail.  A select between two channels
\* that stay ready may always pick the same one.
Spec ==
    /\ Init /\ [][Next]_vars
    /\ \A w \in Workers :
          /\ WF_vars(Process(w)) /\ WF_vars(CtxCancelled(w)) /\ WF_vars(Interrupted(w)) /\ WF_vars(Spawn(w))
          /\ WF_vars(RunReturns(w))
    /\ \A t \in Tasks :
          /\ WF_vars(TimedOut(t)) /\ WF_vars(Begin(t)) /\ WF_vars(End(t, "ok"))
          /\ SF_vars(\E w \in Workers : Dispatch(t, w))

-----------------------------------------------------------------------------
(* Properties *)

\* Every variable has its type; no activity ends that was not in flight.
TypeOK ==
    /\ cfg \in Configs
    /\ task \in [Tasks -> [st : {"none", "queued", "dispatched", "running", "done", "failed"}, on : Workers \cup {0},
                           attempts : 0..MaxAttempts]]
    /\ proc \in [Workers -> [st : {"off", "starting", "running", "stopped", "exited"}, ctx : BOOLEAN, sent : BOOLEAN,
                             ch : BOOLEAN, merge : BOOLEAN, idle : {"none", "poll", "elapsed"}, drain : BOOLEAN,
                             cause : {"none", "signal", "start", "idle", "killed", "fatal", "panic"},
                             code : {0, 1, 2, SigkillCode}]]
    /\ tracker \in [Workers -> [inFlight : 0..Cardinality(Tasks) * MaxAttempts, idleFor : 0..Window]]
    /\ quiet \in [Workers -> 0..Window] /\ left \in [faults : 0..MaxFaults, signals : 0..MaxSignals]

\* A process that leaves on a signal or as its window ends leaves with code 0, in
\* whatever order the two come and close the drain channel; only a failed start, an
\* error of worker.Run and a kill leave another code.
ExitsClean ==
    \A w \in Workers : proc[w].st = "exited" =>
       \/ proc[w].cause \in {"signal", "idle"} /\ proc[w].code = 0
       \/ proc[w].cause \in {"start", "fatal"} /\ proc[w].code = 1
       \/ proc[w].cause = "killed" /\ proc[w].code = SigkillCode

\* A worker that nobody signalled leaves only because it failed, or because it is a
\* control worker with a window: one of the data role never leaves as its drives are idle.
StaysUp ==
    \A w \in Workers : proc[w].st \in {"stopped", "exited"} /\ ~proc[w].sent =>
       proc[w].cause \in {"start", "fatal"} \/ (proc[w].cause = "idle" /\ cfg.role = "control" /\ cfg.idleExit)

\* The window has elapsed only when no activity was running, and none had been
\* for the whole window: a long activity does not force an exit as it returns.
WindowHonoured ==
    [][\A w \in Workers :
         proc[w].idle = "poll" /\ proc'[w].idle = "elapsed" => Running(w) = {} /\ quiet[w] >= Window]_vars

\* A task that a worker is handed as it drains is not forgotten: every task
\* scheduled is done in the end, or out of attempts.
NoneForgotten == \A t \in Tasks : (task[t].st = "queued") ~> (task[t].st \in {"done", "failed"})

\* Without signals, workers that exit when idle are all gone in the end: also
\* one that never ran a task, and one whose activities fail.
ScalesToZero ==
    (Installed /\ [](\A w \in Workers : ~proc[w].sent)) => <>[](\A w \in Workers : ~Alive(w))

\* Where there is no idle exit, a signal stops the process, starting or running.
PlainStops ==
    \A w \in Workers :
       (~(cfg.role = "control" /\ cfg.idleExit) /\ Alive(w) /\ proc[w].sent) ~> ~Alive(w)

\* A worker ends when it should, with the code that says so, in whatever order a
\* signal, the idle window and a failure come.
EndsAsMeant == TypeOK /\ ExitsClean /\ StaysUp

\* Workers follow the work: no task is forgotten, no worker stays without one or
\* against a signal.
WorkersFollow == NoneForgotten /\ ScalesToZero /\ PlainStops
=============================================================================

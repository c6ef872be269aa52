---------------------------- MODULE RunTimeline ----------------------------
(***************************************************************************)
(* What the runs API derives from a run's workflow history (pkg/runsapi:   *)
(* history.go, derive.go, phases.go, tapes.go, waiting.go, facts.go).      *)
(*                                                                         *)
(* A history is [acts, closed, succeeded, message]: the activities in the  *)
(* order they were scheduled, each [name, phase, tape, out, station], and  *)
(* how the execution closed.  phase is what the input of an alert names,   *)
(* tape the barcode in the input of a write activity (and in the result of *)
(* a Load), station what an Eject reports to be in the I/O station.        *)
(***************************************************************************)
EXTENDS Integers, Sequences, FiniteSets, SequencesExt, FiniteSetsExt

PhaseOrder == <<"Resolve", "Prepare", "Pack", "GeneratePAR2", "Verify", "Load", "Write", "Eject",
                "Report", "Burn", "Deliver">>
Index == [p \in ToSet(PhaseOrder) |-> CHOOSE i \in DOMAIN PhaseOrder : PhaseOrder[i] = p]
PhaseIndex(p) == IF p \in DOMAIN Index THEN Index[p] ELSE 0

\* PauseWriteFailure, PauseEject, PauseBurn; a pause is its kind and its phase.
Pauses == {<<"write", "Load">>, <<"write", "Write">>, <<"eject", "">>, <<"burn", "">>}
NoPause == <<"none", "">>

\* applyHistoryEvent: a scheduled activity is a record of its own; its end is
\* written into the record of that scheduling.
Scheduled(h, a) == [h EXCEPT !.acts = Append(@, a)]
Ended(h, out, station) ==
    LET last == [Last(h.acts) EXCEPT !.out = out, !.station = station] IN [h EXCEPT !.acts = [@ EXCEPT ![Len(h.acts)] = last]]
Closing(h, ok, message) == [h EXCEPT !.closed = TRUE, !.succeeded = ok, !.message = message]

\* phaseForActivity; "" for the cleanup activities and the failure alert.
PhaseForActivity(a) ==
    CASE a.name \in {"ResolveAndCheck", "CreateRunSnapshots", "HoldSnapshots"} -> "Resolve"
      [] a.name = "PrepareArchives" -> "Prepare"
      [] a.name = "Load" -> "Load"
      [] a.name \in {"FormatTape", "WriteTree", "FinalizeTape"} -> "Write"
      [] a.name \in {"Eject", "NotifyOperatorPause"} -> "Eject"
      [] a.name \in {"BurnDisc", "NotifyBurnPause"} -> "Burn"
      [] a.name = "Deliver" -> "Deliver"
      [] a.name = "NotifyWritePathPause" -> IF a.phase = "Load" THEN "Load" ELSE "Write"
      [] OTHER -> ""

-----------------------------------------------------------------------------
(* Pauses *)

\* pauseFromAlert: what an alert's input says of the pause.
Alert(a) ==
    CASE a.name = "NotifyWritePathPause" -> <<"write", a.phase>>
      [] a.name = "NotifyOperatorPause"  -> <<"eject", "">>
      [] a.name = "NotifyBurnPause"      -> <<"burn", "">>
      [] OTHER -> NoPause

\* derivePause: an open run whose last activity is a pause alert is paused.
DerivePause(h) == IF h.closed \/ h.acts = <<>> THEN NoPause ELSE Alert(Last(h.acts))

-----------------------------------------------------------------------------
(* The phase timeline *)

\* normalizeFailingPhase.
NormalizeFailingPhase(p) == IF p \in {"Snapshot", "Hold"} THEN "Resolve" ELSE p

\* populateFailingPhase: from the failure alert, else from the message of a
\* failed execution, which starts with the phase.
FailingPhase(h) ==
    LET alerts == {i \in DOMAIN h.acts : h.acts[i].name = "NotifyFailure"} IN
    IF alerts # {} THEN NormalizeFailingPhase(h.acts[Min(alerts)].phase)
    ELSE IF h.closed /\ ~h.succeeded THEN NormalizeFailingPhase(h.message) ELSE ""

\* The phase of the activity scheduled last that belongs to one; 0 for none.
LatestPhase(h) ==
    LET last == SelectLastInSeq(h.acts, LAMBDA a : PhaseForActivity(a) # "")
    IN  IF last = 0 THEN 0 ELSE PhaseIndex(PhaseForActivity(h.acts[last]))

\* Mutant: a run is as far as the furthest phase it has reached.
MutFrontier(h) ==
    IF h.succeeded THEN Len(PhaseOrder) + 1
    ELSE Max({PhaseIndex(PhaseForActivity(h.acts[i])) : i \in DOMAIN h.acts})
\* timelineFrontier: how far the run has come.
Frontier(h) ==
    IF h.succeeded THEN Len(PhaseOrder) + 1
    ELSE IF h.closed /\ PhaseIndex(FailingPhase(h)) > 0 THEN PhaseIndex(FailingPhase(h))
    ELSE LatestPhase(h)

\* buildPhaseTimeline: each phase's status; all before the frontier are completed.
Timeline(h) ==
    LET f == Frontier(h)
        held(i) == \E k \in DOMAIN h.acts : PhaseForActivity(h.acts[k]) = PhaseOrder[i]
        paused == DerivePause(h) # NoPause
    IN  [i \in DOMAIN PhaseOrder |->
           CASE h.closed /\ ~h.succeeded /\ i = f -> "failed"
             [] i < f -> "completed"
             [] ~h.closed /\ (i = f \/ (held(i) /\ ~paused)) -> "active"
             [] OTHER -> "pending"]

\* deriveLastCompletedPhase: the last completed phase of the timeline.
LastCompletedPhase(h) == LET f == Frontier(h) IN IF f <= 1 THEN "" ELSE PhaseOrder[f - 1]

\* waitingByPhase: phases with an activity that the history has as open and the
\* server as not picked up; pending is what the server says, read later.
WaitingByPhase(h, pending) ==
    {PhaseForActivity(h.acts[i]) : i \in {j \in DOMAIN h.acts : h.acts[j].out = "open" /\ j \in pending}} \ {""}

\* annotateWaiting: active phases of an open run only.
Waiting(h, pending) ==
    IF h.closed THEN {}
    ELSE {p \in WaitingByPhase(h, pending) : Timeline(h)[PhaseIndex(p)] = "active"}

-----------------------------------------------------------------------------
(* Tapes *)

\* activityByBarcode: how a tape's activity of a name ended.
ActivityFor(h, name, t) ==
    LET at == {i \in DOMAIN h.acts : h.acts[i].name = name /\ h.acts[i].tape = t}
    IN  IF at = {} THEN "absent" ELSE h.acts[Min(at)].out

\* deriveTapeOutcomes: one for each barcode a completed Load reports.
LoadedTapes(h) ==
    {h.acts[i].tape : i \in {j \in DOMAIN h.acts : h.acts[j].name = "Load" /\ h.acts[j].out = "done"}}

\* tapeOutcomeFor.
TapeOutcome(h, t) ==
    IF \E n \in {"FormatTape", "WriteTree", "FinalizeTape"} : ActivityFor(h, n, t) = "failed" THEN "failed"
    ELSE IF ActivityFor(h, "FinalizeTape", t) = "done" THEN "written" ELSE "loaded"

\* writeFacts.
TapesWritten(h) == Cardinality({t \in LoadedTapes(h) : TapeOutcome(h, t) = "written"})

\* ejectFacts: what the last completed Eject found in the I/O station.
TapesExported(h) ==
    LET ejects == {i \in DOMAIN h.acts : h.acts[i].name = "Eject" /\ h.acts[i].out = "done"}
    IN  IF ejects = {} THEN 0 ELSE Cardinality(h.acts[Max(ejects)].station)
=============================================================================

----------------------------- MODULE RunEvents -----------------------------
(***************************************************************************)
(* Watching a run (pkg/runsapi: events.go, runsapi.go).  The workflow      *)
(* leaves its history; the API reads it, and asks the workflow itself      *)
(* while a control worker is there to answer.  Event streams on one run    *)
(* share a poll loop that the first starts and the last stops.             *)
(*                                                                         *)
(* Every remote call is a step of its own, so that the run moves on        *)
(* between the calls of one fetch.  A scenario is where the run starts,    *)
(* how many streams watch it, how many drive sets it has, and a bound on   *)
(* failed activities and failed calls; MaxTapes bounds the tapes tried,    *)
(* MaxPolls the poll loops.                                                *)
(***************************************************************************)
EXTENDS RunTimeline

CONSTANTS
    Scenarios,   \* [acts, completed, streams, sets, faults]; faults of "run" and "calls"
    MaxStreams, MaxTapes, MaxPolls

\* The activities of a run, the values of failingPhase, and what a history says of
\* one activity.
Names == {"ResolveAndCheck", "CreateRunSnapshots", "HoldSnapshots", "PrepareArchives", "Load", "FormatTape", "WriteTree",
          "FinalizeTape", "Eject", "BurnDisc", "Deliver", "NotifyWritePathPause", "NotifyOperatorPause", "NotifyBurnPause",
          "NotifyFailure", "ReleaseSnapshots"}
Phases == {"", "Resolve", "Snapshot", "Hold", "Prepare", "Load", "Write", "Eject", "Burn", "Deliver"}
Activities ==
    [name : Names, phase : Phases, tape : 0..MaxTapes, out : {"open", "done", "failed"}, station : SUBSET (1..MaxTapes)]

\* A scenario starts in a phase, with no tape tried and no failure alerted.
ASSUME RunEventsAssumption ==
    /\ MaxStreams \in Nat /\ {MaxTapes, MaxPolls} \subseteq Nat \ {0}
    /\ \A s \in Scenarios :
          /\ s.acts \in Seq(Activities) \ {<<>>} /\ PhaseForActivity(Last(s.acts)) # ""
          /\ \A i \in DOMAIN s.acts :
                s.acts[i].name \notin {"Load", "FormatTape", "WriteTree", "FinalizeTape", "Eject",
                                   "NotifyWritePathPause", "NotifyFailure"}
          /\ s.streams \in 0..MaxStreams /\ s.sets \in Nat \ {0} /\ s.faults \in [{"run", "calls"} -> Nat]

NoDetail == [status |-> "none", phase |-> "none", pause |-> NoPause]
Unknown == <<"unknown", "">>
NoFetch == [status |-> "unread", phase |-> "unread", pause |-> Unknown, tried |-> FALSE]
NoHistory == [acts |-> <<>>, closed |-> FALSE, succeeded |-> FALSE, message |-> ""]

VARIABLES
    scenario,
    h,            \* the history
    failing,      \* failingPhase: where the workflow is
    exiting,      \* none, ok, error: the deferred functions run
    set, tape,    \* the drive set and the tape being tried
    station,      \* the tapes in the I/O station
    completed,    \* lastCompletedPhase, for the query
    pause,        \* currentPause, for the query
    picked,       \* a worker has the last activity
    worker,       \* a control worker is polling
    truth,        \* ghost: what became of each tape
    conn,         \* conn[c]: an event stream
    poll,         \* poll[g]: a poll loop
    current,      \* the poll loop in the broker's map, 0 for none
    drained,
    view,         \* a request for the timeline, between its two calls
    faults        \* the failures still to come

run == <<h, failing, exiting, set, tape, station, completed, pause, picked, truth>>
api == <<conn, poll, current, drained, view>>
vars == <<scenario, run, worker, api, faults>>

Conns == 1..MaxStreams
Polls == 1..MaxPolls
Fault(what) == faults[what] > 0 /\ faults' = [faults EXCEPT ![what] = @ - 1]

Activity(name, phase, t) == [name |-> name, phase |-> phase, tape |-> t, out |-> "open", station |-> {}]

Init ==
    /\ scenario \in Scenarios
    /\ h = [NoHistory EXCEPT !.acts = scenario.acts]
    /\ failing = PhaseForActivity(Last(scenario.acts)) /\ exiting = "none" /\ set = 1 /\ tape = 1
    /\ station = {} /\ completed = scenario.completed /\ pause = NoPause /\ picked = FALSE /\ worker = TRUE
    /\ truth = [written |-> {}, failed |-> {}, exported |-> {}]
    /\ conn = [c \in Conns |-> [st |-> "off", f |-> NoFetch, shown |-> NoDetail, poll |-> 0, box |-> NoDetail, done |-> FALSE]]
    /\ poll = [g \in Polls |-> [st |-> "none", stopped |-> FALSE, subs |-> {}, terminal |-> NoDetail, f |-> NoFetch]]
    /\ current = 0 /\ drained = FALSE /\ view = [st |-> "off", h |-> NoHistory, waiting |-> {}] /\ faults = scenario.faults

-----------------------------------------------------------------------------
(* The workflow *)

L == Last(h.acts)

\* The views do not tell when an activity of no phase is picked up.
Goes(name, phase, t) ==
    LET a == Activity(name, phase, t) IN
    h' = Scheduled(h, a) /\ picked' = (PhaseForActivity(a) = "") /\ UNCHANGED <<station, truth>>

\* The deferred functions: release (once Resolve is over), then the alert.
Exit(how) ==
    /\ exiting' = how /\ UNCHANGED <<set, tape, completed>>
    /\ IF how = "error" /\ PhaseForActivity(h.acts[1]) = "Resolve" /\ Len(h.acts) = 1
       THEN Goes("NotifyFailure", failing, 0) ELSE Goes("ReleaseSnapshots", "", 0)

\* An activity is picked up, and ends.
PickUp ==
    /\ L.out = "open" /\ ~picked /\ ~h.closed /\ picked' = TRUE
    /\ UNCHANGED <<h, failing, exiting, set, tape, station, completed, pause, truth, worker, api, scenario, faults>>

Finish(out) ==
    /\ L.out = "open" /\ picked /\ ~h.closed
    /\ out = "failed" => Fault("run")
    /\ out = "done" => UNCHANGED faults
    /\ LET now == IF L.name = "Eject" /\ out = "done" THEN station \cup {L.tape} ELSE station IN
       /\ h' = Ended(h, out, now) /\ station' = now
       /\ truth' = [truth EXCEPT
             !.written = IF L.name = "FinalizeTape" /\ out = "done" THEN @ \cup {L.tape} ELSE @,
             !.failed = IF L.name \in {"FormatTape", "WriteTree", "FinalizeTape"} /\ out = "failed" THEN @ \cup {L.tape} ELSE @,
             !.exported = IF L.name = "Eject" /\ out = "done" THEN @ \cup {L.tape} ELSE @]
    /\ UNCHANGED <<failing, exiting, set, tape, completed, pause, picked, worker, api, scenario>>

Step(name) == L.name = name /\ exiting = "none" /\ UNCHANGED <<exiting, pause>>
Alerts(name, phase) == Goes(name, phase, 0) /\ UNCHANGED <<failing, set, tape, completed>>

\* The workflow takes its next step when an activity has ended.
Resolved ==
    /\ Step("ResolveAndCheck") /\ L.out = "done" /\ completed' = "Resolve" /\ failing' = "Snapshot"
    /\ Goes("CreateRunSnapshots", "", 0) /\ UNCHANGED <<set, tape>>
Snapped ==
    /\ Step("CreateRunSnapshots") /\ L.out = "done" /\ failing' = "Hold" /\ Goes("HoldSnapshots", "", 0)
    /\ UNCHANGED <<set, tape, completed>>
Held ==
    /\ Step("HoldSnapshots") /\ L.out = "done" /\ failing' = "Prepare" /\ Goes("PrepareArchives", "", 0)
    /\ UNCHANGED <<set, tape, completed>>
Prepared ==
    /\ Step("PrepareArchives") /\ L.out = "done" /\ failing' = "Load" /\ completed' = "Verify"
    /\ Goes("Load", "", tape) /\ UNCHANGED <<set, tape>>
LoadEnds ==
    /\ Step("Load")
    /\ \/ /\ L.out = "done" /\ completed' = "Load" /\ failing' = "Write"
          /\ Goes("FormatTape", "", tape) /\ UNCHANGED <<set, tape>>
       \/ L.out = "failed" /\ Alerts("NotifyWritePathPause", "Load")
WriteEnds ==
    /\ exiting = "none" /\ L.name \in {"FormatTape", "WriteTree", "FinalizeTape"} /\ UNCHANGED <<exiting, pause>>
    /\ IF L.out = "done" /\ L.name # "FinalizeTape"
       THEN Goes(IF L.name = "FormatTape" THEN "WriteTree" ELSE "FinalizeTape", "", tape) /\ UNCHANGED failing
       ELSE Goes("Eject", "", tape) /\ failing' = "Eject"
    /\ UNCHANGED <<set, tape, completed>>

\* One set's Eject has ended: the station was full, or the set is done, or its
\* tape had failed.
EjectEnds ==
    /\ Step("Eject") /\ L.out = "done"
    /\ \/ /\ tape \notin truth.failed /\ completed' = "Eject"
          /\ IF set < scenario.sets
             THEN /\ set' = set + 1 /\ tape' = tape + 1 /\ tape < MaxTapes /\ failing' = "Load"
                  /\ Goes("Load", "", tape + 1)
             ELSE failing' = "Burn" /\ Goes("BurnDisc", "", 0) /\ UNCHANGED <<set, tape>>
       \/ /\ tape \in truth.failed /\ failing' = "Write" /\ Goes("NotifyWritePathPause", "Write", 0)
          /\ UNCHANGED <<set, tape, completed>>

StationFull ==
    /\ Step("Eject") /\ L.out = "open" /\ picked /\ station # {} /\ failing' = failing
    /\ h' = Scheduled(Ended(h, "done", station), Activity("NotifyOperatorPause", "", 0))
    /\ picked' = FALSE /\ UNCHANGED <<station, truth, set, tape, completed>>

BurnEnds ==
    /\ Step("BurnDisc")
    /\ \/ /\ L.out = "done" /\ failing' = "Deliver" /\ completed' = "Burn" /\ Goes("Deliver", "", 0)
          /\ UNCHANGED <<set, tape>>
       \/ L.out = "failed" /\ Alerts("NotifyBurnPause", "")

Fails ==
    /\ exiting = "none" /\ L.out = "failed" /\ UNCHANGED <<failing, pause>>
    /\ L.name \in {"ResolveAndCheck", "CreateRunSnapshots", "HoldSnapshots", "PrepareArchives", "Eject", "Deliver"}
    /\ Exit("error")

Delivered == L.name = "Deliver" /\ exiting = "none" /\ L.out = "done" /\ Exit("ok") /\ UNCHANGED <<failing, pause>>

\* The alert has been sent, or could not be: the run is paused.
Paused ==
    /\ exiting = "none" /\ Alert(L) # NoPause /\ pause = NoPause /\ pause' = Alert(L)
    /\ UNCHANGED <<h, failing, exiting, set, tape, station, completed, picked, truth>>

\* releaseSnapshots, then notifyFailure, then the execution closes.
Released ==
    /\ exiting # "none" /\ UNCHANGED <<failing, exiting, set, tape, completed, pause>>
    /\ IF L.name = "ReleaseSnapshots" /\ exiting = "error" THEN Goes("NotifyFailure", failing, 0)
       ELSE /\ h' = Closing(h, exiting = "ok", IF exiting = "ok" THEN "" ELSE failing)
            /\ UNCHANGED <<station, picked, truth>>

Decides ==
    /\ ~h.closed /\ worker /\ UNCHANGED <<scenario, worker, api, faults>>
    /\ \/ L.out # "open"
          /\ (Resolved \/ Snapped \/ Held \/ Prepared \/ LoadEnds \/ WriteEnds \/ EjectEnds \/ BurnEnds
              \/ Fails \/ Delivered \/ Paused \/ Released)
       \/ StationFull

\* The operator resumes a pause, or it ends in a failure (abort, or timeout).
Resume ==
    /\ pause # NoPause /\ ~h.closed /\ pause' = NoPause /\ worker' = TRUE
    /\ \/ /\ pause[1] = "write" /\ tape < MaxTapes /\ tape' = tape + 1 /\ failing' = "Load"
          /\ Goes("Load", "", tape + 1)
       \/ /\ pause[1] = "eject" /\ station' = {} /\ tape' = tape /\ failing' = failing
          /\ h' = Scheduled(h, Activity("Eject", "", tape)) /\ picked' = FALSE /\ UNCHANGED truth
       \/ pause[1] = "burn" /\ Goes("BurnDisc", "", 0) /\ UNCHANGED <<failing, tape>>
    /\ UNCHANGED <<scenario, exiting, set, completed, api, faults>>

GivenUp ==
    /\ pause # NoPause /\ ~h.closed /\ pause' = NoPause /\ worker' = TRUE /\ Exit("error")
    /\ UNCHANGED <<scenario, failing, api, faults>>

\* The run is cancelled while an activity is open, or terminated.
Cancelled ==
    /\ ~h.closed /\ exiting = "none" /\ L.out = "open" /\ Fault("run") /\ Exit("error")
    /\ UNCHANGED <<scenario, failing, pause, worker, api>>
Terminated ==
    /\ ~h.closed /\ Fault("run") /\ h' = Closing(h, FALSE, "")
    /\ UNCHANGED <<scenario, failing, exiting, pause, set, tape, station, completed, picked, truth, worker, api>>

\* A paused run has no tasks: the control worker is scaled to zero.
WorkerLeaves ==
    /\ pause # NoPause /\ worker /\ worker' = FALSE /\ UNCHANGED <<scenario, run, api, faults>>

-----------------------------------------------------------------------------
(* fetchRunDetail *)

Status == IF ~h.closed THEN "running" ELSE IF h.succeeded THEN "succeeded" ELSE "failed"

\* Mutant: unknown stays unknown.
MutFallback(f) == [f EXCEPT !.tried = TRUE]
\* The history answers what the workflow did not.
Fallback(f) ==
    [f EXCEPT !.tried = TRUE,
              !.phase = IF @ = "unknown" THEN LastCompletedPhase(h) ELSE @,
              !.pause = IF @ = Unknown THEN DerivePause(h) ELSE @]

Answered(f) == f.status # "unread" /\ f.phase # "unread"
Fetched(f) == Answered(f) /\ ((f.phase = "unknown" \/ f.pause = Unknown) => f.tried)

\* A fetch after one more call.  Describe runs beside the two queries; what no
\* worker answers is unknown.
Calls(f) ==
    UNION {IF f.status = "unread" THEN {[f EXCEPT !.status = Status]} ELSE {},
           IF f.phase = "unread"
           THEN {[f EXCEPT !.phase = IF worker THEN completed ELSE "unknown", !.pause = IF worker THEN pause ELSE Unknown]}
           ELSE {},
           IF Answered(f) /\ ~Fetched(f) THEN {Fallback(f)} ELSE {}}

\* One query fails with the worker there, or the history cannot be read.
FailedCalls(f) ==
    UNION {IF f.phase = "unread" /\ worker
           THEN {[f EXCEPT !.phase = "unknown", !.pause = pause], [f EXCEPT !.phase = completed, !.pause = Unknown]} ELSE {},
           IF Answered(f) /\ ~Fetched(f) THEN {[f EXCEPT !.tried = TRUE]} ELSE {}}

Detail(f) == [status |-> f.status, phase |-> f.phase, pause |-> f.pause]

-----------------------------------------------------------------------------
(* streamRunEvents *)

Connect(c) ==
    /\ c <= scenario.streams /\ conn[c].st = "off" /\ ~drained /\ conn' = [conn EXCEPT ![c].st = "fetch"]
    /\ UNCHANGED <<scenario, run, worker, poll, current, drained, view, faults>>

ConnFetch(c) ==
    /\ conn[c].st = "fetch" /\ ~Fetched(conn[c].f)
    /\ \/ UNCHANGED faults /\ \E f \in Calls(conn[c].f) : conn' = [conn EXCEPT ![c].f = f]
       \/ Fault("calls") /\ \E f \in FailedCalls(conn[c].f) : conn' = [conn EXCEPT ![c].f = f]
    /\ UNCHANGED <<scenario, run, worker, poll, current, drained, view>>

\* The run cannot be described, or the server drains: an error response.
ConnFetchFails(c) ==
    /\ conn[c].st = "fetch" /\ (IF drained THEN UNCHANGED faults ELSE Fault("calls"))
    /\ conn' = [conn EXCEPT ![c].st = "gone"]
    /\ UNCHANGED <<scenario, run, worker, poll, current, drained, view>>

ConnOpen(c) ==
    LET d == Detail(conn[c].f) IN
    /\ conn[c].st = "fetch" /\ Fetched(conn[c].f)
    /\ conn' = [conn EXCEPT ![c].shown = d, ![c].f = NoFetch, ![c].done = d.status # "running",
                            ![c].st = IF d.status = "running" THEN "opened" ELSE "gone"]
    /\ UNCHANGED <<scenario, run, worker, poll, current, drained, view, faults>>

\* subscribe: the first starts a poll loop; one that comes after the last
\* answer gets that.
Subscribe(c) ==
    LET new == {g \in Polls : poll[g].st = "none"}
        g == IF current # 0 THEN current ELSE Min(new)
    IN
    /\ conn[c].st = "opened" /\ (current # 0 \/ new # {})
    /\ current' = g
    /\ poll' = [poll EXCEPT ![g].subs = @ \cup {c}, ![g].st = IF @ = "none" THEN "wait" ELSE @]
    /\ conn' = [conn EXCEPT ![c].st = "stream", ![c].poll = g, ![c].box = poll[g].terminal]
    /\ UNCHANGED <<scenario, run, worker, drained, view, faults>>

\* unsubscribe: the last one stops the loop and takes it out of the map.
Unsubscribe(c) ==
    LET g == conn[c].poll
        last == poll[g].subs = {c}
    IN
    /\ poll' = [poll EXCEPT ![g].subs = @ \ {c}, ![g].stopped = last]
    /\ current' = IF last /\ current = g THEN 0 ELSE current

Over(c, d, done) ==
    conn' = [conn EXCEPT ![c].st = "gone", ![c].box = NoDetail, ![c].shown = d, ![c].done = done]

\* Mutant: what is unknown is shown as unknown.
MutCarried(next, last) == next
\* What a fetch could not tell stays as it was shown.
Carried(next, last) ==
    [next EXCEPT !.phase = IF @ = "unknown" THEN last.phase ELSE @,
                 !.pause = IF @ = Unknown THEN last.pause ELSE @]

Receive(c) ==
    LET d == Carried(conn[c].box, conn[c].shown) IN
    /\ conn[c].st = "stream" /\ conn[c].box # NoDetail
    /\ IF d # conn[c].shown /\ d.status # "running"
       THEN Over(c, d, TRUE) /\ Unsubscribe(c)
       ELSE conn' = [conn EXCEPT ![c].box = NoDetail, ![c].shown = d] /\ UNCHANGED <<poll, current>>
    /\ UNCHANGED <<scenario, run, worker, drained, view, faults>>

\* The client goes.
Leave(c) ==
    /\ conn[c].st = "stream" /\ Over(c, conn[c].shown, FALSE) /\ Unsubscribe(c)
    /\ UNCHANGED <<scenario, run, worker, drained, view, faults>>

Drain == ~drained /\ scenario.streams > 0 /\ drained' = TRUE /\ UNCHANGED <<scenario, run, worker, conn, poll, current, view, faults>>

ConnDrain(c) ==
    /\ drained /\ conn[c].st = "stream" /\ Over(c, conn[c].shown, FALSE) /\ Unsubscribe(c)
    /\ UNCHANGED <<scenario, run, worker, drained, view, faults>>

-----------------------------------------------------------------------------
(* runBroker *)

Tick(g) ==
    /\ poll[g].st = "wait" /\ poll' = [poll EXCEPT ![g].st = "fetch", ![g].f = NoFetch]
    /\ UNCHANGED <<scenario, run, worker, conn, current, drained, view, faults>>

PollFetch(g) ==
    /\ poll[g].st = "fetch" /\ ~poll[g].stopped /\ ~Fetched(poll[g].f)
    /\ \/ UNCHANGED faults /\ \E f \in Calls(poll[g].f) : poll' = [poll EXCEPT ![g].f = f]
       \/ Fault("calls") /\ \E f \in FailedCalls(poll[g].f) : poll' = [poll EXCEPT ![g].f = f]
    /\ UNCHANGED <<scenario, run, worker, conn, current, drained, view>>

\* A call fails, or the loop is stopped in it: the next tick tries again.
PollFetchFails(g) ==
    /\ poll[g].st = "fetch" /\ (IF poll[g].stopped THEN UNCHANGED faults ELSE Fault("calls"))
    /\ poll' = [poll EXCEPT ![g].st = "wait", ![g].f = NoFetch]
    /\ UNCHANGED <<scenario, run, worker, conn, current, drained, view>>

\* Mutant: an answer that has not been read yet is kept.
MutSendLatest(box, d) == IF box = NoDetail THEN d ELSE box
\* sendLatest: the latest wins.
SendLatest(box, d) == d

Broadcast(g) ==
    LET d == Detail(poll[g].f)  over == d.status # "running" IN
    /\ poll[g].st = "fetch" /\ Fetched(poll[g].f)
    /\ poll' = [poll EXCEPT ![g].st = IF over THEN "over" ELSE "wait", ![g].f = NoFetch,
                            ![g].terminal = IF over THEN d ELSE @]
    /\ conn' = [c \in Conns |-> IF c \in poll[g].subs THEN [conn[c] EXCEPT !.box = SendLatest(@, d)] ELSE conn[c]]
    /\ UNCHANGED <<scenario, run, worker, current, drained, view, faults>>

\* The loop is stopped, or the server drains.
PollStops(g) == poll[g].stopped \/ drained

PollEnds(g) ==
    /\ poll[g].st = "wait" /\ PollStops(g) /\ poll' = [poll EXCEPT ![g].st = "over"]
    /\ UNCHANGED <<scenario, run, worker, conn, current, drained, view, faults>>

-----------------------------------------------------------------------------
(* getRunPhases: the history first, then the pending activities *)

ViewReads ==
    /\ scenario.streams = 0 /\ view.st = "off" /\ view' = [st |-> "read", h |-> h, waiting |-> {}]
    /\ UNCHANGED <<scenario, run, worker, conn, poll, current, drained, faults>>

\* The activities that no worker has picked up.
Pending == IF L.out = "open" /\ ~picked /\ ~h.closed THEN {Len(h.acts)} ELSE {}

ViewAnswers ==
    /\ view.st = "read" /\ view' = [st |-> "off", h |-> NoHistory, waiting |-> Waiting(view.h, Pending)]
    /\ UNCHANGED <<scenario, run, worker, conn, poll, current, drained, faults>>

-----------------------------------------------------------------------------

Workflow ==
    \/ PickUp \/ Finish("done") \/ Finish("failed") \/ Decides \/ Resume \/ GivenUp
    \/ Cancelled \/ Terminated \/ WorkerLeaves

Stream(c) == ConnFetch(c) \/ ConnFetchFails(c) \/ ConnOpen(c) \/ Subscribe(c) \/ Receive(c) \/ ConnDrain(c)
Loop(g) == Tick(g) \/ PollFetch(g) \/ PollFetchFails(g) \/ Broadcast(g)

\* A run that closed, or waits for the operator, may be the end.
Rests == (h.closed \/ pause # NoPause) /\ UNCHANGED vars

Next ==
    \/ Workflow \/ ViewReads \/ ViewAnswers \/ Drain \/ Rests
    \/ \E c \in Conns : Connect(c) \/ Leave(c) \/ Stream(c)
    \/ \E g \in Polls : Loop(g) \/ PollEnds(g)

\* Calls return, tickers tick and a select that stays ready is taken in the
\* end.  Nothing is asked of the run, of the operator or of clients.
Spec ==
    /\ Init /\ [][Next]_vars
    /\ \A c \in Conns : WF_vars(Stream(c))
    /\ \A g \in Polls : WF_vars(Loop(g)) /\ SF_vars(PollEnds(g))

-----------------------------------------------------------------------------
(* Properties *)

\* Every variable has its type.
TypeOK ==
    /\ exiting \in {"none", "ok", "error"} /\ tape \in 1..MaxTapes /\ station \subseteq 1..MaxTapes
    /\ pause \in {NoPause} \cup Pauses
    /\ current \in 0..MaxPolls
    /\ \A c \in Conns : conn[c].st \in {"off", "fetch", "opened", "stream", "gone"}
    /\ \A g \in Polls : poll[g].st \in {"none", "wait", "fetch", "over"} /\ poll[g].subs \subseteq Conns
    /\ \A w \in {"run", "calls"} : faults[w] \in 0..scenario.faults[w]

\* The history alone tells an open run's pause, its kind and its phase, for as
\* long as the run is paused; and it tells no other.
PauseDerived ==
    /\ ~h.closed /\ pause # NoPause => DerivePause(h) = pause
    /\ DerivePause(h) # NoPause => pause = DerivePause(h) \/ (pause = NoPause /\ exiting = "none")

\* A run that closed without success is shown to have failed in the one phase it
\* failed in, with all before it completed and none after, however far an
\* earlier drive set had come.
FailureNamed ==
    h.closed /\ exiting = "error" =>
       LET at == PhaseIndex(NormalizeFailingPhase(failing)) IN
       \A i \in DOMAIN PhaseOrder :
          Timeline(h)[i] = IF i < at THEN "completed" ELSE IF i = at THEN "failed" ELSE "pending"

\* What is shown of every tape is what became of it, retries on fresh tapes
\* included; no more tapes are counted as written or exported than were.
OutcomesTrue ==
    /\ \A t \in LoadedTapes(h) :
         TapeOutcome(h, t) = IF t \in truth.failed THEN "failed" ELSE IF t \in truth.written THEN "written" ELSE "loaded"
    /\ TapesWritten(h) <= Cardinality(truth.written)
    /\ TapesExported(h) <= Cardinality(truth.exported)

\* A phase is shown to wait for a worker only if an activity of it did when the
\* request was answered.
WaitingTrue ==
    [][view.st = "read" /\ view'.st = "off"
         => view'.waiting \subseteq {PhaseForActivity(h.acts[i]) : i \in Pending}]_vars

\* Subscribers of one run share one loop; none is left with a loop that was
\* stopped, and a loop in the map has subscribers.
OneLoop ==
    /\ Cardinality({g \in Polls : poll[g].st \in {"wait", "fetch"} /\ ~poll[g].stopped}) <= 1
    /\ \A c \in Conns : conn[c].st = "stream" => ~poll[conn[c].poll].stopped /\ c \in poll[conn[c].poll].subs
    /\ current # 0 => poll[current].subs # {} /\ ~poll[current].stopped

\* A pause, or a phase, that a stream shows never becomes unknown.
KnownStaysKnown ==
    [][\A c \in Conns :
         conn[c].st = "stream" =>
            /\ conn[c].shown.pause # Unknown => conn'[c].shown.pause # Unknown
            /\ conn[c].shown.phase # "unknown" => conn'[c].shown.phase # "unknown"]_vars

\* A pause that lasts is shown on every stream that lasts, with or without a
\* control worker to ask.
PauseShown ==
    \A c \in Conns :
       LET lasts == ~h.closed /\ pause # NoPause /\ conn[c].st = "stream"
       IN  lasts ~> (~lasts \/ conn[c].shown.pause = pause)

\* Once the run has closed no stream goes on for ever: each gets its done event,
\* unless its client left first.
DoneReaches == \A c \in Conns : (h.closed /\ conn[c].st \in {"opened", "stream"}) ~> (conn[c].st = "gone")

\* A server that drains ends every stream and every loop.
DrainEnds ==
    drained ~> /\ \A c \in Conns : conn[c].st \in {"off", "gone"}
               /\ \A g \in Polls : poll[g].st \in {"none", "over"}

\* What the API derives from a history, its pause, its failed phase and the fate
\* of its tapes, is what happened; and streams on one run share one loop.
EventsSound == TypeOK /\ PauseDerived /\ FailureNamed /\ OutcomesTrue /\ OneLoop

\* Two calls that see the run at different times, or of which one fails, do not
\* make an answer that was never true or that forgets what was known.
NeverMisleads == WaitingTrue /\ KnownStaysKnown

\* Every stream ends: with the run, with its client or with the server.
StreamsEnd == DoneReaches /\ DrainEnds
=============================================================================

--------------------------- MODULE OperatorPause ---------------------------
(***************************************************************************)
(* How a run waits for its operator: the drain, the alert and the wait of  *)
(* waitForOperator, waitForBurnOperator and ejectPhase, the resume and     *)
(* abort signals Temporal buffers without limit, the two ways an operator  *)
(* sends them (the web API, which checks the pause first, and tapectl,     *)
(* which does not), and the child workflow that polls the I/O station.     *)
(*                                                                         *)
(* A signal carries the pause its sender meant, which the code cannot see. *)
(***************************************************************************)
EXTENDS Naturals, Sequences

CONSTANTS
    MaxPauses,   \* pauses of one run
    MaxSends,    \* signals sent
    Tapectl,     \* whether the operator uses tapectl too
    IOWait,      \* EffectiveIOWaitTimeout, in polls
    PollBudget   \* maxPollsBeforeContinue

ASSUME PauseAssumption ==
    /\ MaxPauses \in Nat /\ MaxSends \in Nat /\ Tapectl \in BOOLEAN
    /\ IOWait \in Nat \ {0} /\ PollBudget \in Nat \ {0}

Kinds == {"write", "eject", "burn"}
Signal == [name : {"resume", "abort"}, meant : 1..MaxPauses, nth : 1..MaxSends]
Buffered == [name : {"resume", "abort"}, meant : 1..MaxPauses, nth : 1..MaxSends,
             at : 0..MaxPauses]

VARIABLES
    wf,        \* "work", "alert", "wait", "over"
    outcome,   \* how the run ended
    pauses,    \* pauses begun: the number of the current one
    kind,      \* the current pause's kind
    buffer,    \* signals Temporal holds for the run, oldest first
    flight,    \* signals whose sender has decided to send them
    sends,
    told,      \* the newest pause the operator knows of
    cleared,   \* what last ended a pause: a buffered signal, or none
    replied,   \* a reply this pause listens for came in since its drain
    remaining, \* child workflow: polls until its deadline timer fires
    polls,     \* child workflow: polls of this execution
    waited,    \* polls since the Eject pause began
    station    \* the I/O station: "full", "open", or "free" and closed

run == <<wf, outcome, pauses, kind, cleared>>
signals == <<buffer, flight, sends, told, replied>>
child == <<remaining, polls, waited>>
pauseVars == <<run, signals, child, station>>

NoSignal == [name |-> "none"]

PauseInit ==
    /\ wf = "work" /\ outcome = "none" /\ pauses = 0 /\ kind = "write" /\ cleared = NoSignal
    /\ buffer = <<>> /\ flight = {} /\ sends = 0 /\ told = 0 /\ replied = FALSE
    /\ remaining = 0 /\ polls = 0 /\ waited = 0 /\ station = "full"

-----------------------------------------------------------------------------
(* The run *)

Ends(how) == wf' = "over" /\ outcome' = how

\* Mutant: nothing is drained.
MutDrained == buffer
\* drainStalePauseSignals: both channels are emptied.
Drained == <<>>

\* A pause begins: drain, then dispatch the alert.  Burn follows the tapes.
BeginPause(k) ==
    /\ wf = "work" /\ pauses < MaxPauses /\ (kind = "burn" => k = "burn")
    /\ wf' = "alert" /\ pauses' = pauses + 1 /\ kind' = k
    /\ buffer' = Drained /\ replied' = FALSE
    /\ station' = IF k = "eject" THEN "full" ELSE station
    /\ UNCHANGED <<outcome, cleared, flight, sends, told, child>>

\* The alert activity is over, delivered or not: set currentPause and wait.
StartWait ==
    /\ wf = "alert" /\ wf' = "wait"
    /\ remaining' = IOWait /\ polls' = 0 /\ waited' = 0
    /\ UNCHANGED <<outcome, pauses, kind, cleared, signals, station>>

Oldest(name) == {n \in DOMAIN buffer : buffer[n].name = name
                   /\ \A m \in 1..n - 1 : buffer[m].name # name}
Without(n) == SubSeq(buffer, 1, n - 1) \o SubSeq(buffer, n + 1, Len(buffer))

\* The selector takes a resume first ...
Resume ==
    /\ wf = "wait"
    /\ \E n \in Oldest("resume") : cleared' = buffer[n] /\ buffer' = Without(n)
    /\ wf' = "work"
    /\ UNCHANGED <<outcome, pauses, kind, flight, sends, told, replied, child, station>>

\* ... then an abort, except that the Eject wait does not listen for one ...
Abort ==
    /\ wf = "wait" /\ kind # "eject" /\ Oldest("resume") = {}
    /\ \E n \in Oldest("abort") : cleared' = buffer[n] /\ buffer' = Without(n)
    /\ Ends("aborted")
    /\ UNCHANGED <<pauses, kind, flight, sends, told, replied, child, station>>

\* Mutant: a Burn pause has no timer.
MutTimeout ==
    /\ wf = "wait" /\ kind = "write" /\ Oldest("resume") = {} /\ Oldest("abort") = {}
    /\ Ends("timedOut") /\ cleared' = NoSignal
    /\ UNCHANGED <<pauses, kind, signals, child, station>>

\* ... then the timer.
Timeout ==
    /\ wf = "wait" /\ kind # "eject" /\ Oldest("resume") = {} /\ Oldest("abort") = {}
    /\ Ends("timedOut") /\ cleared' = NoSignal
    /\ UNCHANGED <<pauses, kind, signals, child, station>>

\* The child's deadline is absolute, so a continuation only gets the rest.
Continue(spent) == IF spent < IOWait THEN IOWait - spent ELSE 0

BudgetSpent == polls + 1 = PollBudget

\* One poll of ioStationWaitWorkflow: auto-resume (CanAutoResume), poll on,
\* continue as new, or fail the run when the status cannot be read.
Poll ==
    /\ wf = "wait" /\ kind = "eject" /\ remaining > 0
    /\ waited' = waited + 1
    /\ \/ /\ station = "free" /\ Oldest("resume") = {}
          /\ wf' = "work" /\ cleared' = NoSignal /\ UNCHANGED <<outcome, remaining, polls>>
       \/ /\ station # "free" /\ ~BudgetSpent
          /\ polls' = polls + 1 /\ remaining' = remaining - 1 /\ UNCHANGED <<wf, outcome, cleared>>
       \/ /\ station # "free" /\ BudgetSpent
          /\ polls' = 0 /\ remaining' = Continue(waited + 1) /\ UNCHANGED <<wf, outcome, cleared>>
       \/ /\ Oldest("resume") = {} /\ Ends("failed") /\ cleared' = NoSignal /\ UNCHANGED <<remaining, polls>>
    /\ UNCHANGED <<pauses, kind, signals, station>>

\* The child's deadline timer fires.
Deadline ==
    /\ wf = "wait" /\ kind = "eject" /\ remaining = 0 /\ Oldest("resume") = {}
    /\ Ends("timedOut") /\ cleared' = NoSignal
    /\ UNCHANGED <<pauses, kind, signals, child, station>>

Finish ==
    /\ wf = "work" /\ Ends("finished")
    /\ UNCHANGED <<pauses, kind, cleared, signals, child, station>>

Cancel ==
    /\ wf # "over" /\ Ends("cancelled")
    /\ UNCHANGED <<pauses, kind, cleared, signals, child, station>>

-----------------------------------------------------------------------------
(* The operator *)

\* The alert arrives, or the pause shows up in the web UI.
Learn ==
    /\ wf \in {"alert", "wait"} /\ told # pauses
    /\ told' = pauses
    /\ UNCHANGED <<run, buffer, flight, sends, replied, child, station>>

Decide(name) ==
    /\ sends < MaxSends /\ sends' = sends + 1
    /\ flight' = flight \cup {[name |-> name, meant |-> told, nth |-> sends + 1]}
    /\ UNCHANGED <<run, buffer, told, replied, child, station>>

\* signalPausedRun: the run must be paused, and the pause accept the signal.
\* The signal follows in a later call.
SignalPausedRun(name) ==
    /\ wf = "wait" /\ told = pauses /\ (name = "abort" => kind # "eject")
    /\ Decide(name)

\* tapectl resume and abort check nothing.
TapectlSignal(name) == Tapectl /\ told # 0 /\ Decide(name)

\* SignalWorkflow: a run that is over refuses the signal.
Deliver(s) ==
    /\ flight' = flight \ {s}
    /\ IF wf = "over" THEN UNCHANGED <<buffer, replied>>
       ELSE /\ buffer' = Append(buffer, [name |-> s.name, meant |-> s.meant, nth |-> s.nth,
                                         at |-> pauses])
            /\ replied' = (replied \/ (/\ wf \in {"alert", "wait"} /\ s.meant = pauses
                                       /\ s.name = "abort" => kind # "eject"))
    /\ UNCHANGED <<run, sends, told, child, station>>

\* The operator opens the station, and closes it with or without taking tapes.
UseStation ==
    /\ wf # "over"
    /\ station' \in IF station = "open" THEN {"full", "free"} ELSE {"open"}
    /\ UNCHANGED <<run, signals, child>>

-----------------------------------------------------------------------------
Workflow == StartWait \/ Resume \/ Abort \/ Timeout \/ Poll \/ Deadline
Operator ==
    \/ Learn \/ UseStation
    \/ \E name \in {"resume", "abort"} : SignalPausedRun(name) \/ TapectlSignal(name)
RunOver == wf = "over" /\ flight = {} /\ UNCHANGED pauseVars

PauseNext ==
    \/ \E k \in Kinds : BeginPause(k)
    \/ Workflow \/ Finish \/ Cancel \/ Operator
    \/ \E s \in flight : Deliver(s)
    \/ RunOver

PauseSpec == PauseInit /\ [][PauseNext]_pauseVars

\* The workflow's own steps and timers happen; nothing is assumed of anyone else.
FairPauseSpec == PauseSpec /\ WF_pauseVars(Workflow) /\ WF_pauseVars(Finish)

-----------------------------------------------------------------------------
(* Properties *)

\* The type of every variable.
PauseTypeOK ==
    /\ wf \in {"work", "alert", "wait", "over"}
    /\ outcome \in {"none", "aborted", "timedOut", "failed", "finished", "cancelled"}
    /\ pauses \in 0..MaxPauses /\ kind \in Kinds
    /\ buffer \in Seq(Buffered) /\ flight \subseteq Signal
    /\ sends \in 0..MaxSends /\ told \in 0..pauses
    /\ cleared \in Buffered \cup {NoSignal} /\ replied \in BOOLEAN
    /\ remaining \in 0..IOWait /\ polls \in 0..PollBudget - 1
    /\ station \in {"full", "open", "free"}

(***************************************************************************)
(* A signal that was already buffered when a pause began never resolves    *)
(* it, in particular no duplicate or late answer to an earlier pause       *)
(* (#154, #254).                                                           *)
(***************************************************************************)
BufferedSignalsAreFresh ==
    wf \in {"alert", "wait"} => \A n \in DOMAIN buffer : buffer[n].at = pauses

(***************************************************************************)
(* A reply is not lost: once a signal meant for this pause has arrived,    *)
(* even while its alert is still being delivered (#216), the pause does    *)
(* not run into its timeout.                                               *)
(***************************************************************************)
ReplyBeatsTimeout == outcome = "timedOut" => ~replied

(***************************************************************************)
(* The Eject wait never exceeds its configured time, however often the     *)
(* child workflow continues as new (#168).                                 *)
(***************************************************************************)
WaitBounded == waited <= IOWait

(***************************************************************************)
(* Every pause ends, without the operator's help.                          *)
(***************************************************************************)
RunEnds == <>(wf = "over")

(***************************************************************************)
(* A pause is ended by an answer given during it, which no timer beats,    *)
(* and otherwise by its time alone, over any number of child executions.   *)
(***************************************************************************)
PauseSound == PauseTypeOK /\ BufferedSignalsAreFresh /\ ReplyBeatsTimeout /\ WaitBounded
=============================================================================

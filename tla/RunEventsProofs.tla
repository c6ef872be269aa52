--------------------------- MODULE RunEventsProofs ---------------------------
(***************************************************************************)
(* Proofs about RunEvents: what the API tells of a run, for any number of  *)
(* streams, tapes, poll loops and failures, and every place a run that is  *)
(* watched may start at.                                                   *)
(***************************************************************************)
EXTENDS RunEvents, FiniteSetTheorems, WellFoundedInduction, TLAPS

-----------------------------------------------------------------------------
(* The inductive invariant *)

Writes == {"FormatTape", "WriteTree", "FinalizeTape"}
OnTape == {"Load", "Eject"} \cup Writes
BeforeTapes == {"ResolveAndCheck", "CreateRunSnapshots", "HoldSnapshots", "PrepareArchives"}

\* x is a history, with an activity.
HistoryOK(x) ==
    /\ DOMAIN x = {"acts", "closed", "succeeded", "message"}
    /\ x.acts \in Seq(Activities) /\ x.acts # <<>>

\* The last activity of a paused run is the alert of that pause, and it has
\* ended; a run that exits is not paused.
PauseOK(x, e, p) ==
    /\ p \in {NoPause} \cup Pauses
    /\ p # NoPause => p = Alert(Last(x.acts)) /\ e = "none" /\ Last(x.acts).out # "open"
    /\ e # "none" => Alert(Last(x.acts)) = NoPause
    /\ \A i \in DOMAIN x.acts : x.acts[i].name = "NotifyWritePathPause" => x.acts[i].phase \in {"Load", "Write"}

\* The activity i is the last that belongs to a phase.
LastInPhase(x, i) ==
    /\ PhaseForActivity(x.acts[i]) # ""
    /\ \A j \in DOMAIN x.acts : j > i => PhaseForActivity(x.acts[j]) = ""

\* The phase f the workflow would fail in is that of its last activity, and the
\* failure alert and the closing message name it.
PhaseOK(x, f, e) ==
    /\ f \in Phases
    /\ \E i \in DOMAIN x.acts :
          LastInPhase(x, i) /\ PhaseIndex(NormalizeFailingPhase(f)) = PhaseIndex(PhaseForActivity(x.acts[i]))
    /\ \A i \in DOMAIN x.acts : x.acts[i].name = "NotifyFailure" => e = "error" /\ x.acts[i].phase = f
    /\ x.closed /\ e = "error" => x.message \in {"", f}
    /\ x.succeeded => e = "ok"

\* No tape is written twice: t is the tape being tried, and an activity is only
\* scheduled on it after those before it.
TapeOK(x, t) ==
    /\ t \in 1..MaxTapes
    /\ \A i \in DOMAIN x.acts : x.acts[i].name \in OnTape => x.acts[i].tape \in 1..t
    /\ \A i, j \in DOMAIN x.acts :
          x.acts[i].name \in Writes /\ x.acts[i].name = x.acts[j].name /\ x.acts[i].tape = x.acts[j].tape => i = j
    /\ \A i \in DOMAIN x.acts :
          /\ Last(x.acts).name = "Load" => ~(x.acts[i].name \in Writes /\ x.acts[i].tape = t)
          /\ Last(x.acts).name = "FormatTape" => ~(x.acts[i].name \in {"WriteTree", "FinalizeTape"} /\ x.acts[i].tape = t)
          /\ Last(x.acts).name = "WriteTree" => ~(x.acts[i].name = "FinalizeTape" /\ x.acts[i].tape = t)
          /\ Last(x.acts).name \in BeforeTapes => x.acts[i].name \notin OnTape

\* The fate u of the tapes is in the history x; s is what the I/O station holds.
TruthOK(x, s, u) ==
    /\ DOMAIN u = {"written", "failed", "exported"}
    /\ u.written \subseteq 1..MaxTapes /\ u.failed \subseteq 1..MaxTapes /\ u.exported \subseteq 1..MaxTapes
    /\ \A t : t \in u.failed <=> \E i \in DOMAIN x.acts : x.acts[i].name \in Writes /\ x.acts[i].out = "failed" /\ x.acts[i].tape = t
    /\ \A t : t \in u.written <=> \E i \in DOMAIN x.acts : x.acts[i].name = "FinalizeTape" /\ x.acts[i].out = "done" /\ x.acts[i].tape = t
    /\ s \subseteq u.exported /\ \A i \in DOMAIN x.acts : x.acts[i].name = "Eject" => x.acts[i].station \subseteq u.exported

RunOK(x, f, e, t, s, p, u) ==
    HistoryOK(x) /\ e \in {"none", "ok", "error"} /\ PauseOK(x, e, p) /\ PhaseOK(x, f, e) /\ TapeOK(x, t) /\ TruthOK(x, s, u)

RunInv == RunOK(h, failing, exiting, tape, station, pause, truth)

\* A history that was read is the beginning of the history.
Grown(x, y) ==
    /\ Len(x.acts) <= Len(y.acts)
    /\ \A i \in DOMAIN x.acts : x.acts[i].name = y.acts[i].name /\ x.acts[i].phase = y.acts[i].phase

ViewInv == view.st = "read" => view.h.acts \in Seq(Activities) /\ Grown(view.h, h)

FaultInv ==
    /\ scenario \in Scenarios /\ faults \in [{"run", "calls"} -> Nat]
    /\ \A w \in {"run", "calls"} : faults[w] <= scenario.faults[w]

IsDetail(d) == DOMAIN d = {"status", "phase", "pause"}

ConnInv ==
    /\ DOMAIN conn = Conns
    /\ \A c \in Conns :
          /\ DOMAIN conn[c] = {"st", "f", "shown", "poll", "box", "done"}
          /\ conn[c].st \in {"off", "fetch", "opened", "stream", "gone"} /\ IsDetail(conn[c].box)

PollInv ==
    /\ DOMAIN poll = Polls
    /\ \A g \in Polls :
          /\ DOMAIN poll[g] = {"st", "stopped", "subs", "terminal", "f"}
          /\ poll[g].st \in {"none", "wait", "fetch", "over"} /\ poll[g].subs \subseteq Conns /\ IsDetail(poll[g].terminal)

\* A loop that has not been stopped is the one in the map; a stream is among the
\* subscribers of its loop, which goes on.
LoopInv ==
    /\ current \in 0..MaxPolls
    /\ \A g \in Polls :
          /\ poll[g].st = "none" => poll[g].subs = {} /\ ~poll[g].stopped
          /\ poll[g].st \in {"wait", "fetch"} /\ ~poll[g].stopped => current = g
    /\ current # 0 => poll[current].subs # {} /\ ~poll[current].stopped
    /\ \A c \in Conns :
          conn[c].st = "stream" => conn[c].poll \in Polls /\ ~poll[conn[c].poll].stopped /\ c \in poll[conn[c].poll].subs

EventsInv == RunInv /\ ViewInv /\ FaultInv /\ ConnInv /\ PollInv /\ LoopInv

-----------------------------------------------------------------------------
(* What an event does to a history *)

LEMMA ScheduledIs ==
    ASSUME NEW x, HistoryOK(x), NEW a \in Activities
    PROVE  LET y == Scheduled(x, a)  n == Len(x.acts) IN
           /\ HistoryOK(y) /\ y.closed = x.closed /\ y.succeeded = x.succeeded /\ y.message = x.message
           /\ n \in Nat \ {0} /\ DOMAIN x.acts = 1..n /\ DOMAIN y.acts = 1..(n + 1) /\ Len(y.acts) = n + 1
           /\ \A i \in 1..n : y.acts[i] = x.acts[i]
           /\ y.acts[n + 1] = a /\ Last(y.acts) = a
           /\ \A i \in 1..(n + 1) : i \in 1..n \/ i = n + 1
<1> DEFINE y == Scheduled(x, a)  n == Len(x.acts)
<1>1. DOMAIN x = {"acts", "closed", "succeeded", "message"} /\ x.acts \in Seq(Activities) /\ x.acts # <<>>
  BY DEF HistoryOK
<1>2. DOMAIN y = DOMAIN x /\ y.closed = x.closed /\ y.succeeded = x.succeeded /\ y.message = x.message
  BY <1>1 DEF Scheduled
<1>3. y.acts = Append(x.acts, a)
  BY <1>1 DEF Scheduled
<1>4. n \in Nat \ {0} /\ DOMAIN x.acts = 1..n
  BY <1>1
<1>5. y.acts \in Seq(Activities) /\ Len(y.acts) = n + 1 /\ DOMAIN y.acts = 1..(n + 1) /\ y.acts # <<>>
  BY <1>1, <1>3, <1>4
<1>6. (\A i \in 1..n : y.acts[i] = x.acts[i]) /\ y.acts[n + 1] = a
  BY <1>1, <1>3, <1>4
<1>7. HistoryOK(y)
  BY <1>1, <1>2, <1>5 DEF HistoryOK
<1>8. Last(y.acts) = a
  BY <1>5, <1>6 DEF Last
<1>9. \A i \in 1..(n + 1) : i \in 1..n \/ i = n + 1
  BY <1>4
<1> QED
  BY <1>2, <1>4, <1>5, <1>6, <1>7, <1>8, <1>9

LEMMA EndedIs ==
    ASSUME NEW x, HistoryOK(x), NEW out \in {"done", "failed"}, NEW s \in SUBSET (1..MaxTapes)
    PROVE  LET y == Ended(x, out, s)  n == Len(x.acts) IN
           /\ HistoryOK(y) /\ y.closed = x.closed /\ y.succeeded = x.succeeded /\ y.message = x.message
           /\ n \in Nat \ {0} /\ DOMAIN x.acts = 1..n /\ DOMAIN y.acts = 1..n /\ Len(y.acts) = n
           /\ Last(x.acts) = x.acts[n] /\ Last(y.acts) = y.acts[n]
           /\ \A i \in 1..n :
                 /\ y.acts[i].name = x.acts[i].name /\ y.acts[i].phase = x.acts[i].phase
                 /\ y.acts[i].tape = x.acts[i].tape
           /\ \A i \in 1..n : i # n => y.acts[i] = x.acts[i]
           /\ y.acts[n].out = out /\ y.acts[n].station = s
<1> DEFINE y == Ended(x, out, s)  n == Len(x.acts)
<1>1. DOMAIN x = {"acts", "closed", "succeeded", "message"} /\ x.acts \in Seq(Activities) /\ x.acts # <<>>
  BY DEF HistoryOK
<1>2. PICK q : q = x.acts
  OBVIOUS
<1>3. PICK z : z = [q EXCEPT ![n] = [q[n] EXCEPT !.out = out, !.station = s]]
  OBVIOUS
<1>4. n \in Nat \ {0} /\ n = Len(q) /\ DOMAIN q = 1..n /\ q \in Seq(Activities) /\ n \in 1..n
  BY <1>1, <1>2
<1>5. DOMAIN y = DOMAIN x /\ y.acts = z
  BY <1>1, <1>2, <1>3 DEF Ended, Last
<1>6. q[n] \in Activities
  BY <1>4
<1>7. z[n] = [q[n] EXCEPT !.out = out, !.station = s] /\ (\A i \in 1..n : i # n => z[i] = q[i])
      /\ DOMAIN z = 1..n
  BY <1>3, <1>4
<1>8. /\ z[n] \in Activities /\ z[n].name = q[n].name /\ z[n].phase = q[n].phase /\ z[n].tape = q[n].tape
      /\ z[n].out = out /\ z[n].station = s
  BY <1>6, <1>7 DEF Activities
<1>9. z \in [1..n -> Activities]
  BY <1>3, <1>4, <1>7, <1>8
<1>10. z \in Seq(Activities) /\ Len(z) = n /\ z # <<>>
  BY <1>4, <1>9
<1>11. y.acts = z /\ y.closed = x.closed /\ y.succeeded = x.succeeded /\ y.message = x.message
  BY <1>1, <1>5 DEF Ended
<1>12. HistoryOK(y)
  BY <1>1, <1>5, <1>10 DEF HistoryOK
<1>13. Last(x.acts) = x.acts[n] /\ Last(y.acts) = y.acts[n]
  BY <1>2, <1>4, <1>10, <1>11 DEF Last
<1>14. \A i \in 1..n : z[i].name = q[i].name /\ z[i].phase = q[i].phase /\ z[i].tape = q[i].tape
  BY <1>7, <1>8
<1>15. DOMAIN x.acts = 1..n /\ DOMAIN y.acts = 1..n /\ Len(y.acts) = n /\ n \in Nat \ {0}
  BY <1>2, <1>4, <1>7, <1>10, <1>11
<1>16. \A i \in 1..n : y.acts[i].name = x.acts[i].name /\ y.acts[i].phase = x.acts[i].phase /\ y.acts[i].tape = x.acts[i].tape
  BY <1>2, <1>11, <1>14
<1>17. (\A i \in 1..n : i # n => y.acts[i] = x.acts[i]) /\ y.acts[n].out = out /\ y.acts[n].station = s
  BY <1>2, <1>7, <1>8, <1>11
<1> QED
  BY <1>11, <1>12, <1>13, <1>15, <1>16, <1>17

LEMMA EndedFields ==
    ASSUME NEW x, HistoryOK(x), NEW out, NEW s
    PROVE  LET y == Ended(x, out, s) IN y.closed = x.closed /\ y.succeeded = x.succeeded /\ y.message = x.message
<1>1. DOMAIN x = {"acts", "closed", "succeeded", "message"}
  BY DEF HistoryOK
<1> QED
  BY <1>1 DEF Ended

LEMMA ClosingIs ==
    ASSUME NEW x, HistoryOK(x), NEW ok, NEW message
    PROVE  LET y == Closing(x, ok, message) IN
           HistoryOK(y) /\ y.acts = x.acts /\ y.succeeded = ok /\ y.message = message
<1> DEFINE y == Closing(x, ok, message)
<1>1. DOMAIN x = {"acts", "closed", "succeeded", "message"} /\ x.acts \in Seq(Activities) /\ x.acts # <<>>
  BY DEF HistoryOK
<1>2. DOMAIN y = DOMAIN x /\ y.acts = x.acts
  BY <1>1 DEF Closing
<1>3. y.succeeded = ok /\ y.message = message
  BY <1>1 DEF Closing
<1> QED
  BY <1>1, <1>2, <1>3 DEF HistoryOK

-----------------------------------------------------------------------------
(* What a scheduled activity keeps *)

LEMMA ScheduledPause ==
    ASSUME NEW x, NEW e, NEW p, HistoryOK(x), PauseOK(x, e, p), NEW a \in Activities, NEW e2,
           e2 # "none" => Alert(a) = NoPause,
           a.name = "NotifyWritePathPause" => a.phase \in {"Load", "Write"}
    PROVE  PauseOK(Scheduled(x, a), e2, NoPause)
<1> PICK y : y = Scheduled(x, a)
  OBVIOUS
<1>1. PICK n : n = Len(x.acts)
  OBVIOUS
<1>2. /\ DOMAIN x.acts = 1..n /\ DOMAIN y.acts = 1..(n + 1) /\ Last(y.acts) = a /\ y.acts[n + 1] = a /\ Last(y.acts) = a
      /\ (\A i \in 1..n : y.acts[i] = x.acts[i]) /\ (\A i \in 1..(n + 1) : i \in 1..n \/ i = n + 1)
  BY <1>1, ScheduledIs
<1>3. \A i \in DOMAIN y.acts : y.acts[i].name = "NotifyWritePathPause" => y.acts[i].phase \in {"Load", "Write"}
  BY <1>2 DEF PauseOK
<1> QED
  BY <1>2, <1>3 DEF PauseOK

LEMMA ScheduledPhase ==
    ASSUME NEW x, NEW f, NEW e, HistoryOK(x), PhaseOK(x, f, e), NEW a \in Activities, NEW f2 \in Phases, NEW e2,
           \/ PhaseForActivity(a) = "" /\ f2 = f
           \/ PhaseForActivity(a) # "" /\ PhaseIndex(NormalizeFailingPhase(f2)) = PhaseIndex(PhaseForActivity(a)),
           a.name = "NotifyFailure" => e2 = "error" /\ a.phase = f2,
           e # "none" => e2 = e /\ f2 = f,
           ~x.closed
    PROVE  PhaseOK(Scheduled(x, a), f2, e2)
<1>0. PICK y : y = Scheduled(x, a)
  OBVIOUS
<1>1. PICK n : n = Len(x.acts)
  OBVIOUS
<1>2. /\ n \in Nat \ {0} /\ DOMAIN x.acts = 1..n /\ DOMAIN y.acts = 1..(n + 1) /\ y.acts[n + 1] = a /\ Last(y.acts) = a
      /\ (\A i \in 1..n : y.acts[i] = x.acts[i]) /\ (\A i \in 1..(n + 1) : i \in 1..n \/ i = n + 1)
  BY ONLY <1>0, <1>1, HistoryOK(x), a \in Activities, ScheduledIs
<1>a. y.closed = x.closed /\ y.succeeded = x.succeeded
  BY ONLY <1>0, HistoryOK(x), a \in Activities, ScheduledIs
<1>b. n + 1 \in 1..(n + 1) /\ 1..n \subseteq 1..(n + 1) /\ \A j \in 1..(n + 1) : ~(j > n + 1)
  <2>1. n \in Nat
    BY <1>2
  <2> QED
    BY ONLY <2>1
<1>3. \E i \in DOMAIN y.acts :
         LastInPhase(y, i) /\ PhaseIndex(NormalizeFailingPhase(f2)) = PhaseIndex(PhaseForActivity(y.acts[i]))
  <2>1. CASE PhaseForActivity(a) # ""
    <3>1. LastInPhase(y, n + 1)
      BY <1>2, <1>b, <2>1 DEF LastInPhase
    <3>2. PhaseIndex(NormalizeFailingPhase(f2)) = PhaseIndex(PhaseForActivity(y.acts[n + 1]))
      BY <1>2, <2>1
    <3> QED
      BY <1>2, <1>b, <3>1, <3>2
  <2>2. CASE PhaseForActivity(a) = ""
    <3>1. PICK i \in 1..n : LastInPhase(x, i) /\ PhaseIndex(NormalizeFailingPhase(f)) = PhaseIndex(PhaseForActivity(x.acts[i]))
      BY <1>2 DEF PhaseOK
    <3>2. LastInPhase(y, i)
      <4>1. PhaseForActivity(y.acts[i]) # ""
        BY <1>2, <3>1 DEF LastInPhase
      <4>2. ASSUME NEW j \in 1..(n + 1), j > i
            PROVE  PhaseForActivity(y.acts[j]) = ""
        BY <1>2, <2>2, <3>1, <4>2 DEF LastInPhase
      <4> QED
        BY <1>2, <4>1, <4>2 DEF LastInPhase
    <3>3. PhaseIndex(NormalizeFailingPhase(f2)) = PhaseIndex(PhaseForActivity(y.acts[i])) /\ i \in DOMAIN y.acts
      BY <1>2, <1>b, <2>2, <3>1
    <3> QED
      BY <3>2, <3>3
  <2> QED
    BY <2>1, <2>2
<1>4. \A i \in DOMAIN y.acts : y.acts[i].name = "NotifyFailure" => e2 = "error" /\ y.acts[i].phase = f2
  BY <1>2 DEF PhaseOK
<1>5. (y.succeeded => e2 = "ok") /\ ~y.closed
  BY <1>a DEF PhaseOK
<1> QED
  BY <1>0, <1>3, <1>4, <1>5 DEF PhaseOK

LEMMA ScheduledTape ==
    ASSUME NEW x, NEW t, HistoryOK(x), TapeOK(x, t), NEW a \in Activities, NEW t2 \in t..MaxTapes,
           a.name \in OnTape => a.tape = t2,
           a.name = "Load" => \A i \in DOMAIN x.acts : ~(x.acts[i].name \in Writes /\ x.acts[i].tape = t2),
           a.name = "FormatTape" => Last(x.acts).name = "Load" /\ t2 = t,
           a.name = "WriteTree" => Last(x.acts).name = "FormatTape" /\ t2 = t,
           a.name = "FinalizeTape" => Last(x.acts).name = "WriteTree" /\ t2 = t,
           a.name \in BeforeTapes => Last(x.acts).name \in BeforeTapes
    PROVE  TapeOK(Scheduled(x, a), t2)
<1> PICK y : y = Scheduled(x, a)
  OBVIOUS
<1>1. PICK n : n = Len(x.acts)
  OBVIOUS
<1>2. /\ n \in Nat \ {0} /\ DOMAIN x.acts = 1..n /\ DOMAIN y.acts = 1..(n + 1) /\ y.acts[n + 1] = a /\ Last(y.acts) = a
      /\ (\A i \in 1..n : y.acts[i] = x.acts[i]) /\ (\A i \in 1..(n + 1) : i \in 1..n \/ i = n + 1)
  BY <1>1, ScheduledIs
<1>3. /\ t \in 1..MaxTapes /\ t2 \in 1..MaxTapes
      /\ \A i \in 1..n : x.acts[i].name \in OnTape => x.acts[i].tape \in 1..t /\ x.acts[i].tape \in 1..t2
  <2>1. t \in 1..MaxTapes /\ \A i \in 1..n : x.acts[i].name \in OnTape => x.acts[i].tape \in 1..t
    BY <1>2 DEF TapeOK
  <2>2. MaxTapes \in Nat
    BY RunEventsAssumption
  <2>3. t2 \in 1..MaxTapes /\ 1..t \subseteq 1..t2
    BY <2>1, <2>2
  <2> QED
    BY <2>1, <2>3
<1>4. \A i \in 1..(n + 1) : y.acts[i].name \in OnTape => y.acts[i].tape \in 1..t2
  <2>1. t2 \in 1..t2
    BY <1>3
  <2> QED
    BY <1>2, <1>3, <2>1
<1>5. a.name \in Writes => \A i \in 1..n : x.acts[i].name = a.name => x.acts[i].tape # t2
  BY <1>2 DEF TapeOK, Writes
<1>6. ASSUME NEW i \in 1..(n + 1), NEW j \in 1..(n + 1),
             y.acts[i].name \in Writes, y.acts[i].name = y.acts[j].name, y.acts[i].tape = y.acts[j].tape
      PROVE  i = j
  <2>1. CASE i \in 1..n /\ j \in 1..n
    BY <1>2, <1>6, <2>1 DEF TapeOK
  <2>2. CASE i = n + 1 /\ j \in 1..n
    BY <1>2, <1>5, <1>6, <2>2 DEF OnTape
  <2>3. CASE j = n + 1 /\ i \in 1..n
    BY <1>2, <1>5, <1>6, <2>3 DEF OnTape
  <2> QED
    BY <1>2, <2>1, <2>2, <2>3
<1>7. ASSUME NEW i \in 1..(n + 1)
      PROVE  /\ a.name = "Load" => ~(y.acts[i].name \in Writes /\ y.acts[i].tape = t2)
             /\ a.name = "FormatTape" => ~(y.acts[i].name \in {"WriteTree", "FinalizeTape"} /\ y.acts[i].tape = t2)
             /\ a.name = "WriteTree" => ~(y.acts[i].name = "FinalizeTape" /\ y.acts[i].tape = t2)
             /\ a.name \in BeforeTapes => y.acts[i].name \notin OnTape
  <2>1. CASE i = n + 1
    BY <1>2, <2>1 DEF Writes, BeforeTapes, OnTape
  <2>2. CASE i \in 1..n
    BY <1>2, <2>2 DEF TapeOK, Writes
  <2> QED
    BY <1>2, <2>1, <2>2
<1> QED
  BY <1>2, <1>3, <1>4, <1>6, <1>7 DEF TapeOK

LEMMA ScheduledTruth ==
    ASSUME NEW x, NEW s, NEW u, HistoryOK(x), TruthOK(x, s, u), NEW a \in Activities, a.out = "open", a.station = {},
           NEW s2 \in SUBSET s
    PROVE  TruthOK(Scheduled(x, a), s2, u)
<1> PICK y : y = Scheduled(x, a)
  OBVIOUS
<1>1. PICK n : n = Len(x.acts)
  OBVIOUS
<1>2. /\ n \in Nat \ {0} /\ DOMAIN x.acts = 1..n /\ DOMAIN y.acts = 1..(n + 1) /\ y.acts[n + 1] = a /\ Last(y.acts) = a
      /\ (\A i \in 1..n : y.acts[i] = x.acts[i]) /\ (\A i \in 1..(n + 1) : i \in 1..n \/ i = n + 1)
  BY <1>1, ScheduledIs
<1>a. 1..n \subseteq 1..(n + 1) /\ n + 1 \in 1..(n + 1)
  BY <1>2
<1>3. ASSUME NEW t
      PROVE  /\ t \in u.failed <=> \E i \in 1..(n + 1) : y.acts[i].name \in Writes /\ y.acts[i].out = "failed" /\ y.acts[i].tape = t
             /\ t \in u.written <=> \E i \in 1..(n + 1) : y.acts[i].name = "FinalizeTape" /\ y.acts[i].out = "done" /\ y.acts[i].tape = t
  <2>1. t \in u.failed <=> \E i \in 1..n : x.acts[i].name \in Writes /\ x.acts[i].out = "failed" /\ x.acts[i].tape = t
    BY <1>2 DEF TruthOK
  <2>2. t \in u.written <=> \E i \in 1..n : x.acts[i].name = "FinalizeTape" /\ x.acts[i].out = "done" /\ x.acts[i].tape = t
    BY <1>2 DEF TruthOK
  <2> QED
    BY <1>2, <1>a, <2>1, <2>2
<1>4. \A i \in 1..(n + 1) : y.acts[i].name = "Eject" => y.acts[i].station \subseteq u.exported
  BY <1>2 DEF TruthOK
<1> QED
  BY <1>2, <1>3, <1>4 DEF TruthOK

-----------------------------------------------------------------------------
(* What the end of the last activity keeps, and the end of the run *)

LEMMA SameAlert ==
    ASSUME NEW a, NEW b, a.name = b.name, a.phase = b.phase
    PROVE  Alert(a) = Alert(b) /\ PhaseForActivity(a) = PhaseForActivity(b)
BY DEF Alert, PhaseForActivity

LEMMA EndedPause ==
    ASSUME NEW x, NEW e, NEW p, HistoryOK(x), PauseOK(x, e, p), NEW out \in {"done", "failed"},
           NEW s \in SUBSET (1..MaxTapes), Last(x.acts).out = "open"
    PROVE  PauseOK(Ended(x, out, s), e, p) /\ p = NoPause
<1>0. PICK y : y = Ended(x, out, s)
  OBVIOUS
<1>1. PICK n : n = Len(x.acts)
  OBVIOUS
<1>2. /\ n \in Nat \ {0} /\ DOMAIN x.acts = 1..n /\ DOMAIN y.acts = 1..n /\ Last(x.acts) = x.acts[n] /\ Last(y.acts) = y.acts[n]
      /\ \A i \in 1..n : y.acts[i].name = x.acts[i].name /\ y.acts[i].phase = x.acts[i].phase
  BY ONLY <1>0, <1>1, HistoryOK(x), out \in {"done", "failed"}, s \in SUBSET (1..MaxTapes), EndedIs
<1>3. p = NoPause
  BY DEF PauseOK
<1>4. Alert(Last(y.acts)) = Alert(Last(x.acts))
  <2>1. y.acts[n].name = x.acts[n].name /\ y.acts[n].phase = x.acts[n].phase
    BY <1>2
  <2> QED
    BY <1>2, <2>1, SameAlert
<1> QED
  BY <1>0, <1>2, <1>3, <1>4 DEF PauseOK

LEMMA EndedPhase ==
    ASSUME NEW x, NEW f, NEW e, HistoryOK(x), PhaseOK(x, f, e), NEW out \in {"done", "failed"},
           NEW s \in SUBSET (1..MaxTapes)
    PROVE  PhaseOK(Ended(x, out, s), f, e)
<1>0. PICK y : y = Ended(x, out, s)
  OBVIOUS
<1>1. PICK n : n = Len(x.acts)
  OBVIOUS
<1>2. /\ n \in Nat \ {0} /\ DOMAIN x.acts = 1..n /\ DOMAIN y.acts = 1..n /\ Last(x.acts) = x.acts[n] /\ Last(y.acts) = y.acts[n]
      /\ \A i \in 1..n : y.acts[i].name = x.acts[i].name /\ y.acts[i].phase = x.acts[i].phase
  BY ONLY <1>0, <1>1, HistoryOK(x), out \in {"done", "failed"}, s \in SUBSET (1..MaxTapes), EndedIs
<1>3. y.closed = x.closed /\ y.succeeded = x.succeeded /\ y.message = x.message
  BY <1>0, EndedFields
<1>4. \A i \in 1..n : PhaseForActivity(y.acts[i]) = PhaseForActivity(x.acts[i])
  BY <1>2, SameAlert
<1>5. \A i \in 1..n : LastInPhase(x, i) => LastInPhase(y, i)
  BY <1>2, <1>4 DEF LastInPhase
<1>6. \E i \in DOMAIN y.acts :
         LastInPhase(y, i) /\ PhaseIndex(NormalizeFailingPhase(f)) = PhaseIndex(PhaseForActivity(y.acts[i]))
  BY <1>2, <1>4, <1>5 DEF PhaseOK
<1>7. \A i \in DOMAIN y.acts : y.acts[i].name = "NotifyFailure" => e = "error" /\ y.acts[i].phase = f
  BY <1>2 DEF PhaseOK
<1>8. f \in Phases /\ (y.closed /\ e = "error" => y.message \in {"", f}) /\ (y.succeeded => e = "ok")
  BY <1>3 DEF PhaseOK
<1> QED
  BY <1>0, <1>6, <1>7, <1>8 DEF PhaseOK

LEMMA EndedTape ==
    ASSUME NEW x, NEW t, HistoryOK(x), TapeOK(x, t), NEW out \in {"done", "failed"}, NEW s \in SUBSET (1..MaxTapes)
    PROVE  TapeOK(Ended(x, out, s), t)
<1>0. PICK y : y = Ended(x, out, s)
  OBVIOUS
<1>1. PICK n : n = Len(x.acts)
  OBVIOUS
<1>2. /\ n \in Nat \ {0} /\ DOMAIN x.acts = 1..n /\ DOMAIN y.acts = 1..n /\ Last(x.acts) = x.acts[n] /\ Last(y.acts) = y.acts[n]
      /\ \A i \in 1..n : y.acts[i].name = x.acts[i].name /\ y.acts[i].tape = x.acts[i].tape
  BY ONLY <1>0, <1>1, HistoryOK(x), out \in {"done", "failed"}, s \in SUBSET (1..MaxTapes), EndedIs
<1>3. Last(y.acts).name = Last(x.acts).name
  BY <1>2
<1> QED
  BY <1>0, <1>2, <1>3 DEF TapeOK

\* The fate of the last activity's tape is added to the truth, with it.
LEMMA EndedTruth ==
    ASSUME NEW x, NEW s, NEW u, HistoryOK(x), TruthOK(x, s, u), NEW out \in {"done", "failed"}, Last(x.acts).out = "open",
           NEW now, NEW v, DOMAIN v = {"written", "failed", "exported"},
           v.failed = IF Last(x.acts).name \in Writes /\ out = "failed" THEN u.failed \cup {Last(x.acts).tape} ELSE u.failed,
           v.written = IF Last(x.acts).name = "FinalizeTape" /\ out = "done" THEN u.written \cup {Last(x.acts).tape} ELSE u.written,
           Last(x.acts).name \in Writes => Last(x.acts).tape \in 1..MaxTapes,
           u.exported \subseteq v.exported, now \subseteq v.exported, v.exported \subseteq 1..MaxTapes
    PROVE  TruthOK(Ended(x, out, now), now, v)
<1>0. PICK y : y = Ended(x, out, now)
  OBVIOUS
<1>1. PICK n : n = Len(x.acts)
  OBVIOUS
<1>a. now \in SUBSET (1..MaxTapes)
  OBVIOUS
<1>2. /\ n \in Nat \ {0} /\ DOMAIN x.acts = 1..n /\ DOMAIN y.acts = 1..n /\ Last(x.acts) = x.acts[n]
      /\ \A i \in 1..n : y.acts[i].name = x.acts[i].name /\ y.acts[i].tape = x.acts[i].tape
      /\ \A i \in 1..n : i # n => y.acts[i] = x.acts[i]
      /\ y.acts[n].out = out /\ y.acts[n].station = now
  BY ONLY <1>0, <1>1, <1>a, HistoryOK(x), out \in {"done", "failed"}, EndedIs
<1>3. n \in 1..n /\ x.acts[n].out = "open" /\ y.acts[n].name = x.acts[n].name /\ y.acts[n].tape = x.acts[n].tape
  BY <1>2
<1>4. \A t : t \in v.failed <=> \E i \in 1..n : y.acts[i].name \in Writes /\ y.acts[i].out = "failed" /\ y.acts[i].tape = t
  <2>1. \A t : t \in u.failed <=> \E i \in 1..n : x.acts[i].name \in Writes /\ x.acts[i].out = "failed" /\ x.acts[i].tape = t
    BY <1>2 DEF TruthOK
  <2>2. ASSUME NEW t, t \in v.failed
        PROVE  \E i \in 1..n : y.acts[i].name \in Writes /\ y.acts[i].out = "failed" /\ y.acts[i].tape = t
    <3>1. CASE t \in u.failed
      <4>1. PICK i \in 1..n : x.acts[i].name \in Writes /\ x.acts[i].out = "failed" /\ x.acts[i].tape = t
        BY <2>1, <3>1
      <4>2. y.acts[i] = x.acts[i]
        BY <1>2, <1>3, <4>1
      <4> QED
        BY <4>1, <4>2
    <3>2. CASE t \notin u.failed
      BY <1>2, <1>3, <2>2, <3>2
    <3> QED
      BY <3>1, <3>2
  <2>3. ASSUME NEW t, NEW i \in 1..n, y.acts[i].name \in Writes, y.acts[i].out = "failed", y.acts[i].tape = t
        PROVE  t \in v.failed
    <3>1. CASE i = n
      BY <1>2, <1>3, <2>3, <3>1
    <3>2. CASE i # n
      BY <1>2, <2>1, <2>3, <3>2
    <3> QED
      BY <3>1, <3>2
  <2> QED
    BY <2>2, <2>3
<1>5. \A t : t \in v.written <=> \E i \in 1..n : y.acts[i].name = "FinalizeTape" /\ y.acts[i].out = "done" /\ y.acts[i].tape = t
  <2>1. \A t : t \in u.written <=> \E i \in 1..n : x.acts[i].name = "FinalizeTape" /\ x.acts[i].out = "done" /\ x.acts[i].tape = t
    BY <1>2 DEF TruthOK
  <2>2. ASSUME NEW t, t \in v.written
        PROVE  \E i \in 1..n : y.acts[i].name = "FinalizeTape" /\ y.acts[i].out = "done" /\ y.acts[i].tape = t
    <3>1. CASE t \in u.written
      <4>1. PICK i \in 1..n : x.acts[i].name = "FinalizeTape" /\ x.acts[i].out = "done" /\ x.acts[i].tape = t
        BY <2>1, <3>1
      <4>2. y.acts[i] = x.acts[i]
        BY <1>2, <1>3, <4>1
      <4> QED
        BY <4>1, <4>2
    <3>2. CASE t \notin u.written
      BY <1>2, <1>3, <2>2, <3>2
    <3> QED
      BY <3>1, <3>2
  <2>3. ASSUME NEW t, NEW i \in 1..n, y.acts[i].name = "FinalizeTape", y.acts[i].out = "done", y.acts[i].tape = t
        PROVE  t \in v.written
    <3>1. CASE i = n
      BY <1>2, <1>3, <2>3, <3>1
    <3>2. CASE i # n
      BY <1>2, <2>1, <2>3, <3>2
    <3> QED
      BY <3>1, <3>2
  <2> QED
    BY <2>2, <2>3
<1>6. v.written \subseteq 1..MaxTapes /\ v.failed \subseteq 1..MaxTapes
  BY DEF TruthOK, Writes
<1>7. \A i \in 1..n : y.acts[i].name = "Eject" => y.acts[i].station \subseteq v.exported
  <2>1. \A i \in 1..n : x.acts[i].name = "Eject" => x.acts[i].station \subseteq u.exported
    BY <1>2 DEF TruthOK
  <2> QED
    BY <1>2, <2>1
<1> QED
  BY <1>0, <1>2, <1>4, <1>5, <1>6, <1>7 DEF TruthOK

LEMMA ClosingKeeps ==
    ASSUME NEW x, NEW f, NEW e, NEW t, NEW s, NEW p, NEW u, RunOK(x, f, e, t, s, p, u),
           NEW ok, NEW message, ok = TRUE => e = "ok", e = "error" => message \in {"", f}
    PROVE  RunOK(Closing(x, ok, message), f, e, t, s, p, u)
<1>0. PICK y : y = Closing(x, ok, message)
  OBVIOUS
<1>1. HistoryOK(x)
  BY DEF RunOK
<1>2. HistoryOK(y) /\ y.acts = x.acts
  <2>1. HistoryOK(Closing(x, ok, message)) /\ Closing(x, ok, message).acts = x.acts
    BY ONLY <1>1, ClosingIs
  <2> QED
    BY ONLY <1>0, <2>1
<1>3. y.succeeded = ok /\ y.message = message
  <2>1. Closing(x, ok, message).succeeded = ok /\ Closing(x, ok, message).message = message
    BY ONLY <1>1, ClosingIs
  <2> QED
    BY ONLY <1>0, <2>1
<1>4. PauseOK(y, e, p)
  BY <1>2 DEF RunOK, PauseOK
<1>5. PhaseOK(y, f, e)
  <2>1. \A i : LastInPhase(x, i) => LastInPhase(y, i)
    BY <1>2 DEF LastInPhase
  <2> QED
    BY <1>2, <1>3, <2>1 DEF RunOK, PhaseOK
<1>6. TapeOK(y, t) /\ TruthOK(y, s, u)
  <2>1. TapeOK(y, t)
    BY <1>2 DEF RunOK, TapeOK
  <2>2. TruthOK(y, s, u)
    <3>1. TruthOK(x, s, u)
      BY DEF RunOK
    <3> QED
      BY ONLY <1>2, <3>1 DEF TruthOK
  <2> QED
    BY <2>1, <2>2
<1> QED
  BY <1>0, <1>2, <1>4, <1>5, <1>6 DEF RunOK

-----------------------------------------------------------------------------
(* The steps of the workflow *)

LEMMA ActivityIs ==
    ASSUME NEW name \in Names, NEW ph \in Phases, NEW t \in 0..MaxTapes
    PROVE  LET a == Activity(name, ph, t) IN
           a \in Activities /\ a.name = name /\ a.phase = ph /\ a.tape = t /\ a.out = "open" /\ a.station = {}
BY DEF Activity, Activities

LEMMA GoesIs ==
    ASSUME NEW name, NEW ph, NEW t, Goes(name, ph, t)
    PROVE  h' = Scheduled(h, Activity(name, ph, t)) /\ station' = station /\ truth' = truth
BY DEF Goes

\* The phases of the activities the workflow may be at.
LEMMA PhasesOfNames ==
    ASSUME NEW a
    PROVE  /\ a.name = "Load" => PhaseForActivity(a) = "Load"
           /\ a.name \in Writes => PhaseForActivity(a) = "Write"
           /\ a.name \in {"Eject", "NotifyOperatorPause"} => PhaseForActivity(a) = "Eject"
           /\ a.name \in {"BurnDisc", "NotifyBurnPause"} => PhaseForActivity(a) = "Burn"
BY DEF PhaseForActivity, Writes

LEMMA AlertsOfNames ==
    ASSUME NEW a
    PROVE  /\ a.name \notin {"NotifyWritePathPause", "NotifyOperatorPause", "NotifyBurnPause"} => Alert(a) = NoPause
           /\ Alert(a)[1] = "eject" => a.name = "NotifyOperatorPause"
           /\ Alert(a)[1] = "burn" => a.name = "NotifyBurnPause"
BY DEF Alert, NoPause

\* The phase the workflow is in is that of its last activity, if it has one.
LEMMA PhaseOfLast ==
    ASSUME NEW x, NEW f, NEW e, HistoryOK(x), PhaseOK(x, f, e), PhaseForActivity(Last(x.acts)) # ""
    PROVE  PhaseIndex(NormalizeFailingPhase(f)) = PhaseIndex(PhaseForActivity(Last(x.acts)))
<1>1. PICK n : n = Len(x.acts)
  OBVIOUS
<1>2. n \in Nat \ {0} /\ DOMAIN x.acts = 1..n /\ Last(x.acts) = x.acts[n] /\ n \in 1..n
  <2>1. x.acts \in Seq(Activities) /\ x.acts # <<>>
    BY DEF HistoryOK
  <2>2. n \in Nat \ {0} /\ DOMAIN x.acts = 1..n
    BY ONLY <1>1, <2>1
  <2>3. n \in 1..n
    BY ONLY <2>2
  <2>4. Last(x.acts) = x.acts[n]
    BY <1>1 DEF Last
  <2> QED
    BY <2>2, <2>3, <2>4
<1>3. PICK i \in 1..n : LastInPhase(x, i) /\ PhaseIndex(NormalizeFailingPhase(f)) = PhaseIndex(PhaseForActivity(x.acts[i]))
  BY <1>2 DEF PhaseOK
<1>4. ~(n > i)
  BY <1>2, <1>3 DEF LastInPhase
<1>5. i = n
  BY ONLY <1>2, <1>4, i \in 1..n
<1> QED
  BY <1>2, <1>3, <1>5

\* What a step that schedules an activity has to respect: where the run is, the
\* phase, and the tape.
RunFits(name, ph, t) ==
    /\ ~h.closed /\ name \in Names /\ ph \in Phases /\ t \in 0..MaxTapes
    /\ h' = Scheduled(h, Activity(name, ph, t)) /\ truth' = truth /\ station' \subseteq station
    /\ pause' = NoPause /\ exiting' \in {"none", "ok", "error"} /\ failing' \in Phases
    /\ exiting' # "none" => name \in {"ReleaseSnapshots", "NotifyFailure"}
    /\ exiting # "none" => exiting' = exiting /\ failing' = failing

PhaseFits(name, ph, t) ==
    /\ name = "NotifyWritePathPause" => ph \in {"Load", "Write"}
    /\ name = "NotifyFailure" => exiting' = "error" /\ ph = failing'
    /\ \/ PhaseForActivity(Activity(name, ph, t)) = "" /\ failing' = failing
       \/ /\ PhaseForActivity(Activity(name, ph, t)) # ""
          /\ PhaseIndex(NormalizeFailingPhase(failing')) = PhaseIndex(PhaseForActivity(Activity(name, ph, t)))

TapeFits(name, t) ==
    /\ tape' \in tape..MaxTapes
    /\ name \in OnTape => t = tape'
    /\ name = "Load" => \A i \in DOMAIN h.acts : ~(h.acts[i].name \in Writes /\ h.acts[i].tape = tape')
    /\ name = "FormatTape" => L.name = "Load" /\ tape' = tape
    /\ name = "WriteTree" => L.name = "FormatTape" /\ tape' = tape
    /\ name = "FinalizeTape" => L.name = "WriteTree" /\ tape' = tape
    /\ name \in BeforeTapes => L.name \in BeforeTapes

\* A step keeps the invariant of the run, and takes nothing out of its history.
RunKept == RunInv' /\ Grown(h, h')

LEMMA SameGrown ==
    ASSUME NEW x, NEW y, HistoryOK(x), y.acts = x.acts
    PROVE  Grown(x, y)
<1>1. Len(x.acts) \in Nat
  BY DEF HistoryOK
<1> QED
  BY <1>1 DEF Grown

LEMMA GoesKeeps ==
    ASSUME RunInv, NEW name, NEW ph, NEW t, RunFits(name, ph, t), PhaseFits(name, ph, t), TapeFits(name, t)
    PROVE  RunKept
<1>1. PICK a : a = Activity(name, ph, t)
  OBVIOUS
<1>2. a \in Activities /\ a.name = name /\ a.phase = ph /\ a.tape = t /\ a.out = "open" /\ a.station = {}
  BY <1>1, ActivityIs DEF RunFits
<1>3. /\ HistoryOK(h) /\ PauseOK(h, exiting, pause) /\ PhaseOK(h, failing, exiting) /\ TapeOK(h, tape)
      /\ TruthOK(h, station, truth)
  BY DEF RunInv, RunOK
<1>4. HistoryOK(h')
  BY <1>1, <1>2, <1>3, ScheduledIs DEF RunFits
<1>5. PauseOK(h', exiting', pause')
  <2>1. exiting' # "none" => Alert(a) = NoPause
    BY <1>2, AlertsOfNames DEF RunFits
  <2> QED
    BY <1>1, <1>2, <1>3, <2>1, ScheduledPause DEF RunFits, PhaseFits
<1>6. PhaseOK(h', failing', exiting')
  BY <1>1, <1>2, <1>3, ScheduledPhase DEF RunFits, PhaseFits
<1>7. TapeOK(h', tape')
  <2>1. PICK t2 : t2 = tape'
    OBVIOUS
  <2>2. t2 \in tape..MaxTapes /\ (a.name \in OnTape => a.tape = t2)
    BY <1>2, <2>1 DEF TapeFits
  <2>3. a.name = "Load" => \A i \in DOMAIN h.acts : ~(h.acts[i].name \in Writes /\ h.acts[i].tape = t2)
    BY <1>2, <2>1 DEF TapeFits
  <2>4. /\ a.name = "FormatTape" => Last(h.acts).name = "Load" /\ t2 = tape
        /\ a.name = "WriteTree" => Last(h.acts).name = "FormatTape" /\ t2 = tape
        /\ a.name = "FinalizeTape" => Last(h.acts).name = "WriteTree" /\ t2 = tape
        /\ a.name \in BeforeTapes => Last(h.acts).name \in BeforeTapes
    BY <1>2, <2>1 DEF TapeFits, L
  <2>5. TapeOK(Scheduled(h, a), t2)
    BY ONLY <1>2, <1>3, <2>2, <2>3, <2>4, ScheduledTape
  <2> QED
    BY <1>1, <2>1, <2>5 DEF RunFits
<1>8. TruthOK(h', station', truth')
  BY <1>1, <1>2, <1>3, ScheduledTruth DEF RunFits
<1>9. Grown(h, h')
  <2>1. PICK n : n = Len(h.acts)
    OBVIOUS
  <2>2. n \in Nat /\ DOMAIN h.acts = 1..n /\ Len(Scheduled(h, a).acts) = n + 1 /\ \A i \in 1..n : Scheduled(h, a).acts[i] = h.acts[i]
    BY ONLY <1>2, <1>3, <2>1, ScheduledIs
  <2>3. Grown(h, Scheduled(h, a))
    BY <2>1, <2>2 DEF Grown
  <2> QED
    BY <1>1, <2>3 DEF RunFits
<1> QED
  BY <1>4, <1>5, <1>6, <1>7, <1>8, <1>9 DEF RunKept, RunInv, RunOK, RunFits

\* What the invariant says of the place of the workflow.
LEMMA Placed ==
    ASSUME RunInv
    PROVE  /\ HistoryOK(h) /\ exiting \in {"none", "ok", "error"} /\ PauseOK(h, exiting, pause) /\ PhaseOK(h, failing, exiting)
           /\ TapeOK(h, tape) /\ TruthOK(h, station, truth) /\ L = Last(h.acts)
           /\ tape \in 1..MaxTapes /\ MaxTapes \in Nat /\ 0 \in 0..MaxTapes /\ failing \in Phases
           /\ L.name \notin {"NotifyWritePathPause", "NotifyOperatorPause", "NotifyBurnPause"} => pause = NoPause
           /\ L.out = "open" \/ exiting # "none" => pause = NoPause
           /\ PhaseForActivity(L) # "" => PhaseIndex(NormalizeFailingPhase(failing)) = PhaseIndex(PhaseForActivity(L))
           /\ \A i \in DOMAIN h.acts : h.acts[i].name \in Writes => h.acts[i].tape # tape + 1
<1>1. /\ HistoryOK(h) /\ exiting \in {"none", "ok", "error"} /\ PauseOK(h, exiting, pause) /\ PhaseOK(h, failing, exiting)
      /\ TapeOK(h, tape) /\ TruthOK(h, station, truth) /\ L = Last(h.acts)
  BY DEF RunInv, RunOK, L
<1>2. tape \in 1..MaxTapes /\ MaxTapes \in Nat /\ 0 \in 0..MaxTapes /\ failing \in Phases
  <2>1. MaxTapes \in Nat
    BY RunEventsAssumption
  <2>2. 0 \in 0..MaxTapes
    BY ONLY <2>1
  <2> QED
    BY <1>1, <2>1, <2>2 DEF TapeOK, PhaseOK
<1>3. L.name \notin {"NotifyWritePathPause", "NotifyOperatorPause", "NotifyBurnPause"} => pause = NoPause
  BY <1>1, AlertsOfNames DEF PauseOK
<1>4. L.out = "open" \/ exiting # "none" => pause = NoPause
  BY <1>1 DEF PauseOK
<1>5. PhaseForActivity(L) # "" => PhaseIndex(NormalizeFailingPhase(failing)) = PhaseIndex(PhaseForActivity(L))
  BY <1>1, PhaseOfLast
<1>6. \A i \in DOMAIN h.acts : h.acts[i].name \in Writes => h.acts[i].tape # tape + 1
  <2>1. \A i \in DOMAIN h.acts : h.acts[i].name \in Writes => h.acts[i].tape \in 1..tape
    BY <1>1 DEF TapeOK, OnTape
  <2>2. tape + 1 \notin 1..tape
    BY <1>2
  <2> QED
    BY <2>1, <2>2
<1> QED
  BY <1>1, <1>2, <1>3, <1>4, <1>5, <1>6

LEMMA ExitKeeps ==
    ASSUME RunInv, ~h.closed, NEW how \in {"ok", "error"}, Exit(how), exiting = "none", pause' = NoPause, failing' = failing
    PROVE  RunKept
<1>1. tape \in 1..MaxTapes /\ MaxTapes \in Nat /\ 0 \in 0..MaxTapes /\ failing \in Phases
  BY Placed
<1>2. exiting' = how /\ tape' = tape /\ tape' \in tape..MaxTapes
  <2>1. exiting' = how /\ tape' = tape
    BY DEF Exit
  <2> QED
    BY <1>1, <2>1
<1>3. CASE Goes("NotifyFailure", failing, 0) /\ how = "error"
  <2>a. RunFits("NotifyFailure", failing, 0)
    BY <1>1, <1>2, <1>3, GoesIs DEF RunFits, Names, Phases
  <2>p. PhaseForActivity(Activity("NotifyFailure", failing, 0)) = ""
    BY DEF PhaseForActivity, Activity
  <2>b. PhaseFits("NotifyFailure", failing, 0)
    BY <1>1, <1>2, <1>3, <2>p DEF PhaseFits
  <2>c. TapeFits("NotifyFailure", 0)
    BY <1>1, <1>2, <1>3 DEF TapeFits, OnTape, Writes, BeforeTapes
  <2> QED
    BY <2>a, <2>b, <2>c, GoesKeeps
<1>4. CASE Goes("ReleaseSnapshots", "", 0)
  <2>a. RunFits("ReleaseSnapshots", "", 0)
    BY <1>1, <1>2, <1>4, GoesIs DEF RunFits, Names, Phases
  <2>p. PhaseForActivity(Activity("ReleaseSnapshots", "", 0)) = ""
    BY DEF PhaseForActivity, Activity
  <2>b. PhaseFits("ReleaseSnapshots", "", 0)
    BY <1>1, <1>2, <1>4, <2>p DEF PhaseFits
  <2>c. TapeFits("ReleaseSnapshots", 0)
    BY <1>1, <1>2, <1>4 DEF TapeFits, OnTape, Writes, BeforeTapes
  <2> QED
    BY <2>a, <2>b, <2>c, GoesKeeps
<1> QED
  BY <1>3, <1>4 DEF Exit

LEMMA EarlySteps ==
    ASSUME RunInv, ~h.closed, Resolved \/ Snapped \/ Held \/ Prepared
    PROVE  RunKept
<1>1. /\ tape \in 1..MaxTapes /\ MaxTapes \in Nat /\ 0 \in 0..MaxTapes /\ TapeOK(h, tape) /\ L = Last(h.acts)
      /\ (L.name \notin {"NotifyWritePathPause", "NotifyOperatorPause", "NotifyBurnPause"} => pause = NoPause)
  BY Placed
<1>2. tape \in tape..MaxTapes /\ tape \in 0..MaxTapes
  BY <1>1
<1>3. CASE Resolved
  <2>1. PhaseIndex(NormalizeFailingPhase("Snapshot")) = PhaseIndex("Resolve")
    BY DEF NormalizeFailingPhase
  <2>a. RunFits("CreateRunSnapshots", "", 0)
    BY <1>1, <1>2, <1>3, <2>1, GoesIs DEF RunFits, Names, Phases, Resolved, Step
  <2>p. PhaseForActivity(Activity("CreateRunSnapshots", "", 0)) = "Resolve"
    BY DEF PhaseForActivity, Activity
  <2>b. PhaseFits("CreateRunSnapshots", "", 0)
    BY <1>1, <1>2, <1>3, <2>1, <2>p DEF PhaseFits, Resolved, Step
  <2>c. TapeFits("CreateRunSnapshots", 0)
    BY <1>1, <1>2, <1>3, <2>1 DEF TapeFits, OnTape, Writes, BeforeTapes, Resolved, Step
  <2> QED
    BY <2>a, <2>b, <2>c, GoesKeeps
<1>4. CASE Snapped
  <2>1. PhaseIndex(NormalizeFailingPhase("Hold")) = PhaseIndex("Resolve")
    BY DEF NormalizeFailingPhase
  <2>a. RunFits("HoldSnapshots", "", 0)
    BY <1>1, <1>2, <1>4, <2>1, GoesIs DEF RunFits, Names, Phases, Snapped, Step
  <2>p. PhaseForActivity(Activity("HoldSnapshots", "", 0)) = "Resolve"
    BY DEF PhaseForActivity, Activity
  <2>b. PhaseFits("HoldSnapshots", "", 0)
    BY <1>1, <1>2, <1>4, <2>1, <2>p DEF PhaseFits, Snapped, Step
  <2>c. TapeFits("HoldSnapshots", 0)
    BY <1>1, <1>2, <1>4, <2>1 DEF TapeFits, OnTape, Writes, BeforeTapes, Snapped, Step
  <2> QED
    BY <2>a, <2>b, <2>c, GoesKeeps
<1>5. CASE Held
  <2>1. PhaseIndex(NormalizeFailingPhase("Prepare")) = PhaseIndex("Prepare")
    BY DEF NormalizeFailingPhase
  <2>a. RunFits("PrepareArchives", "", 0)
    BY <1>1, <1>2, <1>5, <2>1, GoesIs DEF RunFits, Names, Phases, Held, Step
  <2>p. PhaseForActivity(Activity("PrepareArchives", "", 0)) = "Prepare"
    BY DEF PhaseForActivity, Activity
  <2>b. PhaseFits("PrepareArchives", "", 0)
    BY <1>1, <1>2, <1>5, <2>1, <2>p DEF PhaseFits, Held, Step
  <2>c. TapeFits("PrepareArchives", 0)
    BY <1>1, <1>2, <1>5, <2>1 DEF TapeFits, OnTape, Writes, BeforeTapes, Held, Step
  <2> QED
    BY <2>a, <2>b, <2>c, GoesKeeps
<1>6. CASE Prepared
  <2>1. PhaseIndex(NormalizeFailingPhase("Load")) = PhaseIndex("Load")
    BY DEF NormalizeFailingPhase
  <2>2. \A i \in DOMAIN h.acts : h.acts[i].name \notin Writes
    BY <1>1, <1>6 DEF Prepared, Step, TapeOK, OnTape, BeforeTapes
  <2>a. RunFits("Load", "", tape)
    BY <1>1, <1>2, <1>6, <2>1, <2>2, GoesIs DEF RunFits, Names, Phases, Prepared, Step
  <2>p. PhaseForActivity(Activity("Load", "", tape)) = "Load"
    BY DEF PhaseForActivity, Activity
  <2>b. PhaseFits("Load", "", tape)
    BY <1>1, <1>2, <1>6, <2>1, <2>2, <2>p DEF PhaseFits, Prepared, Step
  <2>c. TapeFits("Load", tape)
    BY <1>1, <1>2, <1>6, <2>1, <2>2 DEF TapeFits, OnTape, Writes, BeforeTapes, Prepared, Step
  <2> QED
    BY <2>a, <2>b, <2>c, GoesKeeps
<1> QED
  BY <1>3, <1>4, <1>5, <1>6

LEMMA TapeRange ==
    ASSUME RunInv
    PROVE  tape \in tape..MaxTapes /\ tape \in 0..MaxTapes /\ (tape < MaxTapes => tape + 1 \in tape..MaxTapes /\ tape + 1 \in 0..MaxTapes)
<1>1. tape \in 1..MaxTapes /\ MaxTapes \in Nat
  BY Placed
<1> QED
  BY ONLY <1>1

LEMMA LoadSteps ==
    ASSUME RunInv, ~h.closed, LoadEnds
    PROVE  RunKept
<1>1. /\ tape \in 1..MaxTapes /\ MaxTapes \in Nat /\ 0 \in 0..MaxTapes /\ failing \in Phases /\ exiting \in {"none", "ok", "error"}
      /\ (L.name \notin {"NotifyWritePathPause", "NotifyOperatorPause", "NotifyBurnPause"} => pause = NoPause)
      /\ (PhaseForActivity(L) # "" => PhaseIndex(NormalizeFailingPhase(failing)) = PhaseIndex(PhaseForActivity(L)))
      /\ \A i \in DOMAIN h.acts : h.acts[i].name \in Writes => h.acts[i].tape # tape + 1
  BY Placed
<1>2. tape \in tape..MaxTapes /\ tape \in 0..MaxTapes /\ (tape < MaxTapes => tape + 1 \in tape..MaxTapes /\ tape + 1 \in 0..MaxTapes)
  BY TapeRange
<1>3. \A f \in {"Load", "Write", "Eject", "Burn", "Deliver"} : NormalizeFailingPhase(f) = f
  BY DEF NormalizeFailingPhase
<1>4. CASE L.out = "done" /\ Goes("FormatTape", "", tape) /\ failing' = "Write" /\ tape' = tape
  <2>a. RunFits("FormatTape", "", tape)
    BY <1>1, <1>2, <1>3, <1>4, GoesIs DEF RunFits, Names, Phases, LoadEnds, Step
  <2>p. PhaseForActivity(Activity("FormatTape", "", tape)) = "Write"
    BY DEF PhaseForActivity, Activity
  <2>b. PhaseFits("FormatTape", "", tape)
    BY <1>1, <1>2, <1>3, <1>4, <2>p DEF PhaseFits, LoadEnds, Step
  <2>c. TapeFits("FormatTape", tape)
    BY <1>1, <1>2, <1>3, <1>4 DEF TapeFits, OnTape, Writes, BeforeTapes, LoadEnds, Step
  <2> QED
    BY <2>a, <2>b, <2>c, GoesKeeps
<1>5. CASE L.out = "failed" /\ Alerts("NotifyWritePathPause", "Load")
  <2>1. PhaseForActivity(L) = "Load"
    BY PhasesOfNames DEF LoadEnds, Step
  <2>a. RunFits("NotifyWritePathPause", "Load", 0)
    BY <1>1, <1>2, <1>5, <2>1, GoesIs DEF RunFits, Names, Phases, LoadEnds, Step, Alerts
  <2>p. PhaseForActivity(Activity("NotifyWritePathPause", "Load", 0)) = "Load"
    BY DEF PhaseForActivity, Activity
  <2>b. PhaseFits("NotifyWritePathPause", "Load", 0)
    BY <1>1, <1>2, <1>5, <2>1, <2>p DEF PhaseFits, LoadEnds, Step, Alerts
  <2>c. TapeFits("NotifyWritePathPause", 0)
    BY <1>1, <1>2, <1>5, <2>1 DEF TapeFits, OnTape, Writes, BeforeTapes, LoadEnds, Step, Alerts
  <2> QED
    BY <2>a, <2>b, <2>c, GoesKeeps
<1> QED
  BY <1>4, <1>5 DEF LoadEnds

LEMMA WriteSteps ==
    ASSUME RunInv, ~h.closed, WriteEnds
    PROVE  RunKept
<1>1. /\ tape \in 1..MaxTapes /\ MaxTapes \in Nat /\ 0 \in 0..MaxTapes /\ failing \in Phases /\ exiting \in {"none", "ok", "error"}
      /\ (L.name \notin {"NotifyWritePathPause", "NotifyOperatorPause", "NotifyBurnPause"} => pause = NoPause)
      /\ (PhaseForActivity(L) # "" => PhaseIndex(NormalizeFailingPhase(failing)) = PhaseIndex(PhaseForActivity(L)))
      /\ \A i \in DOMAIN h.acts : h.acts[i].name \in Writes => h.acts[i].tape # tape + 1
  BY Placed
<1>2. tape \in tape..MaxTapes /\ tape \in 0..MaxTapes /\ (tape < MaxTapes => tape + 1 \in tape..MaxTapes /\ tape + 1 \in 0..MaxTapes)
  BY TapeRange
<1>3. \A f \in {"Load", "Write", "Eject", "Burn", "Deliver"} : NormalizeFailingPhase(f) = f
  BY DEF NormalizeFailingPhase
<1>a. L.name \in Writes /\ exiting = "none" /\ exiting' = "none" /\ pause' = pause /\ tape' = tape
  BY DEF WriteEnds, Writes
<1>b. pause' = NoPause /\ PhaseForActivity(L) = "Write"
  BY <1>1, <1>a, PhasesOfNames DEF Writes
<1>4. CASE L.name = "FormatTape" /\ Goes("WriteTree", "", tape) /\ failing' = failing
  <2>a. RunFits("WriteTree", "", tape)
    BY <1>1, <1>2, <1>4, <1>a, <1>b, GoesIs DEF RunFits, Names, Phases
  <2>p. PhaseForActivity(Activity("WriteTree", "", tape)) = "Write"
    BY DEF PhaseForActivity, Activity
  <2>b. PhaseFits("WriteTree", "", tape)
    BY <1>1, <1>2, <1>4, <1>a, <1>b, <2>p DEF PhaseFits
  <2>c. TapeFits("WriteTree", tape)
    BY <1>1, <1>2, <1>4, <1>a, <1>b DEF TapeFits, OnTape, Writes, BeforeTapes
  <2> QED
    BY <2>a, <2>b, <2>c, GoesKeeps
<1>5. CASE L.name = "WriteTree" /\ Goes("FinalizeTape", "", tape) /\ failing' = failing
  <2>a. RunFits("FinalizeTape", "", tape)
    BY <1>1, <1>2, <1>5, <1>a, <1>b, GoesIs DEF RunFits, Names, Phases
  <2>p. PhaseForActivity(Activity("FinalizeTape", "", tape)) = "Write"
    BY DEF PhaseForActivity, Activity
  <2>b. PhaseFits("FinalizeTape", "", tape)
    BY <1>1, <1>2, <1>5, <1>a, <1>b, <2>p DEF PhaseFits
  <2>c. TapeFits("FinalizeTape", tape)
    BY <1>1, <1>2, <1>5, <1>a, <1>b DEF TapeFits, OnTape, Writes, BeforeTapes
  <2> QED
    BY <2>a, <2>b, <2>c, GoesKeeps
<1>6. CASE Goes("Eject", "", tape) /\ failing' = "Eject"
  <2>a. RunFits("Eject", "", tape)
    BY <1>1, <1>2, <1>3, <1>6, <1>a, <1>b, GoesIs DEF RunFits, Names, Phases
  <2>p. PhaseForActivity(Activity("Eject", "", tape)) = "Eject"
    BY DEF PhaseForActivity, Activity
  <2>b. PhaseFits("Eject", "", tape)
    BY <1>1, <1>2, <1>3, <1>6, <1>a, <1>b, <2>p DEF PhaseFits
  <2>c. TapeFits("Eject", tape)
    BY <1>1, <1>2, <1>3, <1>6, <1>a, <1>b DEF TapeFits, OnTape, Writes, BeforeTapes
  <2> QED
    BY <2>a, <2>b, <2>c, GoesKeeps
<1> QED
  BY <1>4, <1>5, <1>6 DEF WriteEnds

LEMMA EjectSteps ==
    ASSUME RunInv, ~h.closed, EjectEnds
    PROVE  RunKept
<1>1. /\ tape \in 1..MaxTapes /\ MaxTapes \in Nat /\ 0 \in 0..MaxTapes /\ failing \in Phases /\ exiting \in {"none", "ok", "error"}
      /\ (L.name \notin {"NotifyWritePathPause", "NotifyOperatorPause", "NotifyBurnPause"} => pause = NoPause)
      /\ (PhaseForActivity(L) # "" => PhaseIndex(NormalizeFailingPhase(failing)) = PhaseIndex(PhaseForActivity(L)))
      /\ \A i \in DOMAIN h.acts : h.acts[i].name \in Writes => h.acts[i].tape # tape + 1
  BY Placed
<1>2. tape \in tape..MaxTapes /\ tape \in 0..MaxTapes /\ (tape < MaxTapes => tape + 1 \in tape..MaxTapes /\ tape + 1 \in 0..MaxTapes)
  BY TapeRange
<1>3. \A f \in {"Load", "Write", "Eject", "Burn", "Deliver"} : NormalizeFailingPhase(f) = f
  BY DEF NormalizeFailingPhase
<1>a. L.name = "Eject" /\ exiting = "none" /\ exiting' = "none" /\ pause' = NoPause
  BY <1>1 DEF EjectEnds, Step
<1>4. CASE tape' = tape + 1 /\ tape < MaxTapes /\ failing' = "Load" /\ Goes("Load", "", tape + 1)
  <2>a. RunFits("Load", "", tape + 1)
    BY <1>1, <1>2, <1>3, <1>4, <1>a, GoesIs DEF RunFits, Names, Phases
  <2>p. PhaseForActivity(Activity("Load", "", tape + 1)) = "Load"
    BY DEF PhaseForActivity, Activity
  <2>b. PhaseFits("Load", "", tape + 1)
    BY <1>1, <1>2, <1>3, <1>4, <1>a, <2>p DEF PhaseFits
  <2>c. TapeFits("Load", tape + 1)
    BY <1>1, <1>2, <1>3, <1>4, <1>a DEF TapeFits, OnTape, Writes, BeforeTapes
  <2> QED
    BY <2>a, <2>b, <2>c, GoesKeeps
<1>5. CASE failing' = "Burn" /\ Goes("BurnDisc", "", 0) /\ tape' = tape
  <2>a. RunFits("BurnDisc", "", 0)
    BY <1>1, <1>2, <1>3, <1>5, <1>a, GoesIs DEF RunFits, Names, Phases
  <2>p. PhaseForActivity(Activity("BurnDisc", "", 0)) = "Burn"
    BY DEF PhaseForActivity, Activity
  <2>b. PhaseFits("BurnDisc", "", 0)
    BY <1>1, <1>2, <1>3, <1>5, <1>a, <2>p DEF PhaseFits
  <2>c. TapeFits("BurnDisc", 0)
    BY <1>1, <1>2, <1>3, <1>5, <1>a DEF TapeFits, OnTape, Writes, BeforeTapes
  <2> QED
    BY <2>a, <2>b, <2>c, GoesKeeps
<1>6. CASE failing' = "Write" /\ Goes("NotifyWritePathPause", "Write", 0) /\ tape' = tape
  <2>a. RunFits("NotifyWritePathPause", "Write", 0)
    BY <1>1, <1>2, <1>3, <1>6, <1>a, GoesIs DEF RunFits, Names, Phases
  <2>p. PhaseForActivity(Activity("NotifyWritePathPause", "Write", 0)) = "Write"
    BY DEF PhaseForActivity, Activity
  <2>b. PhaseFits("NotifyWritePathPause", "Write", 0)
    BY <1>1, <1>2, <1>3, <1>6, <1>a, <2>p DEF PhaseFits
  <2>c. TapeFits("NotifyWritePathPause", 0)
    BY <1>1, <1>2, <1>3, <1>6, <1>a DEF TapeFits, OnTape, Writes, BeforeTapes
  <2> QED
    BY <2>a, <2>b, <2>c, GoesKeeps
<1> QED
  BY <1>4, <1>5, <1>6 DEF EjectEnds

LEMMA BurnSteps ==
    ASSUME RunInv, ~h.closed, BurnEnds
    PROVE  RunKept
<1>1. /\ tape \in 1..MaxTapes /\ MaxTapes \in Nat /\ 0 \in 0..MaxTapes /\ failing \in Phases /\ exiting \in {"none", "ok", "error"}
      /\ (L.name \notin {"NotifyWritePathPause", "NotifyOperatorPause", "NotifyBurnPause"} => pause = NoPause)
      /\ (PhaseForActivity(L) # "" => PhaseIndex(NormalizeFailingPhase(failing)) = PhaseIndex(PhaseForActivity(L)))
      /\ \A i \in DOMAIN h.acts : h.acts[i].name \in Writes => h.acts[i].tape # tape + 1
  BY Placed
<1>2. tape \in tape..MaxTapes /\ tape \in 0..MaxTapes /\ (tape < MaxTapes => tape + 1 \in tape..MaxTapes /\ tape + 1 \in 0..MaxTapes)
  BY TapeRange
<1>3. \A f \in {"Load", "Write", "Eject", "Burn", "Deliver"} : NormalizeFailingPhase(f) = f
  BY DEF NormalizeFailingPhase
<1>a. L.name = "BurnDisc" /\ exiting = "none" /\ exiting' = "none" /\ pause' = NoPause
  BY <1>1 DEF BurnEnds, Step
<1>4. CASE failing' = "Deliver" /\ Goes("Deliver", "", 0) /\ tape' = tape
  <2>a. RunFits("Deliver", "", 0)
    BY <1>1, <1>2, <1>3, <1>4, <1>a, GoesIs DEF RunFits, Names, Phases
  <2>p. PhaseForActivity(Activity("Deliver", "", 0)) = "Deliver"
    BY DEF PhaseForActivity, Activity
  <2>b. PhaseFits("Deliver", "", 0)
    BY <1>1, <1>2, <1>3, <1>4, <1>a, <2>p DEF PhaseFits
  <2>c. TapeFits("Deliver", 0)
    BY <1>1, <1>2, <1>3, <1>4, <1>a DEF TapeFits, OnTape, Writes, BeforeTapes
  <2> QED
    BY <2>a, <2>b, <2>c, GoesKeeps
<1>5. CASE Alerts("NotifyBurnPause", "")
  <2>1. PhaseForActivity(L) = "Burn"
    BY <1>a, PhasesOfNames
  <2>a. RunFits("NotifyBurnPause", "", 0)
    BY <1>1, <1>2, <1>5, <1>a, <2>1, GoesIs DEF RunFits, Names, Phases, Alerts
  <2>p. PhaseForActivity(Activity("NotifyBurnPause", "", 0)) = "Burn"
    BY DEF PhaseForActivity, Activity
  <2>b. PhaseFits("NotifyBurnPause", "", 0)
    BY <1>1, <1>2, <1>5, <1>a, <2>1, <2>p DEF PhaseFits, Alerts
  <2>c. TapeFits("NotifyBurnPause", 0)
    BY <1>1, <1>2, <1>5, <1>a, <2>1 DEF TapeFits, OnTape, Writes, BeforeTapes, Alerts
  <2> QED
    BY <2>a, <2>b, <2>c, GoesKeeps
<1> QED
  BY <1>4, <1>5 DEF BurnEnds

LEMMA ResumeSteps ==
    ASSUME RunInv, Resume
    PROVE  RunKept
<1>1. /\ tape \in 1..MaxTapes /\ MaxTapes \in Nat /\ 0 \in 0..MaxTapes /\ failing \in Phases /\ exiting \in {"none", "ok", "error"}
      /\ (L.name \notin {"NotifyWritePathPause", "NotifyOperatorPause", "NotifyBurnPause"} => pause = NoPause)
      /\ (PhaseForActivity(L) # "" => PhaseIndex(NormalizeFailingPhase(failing)) = PhaseIndex(PhaseForActivity(L)))
      /\ \A i \in DOMAIN h.acts : h.acts[i].name \in Writes => h.acts[i].tape # tape + 1
  BY Placed
<1>2. tape \in tape..MaxTapes /\ tape \in 0..MaxTapes /\ (tape < MaxTapes => tape + 1 \in tape..MaxTapes /\ tape + 1 \in 0..MaxTapes)
  BY TapeRange
<1>3. \A f \in {"Load", "Write", "Eject", "Burn", "Deliver"} : NormalizeFailingPhase(f) = f
  BY DEF NormalizeFailingPhase
<1>a. ~h.closed /\ pause # NoPause /\ pause' = NoPause /\ exiting' = exiting
  BY DEF Resume
<1>b. pause = Alert(L) /\ exiting = "none"
  BY <1>a, Placed DEF PauseOK
<1>4. CASE pause[1] = "write" /\ tape < MaxTapes /\ tape' = tape + 1 /\ failing' = "Load" /\ Goes("Load", "", tape + 1)
  <2>a. RunFits("Load", "", tape + 1)
    BY <1>1, <1>2, <1>3, <1>4, <1>a, <1>b, GoesIs DEF RunFits, Names, Phases
  <2>p. PhaseForActivity(Activity("Load", "", tape + 1)) = "Load"
    BY DEF PhaseForActivity, Activity
  <2>b. PhaseFits("Load", "", tape + 1)
    BY <1>1, <1>2, <1>3, <1>4, <1>a, <1>b, <2>p DEF PhaseFits
  <2>c. TapeFits("Load", tape + 1)
    BY <1>1, <1>2, <1>3, <1>4, <1>a, <1>b DEF TapeFits, OnTape, Writes, BeforeTapes
  <2> QED
    BY <2>a, <2>b, <2>c, GoesKeeps
<1>5. CASE /\ pause[1] = "eject" /\ station' = {} /\ tape' = tape /\ failing' = failing
           /\ h' = Scheduled(h, Activity("Eject", "", tape)) /\ truth' = truth
  <2>1. PhaseForActivity(L) = "Eject"
    BY <1>5, <1>b, AlertsOfNames, PhasesOfNames
  <2>a. RunFits("Eject", "", tape)
    BY <1>1, <1>2, <1>5, <1>a, <1>b, <2>1, GoesIs DEF RunFits, Names, Phases
  <2>p. PhaseForActivity(Activity("Eject", "", tape)) = "Eject"
    BY DEF PhaseForActivity, Activity
  <2>b. PhaseFits("Eject", "", tape)
    BY <1>1, <1>2, <1>5, <1>a, <1>b, <2>1, <2>p DEF PhaseFits
  <2>c. TapeFits("Eject", tape)
    BY <1>1, <1>2, <1>5, <1>a, <1>b, <2>1 DEF TapeFits, OnTape, Writes, BeforeTapes
  <2> QED
    BY <2>a, <2>b, <2>c, GoesKeeps
<1>6. CASE pause[1] = "burn" /\ Goes("BurnDisc", "", 0) /\ failing' = failing /\ tape' = tape
  <2>1. PhaseForActivity(L) = "Burn"
    BY <1>6, <1>b, AlertsOfNames, PhasesOfNames
  <2>a. RunFits("BurnDisc", "", 0)
    BY <1>1, <1>2, <1>6, <1>a, <1>b, <2>1, GoesIs DEF RunFits, Names, Phases
  <2>p. PhaseForActivity(Activity("BurnDisc", "", 0)) = "Burn"
    BY DEF PhaseForActivity, Activity
  <2>b. PhaseFits("BurnDisc", "", 0)
    BY <1>1, <1>2, <1>6, <1>a, <1>b, <2>1, <2>p DEF PhaseFits
  <2>c. TapeFits("BurnDisc", 0)
    BY <1>1, <1>2, <1>6, <1>a, <1>b, <2>1 DEF TapeFits, OnTape, Writes, BeforeTapes
  <2> QED
    BY <2>a, <2>b, <2>c, GoesKeeps
<1> QED
  BY <1>4, <1>5, <1>6 DEF Resume

\* The exits: after a failure, after the delivery, by the operator, by a
\* cancellation; then the deferred functions.
LEMMA ExitSteps ==
    ASSUME RunInv, ~h.closed, Fails \/ Delivered \/ GivenUp \/ Cancelled
    PROVE  RunKept
<1>1. /\ L.name \notin {"NotifyWritePathPause", "NotifyOperatorPause", "NotifyBurnPause"} => pause = NoPause
      /\ L.out = "open" \/ exiting # "none" => pause = NoPause
      /\ PauseOK(h, exiting, pause)
  BY Placed
<1>2. CASE Fails
  BY <1>1, <1>2, ExitKeeps DEF Fails
<1>3. CASE Delivered
  BY <1>1, <1>3, ExitKeeps DEF Delivered
<1>4. CASE GivenUp
  BY <1>1, <1>4, ExitKeeps DEF GivenUp, PauseOK
<1>5. CASE Cancelled
  BY <1>1, <1>5, ExitKeeps DEF Cancelled
<1> QED
  BY <1>2, <1>3, <1>4, <1>5

LEMMA ReleaseSteps ==
    ASSUME RunInv, ~h.closed, Released
    PROVE  RunKept
<1>1. /\ tape \in 1..MaxTapes /\ MaxTapes \in Nat /\ 0 \in 0..MaxTapes /\ failing \in Phases
      /\ exiting \in {"none", "ok", "error"} /\ (exiting # "none" => pause = NoPause)
  BY Placed
<1>2. exiting # "none" /\ exiting' = exiting /\ failing' = failing /\ tape' = tape /\ pause' = NoPause /\ pause' = pause
  BY <1>1 DEF Released
<1>a. tape' \in tape..MaxTapes
  BY <1>2, TapeRange
<1>3. CASE exiting = "error" /\ Goes("NotifyFailure", failing, 0)
  <2>a. RunFits("NotifyFailure", failing, 0)
    BY <1>1, <1>2, <1>3, <1>a, GoesIs DEF RunFits, Names, Phases
  <2>p. PhaseForActivity(Activity("NotifyFailure", failing, 0)) = ""
    BY DEF PhaseForActivity, Activity
  <2>b. PhaseFits("NotifyFailure", failing, 0)
    BY <1>1, <1>2, <1>3, <1>a, <2>p DEF PhaseFits
  <2>c. TapeFits("NotifyFailure", 0)
    BY <1>1, <1>2, <1>3, <1>a DEF TapeFits, OnTape, Writes, BeforeTapes
  <2> QED
    BY <2>a, <2>b, <2>c, GoesKeeps
<1>4. CASE /\ h' = Closing(h, exiting = "ok", IF exiting = "ok" THEN "" ELSE failing)
           /\ station' = station /\ truth' = truth
  <2>1. PICK ok, m : ok = (exiting = "ok") /\ m = (IF exiting = "ok" THEN "" ELSE failing)
    OBVIOUS
  <2>2. h' = Closing(h, ok, m) /\ (ok = TRUE => exiting = "ok") /\ (exiting = "error" => m \in {"", failing})
    BY <1>4, <2>1
  <2>3. RunOK(h, failing, exiting, tape, station, pause, truth)
    BY DEF RunInv
  <2>4. RunOK(Closing(h, ok, m), failing, exiting, tape, station, pause, truth)
    BY ONLY <2>2, <2>3, ClosingKeeps
  <2>5. HistoryOK(h)
    BY Placed
  <2>6. Closing(h, ok, m).acts = h.acts
    BY ONLY <2>5, ClosingIs
  <2>7. Grown(h, h')
    BY <2>2, <2>5, <2>6, SameGrown
  <2> QED
    BY <1>2, <1>4, <2>2, <2>4, <2>7 DEF RunKept, RunInv
<1> QED
  BY <1>3, <1>4 DEF Released

LEMMA PausedStep ==
    ASSUME RunInv, L.out # "open", Paused
    PROVE  RunKept
<1>1. PauseOK(h, exiting, pause) /\ HistoryOK(h) /\ L = Last(h.acts)
  BY Placed
<1>2. PICK n : n = Len(h.acts)
  OBVIOUS
<1>3. n \in DOMAIN h.acts /\ L = h.acts[n]
  BY <1>1, <1>2 DEF HistoryOK, Last
<1>4. L.name = "NotifyWritePathPause" => L.phase \in {"Load", "Write"}
  BY <1>1, <1>3 DEF PauseOK
<1>5. Alert(L) \in {NoPause} \cup Pauses
  BY <1>4 DEF Alert, Pauses
<1>6. /\ h' = h /\ failing' = failing /\ exiting' = exiting /\ tape' = tape /\ station' = station /\ truth' = truth
      /\ pause' = Alert(L) /\ exiting = "none"
  BY DEF Paused
<1>7. PauseOK(h, exiting, Alert(L))
  BY <1>1, <1>5, <1>6 DEF PauseOK
<1>8. Grown(h, h')
  BY <1>1, <1>6, SameGrown
<1> QED
  BY <1>6, <1>7, <1>8 DEF RunKept, RunInv, RunOK

LEMMA FinishKeeps ==
    ASSUME RunInv, NEW out \in {"done", "failed"}, Finish(out)
    PROVE  RunKept
<1>1. /\ HistoryOK(h) /\ PauseOK(h, exiting, pause) /\ PhaseOK(h, failing, exiting) /\ TapeOK(h, tape)
      /\ TruthOK(h, station, truth) /\ L = Last(h.acts) /\ L.out = "open"
  BY Placed DEF Finish
<1>2. PICK now : now = IF L.name = "Eject" /\ out = "done" THEN station \cup {L.tape} ELSE station
  OBVIOUS
<1>3. /\ h' = Ended(h, out, now) /\ station' = now
      /\ truth' = [truth EXCEPT
             !.written = IF L.name = "FinalizeTape" /\ out = "done" THEN truth.written \cup {L.tape} ELSE truth.written,
             !.failed = IF L.name \in Writes /\ out = "failed" THEN truth.failed \cup {L.tape} ELSE truth.failed,
             !.exported = IF L.name = "Eject" /\ out = "done" THEN truth.exported \cup {L.tape} ELSE truth.exported]
  BY <1>2 DEF Finish, Writes
<1>4. failing' = failing /\ exiting' = exiting /\ tape' = tape /\ pause' = pause
  BY DEF Finish
<1>5. PICK v : v = truth'
  OBVIOUS
<1>6. DOMAIN truth = {"written", "failed", "exported"}
  BY <1>1 DEF TruthOK
<1>7. DOMAIN v = {"written", "failed", "exported"}
  BY <1>3, <1>5, <1>6
<1>8. /\ v.failed = IF Last(h.acts).name \in Writes /\ out = "failed" THEN truth.failed \cup {Last(h.acts).tape} ELSE truth.failed
      /\ v.written = IF Last(h.acts).name = "FinalizeTape" /\ out = "done" THEN truth.written \cup {Last(h.acts).tape} ELSE truth.written
      /\ v.exported = IF Last(h.acts).name = "Eject" /\ out = "done" THEN truth.exported \cup {Last(h.acts).tape} ELSE truth.exported
  BY <1>1, <1>3, <1>5, <1>6
<1>9. L.name \in OnTape => L.tape \in 1..MaxTapes
  <2>1. PICK n : n = Len(h.acts)
    OBVIOUS
  <2>2. n \in DOMAIN h.acts /\ L = h.acts[n]
    BY <1>1, <2>1 DEF HistoryOK, Last
  <2>3. (L.name \in OnTape => L.tape \in 1..tape) /\ tape \in 1..MaxTapes /\ MaxTapes \in Nat
    BY <1>1, <2>2, Placed DEF TapeOK
  <2> QED
    BY ONLY <2>3
<1>10. truth.exported \subseteq v.exported /\ now \subseteq v.exported /\ v.exported \subseteq 1..MaxTapes
  BY <1>1, <1>2, <1>8, <1>9 DEF TruthOK, OnTape
<1>11. TruthOK(Ended(h, out, now), now, v)
  <2>1. Last(h.acts).name \in Writes => Last(h.acts).tape \in 1..MaxTapes
    BY <1>1, <1>9 DEF OnTape
  <2> QED
    BY ONLY <1>1, <1>7, <1>8, <1>10, <2>1, out \in {"done", "failed"}, EndedTruth
<1>12. now \in SUBSET (1..MaxTapes)
  BY <1>10
<1>13. HistoryOK(Ended(h, out, now))
  BY ONLY <1>1, <1>12, out \in {"done", "failed"}, EndedIs
<1>14. PauseOK(Ended(h, out, now), exiting, pause)
  BY <1>1, <1>12, EndedPause
<1>15. PhaseOK(Ended(h, out, now), failing, exiting)
  BY <1>1, <1>12, EndedPhase
<1>16. TapeOK(Ended(h, out, now), tape)
  BY <1>1, <1>12, EndedTape
<1>17. Grown(h, h')
  <2>1. /\ Len(h.acts) \in Nat \ {0} /\ DOMAIN h.acts = 1..Len(h.acts) /\ Len(Ended(h, out, now).acts) = Len(h.acts)
        /\ \A i \in 1..Len(h.acts) :
              Ended(h, out, now).acts[i].name = h.acts[i].name /\ Ended(h, out, now).acts[i].phase = h.acts[i].phase
    BY ONLY <1>1, <1>12, out \in {"done", "failed"}, EndedIs
  <2>2. Grown(h, Ended(h, out, now))
    BY <2>1 DEF Grown
  <2> QED
    BY <1>3, <2>2
<1> QED
  BY <1>3, <1>4, <1>5, <1>11, <1>13, <1>14, <1>15, <1>16, <1>17, Placed DEF RunKept, RunInv, RunOK

\* The station is full: the Eject ends, and the alert is scheduled.
LEMMA StationFullKeeps ==
    ASSUME RunInv, ~h.closed, StationFull
    PROVE  RunKept
<1>1. /\ HistoryOK(h) /\ PauseOK(h, exiting, pause) /\ PhaseOK(h, failing, exiting) /\ TapeOK(h, tape)
      /\ TruthOK(h, station, truth) /\ L = Last(h.acts) /\ L.out = "open" /\ L.name = "Eject" /\ failing \in Phases
      /\ 0 \in 0..MaxTapes /\ tape \in tape..MaxTapes /\ pause = NoPause
  BY Placed, TapeRange DEF StationFull, Step
<1>2. station \in SUBSET (1..MaxTapes)
  BY <1>1 DEF TruthOK
<1>3. PICK y : y = Ended(h, "done", station)
  OBVIOUS
<1>4. /\ HistoryOK(y) /\ DOMAIN y.acts = 1..Len(h.acts) /\ Len(h.acts) \in Nat \ {0}
      /\ Last(y.acts) = y.acts[Len(h.acts)] /\ y.acts[Len(h.acts)].name = h.acts[Len(h.acts)].name
      /\ Last(h.acts) = h.acts[Len(h.acts)]
  <2>1. /\ HistoryOK(y) /\ DOMAIN y.acts = 1..Len(h.acts) /\ Len(h.acts) \in Nat \ {0}
        /\ Last(y.acts) = y.acts[Len(h.acts)] /\ Last(h.acts) = h.acts[Len(h.acts)]
        /\ \A i \in 1..Len(h.acts) : y.acts[i].name = h.acts[i].name
    BY ONLY <1>1, <1>2, <1>3, EndedIs
  <2>2. Len(h.acts) \in 1..Len(h.acts)
    BY ONLY <2>1
  <2> QED
    BY <2>1, <2>2
<1>5. PauseOK(y, exiting, pause)
  BY <1>1, <1>2, <1>3, EndedPause
<1>6. PhaseOK(y, failing, exiting)
  BY <1>1, <1>2, <1>3, EndedPhase
<1>7. TapeOK(y, tape)
  BY <1>1, <1>2, <1>3, EndedTape
<1>8. TruthOK(y, station, truth)
  <2>1. /\ DOMAIN truth = {"written", "failed", "exported"} /\ station \subseteq truth.exported
        /\ truth.exported \subseteq 1..MaxTapes
    BY <1>1 DEF TruthOK
  <2>2. Last(h.acts).name \notin Writes /\ Last(h.acts).name # "FinalizeTape" /\ Last(h.acts).out = "open"
    BY <1>1 DEF Writes
  <2>3. PICK out : out = "done"
    OBVIOUS
  <2>4. TruthOK(Ended(h, out, station), station, truth)
    BY ONLY <1>1, <2>1, <2>2, <2>3, EndedTruth
  <2> QED
    BY <1>3, <2>3, <2>4
<1>9. PICK a : a = Activity("NotifyOperatorPause", "", 0)
  OBVIOUS
<1>10. /\ a \in Activities /\ a.name = "NotifyOperatorPause" /\ a.out = "open" /\ a.station = {}
       /\ PhaseForActivity(a) = "Eject"
  BY <1>1, <1>9 DEF Activity, Activities, Names, Phases, PhaseForActivity
<1>11. /\ h' = Scheduled(y, a) /\ station' = station /\ truth' = truth /\ failing' = failing /\ exiting' = "none"
       /\ exiting = "none" /\ tape' = tape /\ pause' = NoPause
  BY <1>1, <1>3, <1>9 DEF StationFull, Step
<1>12. HistoryOK(h')
  BY <1>4, <1>10, <1>11, ScheduledIs
<1>13. PauseOK(h', exiting', pause')
  BY <1>4, <1>5, <1>10, <1>11, ScheduledPause
<1>14. PhaseOK(h', failing', exiting')
  <2>1. PhaseIndex(NormalizeFailingPhase(failing)) = PhaseIndex("Eject")
    BY <1>1, Placed, PhasesOfNames
  <2>2. ~y.closed
    <3>1. y.closed = h.closed
      BY ONLY <1>1, <1>2, <1>3, EndedIs
    <3> QED
      BY <3>1
  <2> QED
    BY <1>1, <1>4, <1>6, <1>10, <1>11, <2>1, <2>2, ScheduledPhase
<1>15. TapeOK(h', tape')
  <2>1. a.name \notin OnTape /\ a.name \notin BeforeTapes /\ a.name \notin Writes /\ a.name # "Load"
    BY <1>10 DEF OnTape, BeforeTapes, Writes
  <2>2. TapeOK(Scheduled(y, a), tape)
    BY ONLY <1>1, <1>4, <1>7, <1>10, <2>1, ScheduledTape DEF Writes
  <2> QED
    BY <1>11, <2>2
<1>16. TruthOK(h', station', truth')
  BY <1>4, <1>8, <1>10, <1>11, ScheduledTruth
<1>17. Grown(h, h')
  <2>1. PICK n : n = Len(h.acts)
    OBVIOUS
  <2>2. /\ n \in Nat \ {0} /\ DOMAIN h.acts = 1..n /\ Len(y.acts) = n
        /\ \A i \in 1..n : y.acts[i].name = h.acts[i].name /\ y.acts[i].phase = h.acts[i].phase
    BY ONLY <1>1, <1>2, <1>3, <2>1, EndedIs
  <2>3. PICK z : z = Scheduled(y, a)
    OBVIOUS
  <2>4. Len(z.acts) = n + 1 /\ \A i \in 1..n : z.acts[i] = y.acts[i]
    BY ONLY <1>4, <1>10, <2>2, <2>3, ScheduledIs
  <2>5. Grown(h, z)
    BY <2>1, <2>2, <2>4 DEF Grown
  <2> QED
    BY <1>11, <2>3, <2>5
<1> QED
  BY <1>11, <1>12, <1>13, <1>14, <1>15, <1>16, <1>17 DEF RunKept, RunInv, RunOK

LEMMA RunPreserved ==
    ASSUME RunInv, [Next]_vars
    PROVE  RunKept
<1>1. HistoryOK(h)
  BY Placed
<1>2. CASE UNCHANGED run
  <2>1. /\ h' = h /\ failing' = failing /\ exiting' = exiting /\ tape' = tape /\ station' = station
        /\ truth' = truth /\ pause' = pause
    BY <1>2 DEF run
  <2>2. Grown(h, h')
    BY <1>1, <2>1, SameGrown
  <2> QED
    BY <2>1, <2>2 DEF RunKept, RunInv
<1>3. CASE PickUp
  <2>1. /\ h' = h /\ failing' = failing /\ exiting' = exiting /\ tape' = tape /\ station' = station
        /\ truth' = truth /\ pause' = pause
    BY <1>3 DEF PickUp
  <2>2. Grown(h, h')
    BY <1>1, <2>1, SameGrown
  <2> QED
    BY <2>1, <2>2 DEF RunKept, RunInv
<1>4. CASE Finish("done") \/ Finish("failed")
  BY <1>4, FinishKeeps
<1>5. CASE Decides
  <2>1. ~h.closed
    BY <1>5 DEF Decides
  <2>2. CASE StationFull
    BY <2>1, <2>2, StationFullKeeps
  <2>3. CASE L.out # "open" /\ Paused
    BY <2>3, PausedStep
  <2> QED
    BY <1>5, <2>1, <2>2, <2>3, EarlySteps, LoadSteps, WriteSteps, EjectSteps, BurnSteps, ExitSteps, ReleaseSteps
       DEF Decides
<1>6. CASE Resume
  BY <1>6, ResumeSteps
<1>7. CASE GivenUp \/ Cancelled
  <2>1. ~h.closed
    BY <1>7 DEF GivenUp, Cancelled
  <2> QED
    BY <1>7, <2>1, ExitSteps
<1>8. CASE Terminated
  <2>1. /\ h' = Closing(h, FALSE, "") /\ failing' = failing /\ exiting' = exiting /\ tape' = tape /\ station' = station
        /\ truth' = truth /\ pause' = pause
    BY <1>8 DEF Terminated
  <2>2. PICK ok, m : ok = FALSE /\ m = ""
    OBVIOUS
  <2>3. h' = Closing(h, ok, m) /\ (ok = TRUE => exiting = "ok") /\ (exiting = "error" => m \in {"", failing})
    BY <2>1, <2>2
  <2>4. RunOK(h, failing, exiting, tape, station, pause, truth)
    BY DEF RunInv
  <2>5. RunOK(Closing(h, ok, m), failing, exiting, tape, station, pause, truth)
    BY ONLY <2>3, <2>4, ClosingKeeps
  <2>6. Closing(h, ok, m).acts = h.acts
    BY ONLY <1>1, ClosingIs
  <2>7. Grown(h, h')
    BY <1>1, <2>3, <2>6, SameGrown
  <2> QED
    BY <2>1, <2>3, <2>5, <2>7 DEF RunKept, RunInv
<1>9. CASE WorkerLeaves \/ ViewReads \/ ViewAnswers \/ Drain \/ Rests \/ UNCHANGED vars
  BY <1>2, <1>9 DEF WorkerLeaves, ViewReads, ViewAnswers, Drain, Rests, vars
<1>10. ASSUME NEW c \in Conns, Connect(c) \/ Leave(c) \/ Stream(c)
       PROVE  UNCHANGED run
  BY <1>10 DEF Connect, Leave, Stream, ConnFetch, ConnFetchFails, ConnOpen, Subscribe, Receive, ConnDrain
<1>11. ASSUME NEW g \in Polls, Loop(g) \/ PollEnds(g)
       PROVE  UNCHANGED run
  BY <1>11 DEF Loop, Tick, PollFetch, PollFetchFails, Broadcast, PollEnds
<1> QED
  BY <1>2, <1>3, <1>4, <1>5, <1>6, <1>7, <1>8, <1>9, <1>10, <1>11 DEF Next, Workflow

LEMMA RunStarts == Init => RunInv
<1> SUFFICES ASSUME Init
             PROVE  RunInv
  OBVIOUS
<1>1. scenario \in Scenarios
  BY DEF Init
<1>2. PICK q : q = scenario.acts
  OBVIOUS
<1>3. /\ q \in Seq(Activities) /\ q # <<>> /\ PhaseForActivity(Last(q)) # ""
      /\ \A i \in DOMAIN q : q[i].name \notin {"Load", "FormatTape", "WriteTree", "FinalizeTape", "Eject",
                                               "NotifyWritePathPause", "NotifyFailure"}
  BY <1>1, <1>2, RunEventsAssumption
<1>4. /\ h.acts = q /\ DOMAIN h = {"acts", "closed", "succeeded", "message"} /\ failing = PhaseForActivity(Last(q))
      /\ exiting = "none" /\ tape = 1 /\ station = {} /\ pause = NoPause
      /\ DOMAIN truth = {"written", "failed", "exported"} /\ truth.written = {} /\ truth.failed = {} /\ truth.exported = {}
  BY <1>2 DEF Init, NoHistory
<1>5. ~h.closed /\ ~h.succeeded
  BY DEF Init, NoHistory
<1>6. HistoryOK(h)
  BY <1>3, <1>4 DEF HistoryOK
<1>7. PICK n : n = Len(q)
  OBVIOUS
<1>8. n \in Nat \ {0} /\ DOMAIN q = 1..n /\ Last(q) = q[n]
  <2>1. q \in Seq(Activities) /\ q # <<>>
    BY <1>3
  <2> QED
    BY ONLY <1>7, <2>1 DEF Last
<1>9. n \in 1..n /\ \A j \in 1..n : ~(j > n)
  BY ONLY <1>8
<1>10. PauseOK(h, exiting, pause)
  BY <1>3, <1>4 DEF PauseOK
<1>11. PhaseOK(h, failing, exiting)
  <2>1. LastInPhase(h, n)
    BY <1>3, <1>4, <1>8, <1>9 DEF LastInPhase
  <2>2. failing \in Phases /\ NormalizeFailingPhase(failing) = failing
    BY <1>4 DEF PhaseForActivity, Phases, NormalizeFailingPhase
  <2>3. PhaseIndex(NormalizeFailingPhase(failing)) = PhaseIndex(PhaseForActivity(h.acts[n]))
    BY <1>4, <1>8, <2>2
  <2>4. \A i \in DOMAIN h.acts : h.acts[i].name # "NotifyFailure"
    BY <1>3, <1>4
  <2> QED
    BY <1>4, <1>5, <1>8, <1>9, <2>1, <2>2, <2>3, <2>4 DEF PhaseOK
<1>12. TapeOK(h, tape)
  <2>1. 1 \in 1..MaxTapes
    <3>1. MaxTapes \in Nat \ {0}
      BY RunEventsAssumption
    <3> QED
      BY ONLY <3>1
  <2>2. \A i \in DOMAIN h.acts : h.acts[i].name \notin OnTape /\ h.acts[i].name \notin Writes
    BY <1>3, <1>4 DEF OnTape, Writes
  <2> QED
    BY <1>4, <2>1, <2>2 DEF TapeOK, Writes
<1>13. TruthOK(h, station, truth)
  <2>1. \A i \in DOMAIN h.acts : h.acts[i].name \notin Writes /\ h.acts[i].name # "FinalizeTape" /\ h.acts[i].name # "Eject"
    BY <1>3, <1>4 DEF Writes
  <2> QED
    BY <1>4, <2>1 DEF TruthOK
<1> QED
  BY <1>4, <1>6, <1>10, <1>11, <1>12, <1>13 DEF RunInv, RunOK

-----------------------------------------------------------------------------
(* The failures to come, and the view *)

LEMMA FaultsPreserved ==
    ASSUME FaultInv, [Next]_vars
    PROVE  FaultInv'
<1>1. scenario \in Scenarios => scenario.faults \in [{"run", "calls"} -> Nat]
  BY RunEventsAssumption
<1>2. ASSUME NEW w \in {"run", "calls"}, Fault(w), scenario' = scenario
      PROVE  FaultInv'
  <2>1. faults \in [{"run", "calls"} -> Nat] /\ faults[w] > 0 /\ faults' = [faults EXCEPT ![w] = faults[w] - 1]
    BY <1>2 DEF FaultInv, Fault
  <2>2. faults[w] - 1 \in Nat
    BY <2>1
  <2>3. faults' \in [{"run", "calls"} -> Nat]
    BY <2>1, <2>2
  <2>4. \A v \in {"run", "calls"} : faults'[v] = IF v = w THEN faults[v] - 1 ELSE faults[v]
    BY <2>1
  <2>5. \A v \in {"run", "calls"} : faults[v] \in Nat /\ scenario.faults[v] \in Nat /\ faults[v] <= scenario.faults[v]
    BY <1>1, <2>1 DEF FaultInv
  <2>6. \A v \in {"run", "calls"} : faults'[v] <= scenario.faults[v]
    BY <2>4, <2>5
  <2> QED
    BY <1>2, <2>3, <2>6 DEF FaultInv
<1>3. CASE faults' = faults /\ scenario' = scenario
  BY <1>3 DEF FaultInv
<1>4. scenario' = scenario
  BY DEF Next, Workflow, PickUp, Finish, Decides, Resume, GivenUp, Cancelled, Terminated, WorkerLeaves, ViewReads,
         ViewAnswers, Drain, Rests, vars, Connect, Leave, Stream, ConnFetch, ConnFetchFails, ConnOpen, Subscribe,
         Receive, ConnDrain, Loop, Tick, PollFetch, PollFetchFails, Broadcast, PollEnds
<1>5. faults' = faults \/ Fault("run") \/ Fault("calls")
  BY DEF Next, Workflow, PickUp, Finish, Decides, Resume, GivenUp, Cancelled, Terminated, WorkerLeaves, ViewReads,
         ViewAnswers, Drain, Rests, vars, Connect, Leave, Stream, ConnFetch, ConnFetchFails, ConnOpen, Subscribe,
         Receive, ConnDrain, Loop, Tick, PollFetch, PollFetchFails, Broadcast, PollEnds
<1> QED
  BY <1>2, <1>3, <1>4, <1>5

LEMMA GrownOn ==
    ASSUME NEW x, NEW y, NEW z, x.acts \in Seq(Activities), y.acts \in Seq(Activities), z.acts \in Seq(Activities),
           Grown(x, y), Grown(y, z)
    PROVE  Grown(x, z)
<1>1. /\ Len(x.acts) \in Nat /\ Len(y.acts) \in Nat /\ Len(z.acts) \in Nat
      /\ DOMAIN x.acts = 1..Len(x.acts) /\ DOMAIN y.acts = 1..Len(y.acts)
  OBVIOUS
<1>2. Len(x.acts) <= Len(y.acts) /\ Len(y.acts) <= Len(z.acts)
  BY DEF Grown
<1>3. DOMAIN x.acts \subseteq DOMAIN y.acts /\ Len(x.acts) <= Len(z.acts)
  BY <1>1, <1>2
<1> QED
  BY <1>3 DEF Grown

LEMMA ViewPreserved ==
    ASSUME RunInv, RunKept, ViewInv, [Next]_vars
    PROVE  ViewInv'
<1>1. h.acts \in Seq(Activities) /\ h'.acts \in Seq(Activities) /\ Grown(h, h')
  BY DEF RunKept, RunInv, RunOK, HistoryOK
<1>2. CASE view' = view
  <2>1. ASSUME view.st = "read"
        PROVE  view.h.acts \in Seq(Activities) /\ Grown(view.h, h')
    BY <1>1, <2>1, GrownOn DEF ViewInv
  <2> QED
    BY <1>2, <2>1 DEF ViewInv
<1>3. CASE ViewReads
  <2>1. view'.st = "read" /\ view'.h = h /\ h' = h
    BY <1>3 DEF ViewReads, run
  <2> QED
    BY <1>1, <2>1 DEF ViewInv
<1>4. CASE ViewAnswers
  BY <1>4 DEF ViewAnswers, ViewInv
<1>5. view' = view \/ ViewReads \/ ViewAnswers
  BY DEF Next, Workflow, PickUp, Finish, Decides, Resume, GivenUp, Cancelled, Terminated, WorkerLeaves, api,
         Drain, Rests, vars, Connect, Leave, Stream, ConnFetch, ConnFetchFails, ConnOpen, Subscribe,
         Receive, ConnDrain, Loop, Tick, PollFetch, PollFetchFails, Broadcast, PollEnds
<1> QED
  BY <1>2, <1>3, <1>4, <1>5

-----------------------------------------------------------------------------
(* Streams and poll loops *)

LEMMA LeastOf ==
    ASSUME NEW m \in Nat, NEW N, N \subseteq 1..m, N # {}
    PROVE  \E k \in N : \A j \in N : k =< j
<1>1. N \subseteq Nat
  OBVIOUS
<1> DEFINE R == OpToRel(<, Nat)
<1>2. PICK k \in N : \A j \in N : ~(<<j, k>> \in R)
  <2>1. IsWellFoundedOn(R, Nat)
    BY NatLessThanWellFounded
  <2> QED
    BY ONLY <1>1, <2>1, N # {}, WFMin
<1>3. \A j \in N : ~(j < k)
  BY <1>1, <1>2 DEF OpToRel
<1> QED
  BY <1>1, <1>3

ApiInv == ConnInv /\ PollInv /\ LoopInv

LEMMA ApiFrame ==
    ASSUME ApiInv, conn' = conn, poll' = poll, current' = current
    PROVE  ApiInv'
BY DEF ApiInv, ConnInv, PollInv, LoopInv

\* A stream that does not subscribe, or end, only changes what it keeps.
LEMMA ConnStep ==
    ASSUME ApiInv, NEW c \in Conns, poll' = poll, current' = current,
           DOMAIN conn' = Conns, \A d \in Conns : d # c => conn'[d] = conn[d],
           DOMAIN conn'[c] = DOMAIN conn[c], IsDetail(conn'[c].box),
           conn'[c].st \in {"off", "fetch", "opened", "stream", "gone"},
           conn'[c].st = "stream" => conn[c].st = "stream" /\ conn'[c].poll = conn[c].poll
    PROVE  ApiInv'
<1>1. ConnInv'
  BY DEF ApiInv, ConnInv
<1>2. PollInv'
  BY DEF ApiInv, PollInv
<1>3. LoopInv'
  BY DEF ApiInv, LoopInv
<1> QED
  BY <1>1, <1>2, <1>3 DEF ApiInv

\* A loop that is neither subscribed to nor stopped only changes its state.
LEMMA PollStep ==
    ASSUME ApiInv, NEW g \in Polls, current' = current, poll[g].st # "none",
           DOMAIN conn' = Conns,
           \A c \in Conns : /\ DOMAIN conn'[c] = DOMAIN conn[c] /\ IsDetail(conn'[c].box)
                            /\ conn'[c].st = conn[c].st /\ conn'[c].poll = conn[c].poll,
           DOMAIN poll' = Polls, \A k \in Polls : k # g => poll'[k] = poll[k],
           DOMAIN poll'[g] = DOMAIN poll[g], IsDetail(poll'[g].terminal), poll'[g].subs = poll[g].subs,
           poll'[g].stopped = poll[g].stopped,
           poll'[g].st = "over" \/ (poll'[g].st \in {"wait", "fetch"} /\ poll[g].st \in {"wait", "fetch"})
    PROVE  ApiInv'
<1>1. ConnInv'
  BY DEF ApiInv, ConnInv
<1>2. PollInv'
  BY DEF ApiInv, PollInv
<1>3. \A k \in Polls : poll'[k].subs = poll[k].subs /\ poll'[k].stopped = poll[k].stopped
  OBVIOUS
<1>4. \A k \in Polls : poll'[k].st = "none" => poll[k].st = "none"
  OBVIOUS
<1>5. \A k \in Polls : poll'[k].st \in {"wait", "fetch"} => poll[k].st \in {"wait", "fetch"}
  OBVIOUS
<1>6. current # 0 => current \in Polls
  <2>1. MaxPolls \in Nat /\ current \in 0..MaxPolls
    BY RunEventsAssumption DEF ApiInv, LoopInv
  <2> QED
    BY ONLY <2>1 DEF Polls
<1>7. LoopInv'
  BY <1>3, <1>4, <1>5, <1>6 DEF ApiInv, LoopInv
<1> QED
  BY <1>1, <1>2, <1>7 DEF ApiInv

LEMMA SubscribeKeeps ==
    ASSUME ApiInv, NEW c \in Conns, Subscribe(c)
    PROVE  ApiInv'
<1>1. ConnInv /\ PollInv /\ LoopInv
  BY DEF ApiInv
<1>2. PICK g : g = IF current # 0 THEN current ELSE Min({k \in Polls : poll[k].st = "none"})
  OBVIOUS
<1>3. MaxPolls \in Nat
  BY RunEventsAssumption
<1>4. /\ g \in Polls /\ ~poll[g].stopped
      /\ current # 0 => g = current
      /\ current = 0 => poll[g].st = "none"
  <2>1. CASE current # 0
    BY <1>1, <1>2, <1>3, <2>1 DEF LoopInv, Polls
  <2>2. CASE current = 0
    <3>1. PICK N : N = {k \in Polls : poll[k].st = "none"}
      OBVIOUS
    <3>2. N # {} /\ N \subseteq Polls
      BY <2>2, <3>1 DEF Subscribe
    <3>3. Min(N) \in N
      <4>1. \E k \in N : \A j \in N : k =< j
        BY <1>3, <3>2, LeastOf DEF Polls
      <4> QED
        BY <4>1 DEF Min
    <3> QED
      BY <1>1, <1>2, <2>2, <3>1, <3>2, <3>3 DEF LoopInv
  <2> QED
    BY <2>1, <2>2
<1>5. /\ conn[c].st = "opened" /\ current' = g
      /\ poll' = [poll EXCEPT ![g].subs = @ \cup {c}, ![g].st = IF @ = "none" THEN "wait" ELSE @]
      /\ conn' = [conn EXCEPT ![c].st = "stream", ![c].poll = g, ![c].box = poll[g].terminal]
  BY <1>2 DEF Subscribe
<1>6. /\ DOMAIN poll' = Polls /\ \A k \in Polls : k # g => poll'[k] = poll[k]
      /\ DOMAIN poll'[g] = DOMAIN poll[g] /\ poll'[g].subs = poll[g].subs \cup {c}
      /\ poll'[g].st = (IF poll[g].st = "none" THEN "wait" ELSE poll[g].st)
      /\ poll'[g].stopped = poll[g].stopped /\ poll'[g].terminal = poll[g].terminal
  BY <1>1, <1>4, <1>5 DEF PollInv
<1>7. /\ DOMAIN conn' = Conns /\ \A d \in Conns : d # c => conn'[d] = conn[d]
      /\ DOMAIN conn'[c] = DOMAIN conn[c] /\ conn'[c].st = "stream" /\ conn'[c].poll = g /\ conn'[c].box = poll[g].terminal
  BY <1>1, <1>5 DEF ConnInv
<1>8. PollInv'
  BY <1>1, <1>4, <1>6 DEF PollInv
<1>9. ConnInv'
  BY <1>1, <1>4, <1>7 DEF ConnInv, PollInv
<1>10. g \in 0..MaxPolls /\ g # 0
  BY <1>3, <1>4 DEF Polls
<1>11. ASSUME NEW k \in Polls
       PROVE  /\ poll'[k].st = "none" => poll'[k].subs = {} /\ ~poll'[k].stopped
              /\ poll'[k].st \in {"wait", "fetch"} /\ ~poll'[k].stopped => current' = k
  <2>1. CASE k = g
    BY <1>4, <1>5, <1>6, <2>1
  <2>2. CASE k # g
    <3>1. poll'[k] = poll[k]
      BY <1>6, <2>2
    <3>2. k # 0
      BY <1>3 DEF Polls
    <3> QED
      BY <1>1, <1>4, <2>2, <3>1, <3>2 DEF LoopInv
  <2> QED
    BY <2>1, <2>2
<1>12. ASSUME NEW d \in Conns, conn'[d].st = "stream"
       PROVE  conn'[d].poll \in Polls /\ ~poll'[conn'[d].poll].stopped /\ d \in poll'[conn'[d].poll].subs
  <2>1. CASE d = c
    BY <1>4, <1>6, <1>7, <2>1
  <2>2. CASE d # c
    <3>1. conn'[d] = conn[d] /\ conn[d].st = "stream"
      BY <1>7, <1>12, <2>2
    <3>2. conn[d].poll \in Polls /\ ~poll[conn[d].poll].stopped /\ d \in poll[conn[d].poll].subs
      BY <1>1, <3>1 DEF LoopInv
    <3>3. CASE conn[d].poll = g
      BY <1>4, <1>6, <3>1, <3>2, <3>3
    <3>4. CASE conn[d].poll # g
      BY <1>6, <3>1, <3>2, <3>4
    <3> QED
      BY <3>3, <3>4
  <2> QED
    BY <2>1, <2>2
<1>13. poll'[current'].subs # {} /\ ~poll'[current'].stopped /\ current' \in 0..MaxPolls
  BY <1>4, <1>5, <1>6, <1>10
<1>14. LoopInv'
  BY <1>11, <1>12, <1>13 DEF LoopInv
<1> QED
  BY <1>8, <1>9, <1>14 DEF ApiInv

\* A stream ends: the last subscriber stops the loop and takes it out of the map.
LEMMA EndKeeps ==
    ASSUME ApiInv, NEW c \in Conns, NEW d, NEW done, conn[c].st = "stream", Over(c, d, done), Unsubscribe(c)
    PROVE  ApiInv'
<1>1. ConnInv /\ PollInv /\ LoopInv /\ MaxPolls \in Nat
  BY RunEventsAssumption DEF ApiInv
<1>2. PICK g : g = conn[c].poll
  OBVIOUS
<1>3. g \in Polls /\ ~poll[g].stopped /\ c \in poll[g].subs
  BY <1>1, <1>2 DEF LoopInv
<1>4. PICK last \in BOOLEAN : last <=> poll[g].subs = {c}
  OBVIOUS
<1>5. /\ poll' = [poll EXCEPT ![g].subs = poll[g].subs \ {c}, ![g].stopped = (poll[g].subs = {c})]
      /\ current' = IF last /\ current = g THEN 0 ELSE current
  BY <1>2, <1>4 DEF Unsubscribe
<1>6. /\ DOMAIN poll' = Polls /\ \A k \in Polls : k # g => poll'[k] = poll[k]
      /\ DOMAIN poll'[g] = DOMAIN poll[g] /\ poll'[g].subs = poll[g].subs \ {c}
      /\ poll'[g].st = poll[g].st /\ poll'[g].terminal = poll[g].terminal
  BY <1>1, <1>3, <1>5 DEF PollInv
<1>7. poll'[g].stopped <=> last
  BY <1>1, <1>3, <1>4, <1>5 DEF PollInv
<1>8. conn' = [conn EXCEPT ![c].st = "gone", ![c].box = NoDetail, ![c].shown = d, ![c].done = done]
  BY DEF Over
<1>9. /\ DOMAIN conn' = Conns /\ \A e \in Conns : e # c => conn'[e] = conn[e]
      /\ DOMAIN conn'[c] = DOMAIN conn[c] /\ conn'[c].st = "gone" /\ conn'[c].box = NoDetail
  BY <1>1, <1>8 DEF ConnInv
<1>10. PollInv'
  BY <1>1, <1>3, <1>6 DEF PollInv
<1>11. ConnInv'
  BY <1>1, <1>9 DEF ConnInv, NoDetail, IsDetail
<1>12. ASSUME NEW k \in Polls
       PROVE  /\ poll'[k].st = "none" => poll'[k].subs = {} /\ ~poll'[k].stopped
              /\ poll'[k].st \in {"wait", "fetch"} /\ ~poll'[k].stopped => current' = k
  <2>1. CASE k = g
    <3>1. poll[g].st # "none"
      BY <1>1, <1>3 DEF LoopInv
    <3>2. poll[g].st \in {"wait", "fetch"} => current = g
      BY <1>1, <1>3 DEF LoopInv
    <3> QED
      BY <1>5, <1>6, <1>7, <2>1, <3>1, <3>2
  <2>2. CASE k # g
    BY <1>1, <1>5, <1>6, <2>2 DEF LoopInv
  <2> QED
    BY <2>1, <2>2
<1>13. ASSUME NEW e \in Conns, conn'[e].st = "stream"
       PROVE  conn'[e].poll \in Polls /\ ~poll'[conn'[e].poll].stopped /\ e \in poll'[conn'[e].poll].subs
  <2>1. e # c /\ conn'[e] = conn[e] /\ conn[e].st = "stream"
    BY <1>9, <1>13
  <2>2. conn[e].poll \in Polls /\ ~poll[conn[e].poll].stopped /\ e \in poll[conn[e].poll].subs
    BY <1>1, <2>1 DEF LoopInv
  <2>3. CASE conn[e].poll = g
    <3>1. ~last /\ e \in poll'[g].subs
      BY <1>4, <1>6, <2>1, <2>2, <2>3
    <3> QED
      BY <1>7, <2>1, <2>2, <2>3, <3>1
  <2>4. CASE conn[e].poll # g
    BY <1>6, <2>1, <2>2, <2>4
  <2> QED
    BY <2>3, <2>4
<1>14. current' # 0 => poll'[current'].subs # {} /\ ~poll'[current'].stopped
  <2>1. SUFFICES ASSUME current' # 0
                 PROVE  poll'[current'].subs # {} /\ ~poll'[current'].stopped
    OBVIOUS
  <2>2. current' = current /\ (current = g => ~last) /\ current \in Polls /\ poll[current].subs # {} /\ ~poll[current].stopped
    <3>1. current' = current /\ (current = g => ~last)
      BY <1>5, <2>1
    <3>2. current \in 0..MaxPolls /\ current # 0
      BY <1>1, <2>1, <3>1 DEF LoopInv
    <3>3. current \in Polls
      BY ONLY <1>1, <3>2 DEF Polls
    <3> QED
      BY <1>1, <3>1, <3>2, <3>3 DEF LoopInv
  <2>3. CASE current = g
    BY <1>3, <1>4, <1>6, <1>7, <2>2, <2>3
  <2>4. CASE current # g
    BY <1>6, <2>2, <2>4
  <2> QED
    BY <2>3, <2>4
<1>15. current' \in 0..MaxPolls
  BY <1>1, <1>5 DEF LoopInv
<1>16. LoopInv'
  BY <1>12, <1>13, <1>14, <1>15 DEF LoopInv
<1> QED
  BY <1>10, <1>11, <1>16 DEF ApiInv

LEMMA StreamKeeps ==
    ASSUME ApiInv, NEW c \in Conns, Connect(c) \/ Leave(c) \/ Stream(c)
    PROVE  ApiInv'
<1>1. ConnInv /\ PollInv /\ LoopInv
  BY DEF ApiInv
<1>2. /\ DOMAIN conn = Conns /\ DOMAIN conn[c] = {"st", "f", "shown", "poll", "box", "done"} /\ IsDetail(conn[c].box)
      /\ conn[c].st \in {"off", "fetch", "opened", "stream", "gone"}
  BY <1>1 DEF ConnInv
<1>3. CASE Connect(c)
  <2>1. conn' = [conn EXCEPT ![c].st = "fetch"] /\ poll' = poll /\ current' = current
    BY <1>3 DEF Connect
  <2> QED
    BY <1>2, <2>1, ConnStep
<1>4. CASE ConnFetch(c)
  <2>1. PICK f : conn' = [conn EXCEPT ![c].f = f] /\ poll' = poll /\ current' = current
    BY <1>4 DEF ConnFetch
  <2> QED
    BY <1>2, <2>1, ConnStep
<1>5. CASE ConnFetchFails(c)
  <2>1. conn' = [conn EXCEPT ![c].st = "gone"] /\ poll' = poll /\ current' = current
    BY <1>5 DEF ConnFetchFails
  <2> QED
    BY <1>2, <2>1, ConnStep
<1>6. CASE ConnOpen(c)
  <2>a. PICK d, done, st : d = Detail(conn[c].f) /\ done = (d.status # "running") /\ st = IF d.status = "running" THEN "opened" ELSE "gone"
    OBVIOUS
  <2>1. conn' = [conn EXCEPT ![c].shown = d, ![c].f = NoFetch, ![c].done = done, ![c].st = st] /\ st \in {"opened", "gone"}
    BY <1>6, <2>a DEF ConnOpen
  <2>2. poll' = poll /\ current' = current
    BY <1>6 DEF ConnOpen
  <2> QED
    BY <1>2, <2>1, <2>2, ConnStep
<1>7. CASE Subscribe(c)
  BY <1>7, SubscribeKeeps
<1>8. CASE Receive(c)
  <2>1. PICK d : d = Carried(conn[c].box, conn[c].shown)
    OBVIOUS
  <2>2. conn[c].st = "stream"
    BY <1>8 DEF Receive
  <2>3. CASE Over(c, d, TRUE) /\ Unsubscribe(c)
    BY <2>2, <2>3, EndKeeps
  <2>4. CASE conn' = [conn EXCEPT ![c].box = NoDetail, ![c].shown = d] /\ poll' = poll /\ current' = current
    <3>1. IsDetail(NoDetail)
      BY DEF IsDetail, NoDetail
    <3> QED
      BY <1>2, <2>2, <2>4, <3>1, ConnStep
  <2> QED
    BY <1>8, <2>1, <2>3, <2>4 DEF Receive
<1>9. CASE Leave(c) \/ ConnDrain(c)
  BY <1>9, EndKeeps DEF Leave, ConnDrain
<1> QED
  BY <1>3, <1>4, <1>5, <1>6, <1>7, <1>8, <1>9 DEF Stream

LEMMA LoopKeeps ==
    ASSUME ApiInv, NEW g \in Polls, Loop(g) \/ PollEnds(g)
    PROVE  ApiInv'
<1>1. ConnInv /\ PollInv /\ LoopInv
  BY DEF ApiInv
<1>2. DOMAIN poll = Polls /\ DOMAIN poll[g] = {"st", "stopped", "subs", "terminal", "f"} /\ IsDetail(poll[g].terminal)
  BY <1>1 DEF PollInv
<1>3. DOMAIN conn = Conns /\ \A c \in Conns : IsDetail(conn[c].box) /\ DOMAIN conn[c] = {"st", "f", "shown", "poll", "box", "done"}
  BY <1>1 DEF ConnInv
<1>4. CASE Tick(g)
  <2>1. poll[g].st = "wait" /\ poll' = [poll EXCEPT ![g].st = "fetch", ![g].f = NoFetch] /\ conn' = conn /\ current' = current
    BY <1>4 DEF Tick
  <2> QED
    BY <1>2, <1>3, <2>1, PollStep
<1>5. CASE PollFetch(g)
  <2>1. PICK f : poll' = [poll EXCEPT ![g].f = f]
    BY <1>5 DEF PollFetch
  <2>2. poll[g].st = "fetch" /\ conn' = conn /\ current' = current
    BY <1>5 DEF PollFetch
  <2> QED
    BY <1>2, <1>3, <2>1, <2>2, PollStep
<1>6. CASE PollFetchFails(g)
  <2>1. poll[g].st = "fetch" /\ poll' = [poll EXCEPT ![g].st = "wait", ![g].f = NoFetch] /\ conn' = conn /\ current' = current
    BY <1>6 DEF PollFetchFails
  <2> QED
    BY <1>2, <1>3, <2>1, PollStep
<1>7. CASE Broadcast(g)
  <2>1. PICK d : d = Detail(poll[g].f)
    OBVIOUS
  <2>2. IsDetail(d)
    BY <2>1 DEF Detail, IsDetail
  <2>3. PICK st, f, t :
           /\ poll' = [poll EXCEPT ![g].st = st, ![g].f = f, ![g].terminal = t] /\ t \in {d, poll[g].terminal}
           /\ st \in {"over", "wait"}
    BY <1>7, <2>1 DEF Broadcast
  <2>4. /\ poll[g].st = "fetch" /\ current' = current
        /\ conn' = [c \in Conns |-> IF c \in poll[g].subs THEN [conn[c] EXCEPT !.box = d] ELSE conn[c]]
    BY <1>7, <2>1 DEF Broadcast, SendLatest
  <2>5. \A c \in Conns : /\ DOMAIN conn'[c] = DOMAIN conn[c] /\ IsDetail(conn'[c].box)
                         /\ conn'[c].st = conn[c].st /\ conn'[c].poll = conn[c].poll
    BY <1>3, <2>2, <2>4
  <2> QED
    BY <1>2, <2>2, <2>3, <2>4, <2>5, PollStep
<1>8. CASE PollEnds(g)
  <2>1. poll[g].st = "wait" /\ poll' = [poll EXCEPT ![g].st = "over"] /\ conn' = conn /\ current' = current
    BY <1>8 DEF PollEnds
  <2> QED
    BY <1>2, <1>3, <2>1, PollStep
<1> QED
  BY <1>4, <1>5, <1>6, <1>7, <1>8 DEF Loop

-----------------------------------------------------------------------------
(* What the invariant tells of the run *)

LEMMA GreatestOf ==
    ASSUME NEW m \in Nat, NEW N, N \subseteq 1..m, N # {}
    PROVE  \E k \in N : \A j \in N : k >= j
<1> DEFINE M == {i \in 1..(m + 1) : (m + 1) - i \in N}
<1>1. M \subseteq 1..(m + 1) /\ M # {}
  <2>1. PICK j \in N : TRUE
    OBVIOUS
  <2>2. (m + 1) - j \in 1..(m + 1) /\ (m + 1) - ((m + 1) - j) = j
    BY <2>1
  <2> QED
    BY <2>1, <2>2
<1>2. PICK i \in M : \A k \in M : i =< k
  <2>1. m + 1 \in Nat
    OBVIOUS
  <2> HIDE DEF M
  <2> QED
    BY <1>1, <2>1, LeastOf
<1>3. (m + 1) - i \in N
  BY <1>2
<1>4. ASSUME NEW j \in N
      PROVE  (m + 1) - i >= j
  <2>1. (m + 1) - j \in 1..(m + 1) /\ (m + 1) - ((m + 1) - j) = j
    OBVIOUS
  <2>2. i =< (m + 1) - j
    BY <1>2, <2>1
  <2> QED
    BY <1>2, <2>2
<1> QED
  BY <1>3, <1>4

LEMMA PausesDerived ==
    ASSUME RunInv
    PROVE  PauseDerived
<1>1. HistoryOK(h) /\ PauseOK(h, exiting, pause)
  BY Placed
<1>2. h.acts # <<>>
  BY <1>1 DEF HistoryOK
<1>3. CASE h.closed
  BY <1>3 DEF PauseDerived, DerivePause
<1>4. CASE ~h.closed
  <2>1. DerivePause(h) = Alert(Last(h.acts))
    BY <1>2, <1>4 DEF DerivePause
  <2> QED
    BY <1>1, <1>4, <2>1 DEF PauseDerived, PauseOK
<1> QED
  BY <1>3, <1>4

\* The frontier of a failed run is the phase it failed in.
LEMMA LatestIs ==
    ASSUME NEW x, HistoryOK(x), NEW i \in DOMAIN x.acts, LastInPhase(x, i)
    PROVE  LatestPhase(x) = PhaseIndex(PhaseForActivity(x.acts[i]))
<1>1. PICK n : n = Len(x.acts)
  OBVIOUS
<1>2. n \in Nat /\ DOMAIN x.acts = 1..n
  BY <1>1 DEF HistoryOK
<1>3. PICK I : I = {k \in 1..n : PhaseForActivity(x.acts[k]) # ""}
  OBVIOUS
<1>4. i \in I /\ \A k \in I : i >= k
  <2>1. i \in I
    BY <1>2, <1>3 DEF LastInPhase
  <2>2. ASSUME NEW k \in I
        PROVE  i >= k
    <3>1. k \in 1..n /\ ~(k > i)
      BY <1>2, <1>3 DEF LastInPhase
    <3> QED
      BY ONLY <1>2, <3>1, i \in DOMAIN x.acts
  <2> QED
    BY <2>1, <2>2
<1>5. I \subseteq 1..n
  BY <1>3
<1>6. Max(I) = i
  <2>1. \A k \in I : k \in Nat
    BY <1>2, <1>5
  <2>2. \A k \in I : (\A j \in I : k >= j) => k = i
    BY <1>4, <2>1
  <2> QED
    BY <1>4, <2>2 DEF Max
<1>7. SelectLastInSeq(x.acts, LAMBDA a : PhaseForActivity(a) # "") = i
  BY <1>1, <1>3, <1>4, <1>6 DEF SelectLastInSeq
<1>8. i # 0
  BY <1>2
<1> QED
  BY <1>7, <1>8 DEF LatestPhase

LEMMA FrontierIs ==
    ASSUME RunInv, h.closed, exiting = "error"
    PROVE  Frontier(h) = PhaseIndex(NormalizeFailingPhase(failing)) /\ ~h.succeeded
<1>1. HistoryOK(h) /\ PhaseOK(h, failing, exiting)
  BY Placed
<1>2. ~h.succeeded /\ h.message \in {"", failing}
  BY <1>1 DEF PhaseOK
<1>3. LatestPhase(h) = PhaseIndex(NormalizeFailingPhase(failing))
  BY <1>1, LatestIs DEF PhaseOK
<1>4. PICK A : A = {i \in DOMAIN h.acts : h.acts[i].name = "NotifyFailure"}
  OBVIOUS
<1>5. FailingPhase(h) \in {NormalizeFailingPhase(failing), NormalizeFailingPhase("")}
  <2>1. CASE A # {}
    <3>1. PICK n : n = Len(h.acts)
      OBVIOUS
    <3>2. n \in Nat /\ DOMAIN h.acts = 1..n
      BY <1>1, <3>1 DEF HistoryOK
    <3>3. \E k \in A : \A j \in A : k =< j
      BY <1>4, <2>1, <3>2, LeastOf
    <3>4. Min(A) \in A
      BY <3>3 DEF Min
    <3>5. h.acts[Min(A)].phase = failing
      BY <1>1, <1>4, <3>4 DEF PhaseOK
    <3> QED
      BY <1>4, <2>1, <3>5 DEF FailingPhase
  <2>2. CASE A = {}
    BY <1>2, <1>4, <2>2 DEF FailingPhase
  <2> QED
    BY <2>1, <2>2
<1>6. PhaseIndex(NormalizeFailingPhase("")) = 0
  <2>1. NormalizeFailingPhase("") = ""
    BY DEF NormalizeFailingPhase
  <2>2. "" \notin DOMAIN Index
    <3>1. \A i \in DOMAIN PhaseOrder : PhaseOrder[i] # ""
      <4>1. DOMAIN PhaseOrder = 1..11
        BY DEF PhaseOrder
      <4>2. \A i \in 1..11 : i = 1 \/ i = 2 \/ i = 3 \/ i = 4 \/ i = 5 \/ i = 6 \/ i = 7 \/ i = 8 \/ i = 9 \/ i = 10 \/ i = 11
        OBVIOUS
      <4>3. /\ PhaseOrder[1] # "" /\ PhaseOrder[2] # "" /\ PhaseOrder[3] # "" /\ PhaseOrder[4] # "" /\ PhaseOrder[5] # ""
            /\ PhaseOrder[6] # "" /\ PhaseOrder[7] # "" /\ PhaseOrder[8] # "" /\ PhaseOrder[9] # "" /\ PhaseOrder[10] # ""
            /\ PhaseOrder[11] # ""
        BY DEF PhaseOrder
      <4> QED
        BY <4>1, <4>2, <4>3
    <3> QED
      BY <3>1 DEF Index, ToSet
  <2> QED
    BY <2>1, <2>2 DEF PhaseIndex
<1>7. CASE PhaseIndex(FailingPhase(h)) > 0
  <2>1. FailingPhase(h) = NormalizeFailingPhase(failing)
    <3>1. SUFFICES ASSUME FailingPhase(h) = NormalizeFailingPhase("")
                   PROVE  FALSE
      BY <1>5
    <3>2. PhaseIndex(FailingPhase(h)) = 0
      BY <1>6, <3>1
    <3> QED
      BY <1>7, <3>2
  <2> QED
    BY <1>2, <1>7, <2>1 DEF Frontier
<1>8. CASE ~(PhaseIndex(FailingPhase(h)) > 0)
  BY <1>2, <1>3, <1>8 DEF Frontier
<1> QED
  BY <1>7, <1>8

LEMMA PhaseIndexType ==
    ASSUME NEW p
    PROVE  PhaseIndex(p) \in Nat
<1>1. CASE p \in DOMAIN Index
  <2>1. \E i \in DOMAIN PhaseOrder : PhaseOrder[i] = p
    BY <1>1 DEF Index, ToSet
  <2>2. Index[p] \in DOMAIN PhaseOrder
    BY <1>1, <2>1 DEF Index
  <2>3. DOMAIN PhaseOrder = 1..11
    BY DEF PhaseOrder
  <2> QED
    BY <1>1, <2>2, <2>3 DEF PhaseIndex
<1>2. CASE p \notin DOMAIN Index
  BY <1>2 DEF PhaseIndex
<1> QED
  BY <1>1, <1>2

LEMMA FailuresNamed ==
    ASSUME RunInv
    PROVE  FailureNamed
<1> SUFFICES ASSUME h.closed, exiting = "error", NEW i \in DOMAIN PhaseOrder
             PROVE  Timeline(h)[i] =
                      LET at == PhaseIndex(NormalizeFailingPhase(failing)) IN
                      IF i < at THEN "completed" ELSE IF i = at THEN "failed" ELSE "pending"
  BY DEF FailureNamed
<1>1. PICK f : f = PhaseIndex(NormalizeFailingPhase(failing))
  OBVIOUS
<1>2. Frontier(h) = f /\ ~h.succeeded
  BY <1>1, FrontierIs
<1>3. i \in Nat
  BY DEF PhaseOrder
<1>4. Timeline(h)[i] = CASE h.closed /\ ~h.succeeded /\ i = f -> "failed"
                         [] i < f -> "completed"
                         [] ~h.closed /\ (i = f \/ ((\E k \in DOMAIN h.acts : PhaseForActivity(h.acts[k]) = PhaseOrder[i])
                                                     /\ ~(DerivePause(h) # NoPause))) -> "active"
                         [] OTHER -> "pending"
  BY <1>2 DEF Timeline
<1>5. f \in Nat
  BY <1>1, PhaseIndexType
<1> QED
  BY <1>1, <1>2, <1>3, <1>4, <1>5

\* The one activity of a name on a tape tells how it ended.
LEMMA ActivityForIs ==
    ASSUME NEW x, NEW t, HistoryOK(x), TapeOK(x, t), NEW name \in Writes, NEW b, NEW i \in DOMAIN x.acts,
           x.acts[i].name = name, x.acts[i].tape = b
    PROVE  ActivityFor(x, name, b) = x.acts[i].out
<1>1. PICK A : A = {j \in DOMAIN x.acts : x.acts[j].name = name /\ x.acts[j].tape = b}
  OBVIOUS
<1>2. A = {i}
  BY <1>1 DEF TapeOK
<1>3. i \in Nat
  BY DEF HistoryOK
<1>4. Min(A) = i
  BY <1>2, <1>3 DEF Min
<1> QED
  BY <1>1, <1>2, <1>4 DEF ActivityFor

LEMMA ActivityForNone ==
    ASSUME NEW x, NEW name, NEW b, \A i \in DOMAIN x.acts : ~(x.acts[i].name = name /\ x.acts[i].tape = b)
    PROVE  ActivityFor(x, name, b) = "absent"
BY DEF ActivityFor

LEMMA OutcomeOf ==
    ASSUME RunInv, NEW t
    PROVE  TapeOutcome(h, t) = IF t \in truth.failed THEN "failed" ELSE IF t \in truth.written THEN "written" ELSE "loaded"
<1>1. HistoryOK(h) /\ TapeOK(h, tape) /\ TruthOK(h, station, truth)
  BY Placed
<1>2. ASSUME NEW n \in Writes, NEW o \in {"failed", "done"}
      PROVE  ActivityFor(h, n, t) = o <=> \E i \in DOMAIN h.acts : h.acts[i].name = n /\ h.acts[i].tape = t /\ h.acts[i].out = o
  <2>1. CASE \E i \in DOMAIN h.acts : h.acts[i].name = n /\ h.acts[i].tape = t
    <3>1. PICK i \in DOMAIN h.acts : h.acts[i].name = n /\ h.acts[i].tape = t
      BY <2>1
    <3>2. \A j \in DOMAIN h.acts : h.acts[j].name = n /\ h.acts[j].tape = t => j = i
      BY <1>1, <3>1 DEF TapeOK
    <3>3. ActivityFor(h, n, t) = h.acts[i].out
      BY <1>1, <3>1, ActivityForIs
    <3> QED
      BY <3>1, <3>2, <3>3
  <2>2. CASE ~\E i \in DOMAIN h.acts : h.acts[i].name = n /\ h.acts[i].tape = t
    <3>1. ActivityFor(h, n, t) = "absent"
      BY <2>2, ActivityForNone
    <3> QED
      BY <2>2, <3>1
  <2> QED
    BY <2>1, <2>2
<1>3. (\E n \in Writes : ActivityFor(h, n, t) = "failed") <=> t \in truth.failed
  <2>1. t \in truth.failed <=> \E i \in DOMAIN h.acts : h.acts[i].name \in Writes /\ h.acts[i].out = "failed" /\ h.acts[i].tape = t
    BY <1>1 DEF TruthOK
  <2> QED
    BY <1>2, <2>1
<1>4. ActivityFor(h, "FinalizeTape", t) = "done" <=> t \in truth.written
  <2>1. t \in truth.written <=> \E i \in DOMAIN h.acts : h.acts[i].name = "FinalizeTape" /\ h.acts[i].out = "done" /\ h.acts[i].tape = t
    BY <1>1 DEF TruthOK
  <2>2. "FinalizeTape" \in Writes
    BY DEF Writes
  <2> QED
    BY <1>2, <2>1, <2>2
<1> QED
  BY <1>3, <1>4 DEF TapeOutcome, Writes

LEMMA OutcomesAreTrue ==
    ASSUME RunInv
    PROVE  OutcomesTrue
<1>1. HistoryOK(h) /\ TruthOK(h, station, truth) /\ MaxTapes \in Nat
  BY Placed
<1>2. IsFiniteSet(truth.written) /\ IsFiniteSet(truth.exported)
  <2>1. IsFiniteSet(1..MaxTapes)
    BY <1>1, FS_Interval
  <2> QED
    BY <1>1, <2>1, FS_Subset DEF TruthOK
<1>3. TapesWritten(h) <= Cardinality(truth.written)
  <2>1. {t \in LoadedTapes(h) : TapeOutcome(h, t) = "written"} \subseteq truth.written
    BY OutcomeOf
  <2> QED
    BY <1>2, <2>1, FS_Subset DEF TapesWritten
<1>4. TapesExported(h) <= Cardinality(truth.exported)
  <2>1. PICK E : E = {i \in DOMAIN h.acts : h.acts[i].name = "Eject" /\ h.acts[i].out = "done"}
    OBVIOUS
  <2>2. Cardinality(truth.exported) \in Nat
    BY <1>2, FS_CardinalityType
  <2>3. CASE E = {}
    BY <2>1, <2>2, <2>3 DEF TapesExported
  <2>4. CASE E # {}
    <3>1. PICK n : n = Len(h.acts)
      OBVIOUS
    <3>2. n \in Nat /\ DOMAIN h.acts = 1..n
      BY <1>1, <3>1 DEF HistoryOK
    <3>3. \E k \in E : \A j \in E : k >= j
      BY <2>1, <2>4, <3>2, GreatestOf
    <3>4. Max(E) \in E
      BY <3>3 DEF Max
    <3>5. h.acts[Max(E)].station \subseteq truth.exported
      BY <1>1, <2>1, <3>4 DEF TruthOK
    <3>6. Cardinality(h.acts[Max(E)].station) <= Cardinality(truth.exported)
      BY <1>2, <3>5, FS_Subset
    <3> QED
      BY <2>1, <2>4, <3>6 DEF TapesExported
  <2> QED
    BY <2>3, <2>4
<1> QED
  BY <1>3, <1>4, OutcomeOf DEF OutcomesTrue

LEMMA LoopIsOne ==
    ASSUME ApiInv
    PROVE  OneLoop
<1>1. LoopInv
  BY DEF ApiInv
<1>2. PICK G : G = {g \in Polls : poll[g].st \in {"wait", "fetch"} /\ ~poll[g].stopped}
  OBVIOUS
<1>3. G \subseteq {current}
  BY <1>1, <1>2 DEF LoopInv
<1>4. Cardinality(G) <= 1
  <2>1. IsFiniteSet({current}) /\ Cardinality({current}) = 1
    BY FS_Singleton
  <2>2. Cardinality(G) <= Cardinality({current})
    BY <1>3, <2>1, FS_Subset
  <2> QED
    BY <2>1, <2>2
<1> QED
  BY <1>1, <1>2, <1>4 DEF OneLoop, LoopInv

-----------------------------------------------------------------------------
(* The theorems *)

LEMMA EventsStart == Init => EventsInv
<1> SUFFICES ASSUME Init
             PROVE  EventsInv
  OBVIOUS
<1>1. RunInv
  BY RunStarts
<1>2. ViewInv
  BY DEF Init, ViewInv
<1>3. FaultInv
  <2>1. scenario \in Scenarios /\ faults = scenario.faults
    BY DEF Init
  <2>2. scenario.faults \in [{"run", "calls"} -> Nat]
    BY <2>1, RunEventsAssumption
  <2> QED
    BY <2>1, <2>2 DEF FaultInv
<1>4. ConnInv
  BY DEF Init, ConnInv, NoDetail, IsDetail
<1>5. PollInv
  BY DEF Init, PollInv, NoDetail, IsDetail
<1>6. LoopInv
  <2>1. MaxPolls \in Nat
    BY RunEventsAssumption
  <2> QED
    BY <2>1 DEF Init, LoopInv
<1> QED
  BY <1>1, <1>2, <1>3, <1>4, <1>5, <1>6 DEF EventsInv

LEMMA EventsPreserved == EventsInv /\ [Next]_vars => EventsInv'
<1> SUFFICES ASSUME EventsInv, [Next]_vars
             PROVE  EventsInv'
  OBVIOUS
<1>1. RunKept
  BY RunPreserved DEF EventsInv
<1>2. ViewInv'
  BY <1>1, ViewPreserved DEF EventsInv
<1>3. FaultInv'
  BY FaultsPreserved DEF EventsInv
<1>4. ApiInv'
  <2>1. ApiInv
    BY DEF EventsInv, ApiInv
  <2>2. CASE conn' = conn /\ poll' = poll /\ current' = current
    BY <2>1, <2>2, ApiFrame
  <2>3. CASE Workflow \/ ViewReads \/ ViewAnswers \/ Drain \/ Rests \/ UNCHANGED vars
    BY <2>2, <2>3 DEF Workflow, PickUp, Finish, Decides, Resume, GivenUp, Cancelled, Terminated, WorkerLeaves,
                      ViewReads, ViewAnswers, Drain, Rests, vars, api
  <2> QED
    BY <2>1, <2>3, StreamKeeps, LoopKeeps DEF Next
<1> QED
  BY <1>1, <1>2, <1>3, <1>4 DEF EventsInv, RunKept, ApiInv

LEMMA EventsImplySound ==
    ASSUME EventsInv
    PROVE  EventsSound
<1>1. RunInv /\ ApiInv /\ FaultInv
  BY DEF EventsInv, ApiInv
<1>2. TypeOK
  <2>1. /\ exiting \in {"none", "ok", "error"} /\ tape \in 1..MaxTapes /\ pause \in {NoPause} \cup Pauses
        /\ station \subseteq 1..MaxTapes
    BY <1>1, Placed DEF PauseOK, TruthOK
  <2>2. current \in 0..MaxPolls /\ \A c \in Conns : conn[c].st \in {"off", "fetch", "opened", "stream", "gone"}
    BY <1>1 DEF ApiInv, ConnInv, LoopInv
  <2>3. \A g \in Polls : poll[g].st \in {"none", "wait", "fetch", "over"} /\ poll[g].subs \subseteq Conns
    BY <1>1 DEF ApiInv, PollInv
  <2>4. \A w \in {"run", "calls"} : faults[w] \in 0..scenario.faults[w]
    <3>1. ASSUME NEW w \in {"run", "calls"}
          PROVE  faults[w] \in Nat /\ scenario.faults[w] \in Nat /\ faults[w] <= scenario.faults[w]
      BY <1>1, RunEventsAssumption DEF FaultInv
    <3> QED
      BY <3>1
  <2> QED
    BY <2>1, <2>2, <2>3, <2>4 DEF TypeOK
<1> QED
  BY <1>1, <1>2, PausesDerived, FailuresNamed, OutcomesAreTrue, LoopIsOne DEF EventsSound

\* The history of a run alone tells its pause, the phase it failed in and the
\* fate of every tape, and the streams on it share one poll loop (derivePause,
\* buildPhaseTimeline, deriveTapeOutcomes, ejectFacts, subscribe and
\* unsubscribe), for every number of drive sets, tapes, streams and failures.
THEOREM EventsAreSound == Spec => []EventsSound
<1>1. Init => EventsInv
  BY EventsStart
<1>2. EventsInv /\ [Next]_vars => EventsInv'
  BY EventsPreserved
<1>3. EventsInv => EventsSound
  BY EventsImplySound
<1> QED
  BY <1>1, <1>2, <1>3, PTL DEF Spec

LEMMA WaitingStep ==
    ASSUME EventsInv, [Next]_vars, view.st = "read", view'.st = "off"
    PROVE  view'.waiting \subseteq {PhaseForActivity(h.acts[i]) : i \in Pending}
<1>1. view' = view \/ ViewReads \/ ViewAnswers
  BY DEF Next, Workflow, PickUp, Finish, Decides, Resume, GivenUp, Cancelled, Terminated, WorkerLeaves, api,
         Drain, Rests, vars, Connect, Leave, Stream, ConnFetch, ConnFetchFails, ConnOpen, Subscribe,
         Receive, ConnDrain, Loop, Tick, PollFetch, PollFetchFails, Broadcast, PollEnds
<1>2. ViewAnswers
  BY <1>1 DEF ViewReads
<1>3. view'.waiting = Waiting(view.h, Pending)
  BY <1>2 DEF ViewAnswers
<1>4. Waiting(view.h, Pending) \subseteq WaitingByPhase(view.h, Pending)
  BY DEF Waiting
<1>5. ASSUME NEW p \in WaitingByPhase(view.h, Pending)
      PROVE  p \in {PhaseForActivity(h.acts[i]) : i \in Pending}
  <2>1. PICK i \in DOMAIN view.h.acts : i \in Pending /\ p = PhaseForActivity(view.h.acts[i])
    BY <1>5 DEF WaitingByPhase
  <2>2. view.h.acts[i].name = h.acts[i].name /\ view.h.acts[i].phase = h.acts[i].phase
    BY <2>1 DEF EventsInv, ViewInv, Grown
  <2>3. p = PhaseForActivity(h.acts[i])
    BY <2>1, <2>2, SameAlert
  <2> QED
    BY <2>1, <2>3
<1> QED
  BY <1>3, <1>4, <1>5

LEMMA KnownStep ==
    ASSUME EventsInv, [Next]_vars, NEW c \in Conns, conn[c].st = "stream"
    PROVE  /\ conn[c].shown.pause # Unknown => conn'[c].shown.pause # Unknown
           /\ conn[c].shown.phase # "unknown" => conn'[c].shown.phase # "unknown"
<1>1. ConnInv
  BY DEF EventsInv
<1>2. /\ DOMAIN conn = Conns
      /\ \A d \in Conns : DOMAIN conn[d] = {"st", "f", "shown", "poll", "box", "done"} /\ IsDetail(conn[d].box)
  BY <1>1 DEF ConnInv
<1>3. CASE conn'[c].shown = conn[c].shown
  BY <1>3
<1>4. CASE conn' = conn
  BY <1>3, <1>4
<1>5. CASE Workflow \/ ViewReads \/ ViewAnswers \/ Drain \/ Rests \/ UNCHANGED vars
  BY <1>4, <1>5 DEF Workflow, PickUp, Finish, Decides, Resume, GivenUp, Cancelled, Terminated, WorkerLeaves,
                    ViewReads, ViewAnswers, Drain, Rests, vars, api
<1>6. ASSUME NEW g \in Polls, Loop(g) \/ PollEnds(g)
      PROVE  conn'[c].shown = conn[c].shown
  <2>1. CASE Broadcast(g)
    BY <1>2, <2>1 DEF Broadcast
  <2>2. CASE conn' = conn
    BY <2>2
  <2> QED
    BY <1>6, <2>1, <2>2 DEF Loop, Tick, PollFetch, PollFetchFails, PollEnds
<1>7. ASSUME NEW d \in Conns, Connect(d) \/ Leave(d) \/ Stream(d), d # c
      PROVE  conn'[c] = conn[c]
  BY <1>2, <1>7 DEF Connect, Leave, Stream, ConnFetch, ConnFetchFails, ConnOpen, Subscribe, Receive, ConnDrain, Over
<1>8. CASE Leave(c) \/ ConnDrain(c)
  <2>1. conn'[c].shown = conn[c].shown
    BY <1>2, <1>8 DEF Leave, ConnDrain, Over
  <2> QED
    BY <1>3, <2>1
<1>9. CASE Receive(c)
  <2>1. PICK d : d = Carried(conn[c].box, conn[c].shown)
    OBVIOUS
  <2>2. conn'[c].shown = d
    BY <1>2, <1>9, <2>1 DEF Receive, Over
  <2>3. /\ d.phase = (IF conn[c].box.phase = "unknown" THEN conn[c].shown.phase ELSE conn[c].box.phase)
        /\ d.pause = (IF conn[c].box.pause = Unknown THEN conn[c].shown.pause ELSE conn[c].box.pause)
    BY <1>2, <2>1 DEF Carried, IsDetail
  <2> QED
    BY <2>2, <2>3
<1>10. ~(Connect(c) \/ ConnFetch(c) \/ ConnFetchFails(c) \/ ConnOpen(c) \/ Subscribe(c))
  BY DEF Connect, ConnFetch, ConnFetchFails, ConnOpen, Subscribe
<1>11. ASSUME NEW d \in Conns, Connect(d) \/ Leave(d) \/ Stream(d)
       PROVE  \/ conn'[c] = conn[c]
              \/ Leave(c) \/ ConnDrain(c) \/ Receive(c)
  BY <1>7, <1>10, <1>11 DEF Stream
<1>12. CASE conn'[c] = conn[c]
  BY <1>3, <1>12
<1> QED
  BY <1>3, <1>5, <1>6, <1>8, <1>9, <1>11, <1>12 DEF Next

\* A timeline answered from a history read earlier (getRunPhases) shows a phase
\* as waiting only if an activity of it is, and a stream (streamRunEvents) never
\* forgets a pause or a phase that it has shown, whichever call of a fetch fails.
THEOREM ViewsNeverMislead == Spec => NeverMisleads
<1>1. Init => EventsInv
  BY EventsStart
<1>2. EventsInv /\ [Next]_vars => EventsInv'
  BY EventsPreserved
<1>3. EventsInv /\ [Next]_vars =>
        [view.st = "read" /\ view'.st = "off"
           => view'.waiting \subseteq {PhaseForActivity(h.acts[i]) : i \in Pending}]_vars
  BY WaitingStep
<1>4. EventsInv /\ [Next]_vars =>
        [\A c \in Conns :
           conn[c].st = "stream" =>
              /\ conn[c].shown.pause # Unknown => conn'[c].shown.pause # Unknown
              /\ conn[c].shown.phase # "unknown" => conn'[c].shown.phase # "unknown"]_vars
  BY KnownStep
<1> QED
  BY <1>1, <1>2, <1>3, <1>4, PTL DEF Spec, NeverMisleads, WaitingTrue, KnownStaysKnown
=============================================================================

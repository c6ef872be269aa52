------------------------- MODULE RunLifecycleProofs -------------------------
(***************************************************************************)
(* Proofs about RunLifecycle, for any number of runs, pools, snapshots,    *)
(* attempts, faults and cancellations, whatever names and properties the   *)
(* given snapshots have, whatever records a listing makes up and whichever *)
(* properties somebody changes.                                            *)
(***************************************************************************)
EXTENDS RunLifecycle, TLAPS

Early == {"create", "hold", "prepare"}

\* Input(at) without the function of the activity: the run has no live dataset.
NoLive == sources[run] \cap RunScoped = {}

\* Where a workflow is, and when it counts failed attempts.
FlowInv ==
    /\ at # "idle" => run \in Runs
    /\ cancelled \subseteq 1..run
    /\ run \in cancelled => at \notin Early \cup {"rest"}
    /\ at \in {"rest", "alert", "idle"} => attempt = 0
    /\ at \in {"create", "destroy"} /\ NoLive => attempt = 0

\* An attempt is waited for, or was left behind by a cancelled run before its
\* release.  What it works on is its own run's.
JobOK(j) ==
    /\ j.run \in 1..run
    /\ ~Awaited(j) => j.run \in cancelled /\ ActivityOf(j.step) \in Early
    /\ Awaited(j) /\ at \in {"create", "destroy"} => ~NoLive
    /\ ActivityOf(j.step) \in {"create", "destroy"} => j.todo \subseteq sources[j.run] \cap RunScoped
    /\ j.step \in {"hold", "release"} => j.todo \subseteq sources[j.run]
    /\ j.absent \subseteq sources[j.run] \cap RunScoped
    /\ j.step \in {"source", "holds", "untag"} => j.found # {}
    /\ j.step = "drop" => j.todo # {}

\* Only one attempt is waited for.
JobInv ==
    /\ \A j \in jobs : JobOK(j)
    /\ \A j, k \in jobs : Awaited(j) /\ Awaited(k) => j = k

\* What exists, is held, staged or logged belongs to a run that was submitted.
OwnInv ==
    /\ \A r \in Runs : sources[r] \subseteq Given \cup Own(r)
    /\ \A r \in Runs : Own(r) \cap snaps \subseteq sources[r]
    /\ \A p \in Path : \A r \in holds[p] : p \in sources[r]
    /\ \A r \in Runs : r > run => sources[r] = {} /\ r \notin staging /\ gaveUp[r] = {} /\ alert[r] = {}

\* The property a snapshot has as long as nobody changes it.
FirstTag(p) == IF p \in Given THEN GivenTag[p] ELSE OwnTag(p[2])

\* What the checks of a leak have found so far is still so, of a given snapshot whose
\* property nobody changed.
Vetted(j) ==
    /\ j.step \in {"source", "holds", "untag"} => NamesLeak(j, Current(j))
    /\ j.step = "source" /\ Current(j).name \in Given \ touched
         => GivenTag[Current(j).name].value = Current(j).value
    /\ j.step \in {"holds", "untag"} => Current(j).name \notin Given \ touched

TagInv == (\A p \in Path \ touched : tag[p] = FirstTag(p)) /\ \A j \in jobs : Vetted(j)

\* Snapshots of run r that the sweep of a later run is to find.
Leaks(r) == (Own(r) \cap snaps) \ touched
Listed(j, r) == \A p \in Leaks(r) : [name |-> p, value |-> r] \in j.found

\* No leak of an earlier run is left.
Clean == \A r \in 1..run - 1 : Own(r) \cap snaps \subseteq touched

\* While no run was cancelled: what the current one has held so far is there,
\* and what it is still to sweep is in its list.
PinInv ==
    cancelled = {} /\ run \in Runs =>
        /\ at \in {"prepare", "rest"} => \A p \in sources[run] : p \in snaps /\ run \in holds[p]
        /\ \A j \in jobs : j.step = "hold" => \A p \in sources[run] \ j.todo : p \in snaps /\ run \in holds[p]
        /\ "sweep" \notin gaveUp[run] =>
            /\ \A j \in jobs : j.step \in Sweeping => \A r \in 1..run - 1 : Listed(j, r)
            /\ \A j \in jobs : j.step \in {"check", "take"} => Clean
            /\ at \in {"hold", "prepare", "rest"} /\ Own(run) \subseteq sources[run] => Clean

\* Run r, never cancelled, is past the activities named by their successors.
Past(r, after) == r \in Runs \ cancelled /\ (r < run \/ (r = run /\ at \in after))

\* What a run that was not cancelled has given back so far.
Giving ==
    /\ \A r \in Runs : Past(r, {"destroy", "alert", "cleanup", "idle"}) /\ "hold" \notin gaveUp[r]
         => \A p \in Path : r \notin holds[p]
    /\ \A r \in Runs : Past(r, {"alert", "cleanup", "idle"}) /\ "snapshot" \notin gaveUp[r]
         => Own(r) \cap snaps \subseteq touched
    /\ \A r \in Runs : Past(r, {"idle"}) /\ r \in staging => "staging" \in gaveUp[r]

\* What attempt k of an uncancelled run has left to release or destroy.
Remains(k) ==
    /\ k.step = "release" /\ ~k.failed /\ k.run \notin cancelled
         => \A p \in Path : k.run \in holds[p] => p \in k.todo
    /\ k.step \in {"destroy", "drop"} /\ ~k.failed /\ k.run \notin cancelled
         => Own(k.run) \cap snaps \subseteq k.todo \cup touched

GivenBack == Giving /\ \A k \in jobs : Remains(k)

\* The error of a failed run names what was given up before its alert.
AlertInv ==
    /\ at \in Early \cup {"rest", "release"} => gaveUp[run] \cap {"hold", "snapshot"} = {}
    /\ at \in {"destroy", "alert"} /\ err # {} => gaveUp[run] \cap {"hold", "snapshot"} \subseteq err
    /\ at \notin {"cleanup", "idle"} => alert[run] = {}
    /\ AlertNamesLeaks

LifecycleInv == TypeOK /\ FlowInv /\ JobInv /\ OwnInv /\ TagInv /\ PinInv /\ GivenBack /\ AlertInv

-----------------------------------------------------------------------------
(* The operators *)

Names == {"create", "hold", "prepare", "release", "destroy", "cleanup"}
Kinds == Sweeping \cup {"list", "check", "take", "hold", "stage", "release", "destroy", "drop", "reclaim"}

\* The tables of the workflow, entry by entry.
LEMMA Tables ==
    /\ Activities = Names
    /\ After["create"] = "hold" /\ After["hold"] = "prepare" /\ After["prepare"] = "rest"
    /\ After["release"] = "destroy" /\ After["destroy"] = "alert" /\ After["cleanup"] = "idle"
    /\ DOMAIN Leftover = {"release", "destroy", "cleanup"}
    /\ Leftover["release"] = "hold" /\ Leftover["destroy"] = "snapshot" /\ Leftover["cleanup"] = "staging"
BY DEF Activities, FirstStep, After, Leftover, Names

\* Every activity begins with a step of its own.
LEMMA Steps ==
    /\ \A a \in Names : FirstStep[a] \in Kinds /\ ActivityOf(FirstStep[a]) = a
    /\ FirstStep["create"] = "list" /\ FirstStep["hold"] = "hold" /\ FirstStep["prepare"] = "stage"
    /\ FirstStep["release"] = "release" /\ FirstStep["destroy"] = "destroy" /\ FirstStep["cleanup"] = "reclaim"
    /\ \A s \in Kinds : ActivityOf(s) \in Names
BY DEF FirstStep, ActivityOf, Names, Kinds, Sweeping

LEMMA StepOf ==
    /\ \A s \in Sweeping \cup {"list", "check", "take"} : ActivityOf(s) = "create"
    /\ ActivityOf("list") = "create" /\ ActivityOf("check") = "create" /\ ActivityOf("take") = "create"
    /\ ActivityOf("sweep") = "create" /\ ActivityOf("source") = "create"
    /\ ActivityOf("holds") = "create" /\ ActivityOf("untag") = "create"
    /\ ActivityOf("hold") = "hold" /\ ActivityOf("stage") = "prepare" /\ ActivityOf("release") = "release"
    /\ ActivityOf("destroy") = "destroy" /\ ActivityOf("drop") = "destroy" /\ ActivityOf("reclaim") = "cleanup"
BY DEF ActivityOf, Sweeping

LEMMA FirstIn == ASSUME NEW todo, todo # {} PROVE First(todo) \in todo
BY DEF First

LEMMA CurrentIn == ASSUME NEW j, j.found # {} PROVE Current(j) \in j.found
BY DEF Current

\* Given, and so what a run was told to archive, is never run-scoped.
LEMMA Apart ==
    /\ Given \cap RunScoped = {} /\ \A r \in Runs : Own(r) \subseteq RunScoped
    /\ \A r, s \in Runs : r # s => Own(r) \cap Own(s) = {}
    /\ \A p \in RunScoped : \E r \in Runs : p \in Own(r)
    /\ \A r \in Runs : \A p \in Own(r) : p[2] = r
    /\ Given \subseteq Path /\ RunScoped \subseteq Path
BY LifecycleAssumption DEF RunScoped, Own, Path, Runs

\* How the workflow goes on when an attempt ends.
EndsFlow(j) ==
    /\ run' = run /\ cancelled' = cancelled
    /\ \/ ~Awaited(j) /\ at' = at /\ attempt' = attempt /\ err' = err /\ gaveUp' = gaveUp
       \/ Awaited(j) /\ at' = After[at] /\ attempt' = 0 /\ err' = err /\ gaveUp' = gaveUp
       \/ Awaited(j) /\ AttemptsLeft /\ attempt' = attempt + 1 /\ at' = at /\ err' = err /\ gaveUp' = gaveUp
       \/ Awaited(j) /\ GiveUp

\* An attempt works its lists off.
GoesOn(j, n) ==
    /\ n.todo \subseteq j.todo /\ ActivityOf(n.step) = ActivityOf(j.step)
    /\ \A p \in n.absent : p \in j.absent \/ (p \in j.todo /\ j.step = "check")
    /\ n.step \in {"source", "holds", "untag"} => n.found # {}
    /\ n.step = "drop" => n.todo # {}
    /\ n.step \in {"hold", "release"} => n.step = j.step

\* An attempt goes on, or it ends.
Moves(j, n) ==
    /\ n \in Job /\ n.run = j.run /\ GoesOn(j, n)
    /\ jobs' = (jobs \ {j}) \cup {n}
    /\ run' = run /\ cancelled' = cancelled /\ at' = at /\ attempt' = attempt /\ err' = err
    /\ \/ gaveUp' = gaveUp
       \/ gaveUp' = [gaveUp EXCEPT ![j.run] = @ \cup {"sweep"}]

Shape(j) ==
    /\ sources' = sources /\ alert' = alert
    /\ (\E n : Moves(j, n)) \/ (jobs' = jobs \ {j} /\ EndsFlow(j))

LEMMA EndShapes ==
    ASSUME NEW j
    PROVE  /\ Succeeds(j) => jobs' = jobs \ {j} /\ EndsFlow(j)
           /\ \A b : Fails(j, b) => jobs' = jobs \ {j} /\ EndsFlow(j)
BY DEF Succeeds, Fails, EndsFlow, flow, GiveUp

LEMMA GoShape ==
    ASSUME NEW j, NEW n, Goes(j, n), n \in Job, n.run = j.run, GoesOn(j, n)
    PROVE  Moves(j, n)
BY DEF Goes, Moves, flow

\* A job with some of its fields changed.
LEMMA JobDid ==
    ASSUME NEW j \in Job, NEW p
    PROVE  LET n == [j EXCEPT !.todo = @ \ {p}]
           IN  /\ n \in Job /\ n.run = j.run /\ n.step = j.step /\ n.todo = j.todo \ {p}
               /\ n.failed = j.failed /\ n.found = j.found /\ n.absent = j.absent
BY DEF Job

LEMMA JobTo ==
    ASSUME NEW j \in Job, NEW s \in Kinds
    PROVE  LET n == [j EXCEPT !.step = s]
           IN  /\ n \in Job /\ n.run = j.run /\ n.step = s /\ n.todo = j.todo
               /\ n.failed = j.failed /\ n.found = j.found /\ n.absent = j.absent
BY DEF Job, Kinds

LEMMA JobPassed ==
    ASSUME NEW j \in Job
    PROVE  /\ Passed(j) \in Job /\ Passed(j).run = j.run /\ Passed(j).step = "sweep" /\ Passed(j).todo = j.todo
           /\ Passed(j).failed = j.failed /\ Passed(j).found = j.found \ {Current(j)} /\ Passed(j).absent = j.absent
<1>1. PICK c : c = Current(j)
  OBVIOUS
<1>2. "sweep" \in Kinds
  BY DEF Kinds, Sweeping
<1>3. Passed(j) = [j EXCEPT !.step = "sweep", !.found = @ \ {c}, !.tags = {}]
  BY <1>1 DEF Passed
<1>4. PICK n : n = [j EXCEPT !.step = "sweep", !.found = @ \ {c}, !.tags = {}]
  OBVIOUS
<1>5. n \in Job /\ n.run = j.run /\ n.step = "sweep" /\ n.todo = j.todo
  BY <1>2, <1>4 DEF Job, Kinds
<1>6. n.failed = j.failed /\ n.found = j.found \ {c} /\ n.absent = j.absent
  BY <1>4 DEF Job
<1> QED
  BY <1>1, <1>3, <1>4, <1>5, <1>6

\* A job of list and tally steps on: what is left of its list, and of what it found.
LEMMA DidShape ==
    ASSUME NEW j \in Job, NEW p, j.step \in {"check", "hold", "release", "destroy"}, Did(j, p)
    PROVE  \E n : Moves(j, n) /\ n.step = j.step /\ n.todo = j.todo \ {p} /\ n.failed = j.failed
<1>1. PICK n \in Job : /\ n = [j EXCEPT !.todo = @ \ {p}]
                       /\ n.run = j.run /\ n.step = j.step /\ n.todo = j.todo \ {p} /\ n.failed = j.failed
                       /\ n.absent = j.absent
  BY JobDid
<1>2. Goes(j, n)
  BY <1>1 DEF Did
<1>3. GoesOn(j, n)
  BY <1>1 DEF GoesOn
<1> QED
  BY <1>1, <1>2, <1>3, GoShape

LEMMA FailedShape ==
    ASSUME NEW j \in Job, NEW p, j.step \in {"check", "hold", "release", "destroy"}, Failed(j, p)
    PROVE  \E n : Moves(j, n) /\ n.step = j.step /\ n.todo = j.todo \ {p} /\ n.failed
<1>1. PICK n : n = [j EXCEPT !.todo = @ \ {p}, !.failed = TRUE]
  OBVIOUS
<1>2. n \in Job /\ n.run = j.run /\ n.step = j.step /\ n.todo = j.todo \ {p} /\ n.failed /\ n.absent = j.absent
  BY <1>1 DEF Job
<1>3. Goes(j, n)
  BY <1>1 DEF Failed
<1>4. GoesOn(j, n)
  BY <1>2 DEF GoesOn
<1> QED
  BY <1>2, <1>3, <1>4, GoShape

\* A job turns to another step.
LEMMA ToShapes ==
    ASSUME NEW j \in Job, NEW s \in Kinds, To(j, s), ActivityOf(s) = ActivityOf(j.step),
           s \in {"source", "holds", "untag"} => j.found # {}, s = "drop" => j.todo # {},
           s \notin {"hold", "release"}
    PROVE  /\ \E n : /\ Moves(j, n) /\ n.step = s /\ n.todo = j.todo /\ n.failed = j.failed /\ n.found = j.found
                     /\ Current(n) = Current(j)
           /\ gaveUp' = gaveUp
<1>1. PICK n \in Job : /\ n = [j EXCEPT !.step = s]
                       /\ n.run = j.run /\ n.step = s /\ n.todo = j.todo /\ n.failed = j.failed
                       /\ n.found = j.found /\ n.absent = j.absent
  BY JobTo
<1>2. Goes(j, n)
  BY <1>1 DEF To
<1>3. Moves(j, n)
  BY <1>1, <1>2, GoShape DEF GoesOn
<1>4. Current(n) = Current(j)
  BY <1>1 DEF Current
<1> QED
  BY <1>1, <1>2, <1>3, <1>4 DEF Goes

\* The sweep leaves a record behind.
LEMMA PassShapes ==
    ASSUME NEW j \in Job, j.step \in Sweeping
    PROVE  /\ PassOver(j) => /\ gaveUp' = gaveUp
                             /\ \E n : Moves(j, n) /\ n.step = "sweep" /\ n.found = j.found \ {Current(j)}
           /\ LeftLeak(j) => /\ gaveUp' = [gaveUp EXCEPT ![j.run] = @ \cup {"sweep"}]
                             /\ \E n : Moves(j, n) /\ n.step = "sweep"
<1>1. PICK n : n = Passed(j)
  OBVIOUS
<1>2. n \in Job /\ n.run = j.run /\ n.step = "sweep" /\ n.todo = j.todo /\ n.absent = j.absent /\ n.found = j.found \ {Current(j)}
  BY <1>1, JobPassed
<1>3. GoesOn(j, n)
  BY <1>2, StepOf DEF GoesOn
<1>4. PassOver(j) => Moves(j, n) /\ gaveUp' = gaveUp
  BY <1>1, <1>2, <1>3, GoShape DEF PassOver, Goes
<1>5. LeftLeak(j) => Moves(j, n) /\ gaveUp' = [gaveUp EXCEPT ![j.run] = @ \cup {"sweep"}]
  BY <1>1, <1>2, <1>3 DEF LeftLeak, Moves, flow
<1> QED
  BY <1>2, <1>4, <1>5

\* The listing of leaks: every snapshot with a local id has its record.
LEMMA ListShapes ==
    ASSUME TypeOK, NEW j \in jobs, List(j)
    PROVE  \E n : /\ Moves(j, n) /\ n.step = "sweep"
                  /\ \/ /\ gaveUp' = gaveUp
                        /\ \A p \in snaps : tag[p].source = "local" => [name |-> p, value |-> tag[p].value] \in n.found
                     \/ gaveUp' = [gaveUp EXCEPT ![j.run] = @ \cup {"sweep"}]
<1>0. j \in Job /\ j.step = "list" /\ "sweep" \in Kinds
  BY DEF TypeOK, List, Kinds, Sweeping
<1>1. CASE \E forged \in Forgeries \cup {{}} :
               Goes(j, [j EXCEPT !.step = "sweep",
                          !.found = {[name |-> p, value |-> tag[p].value] : p \in {q \in snaps : tag[q].source = "local"}}
                                    \cup forged])
  <2>1. PICK forged \in Forgeries \cup {{}} :
               Goes(j, [j EXCEPT !.step = "sweep",
                          !.found = {[name |-> p, value |-> tag[p].value] : p \in {q \in snaps : tag[q].source = "local"}}
                                    \cup forged])
    BY <1>1
  <2>2. PICK found : found = {[name |-> p, value |-> tag[p].value] : p \in {q \in snaps : tag[q].source = "local"}} \cup forged
    OBVIOUS
  <2>3. \A p \in snaps : p \in Path /\ tag[p].value \in Values
    BY DEF TypeOK, Tag
  <2>4. forged \subseteq Record
    BY LifecycleAssumption DEF LifecycleAssumption
  <2>5. found \subseteq Record
    BY <2>2, <2>3, <2>4 DEF Record
  <2>6. PICK n : n = [j EXCEPT !.step = "sweep", !.found = found]
    OBVIOUS
  <2>7. n \in Job /\ n.run = j.run /\ n.step = "sweep" /\ n.todo = j.todo /\ n.absent = j.absent /\ n.found = found
    BY <1>0, <2>5, <2>6 DEF Job, Kinds
  <2>8. Goes(j, n)
    BY <2>1, <2>2, <2>6
  <2>9. Moves(j, n)
    BY <1>0, <2>7, <2>8, GoShape, StepOf DEF GoesOn
  <2>10. \A p \in snaps : tag[p].source = "local" => [name |-> p, value |-> tag[p].value] \in n.found
    BY <2>2, <2>7
  <2> QED
    BY <2>7, <2>8, <2>9, <2>10 DEF Goes
<1>2. CASE /\ jobs' = (jobs \ {j}) \cup {[j EXCEPT !.step = "sweep"]}
           /\ gaveUp' = [gaveUp EXCEPT ![j.run] = @ \cup {"sweep"}] /\ UNCHANGED flow
  <2>1. PICK n \in Job : /\ n = [j EXCEPT !.step = "sweep"] /\ n.run = j.run /\ n.step = "sweep"
                         /\ n.todo = j.todo /\ n.absent = j.absent
    BY <1>0, JobTo
  <2>2. Moves(j, n)
    BY <1>0, <1>2, <2>1, StepOf DEF Moves, GoesOn, flow
  <2> QED
    BY <1>2, <2>1, <2>2
<1> QED
  BY <1>1, <1>2 DEF List

\* One command of the sweep.
LEMMA SweepShapes ==
    ASSUME TypeOK, JobInv, NEW j \in jobs, j \in Job, Sweep(j)
    PROVE  \/ /\ \E n : Moves(j, n) /\ n.step = "source" /\ n.found = j.found /\ Current(n) = Current(j)
              /\ gaveUp' = gaveUp /\ snaps' = snaps
              /\ NamesLeak(j, Current(j)) /\ Current(j).name \in snaps /\ tag[Current(j).name].value = Current(j).value
           \/ /\ \E n : Moves(j, n) /\ n.step = "holds" /\ n.found = j.found /\ Current(n) = Current(j)
              /\ gaveUp' = gaveUp /\ j.step = "source" /\ snaps' = snaps
              /\ Current(j).name \in snaps /\ tag[Current(j).name].source = "local"
           \/ /\ \E n : Moves(j, n) /\ n.step = "untag" /\ n.found = j.found /\ Current(n) = Current(j)
              /\ gaveUp' = gaveUp /\ j.step \in {"holds", "untag"} /\ snaps' = snaps
           \/ /\ \E n : Moves(j, n) /\ n.step = "sweep" /\ n.found = j.found \ {Current(j)}
              /\ gaveUp' = gaveUp
              /\ \/ snaps' = snaps \ {Current(j).name}
                 \/ /\ snaps' = snaps
                    /\ ~(NamesLeak(j, Current(j)) /\ Current(j).name \in snaps /\ tag[Current(j).name].value = Current(j).value)
                 \/ snaps' = snaps /\ ~(Current(j).name \in snaps /\ tag[Current(j).name].source = "local")
           \/ /\ \E n : Moves(j, n) /\ n.step = "sweep"
              /\ gaveUp' = [gaveUp EXCEPT ![j.run] = @ \cup {"sweep"}] /\ snaps' = snaps
<1>0. /\ {"source", "holds", "untag"} \subseteq Kinds /\ j.found # {}
      /\ j.step \in Sweeping /\ \A s \in Sweeping : ActivityOf(s) = ActivityOf(j.step)
  BY StepOf DEF Sweep, SweepValue, SweepSource, SweepHolds, SweepRelease, SweepDestroy, Kinds, Sweeping, JobInv, JobOK
<1>1. CASE SweepValue(j)
  <2>1. To(j, "source") => /\ gaveUp' = gaveUp
                           /\ \E n : Moves(j, n) /\ n.step = "source" /\ n.found = j.found /\ Current(n) = Current(j)
    BY <1>0, ToShapes DEF Sweeping
  <2> QED
    BY <1>0, <1>1, <2>1, PassShapes DEF SweepValue, zfs
<1>2. CASE SweepSource(j)
  <2>1. To(j, "holds") => /\ gaveUp' = gaveUp
                          /\ \E n : Moves(j, n) /\ n.step = "holds" /\ n.found = j.found /\ Current(n) = Current(j)
    BY <1>0, ToShapes DEF Sweeping
  <2> QED
    BY <1>0, <1>2, <2>1, PassShapes DEF SweepSource, IsLocal, zfs
<1>3. ASSUME NEW tags, tags \subseteq Runs, Goes(j, [j EXCEPT !.step = "untag", !.tags = tags])
      PROVE  /\ gaveUp' = gaveUp
             /\ \E n : Moves(j, n) /\ n.step = "untag" /\ n.found = j.found /\ Current(n) = Current(j)
  <2>1. PICK n : n = [j EXCEPT !.step = "untag", !.tags = tags]
    OBVIOUS
  <2>2. /\ n \in Job /\ n.run = j.run /\ n.step = "untag" /\ n.todo = j.todo /\ n.found = j.found
        /\ n.absent = j.absent
    BY <1>0, <1>3, <2>1 DEF Job, Kinds
  <2>3. Goes(j, n)
    BY <1>3, <2>1
  <2>4. Moves(j, n)
    BY <1>0, <2>2, <2>3, GoShape DEF GoesOn, Sweeping
  <2>5. Current(n) = Current(j)
    BY <2>2 DEF Current
  <2> QED
    BY <2>2, <2>3, <2>4, <2>5 DEF Goes
<1>4. CASE SweepHolds(j)
  <2>1. Current(j).name \in snaps => holds[Current(j).name] \subseteq Runs
    BY DEF TypeOK
  <2>2. /\ UNCHANGED zfs
        /\ \/ /\ Current(j).name \in snaps
              /\ Goes(j, [j EXCEPT !.step = "untag", !.tags = holds[Current(j).name]])
           \/ LeftLeak(j)
    BY <1>4 DEF SweepHolds
  <2>3. CASE LeftLeak(j)
    BY <1>0, <2>2, <2>3, PassShapes DEF zfs
  <2>4. CASE Current(j).name \in snaps /\ Goes(j, [j EXCEPT !.step = "untag", !.tags = holds[Current(j).name]])
    BY <1>3, <1>4, <2>1, <2>2, <2>4 DEF zfs, SweepHolds
  <2> QED
    BY <2>2, <2>3, <2>4
<1>5. CASE SweepRelease(j)
  <2>1. PICK r \in j.tags : Goes(j, [j EXCEPT !.tags = @ \ {r}]) \/ LeftLeak(j)
    BY <1>5 DEF SweepRelease
  <2>2. snaps' = snaps /\ j.step = "untag"
    BY <1>5 DEF SweepRelease
  <2>3. CASE LeftLeak(j)
    BY <1>0, <2>2, <2>3, PassShapes
  <2>4. CASE Goes(j, [j EXCEPT !.tags = @ \ {r}])
    <3>1. j.tags \ {r} \subseteq Runs
      BY DEF Job
    <3>2. [j EXCEPT !.tags = @ \ {r}] = [j EXCEPT !.step = "untag", !.tags = j.tags \ {r}]
      BY <2>2 DEF Job
    <3> QED
      BY <1>3, <1>5, <2>2, <2>4, <3>1, <3>2
  <2> QED
    BY <2>1, <2>3, <2>4
<1>6. CASE SweepDestroy(j)
  BY <1>0, <1>6, PassShapes DEF SweepDestroy
<1> QED
  BY <1>1, <1>2, <1>4, <1>5, <1>6 DEF Sweep

\* A snapshot of the run is dropped from the list, destroyed or not.
LEMMA DropShapes ==
    ASSUME NEW j \in Job, Drop(j)
    PROVE  \E n : /\ Moves(j, n) /\ n.step = "destroy" /\ n.todo = j.todo \ {First(j.todo)}
                  /\ ~n.failed => ~j.failed /\ snaps' = snaps \ {First(j.todo)}
<1>0. PICK p : p = First(j.todo)
  OBVIOUS
<1>1. PICK n : n = [j EXCEPT !.step = "destroy", !.todo = @ \ {p}]
  OBVIOUS
<1>2. PICK m : m = [j EXCEPT !.step = "destroy", !.todo = @ \ {p}, !.failed = TRUE]
  OBVIOUS
<1>3. n \in Job /\ n.run = j.run /\ n.step = "destroy" /\ n.todo = j.todo \ {p} /\ n.failed = j.failed /\ n.absent = j.absent
  BY <1>1 DEF Job
<1>4. m \in Job /\ m.run = j.run /\ m.step = "destroy" /\ m.todo = j.todo \ {p} /\ m.failed /\ m.absent = j.absent
  BY <1>2 DEF Job
<1>5. j.step = "drop" /\ ((Goes(j, n) /\ snaps' = snaps \ {p}) \/ Goes(j, m))
  BY <1>0, <1>1, <1>2 DEF Drop
<1>6. GoesOn(j, n) /\ GoesOn(j, m)
  BY <1>3, <1>4, <1>5, StepOf DEF GoesOn
<1>7. (Goes(j, n) => Moves(j, n)) /\ (Goes(j, m) => Moves(j, m))
  BY <1>3, <1>4, <1>6, GoShape
<1> QED
  BY <1>0, <1>3, <1>4, <1>5, <1>7

LEMMA Shapes ==
    ASSUME TypeOK, JobInv, NEW j \in jobs, JobStep(j)
    PROVE  Shape(j)
<1>0. j \in Job /\ {"check", "take", "destroy", "drop"} \subseteq Kinds /\ JobOK(j)
  BY DEF TypeOK, Kinds, JobInv
<1>b. j \in Job
  BY <1>0
<1>a. ASSUME NEW p, Did(j, p) \/ Failed(j, p), j.step \in {"check", "hold", "release", "destroy"} PROVE \E n : Moves(j, n)
  <2>1. CASE Did(j, p)
    <3>1. \E n : Moves(j, n) /\ n.step = j.step /\ n.todo = j.todo \ {p} /\ n.failed = j.failed
      BY <1>b, <1>a, <2>1, DidShape
    <3> QED
      BY <3>1
  <2>2. CASE Failed(j, p)
    <3>1. \E n : Moves(j, n) /\ n.step = j.step /\ n.todo = j.todo \ {p} /\ n.failed
      BY <1>b, <1>a, <2>2, FailedShape
    <3> QED
      BY <3>1
  <2> QED
    BY <1>a, <2>1, <2>2
<1>1. CASE List(j)
  BY <1>1, ListShapes DEF List, Shape
<1>2. CASE Sweep(j)
  <2>1. \E n : Moves(j, n)
    BY <1>0, <1>2, SweepShapes
  <2>2. sources' = sources /\ alert' = alert
    BY <1>2 DEF Sweep, SweepValue, SweepSource, SweepHolds, SweepRelease, SweepDestroy
  <2> QED
    BY <2>1, <2>2 DEF Shape
<1>3. CASE Swept(j)
  <2>1. \E n : Moves(j, n)
    BY <1>0, <1>3, ToShapes, StepOf DEF Swept
  <2> QED
    BY <1>3, <2>1 DEF Swept, Shape
<1>4. CASE Check(j)
  <2>1. To(j, "take") => \E n : Moves(j, n)
    BY <1>0, <1>4, ToShapes, StepOf DEF Check
  <2>2. ASSUME NEW p \in j.todo, Goes(j, [j EXCEPT !.todo = @ \ {p}, !.absent = @ \cup {p}]) PROVE \E n : Moves(j, n)
    <3>1. PICK n : n = [j EXCEPT !.todo = @ \ {p}, !.absent = @ \cup {p}]
      OBVIOUS
    <3>2. n \in Job /\ n.run = j.run /\ n.step = j.step /\ n.todo = j.todo \ {p} /\ n.absent = j.absent \cup {p}
      BY <1>0, <3>1 DEF Job
    <3>3. Goes(j, n) /\ j.step = "check"
      BY <1>4, <2>2, <3>1 DEF Check
    <3>4. GoesOn(j, n)
      BY <3>2, <3>3 DEF GoesOn
    <3> QED
      BY <3>2, <3>3, <3>4, GoShape
  <2>3. \A p : Did(j, p) => \E n : Moves(j, n)
    BY <1>a, <1>4 DEF Check
  <2>4. \A b : Fails(j, b) => jobs' = jobs \ {j} /\ EndsFlow(j)
    BY EndShapes
  <2>5. j.todo # {} => First(j.todo) \in j.todo
    BY FirstIn
  <2> QED
    BY <1>4, <2>1, <2>2, <2>3, <2>4, <2>5 DEF Check, Shape
<1>5. CASE Take(j)
  <2>1. ASSUME NEW p, Goes(j, [j EXCEPT !.absent = @ \ {p}]) PROVE \E n : Moves(j, n)
    <3>1. PICK n : n = [j EXCEPT !.absent = @ \ {p}]
      OBVIOUS
    <3>2. n \in Job /\ n.run = j.run /\ n.step = j.step /\ n.todo = j.todo /\ n.absent = j.absent \ {p}
      BY <1>0, <3>1 DEF Job
    <3>3. Goes(j, n) /\ j.step = "take"
      BY <1>5, <2>1, <3>1 DEF Take
    <3>4. GoesOn(j, n)
      BY <3>2, <3>3 DEF GoesOn
    <3> QED
      BY <3>2, <3>3, <3>4, GoShape
  <2> QED
    BY <1>5, <2>1, EndShapes DEF Take, Shape
<1>6. CASE Hold(j)
  BY <1>a, <1>6, EndShapes DEF Hold, Shape
<1>7. CASE Stage(j)
  <2>1. Goes(j, j) => Moves(j, j)
    BY <1>0, <1>7, GoShape DEF Stage, GoesOn
  <2> QED
    BY <1>7, <2>1, EndShapes DEF Stage, Shape
<1>8. CASE Release(j)
  BY <1>a, <1>8, EndShapes DEF Release, Shape
<1>9. CASE Destroy(j)
  <2>1. To(j, "drop") /\ j.todo # {} => \E n : Moves(j, n)
    BY <1>0, <1>9, ToShapes, StepOf DEF Destroy
  <2> QED
    BY <1>a, <1>9, <2>1, EndShapes DEF Destroy, Shape
<1>10. CASE Drop(j)
  <2>1. PICK n : /\ Moves(j, n) /\ n.step = "destroy" /\ n.todo = j.todo \ {First(j.todo)}
                 /\ ~n.failed => ~j.failed /\ snaps' = snaps \ {First(j.todo)}
    BY <1>b, <1>10, DropShapes
  <2>2. \E k : Moves(j, k)
    BY <2>1
  <2>3. sources' = sources /\ alert' = alert
    BY <1>10 DEF Drop
  <2> QED
    BY <2>2, <2>3 DEF Shape
<1>11. CASE Reclaim(j)
  BY <1>0, <1>11, EndShapes DEF Reclaim, Shape
<1> QED
  BY <1>1, <1>2, <1>3, <1>4, <1>5, <1>6, <1>7, <1>8, <1>9, <1>10, <1>11 DEF JobStep

\* What an attempt does to snapshots, holds and staged data.
LEMMA JobEffects ==
    ASSUME NEW j, JobStep(j)
    PROVE  /\ touched' = touched /\ (faults' = faults \/ Fault)
           /\ \/ snaps' = snaps \/ \E p : snaps' = snaps \ {p}
              \/ Take(j) /\ j.absent # {} /\ snaps' = snaps \cup {First(j.absent)}
           /\ \/ tag' = tag
              \/ Take(j) /\ j.absent # {} /\ tag' = [tag EXCEPT ![First(j.absent)] = OwnTag(j.run)]
           /\ \/ holds' = holds \/ \E p, r : holds' = [holds EXCEPT ![p] = @ \ {r}]
              \/ Hold(j) /\ j.todo # {} /\ holds' = [holds EXCEPT ![First(j.todo)] = @ \cup {j.run}]
           /\ \/ staging' = staging \/ staging' = staging \ {j.run}
              \/ Stage(j) /\ staging' = staging \cup {j.run}
<1>1. CASE List(j) \/ Swept(j) \/ Check(j) \/ Destroy(j)
  BY <1>1 DEF List, Swept, Check, Destroy, zfs
<1>2. CASE Sweep(j)
  BY <1>2 DEF Sweep, SweepValue, SweepSource, SweepHolds, SweepRelease, SweepDestroy, zfs
<1>3. CASE Take(j)
  BY <1>3 DEF Take
<1>4. CASE Hold(j) \/ Release(j)
  BY <1>4 DEF Hold, Release
<1>5. CASE Stage(j) \/ Reclaim(j)
  BY <1>5 DEF Stage, Reclaim, zfs
<1>6. CASE Drop(j)
  BY <1>6 DEF Drop
<1> QED
  BY <1>1, <1>2, <1>3, <1>4, <1>5, <1>6 DEF JobStep

-----------------------------------------------------------------------------
(* The type invariant and the workflow *)

LEMMA LimitPositive == Limit \in Nat \ {0} /\ Limit' \in Nat \ {0} /\ 0 \in 0..(Limit' - 1)
BY LifecycleAssumption DEF Limit

\* What an attempt changes keeps its type.
LEMMA JobTypes ==
    ASSUME TypeOK, JobInv, NEW j \in jobs, JobStep(j)
    PROVE  /\ snaps' \subseteq Path /\ holds' \in [Path -> SUBSET Runs]
           /\ staging' \subseteq Runs /\ faults' \in 0..MaxFaults
           /\ tag' \in [Path -> Tag] /\ touched' \subseteq Path
<1>0. j.run \in Runs /\ j.todo \subseteq Path /\ j.absent \subseteq Path
  BY DEF TypeOK, Job
<1>1. faults' \in 0..MaxFaults
  BY JobEffects, LifecycleAssumption DEF TypeOK, Fault
<1>2. staging' \subseteq Runs
  BY <1>0, JobEffects DEF TypeOK
<1>3. snaps' \subseteq Path
  BY <1>0, JobEffects, FirstIn DEF TypeOK
<1>4. holds' \in [Path -> SUBSET Runs]
  BY <1>0, JobEffects DEF TypeOK
<1>5. OwnTag(j.run) \in Tag
  BY <1>0, LifecycleAssumption DEF OwnTag, Tag, Values, Runs
<1>6. tag' \in [Path -> Tag] /\ touched' \subseteq Path
  BY <1>5, JobEffects DEF TypeOK
<1> QED
  BY <1>1, <1>2, <1>3, <1>4, <1>6

\* How giving up on an activity leaves the workflow.
LEMMA GiveUpType ==
    ASSUME TypeOK, run \in Runs, at \in Names, GiveUp
    PROVE  /\ run' = run /\ cancelled' = cancelled /\ attempt' = 0
           /\ at' \in {"release", "destroy", "alert", "idle"}
           /\ err' \subseteq {"phase", "hold", "snapshot"}
           /\ gaveUp' \in [Runs -> SUBSET {"hold", "snapshot", "staging", "sweep"}]
<1>1. CASE at \in DOMAIN Leftover
  <2>1. /\ Leftover[at] \in {"hold", "snapshot", "staging"} /\ at' \in {"destroy", "alert", "idle"}
        /\ at # "cleanup" => Leftover[at] \in {"hold", "snapshot"}
    BY <1>1, Tables DEF GiveUp
  <2>2. err' \subseteq {"phase", "hold", "snapshot"}
    BY <1>1, <2>1 DEF TypeOK, GiveUp
  <2>3. gaveUp' \in [Runs -> SUBSET {"hold", "snapshot", "staging", "sweep"}]
    BY <1>1, <2>1 DEF TypeOK, GiveUp
  <2> QED
    BY <2>1, <2>2, <2>3 DEF GiveUp
<1>2. CASE at \notin DOMAIN Leftover
  BY <1>2 DEF TypeOK, GiveUp
<1> QED
  BY <1>1, <1>2

LEMMA TypePreserved ==
    ASSUME TypeOK, FlowInv, JobInv, [Next]_vars
    PROVE  TypeOK'
<1>0. LifecycleAssumption /\ Limit \in Nat \ {0} /\ Limit' \in Nat \ {0}
  BY LifecycleAssumption, LimitPositive DEF LifecycleAssumption
<1>1. CASE Submit
  <2>1. run + 1 \in Runs
    BY <1>0, <1>1 DEF Submit, TypeOK, Runs
  <2>2. \A named \in Named \cap SUBSET snaps, live \in {{}, Own(run + 1)} : named \cup live \subseteq Path
    BY <2>1, Apart, LifecycleAssumption DEF LifecycleAssumption
  <2>3. sources' \in [Runs -> SUBSET Path]
    BY <1>1, <2>1, <2>2 DEF Submit, TypeOK
  <2>4. run' \in 0..MaxRuns /\ at' \in Activities \cup {"idle", "rest", "alert"} /\ attempt' \in 0..Limit' - 1
    <3>1. run' \in 0..MaxRuns
      BY <1>0, <1>1 DEF Submit, TypeOK, LifecycleAssumption
    <3>2. at' \in Activities \cup {"idle", "rest", "alert"}
      BY <1>1, Tables DEF Submit, Names
    <3>3. attempt' = 0
      BY <1>1 DEF Submit
    <3> QED
      BY LimitPositive, <3>1, <3>2, <3>3
  <2>5. err' \subseteq {"phase", "hold", "snapshot"}
    BY <1>1 DEF Submit
  <2> QED
    BY <1>1, <2>3, <2>4, <2>5 DEF Submit, TypeOK, zfs, logs
<1>2. CASE Skip \/ Rest \/ NotifyFailure \/ Cancel
  <2>1. attempt' \in 0..Limit' - 1
    BY <1>0, <1>2 DEF Skip, Rest, NotifyFailure, Cancel, TypeOK, FlowInv, Input, NoLive
  <2>2. at # "idle" /\ run \in Runs
    BY <1>2 DEF Skip, Rest, NotifyFailure, Cancel, FlowInv
  <2> QED
    BY <1>0, <1>2, <2>1, <2>2, Tables
       DEF Skip, Rest, NotifyFailure, Cancel, TypeOK, zfs, logs, Names
<1>3. CASE Start
  <2>1. run \in Runs /\ at \in Names
    BY <1>3, Tables DEF Start, FlowInv, Names
  <2>2. Input(at) \subseteq Path
    BY <2>1 DEF Input, TypeOK
  <2>3. FirstStep[at] \in Kinds
    BY <2>1, Steps
  <2>4. [run |-> run, step |-> FirstStep[at], todo |-> Input(at), failed |-> FALSE,
         found |-> {}, tags |-> {}, absent |-> {}] \in Job
    BY <2>1, <2>2, <2>3 DEF Job, Kinds
  <2>5. jobs' \subseteq Job
    BY <1>3, <2>4 DEF Start, TypeOK
  <2> QED
    BY <1>3, <2>5 DEF Start, TypeOK, flow, zfs, logs, Limit
<1>4. CASE WindowPasses
  <2>1. run \in Runs /\ at \in Names
    BY <1>4 DEF WindowPasses, FlowInv, Names
  <2>2. faults' \in 0..MaxFaults
    BY <1>0, <1>4 DEF WindowPasses, Fault, TypeOK
  <2>3. /\ run' = run /\ cancelled' = cancelled /\ attempt' = 0
        /\ at' \in {"release", "destroy", "alert", "idle"}
        /\ err' \subseteq {"phase", "hold", "snapshot"}
        /\ gaveUp' \in [Runs -> SUBSET {"hold", "snapshot", "staging", "sweep"}]
    BY <1>4, <2>1, GiveUpType DEF WindowPasses
  <2>4. at' \in Activities \cup {"idle", "rest", "alert"} /\ attempt' \in 0..Limit' - 1
    <3>1. at' \in Activities \cup {"idle", "rest", "alert"}
      BY <2>3, Tables DEF Names
    <3> QED
      BY LimitPositive, <2>3, <3>1
  <2> QED
    BY <1>4, <2>2, <2>3, <2>4 DEF WindowPasses, TypeOK, zfs
<1>5. ASSUME NEW j \in jobs, JobStep(j) PROVE TypeOK'
  <2>1. Shape(j)
    BY <1>5, Shapes
  <2>2. j.run \in Runs /\ (Awaited(j) => run \in Runs /\ at \in Names)
    BY Steps DEF TypeOK, Job, Kinds, Awaited
  <2>3. CASE \E n : Moves(j, n)
    <3>1. gaveUp' \in [Runs -> SUBSET {"hold", "snapshot", "staging", "sweep"}]
      BY <2>2, <2>3 DEF Moves, TypeOK
    <3>2. jobs' \subseteq Job /\ Limit' = Limit
      BY <2>3 DEF Moves, TypeOK, Limit
    <3> QED
      BY <1>5, <2>1, <2>3, <3>1, <3>2, JobTypes DEF Moves, TypeOK, Shape
  <2>4. CASE jobs' = jobs \ {j} /\ EndsFlow(j)
    <3>1. /\ run' = run /\ cancelled' = cancelled /\ at' \in Names \cup {"idle", "rest", "alert"}
          /\ err' \subseteq {"phase", "hold", "snapshot"}
          /\ gaveUp' \in [Runs -> SUBSET {"hold", "snapshot", "staging", "sweep"}]
      BY <2>2, <2>4, GiveUpType, Tables DEF EndsFlow, TypeOK, Names
    <3>2. attempt' \in 0..Limit' - 1
      BY <1>0, <2>2, <2>4, GiveUpType DEF EndsFlow, TypeOK, AttemptsLeft, Limit
    <3> QED
      BY <1>5, <2>1, <2>4, <3>1, <3>2, JobTypes, Tables DEF TypeOK, Shape
  <2> QED
    BY <2>1, <2>3, <2>4 DEF Shape
<1>6. ASSUME NEW p \in snaps, Prune(p) PROVE TypeOK'
  BY <1>6 DEF Prune, TypeOK, flow, logs, Limit
<1>8. ASSUME NEW p \in snaps, Retag(p) PROVE TypeOK'
  <2>1. tag' \in [Path -> Tag] /\ touched' \subseteq Path
    BY <1>8, LifecycleAssumption DEF Retag, TypeOK, LifecycleAssumption
  <2> QED
    BY <1>8, <2>1 DEF Retag, TypeOK, flow, logs, Limit
<1>7. CASE UNCHANGED vars
  BY <1>7 DEF vars, TypeOK, flow, logs, zfs, Limit
<1> QED
  BY <1>1, <1>2, <1>3, <1>4, <1>5, <1>6, <1>7, <1>8 DEF Next, Progress, Ended

\* The workflow counts attempts only while it waits for one.
LEMMA FlowPreserved ==
    ASSUME TypeOK, FlowInv, JobInv, [Next]_vars
    PROVE  FlowInv'
<1>0. run \in Nat /\ (at # "idle" => run >= 1)
  BY LifecycleAssumption DEF TypeOK, FlowInv, Runs
<1>1. CASE Submit
  BY <1>0, <1>1, LifecycleAssumption DEF Submit, FlowInv, TypeOK, Runs, Early
<1>2. CASE Skip
  <2>1. NoLive /\ attempt = 0
    BY <1>2 DEF Skip, Input, NoLive, FlowInv
  <2> QED
    BY <1>2, <2>1, Tables DEF Skip, FlowInv, Early, Runs
<1>3. CASE Rest \/ NotifyFailure \/ Cancel
  <2>1. CASE Rest \/ NotifyFailure
    BY <2>1 DEF Rest, NotifyFailure, FlowInv, Early
  <2>2. CASE Cancel
    <3>1. run \in Runs /\ run \in 1..run
      BY <1>0, <2>2 DEF Cancel, FlowInv
    <3> QED
      BY <2>2, <3>1 DEF Cancel, FlowInv, Early
  <2> QED
    BY <1>3, <2>1, <2>2
<1>4. CASE Start \/ (\E p \in snaps : Prune(p) \/ Retag(p)) \/ UNCHANGED vars
  BY <1>4 DEF Start, Prune, Retag, FlowInv, NoLive, flow, vars
<1>5. CASE WindowPasses
  BY <1>5, Tables DEF WindowPasses, GiveUp, FlowInv, Early
<1>6. ASSUME NEW j \in jobs, JobStep(j) PROVE FlowInv'
  <2>1. Shape(j)
    BY <1>6, Shapes
  <2>2. Awaited(j) => run \in Runs /\ at \in Names
    BY Steps DEF TypeOK, Job, Kinds, Awaited
  <2>3. CASE \E n : Moves(j, n)
    BY <2>1, <2>3 DEF Moves, Shape, FlowInv, NoLive
  <2>4. CASE jobs' = jobs \ {j} /\ EndsFlow(j)
    <3>1. NoLive' = NoLive /\ run' = run /\ cancelled' = cancelled
      BY <2>1, <2>4 DEF Shape, NoLive, EndsFlow
    <3>2. CASE ~Awaited(j)
      BY <2>4, <3>1, <3>2 DEF EndsFlow, FlowInv
    <3>3. CASE Awaited(j) /\ at' = at
      BY <2>2, <2>4, <3>1, <3>3, Tables DEF EndsFlow, FlowInv, JobInv, JobOK, Names, GiveUp
    <3>4. CASE Awaited(j) /\ at' # at
      <4>1. attempt' = 0 /\ (at' \in Early \cup {"rest"} => at \in Early)
        BY <2>2, <2>4, <3>4, Tables DEF EndsFlow, GiveUp, Names, Early
      <4> QED
        BY <2>2, <3>1, <3>4, <4>1 DEF FlowInv
    <3> QED
      BY <3>2, <3>3, <3>4
  <2> QED
    BY <2>1, <2>3, <2>4 DEF Shape
<1> QED
  BY <1>1, <1>2, <1>3, <1>4, <1>5, <1>6 DEF Next, Progress, Ended

\* Nothing is waited for that an earlier wait was cancelled for.
LEMMA JobPreserved ==
    ASSUME TypeOK, FlowInv, JobInv, [Next]_vars
    PROVE  JobInv'
<1>0. run \in Nat /\ (at # "idle" => run \in Runs) /\ \A j \in jobs : j \in Job /\ j.step \in Kinds /\ j.run \in 1..run
  BY LifecycleAssumption DEF TypeOK, FlowInv, JobInv, JobOK, Job, Kinds
<1>a. \A j \in jobs : Awaited(j) => at \in Names
  BY <1>0, Steps DEF Awaited
<1>b. \A j \in jobs : ~Awaited(j) => j.run \in cancelled /\ ActivityOf(j.step) \in Early
  BY DEF JobInv, JobOK
<1>1. CASE Submit
  <2>1. \A j \in jobs : ~Awaited(j) /\ ~Awaited(j)'
    BY <1>0, <1>1, <1>a DEF Submit, Awaited, Names
  <2>2. \A j \in jobs : sources'[j.run] = sources[j.run] /\ j.run \in 1..run'
    <3> TAKE j \in jobs
    <3>1. j.run \in Runs /\ j.run \in 1..(run + 1) /\ j.run # run + 1
      <4>1. j.run \in Runs /\ j.run \in Nat /\ 1 <= j.run /\ j.run <= run
        BY <1>0 DEF Job, Runs
      <4> QED
        BY <1>0, <4>1
    <3> QED
      BY <1>1, <3>1 DEF Submit, TypeOK
  <2> QED
    BY <1>1, <2>1, <2>2 DEF Submit, JobInv, JobOK
<1>2. CASE Skip \/ Rest \/ NotifyFailure
  <2>1. \A j \in jobs : ~Awaited(j)
    BY <1>2, <1>a DEF Skip, Rest, NotifyFailure, JobInv, JobOK, NoLive, Input, Names
  <2>2. \A j \in jobs : ~Awaited(j)'
    BY <1>2, <1>b, <2>1, Tables DEF Skip, Rest, NotifyFailure, FlowInv, Awaited, Early
  <2> QED
    BY <1>2, <2>1, <2>2 DEF Skip, Rest, NotifyFailure, JobInv, JobOK
<1>3. CASE Cancel
  <2>1. \A j \in jobs : ~Awaited(j)' /\ j.run \in cancelled' /\ ActivityOf(j.step) \in Early
    BY <1>3, <1>a, <1>b DEF Cancel, Awaited, Early, Names
  <2> QED
    BY <1>3, <2>1 DEF Cancel, JobInv, JobOK
<1>4. CASE Start
  <2>1. run \in Runs /\ at \in Names
    BY <1>0, <1>4, Tables DEF Start, Names
  <2>2. PICK n : n = [run |-> run, step |-> FirstStep[at], todo |-> Input(at), failed |-> FALSE,
                       found |-> {}, tags |-> {}, absent |-> {}]
    OBVIOUS
  <2>3. jobs' = jobs \cup {n} /\ n.run = run /\ n.step = FirstStep[at] /\ n.todo = Input(at) /\ n.absent = {}
    BY <1>4, <2>2 DEF Start
  <2>4. run' = run /\ at' = at /\ cancelled' = cancelled /\ sources' = sources
    BY <1>4 DEF Start, flow
  <2>5. Awaited(n)
    BY <2>1, <2>3, Steps DEF Awaited
  <2>6. JobOK(n)
    BY <1>0, <1>4, <2>1, <2>3, <2>5, Steps DEF JobOK, Start, Input, NoLive, Names, Runs
  <2> QED
    BY <1>4, <2>3, <2>4, <2>5, <2>6 DEF JobInv, JobOK, Awaited, NoLive, Start
<1>5. CASE WindowPasses
  <2>1. at' \in {"destroy", "alert"} /\ run' = run /\ cancelled' = cancelled /\ sources' = sources
    BY <1>5, Tables DEF WindowPasses, GiveUp
  <2>2. \A j \in jobs' : j \in jobs /\ ~Awaited(j) /\ ~Awaited(j)'
    BY <1>5, <1>b, <2>1 DEF WindowPasses, Awaited, Early
  <2> QED
    BY <2>1, <2>2 DEF JobInv, JobOK
<1>6. ASSUME NEW j \in jobs, JobStep(j) PROVE JobInv'
  <2>1. Shape(j)
    BY <1>6, Shapes
  <2>2. CASE \E n : Moves(j, n)
    <3>1. PICK n : Moves(j, n)
      BY <2>2
    <3>2. \A k : Awaited(k)' <=> Awaited(k)
      BY <3>1 DEF Moves, Awaited
    <3>3. NoLive' = NoLive /\ sources' = sources
      BY <2>1, <3>1 DEF Shape, Moves, NoLive
    <3>4. Awaited(n) <=> Awaited(j)
      BY <3>1 DEF Moves, GoesOn, Awaited
    <3>5. ActivityOf(n.step) \in {"create", "destroy"} => n.todo \subseteq sources[n.run] \cap RunScoped
      BY <3>1 DEF Moves, GoesOn, JobInv, JobOK
    <3>6. n.step \in {"hold", "release"} => n.todo \subseteq sources[n.run]
      BY <3>1 DEF Moves, GoesOn, JobInv, JobOK
    <3>7. n.absent \subseteq sources[n.run] \cap RunScoped
      BY <3>1, StepOf DEF Moves, GoesOn, JobInv, JobOK
    <3>8. (n.step \in {"source", "holds", "untag"} => n.found # {}) /\ (n.step = "drop" => n.todo # {})
      BY <3>1 DEF Moves, GoesOn
    <3> QED
      BY <3>1, <3>2, <3>3, <3>4, <3>5, <3>6, <3>7, <3>8 DEF JobInv, JobOK, Moves, GoesOn
  <2>3. CASE jobs' = jobs \ {j} /\ EndsFlow(j)
    <3>1. NoLive' = NoLive /\ run' = run /\ cancelled' = cancelled /\ sources' = sources
      BY <2>1, <2>3 DEF Shape, NoLive, EndsFlow
    <3>2. CASE at' = at
      BY <2>3, <3>1, <3>2 DEF JobInv, JobOK, Awaited
    <3>3. CASE at' # at
      <4>1. Awaited(j) /\ at \in Names /\ (at' \in Early => at \in Early)
        BY <1>a, <2>3, <3>3, Tables DEF EndsFlow, GiveUp, Names, Early
      <4>2. \A k \in jobs' : k \in jobs /\ ~Awaited(k)
        BY <2>3, <4>1 DEF JobInv, JobOK
      <4>3. \A k \in jobs' : ~Awaited(k)'
        <5> SUFFICES ASSUME NEW k \in jobs', Awaited(k)' PROVE FALSE
          OBVIOUS
        <5>1. k.run = run /\ ActivityOf(k.step) = at'
          BY <3>1 DEF Awaited
        <5>2. run \in cancelled /\ at' \in Early
          BY <1>b, <4>2, <5>1
        <5> QED
          BY <4>1, <5>2 DEF FlowInv
      <4> QED
        BY <3>1, <4>2, <4>3 DEF JobInv, JobOK
    <3> QED
      BY <3>2, <3>3
  <2> QED
    BY <2>1, <2>2, <2>3 DEF Shape
<1>7. CASE (\E p \in snaps : Prune(p) \/ Retag(p)) \/ UNCHANGED vars
  BY <1>7 DEF Prune, Retag, JobInv, JobOK, Awaited, NoLive, flow, vars
<1> QED
  BY <1>1, <1>2, <1>3, <1>4, <1>5, <1>6, <1>7 DEF Next, Progress, Ended

-----------------------------------------------------------------------------
(* What runs own *)

\* What an attempt takes, holds, stages or logs is its own run's.
LEMMA OwnPreserved ==
    ASSUME TypeOK, FlowInv, JobInv, OwnInv, [Next]_vars
    PROVE  OwnInv'
<1>0. run \in Nat /\ (at # "idle" => run \in Runs) /\ (\A r \in Runs : r \in Nat)
  BY LifecycleAssumption DEF TypeOK, FlowInv, Runs
<1>1. CASE Submit
  <2>1. run + 1 \in Runs /\ run' = run + 1 /\ UNCHANGED <<snaps, holds, staging, gaveUp, alert>>
    BY <1>0, <1>1, LifecycleAssumption DEF Submit, Runs, zfs, logs
  <2>2. sources[run + 1] = {}
    BY <1>0, <2>1 DEF OwnInv
  <2>3. \A r \in Runs : r # run + 1 => sources'[r] = sources[r]
    BY <1>1 DEF Submit, TypeOK
  <2>4. sources'[run + 1] \subseteq Given \cup Own(run + 1)
    <3>1. \A named \in Named : named \subseteq Given
      BY LifecycleAssumption DEF LifecycleAssumption
    <3> QED
      BY <1>1, <2>1, <2>2, <3>1 DEF Submit, TypeOK
  <2>5. \A r \in Runs : Own(r) \cap snaps' \subseteq sources'[r]
    BY <2>1, <2>2, <2>3 DEF OwnInv
  <2>6. \A p \in Path : \A r \in holds'[p] : r \in Runs /\ p \in sources[r]
    BY <2>1 DEF OwnInv, TypeOK
  <2>7. \A p \in Path : \A r \in holds'[p] : p \in sources'[r]
    BY <2>2, <2>3, <2>6
  <2> QED
    BY <1>0, <2>1, <2>3, <2>4, <2>5, <2>7 DEF OwnInv
<1>2. CASE Skip \/ Rest \/ Cancel \/ Start
  BY <1>2 DEF Skip, Rest, Cancel, Start, OwnInv, flow, zfs, logs
<1>3. CASE NotifyFailure
  <2>1. \A r \in Runs : r > run => alert'[r] = alert[r]
    BY <1>0, <1>3 DEF NotifyFailure, TypeOK
  <2> QED
    BY <1>3, <2>1 DEF NotifyFailure, OwnInv, zfs
<1>4. CASE WindowPasses
  <2>1. \A r \in Runs : r > run => gaveUp'[r] = gaveUp[r]
    BY <1>0, <1>4 DEF WindowPasses, GiveUp, TypeOK
  <2> QED
    BY <1>4, <2>1 DEF WindowPasses, GiveUp, OwnInv, zfs
<1>5. ASSUME NEW j \in jobs, JobStep(j) PROVE OwnInv'
  <2>1. /\ j.run \in Runs /\ j.run <= run /\ j \in Job /\ j.todo \subseteq Path /\ JobOK(j)
        /\ j.absent \subseteq sources[j.run] \cap RunScoped
        /\ j.step \in {"hold", "release"} => j.todo \subseteq sources[j.run]
    BY <1>0 DEF TypeOK, Job, JobInv, JobOK
  <2>2. Shape(j) /\ run' = run /\ sources' = sources /\ alert' = alert
    BY <1>5, Shapes DEF Shape, Moves, EndsFlow
  <2>3. \A r \in Runs : r > run => gaveUp'[r] = gaveUp[r]
    <3>1. CASE \E n : Moves(j, n)
      BY <1>0, <2>1, <3>1 DEF Moves, TypeOK
    <3>2. CASE EndsFlow(j)
      BY <1>0, <3>2 DEF EndsFlow, GiveUp, TypeOK
    <3> QED
      BY <2>2, <3>1, <3>2 DEF Shape
  <2>4. \A r \in Runs : r > run => (r \in staging' => r \in staging)
    <3>1. staging' = staging \/ staging' = staging \cup {j.run} \/ staging' = staging \ {j.run}
      BY <1>5, JobEffects
    <3> QED
      BY <1>0, <2>1, <3>1
  <2>5. \A p \in snaps' : p \in snaps \/ p \in sources[j.run] \cap RunScoped
    BY <1>5, <2>1, JobEffects, FirstIn
  <2>6. \A r \in Runs : Own(r) \cap snaps' \subseteq sources[r]
    <3> SUFFICES ASSUME NEW r \in Runs, NEW p \in Own(r) \cap snaps', p \notin snaps PROVE p \in sources[r]
      BY DEF OwnInv
    <3>1. p \in sources[j.run] /\ p \in Own(r)
      BY <2>5
    <3>2. p \in Own(j.run)
      BY <2>1, <3>1, Apart DEF OwnInv
    <3> QED
      BY <2>1, <3>1, <3>2, Apart
  <2>7. \A p \in Path : \A r \in holds'[p] : r \in holds[p] \/ (r = j.run /\ p \in sources[j.run])
    <3>1. \/ holds' = holds \/ \E p, r : holds' = [holds EXCEPT ![p] = @ \ {r}]
          \/ j.step = "hold" /\ \E p \in j.todo : holds' = [holds EXCEPT ![p] = @ \cup {j.run}]
      BY <1>5, JobEffects, FirstIn DEF Hold
    <3> QED
      BY <2>1, <3>1 DEF TypeOK
  <2>8. \A p \in Path : \A r \in holds'[p] : p \in sources'[r]
    BY <2>2, <2>7 DEF OwnInv
  <2> QED
    BY <2>2, <2>3, <2>4, <2>6, <2>8 DEF OwnInv
<1>6. CASE (\E p \in snaps : Prune(p) \/ Retag(p)) \/ UNCHANGED vars
  BY <1>6 DEF Prune, Retag, OwnInv, flow, logs, zfs, vars
<1> QED
  BY <1>1, <1>2, <1>3, <1>4, <1>5, <1>6 DEF Next, Progress, Ended

-----------------------------------------------------------------------------
(* The properties of snapshots *)

LEMMA TagsFirst == Init => TagInv
BY DEF Init, TagInv, FirstTag

\* The owner the destroy of a run reads is the run, unless somebody changed it.
LEMMA OwnTagged ==
    ASSUME TagInv, NEW r \in Runs, NEW p \in Own(r) \ touched
    PROVE  tag[p].value = r /\ tag[p].source = "local" /\ p \notin Given
<1>1. p \in Path \ touched /\ p \notin Given /\ p[2] = r
  BY Apart
<1>2. tag[p] = OwnTag(r)
  BY <1>1 DEF TagInv, FirstTag
<1> QED
  BY <1>1, <1>2 DEF OwnTag

\* A step that leaves an attempt, its record and the property of given snapshots alone.
LEMMA StillVetted ==
    ASSUME NEW j, NEW n, Vetted(j), n.run = j.run, n.step = j.step, Current(n) = Current(j), touched \subseteq touched'
    PROVE  Vetted(n)'
<1>1. Given \ touched' \subseteq Given \ touched
  OBVIOUS
<1>2. Current(n)' = Current(n) /\ NamesLeak(n, Current(n))' = NamesLeak(n, Current(n))
  BY DEF Current, NamesLeak, Spells
<1>3. NamesLeak(n, Current(n)) = NamesLeak(j, Current(j))
  BY DEF NamesLeak
<1> QED
  BY <1>1, <1>2, <1>3 DEF Vetted

\* Only the sweep's own commands lead into its checks.
LEMMA PlainShapes ==
    ASSUME TypeOK, JobInv, NEW j \in jobs, JobStep(j), ~Sweep(j)
    PROVE  \A k \in jobs' : k \in jobs \/ k.step \notin {"source", "holds", "untag"}
<1>0. j \in Job /\ {"check", "take"} \subseteq Kinds /\ Shape(j)
  BY Shapes DEF TypeOK, Kinds
<1>1. CASE List(j)
  BY <1>1, ListShapes DEF Moves
<1>2. CASE Swept(j)
  <2>1. jobs' = (jobs \ {j}) \cup {[j EXCEPT !.step = "check"]}
    BY <1>2 DEF Swept, To, Goes
  <2> QED
    BY <1>0, <2>1 DEF Job
<1>3. CASE Check(j) \/ Take(j)
  <2>1. \/ jobs' = jobs \ {j}
        \/ \E n : /\ jobs' = (jobs \ {j}) \cup {n}
                 /\ \/ \E p : n = [j EXCEPT !.todo = @ \ {p}, !.absent = @ \cup {p}]
                    \/ \E p : n = [j EXCEPT !.todo = @ \ {p}]
                    \/ \E p : n = [j EXCEPT !.absent = @ \ {p}]
                    \/ n = [j EXCEPT !.step = "take"]
    BY <1>3 DEF Check, Take, Did, Goes, To, Fails, Succeeds
  <2>2. j.step \in {"check", "take"}
    BY <1>3 DEF Check, Take
  <2> QED
    BY <1>0, <2>1, <2>2 DEF Job
<1>4. CASE Hold(j) \/ Stage(j) \/ Release(j) \/ Destroy(j) \/ Drop(j) \/ Reclaim(j)
  <2>1. ActivityOf(j.step) # "create"
    BY <1>4, StepOf DEF Hold, Stage, Release, Destroy, Drop, Reclaim
  <2> QED
    BY <1>0, <2>1, StepOf DEF Shape, Moves, GoesOn
<1> QED
  BY <1>1, <1>2, <1>3, <1>4 DEF JobStep

LEMMA TagPreserved ==
    ASSUME TypeOK, JobInv, OwnInv, TagInv, [Next]_vars
    PROVE  TagInv'
<1>0. /\ \A p \in Path \ touched : tag[p] = FirstTag(p)
      /\ \A j \in jobs : Vetted(j)
  BY DEF TagInv
<1>a. ASSUME UNCHANGED <<tag, touched>>, jobs' \subseteq jobs PROVE TagInv'
  <2>1. \A j \in jobs : Vetted(j)'
    BY <1>0, <1>a DEF Vetted, Current, NamesLeak, Spells
  <2> QED
    BY <1>0, <1>a, <2>1 DEF TagInv, FirstTag
<1>1. CASE Submit \/ Skip \/ Rest \/ NotifyFailure \/ WindowPasses \/ Cancel \/ (\E p \in snaps : Prune(p)) \/ UNCHANGED vars
  BY <1>1, <1>a DEF Submit, Skip, Rest, NotifyFailure, WindowPasses, Cancel, Prune, vars, zfs
<1>2. CASE Start
  <2>1. PICK n : n = [run |-> run, step |-> FirstStep[at], todo |-> Input(at), failed |-> FALSE,
                       found |-> {}, tags |-> {}, absent |-> {}]
    OBVIOUS
  <2>2. jobs' = jobs \cup {n} /\ at \in Names /\ UNCHANGED <<tag, touched>>
    BY <1>2, <2>1, Tables DEF Start, zfs
  <2>3. n.step \notin {"source", "holds", "untag"}
    BY <2>1, <2>2, Steps DEF Names
  <2>4. \A j \in jobs : Vetted(j)'
    BY <1>0, <2>2 DEF Vetted, Current, NamesLeak, Spells
  <2>5. Vetted(n)'
    BY <2>3 DEF Vetted
  <2> QED
    BY <1>0, <2>2, <2>4, <2>5 DEF TagInv, FirstTag
<1>3. ASSUME NEW q \in snaps, Retag(q) PROVE TagInv'
  <2>1. jobs' = jobs /\ touched' = touched \cup {q} /\ \E t : tag' = [tag EXCEPT ![q] = t]
    BY <1>3 DEF Retag
  <2>2. \A j \in jobs : Vetted(j)'
    BY <1>0, <2>1, StillVetted
  <2>3. \A p \in Path \ touched' : tag'[p] = FirstTag(p)
    BY <1>0, <2>1 DEF TypeOK
  <2> QED
    BY <2>1, <2>2, <2>3 DEF TagInv, FirstTag
<1>4. ASSUME NEW j \in jobs, JobStep(j) PROVE TagInv'
  <2>1. j \in Job /\ j.run \in Runs /\ JobOK(j) /\ Shape(j) /\ touched' = touched /\ Vetted(j)
    BY <1>0, <1>4, Shapes, JobEffects DEF TypeOK, Job, JobInv
  <2>2. \A p \in Path \ touched' : tag'[p] = FirstTag(p)
    <3>1. CASE tag' = tag
      BY <1>0, <2>1, <3>1
    <3>2. CASE j.absent # {} /\ tag' = [tag EXCEPT ![First(j.absent)] = OwnTag(j.run)]
      <4>1. PICK q \in j.absent : q = First(j.absent)
        BY <3>2, FirstIn
      <4>2. q \in Own(j.run)
        BY <2>1, <4>1, Apart DEF JobOK, OwnInv
      <4>3. q[2] = j.run /\ q \notin Given /\ q \in Path
        BY <2>1, <4>2, Apart
      <4> QED
        BY <1>0, <2>1, <3>2, <4>1, <4>3 DEF FirstTag, TypeOK
    <3> QED
      BY <1>4, <3>1, <3>2, JobEffects
  <2>3. \A k \in jobs : Vetted(k)'
    BY <1>0, <2>1, StillVetted
  <2>4. CASE ~Sweep(j)
    <3>1. \A k \in jobs' : Vetted(k)'
      BY <1>4, <2>3, <2>4, PlainShapes DEF Vetted
    <3> QED
      BY <2>2, <3>1 DEF TagInv, FirstTag
  <2>5. CASE Sweep(j)
    <3>0. PICK c : c = Current(j)
      OBVIOUS
    <3>1. \E n : /\ jobs' = (jobs \ {j}) \cup {n} /\ n.run = j.run
                /\ \/ n.step = "sweep"
                   \/ /\ Current(n) = Current(j) /\ n.step = "source" /\ NamesLeak(j, Current(j))
                      /\ Current(j).name \in snaps /\ tag[Current(j).name].value = Current(j).value
                   \/ /\ Current(n) = Current(j) /\ n.step = "holds" /\ j.step = "source"
                      /\ Current(j).name \in snaps /\ tag[Current(j).name].source = "local"
                   \/ Current(n) = Current(j) /\ n.step = "untag" /\ j.step \in {"holds", "untag"}
      BY <2>1, <2>5, SweepShapes DEF Moves
    <3>2. PICK n : /\ jobs' = (jobs \ {j}) \cup {n} /\ n.run = j.run
                   /\ \/ n.step = "sweep"
                      \/ /\ Current(n) = c /\ n.step = "source" /\ NamesLeak(j, c)
                         /\ c.name \in snaps /\ tag[c.name].value = c.value
                      \/ /\ Current(n) = c /\ n.step = "holds" /\ j.step = "source"
                         /\ c.name \in snaps /\ tag[c.name].source = "local"
                      \/ Current(n) = c /\ n.step = "untag" /\ j.step \in {"holds", "untag"}
      BY <3>0, <3>1
    <3>3. /\ j.step \in {"source", "holds", "untag"} => NamesLeak(j, c)
          /\ j.step = "source" /\ c.name \in Given \ touched => GivenTag[c.name].value = c.value
          /\ j.step \in {"holds", "untag"} => c.name \notin Given \ touched
      BY <2>1, <3>0 DEF Vetted
    <3>4. Current(n)' = Current(n) /\ (NamesLeak(n, c)' <=> NamesLeak(j, c))
      BY <3>2 DEF Current, NamesLeak, Spells
    <3>5. n.step \in {"source", "holds", "untag"} => NamesLeak(n, c)'
      BY <3>2, <3>3, <3>4
    <3>6. n.step = "source" /\ c.name \in Given \ touched' => GivenTag[c.name].value = c.value
      <4>1. c.name \in Given \ touched => tag[c.name] = GivenTag[c.name]
        BY <1>0, Apart DEF FirstTag
      <4> QED
        BY <2>1, <3>2, <4>1
    <3>7. n.step = "holds" => c.name \notin Given \ touched
      <4> SUFFICES ASSUME n.step = "holds", c.name \in Given \ touched PROVE FALSE
        OBVIOUS
      <4>1. tag[c.name] = GivenTag[c.name] /\ GivenTag[c.name] \in Tag
        BY <1>0, Apart, LifecycleAssumption DEF FirstTag, LifecycleAssumption
      <4>2. c.value # 0 /\ Spelled[c.name] = c.value
        BY <3>2, <3>3 DEF NamesLeak, Spells
      <4>3. GivenTag[c.name].value = Spelled[c.name] /\ GivenTag[c.name].source = "local"
        BY <3>2, <3>3, <4>1, <4>2
      <4>4. GivenTag[c.name] = OwnTag(Spelled[c.name])
        BY <4>1, <4>3 DEF OwnTag, Tag
      <4> QED
        BY <4>2, <4>4, LifecycleAssumption DEF LifecycleAssumption
    <3>8. Vetted(n)'
      BY <2>1, <3>2, <3>3, <3>4, <3>5, <3>6, <3>7 DEF Vetted
    <3> QED
      BY <2>2, <2>3, <3>2, <3>8 DEF TagInv, FirstTag
  <2> QED
    BY <2>4, <2>5
<1> QED
  BY <1>1, <1>2, <1>3, <1>4 DEF Next, Progress, Ended

-----------------------------------------------------------------------------
(* Pinned while read, leaks swept *)

\* Where nothing was cancelled, every attempt is the one waited for.
LEMMA OnlyAwaited ==
    ASSUME TypeOK, JobInv, cancelled = {}
    PROVE  /\ \A j \in jobs : Awaited(j) /\ j.run = run /\ ActivityOf(j.step) = at
           /\ \A j \in jobs : jobs = {j}
           /\ at \notin Names => jobs = {}
<1>1. \A j \in jobs : Awaited(j) /\ j.run = run /\ ActivityOf(j.step) = at
  BY DEF JobInv, JobOK, Awaited
<1>2. \A j \in jobs : jobs = {j}
  BY <1>1 DEF JobInv
<1>3. \A j \in jobs : j.step \in Kinds
  BY DEF TypeOK, Job, Kinds
<1> QED
  BY <1>1, <1>2, <1>3, Steps

Held(p) == p \in snaps /\ run \in holds[p]

LEMMA PinPreserved ==
    ASSUME TypeOK, FlowInv, JobInv, OwnInv, TagInv, PinInv, [Next]_vars
    PROVE  PinInv'
<1> SUFFICES ASSUME cancelled' = {}, run' \in Runs
             PROVE  /\ at' \in {"prepare", "rest"} => \A p \in sources'[run'] : Held(p)'
                    /\ \A j \in jobs' : j.step = "hold" => \A p \in sources'[run'] \ j.todo : Held(p)'
                    /\ "sweep" \notin gaveUp'[run'] =>
                        /\ \A j \in jobs' : j.step \in Sweeping => \A r \in 1..run' - 1 : Listed(j, r)'
                        /\ \A j \in jobs' : j.step \in {"check", "take"} => Clean'
                        /\ at' \in {"hold", "prepare", "rest"} /\ Own(run') \subseteq sources'[run'] => Clean'
  BY DEF PinInv, Held, Clean
<1>0. run \in Nat /\ (at # "idle" => run \in Runs) /\ \A r \in 1..run - 1 : r \in Runs /\ r # run
  BY LifecycleAssumption DEF TypeOK, FlowInv, Runs
<1>a. run \in Runs /\ cancelled = {} =>
        /\ at \in {"prepare", "rest"} => \A p \in sources[run] : Held(p)
        /\ \A j \in jobs : j.step = "hold" => \A p \in sources[run] \ j.todo : Held(p)
        /\ "sweep" \notin gaveUp[run] =>
            /\ \A j \in jobs : j.step \in Sweeping => \A r \in 1..run - 1 : Listed(j, r)
            /\ \A j \in jobs : j.step \in {"check", "take"} => Clean
            /\ at \in {"hold", "prepare", "rest"} /\ Own(run) \subseteq sources[run] => Clean
  BY DEF PinInv, Held, Clean
<1>1. CASE Submit
  <2>1. jobs' = {} /\ at' \in {"create", "alert"}
    BY <1>1, OnlyAwaited DEF Submit, Names
  <2> QED
    BY <2>1
<1>2. CASE Skip
  <2>1. jobs' = {} /\ at' \in {"hold", "alert"} /\ NoLive /\ run \in Runs
    BY <1>0, <1>2, OnlyAwaited, Tables DEF Skip, JobInv, JobOK, Input, NoLive
  <2>2. Own(run) \subseteq sources[run] => \A r \in Runs : Own(r) = {}
    <3> SUFFICES ASSUME Own(run) \subseteq sources[run] PROVE \A r \in Runs : Own(r) = {}
      OBVIOUS
    <3>1. Own(run) = {}
      BY <2>1, Apart DEF NoLive
    <3>2. \A x \in Pools : <<x, run>> \in Own(run)
      BY DEF Own
    <3>3. Pools = {}
      BY <3>1, <3>2
    <3> QED
      BY <3>3 DEF Own
  <2> QED
    BY <1>0, <1>2, <2>1, <2>2 DEF Skip, Clean
<1>3. CASE Rest \/ NotifyFailure
  <2>1. jobs' = {} /\ at' \in {"release", "cleanup"}
    BY <1>3, OnlyAwaited DEF Rest, NotifyFailure, Names
  <2> QED
    BY <2>1
<1>4. CASE WindowPasses
  <2>1. jobs' = {} /\ at' \in {"destroy", "alert"}
    BY <1>4, OnlyAwaited, Tables DEF WindowPasses, GiveUp
  <2> QED
    BY <2>1
<1>5. CASE Cancel
  BY <1>5 DEF Cancel
<1>6. CASE Start
  <2>1. run \in Runs /\ at \in Names /\ cancelled = {} /\ jobs = {}
    BY <1>0, <1>6, OnlyAwaited, Tables DEF Start, Names, flow
  <2>2. PICK n : n = [run |-> run, step |-> FirstStep[at], todo |-> Input(at), failed |-> FALSE,
                       found |-> {}, tags |-> {}, absent |-> {}]
    OBVIOUS
  <2>3. jobs' = {n} /\ n.step = FirstStep[at] /\ n.todo = Input(at)
    BY <1>6, <2>1, <2>2 DEF Start
  <2>4. /\ n.step \notin Sweeping \cup {"check", "take"}
        /\ n.step = "hold" => n.todo = sources[run]
    BY <2>1, <2>3, Steps DEF Names, Input, Sweeping
  <2>5. UNCHANGED <<run, at, sources, snaps, holds, touched, gaveUp, cancelled>>
    BY <1>6 DEF Start, flow, zfs, logs
  <2> QED
    BY <1>a, <2>1, <2>3, <2>4, <2>5 DEF Held, Clean
<1>7. ASSUME NEW q \in snaps, Prune(q) \/ Retag(q)
      PROVE  /\ at' \in {"prepare", "rest"} => \A p \in sources'[run'] : Held(p)'
             /\ \A j \in jobs' : j.step = "hold" => \A p \in sources'[run'] \ j.todo : Held(p)'
             /\ "sweep" \notin gaveUp'[run'] =>
                 /\ \A j \in jobs' : j.step \in Sweeping => \A r \in 1..run' - 1 : Listed(j, r)'
                 /\ \A j \in jobs' : j.step \in {"check", "take"} => Clean'
                 /\ at' \in {"hold", "prepare", "rest"} /\ Own(run') \subseteq sources'[run'] => Clean'
  <2>1. /\ UNCHANGED <<run, at, sources, jobs, holds, gaveUp, cancelled>> /\ touched \subseteq touched'
        /\ snaps' = snaps \/ (snaps' = snaps \ {q} /\ holds[q] = {})
    BY <1>7 DEF Prune, Retag, flow, logs
  <2>2. \A p : Held(p) => Held(p)'
    BY <2>1 DEF Held
  <2>3. Clean => Clean'
    BY <2>1 DEF Clean
  <2>4. \A j \in jobs : \A r \in 1..run - 1 : Listed(j, r) => Listed(j, r)'
    BY <2>1 DEF Listed, Leaks
  <2> QED
    BY <1>a, <2>1, <2>2, <2>3, <2>4
<1>8. ASSUME NEW j \in jobs, JobStep(j)
      PROVE  /\ at' \in {"prepare", "rest"} => \A p \in sources'[run'] : Held(p)'
             /\ \A k \in jobs' : k.step = "hold" => \A p \in sources'[run'] \ k.todo : Held(p)'
             /\ "sweep" \notin gaveUp'[run'] =>
                 /\ \A k \in jobs' : k.step \in Sweeping => \A r \in 1..run' - 1 : Listed(k, r)'
                 /\ \A k \in jobs' : k.step \in {"check", "take"} => Clean'
                 /\ at' \in {"hold", "prepare", "rest"} /\ Own(run') \subseteq sources'[run'] => Clean'
  <2>1. Shape(j) /\ run' = run /\ cancelled = {} /\ sources' = sources /\ run \in Runs
    BY <1>8, Shapes DEF Shape, Moves, EndsFlow
  <2>2. /\ Awaited(j) /\ j.run = run /\ at = ActivityOf(j.step) /\ jobs = {j} /\ j \in Job
        /\ j.absent \subseteq Own(run)
    BY <2>1, OnlyAwaited, Apart DEF TypeOK, JobInv, JobOK, OwnInv
  <2>3. EndsFlow(j) => at' \in {at, After[at], "release", "destroy", "alert", "idle"} /\ (gaveUp' = gaveUp \/ at' \notin Early \cup {"rest"})
    BY <2>1, <2>2, Tables, Steps DEF EndsFlow, GiveUp, Job, Kinds, Names, Early
  <2>4. CASE List(j)
    <3>1. at = "create" /\ at' = at /\ snaps' = snaps /\ touched' = touched
      BY <2>2, <2>4, StepOf DEF List, Goes, flow, zfs
    <3>2. PICK n : /\ Moves(j, n) /\ n.step = "sweep"
                   /\ \/ /\ gaveUp' = gaveUp
                         /\ \A p \in snaps : tag[p].source = "local" => [name |-> p, value |-> tag[p].value] \in n.found
                      \/ gaveUp' = [gaveUp EXCEPT ![j.run] = @ \cup {"sweep"}]
      BY <2>4, ListShapes
    <3>3. jobs' = {n}
      BY <2>2, <3>2 DEF Moves
    <3>4. gaveUp' = [gaveUp EXCEPT ![j.run] = @ \cup {"sweep"}] => "sweep" \in gaveUp'[run]
      BY <2>1, <2>2 DEF TypeOK
    <3>5. ASSUME \A p \in snaps : tag[p].source = "local" => [name |-> p, value |-> tag[p].value] \in n.found
          PROVE  \A r \in 1..run - 1 : Listed(n, r)'
      BY <1>0, <3>1, <3>5, OwnTagged DEF Listed, Leaks
    <3> QED
      BY <2>1, <3>1, <3>2, <3>3, <3>4, <3>5 DEF Sweeping
  <2>5. CASE Sweep(j)
    <3>1. at = "create" /\ j.step \in Sweeping /\ touched' = touched
      BY <1>8, <2>2, <2>5, StepOf, JobEffects
         DEF Sweep, SweepValue, SweepSource, SweepHolds, SweepRelease, SweepDestroy, Sweeping
    <3>2. PICK n : /\ Moves(j, n) /\ n.step \in Sweeping
                   /\ \/ n.found = j.found /\ snaps' = snaps /\ gaveUp' = gaveUp
                      \/ /\ n.found = j.found \ {Current(j)} /\ gaveUp' = gaveUp
                         /\ \/ snaps' = snaps \ {Current(j).name}
                            \/ /\ snaps' = snaps
                               /\ \/ ~NamesLeak(j, Current(j)) \/ Current(j).name \notin snaps
                                  \/ tag[Current(j).name] # [value |-> Current(j).value, source |-> "local"]
                      \/ gaveUp' = [gaveUp EXCEPT ![j.run] = @ \cup {"sweep"}]
      BY <2>2, <2>5, SweepShapes DEF Sweeping
    <3>3. jobs' = {n} /\ at' = at
      BY <2>2, <3>2 DEF Moves
    <3>4. gaveUp' = [gaveUp EXCEPT ![j.run] = @ \cup {"sweep"}] => "sweep" \in gaveUp'[run]
      BY <2>1, <2>2 DEF TypeOK
    <3>5. ASSUME NEW r \in 1..run - 1, Listed(j, r), gaveUp' = gaveUp, "sweep" \notin gaveUp'[run] PROVE Listed(n, r)'
      <4> SUFFICES ASSUME NEW p \in Leaks(r)' PROVE [name |-> p, value |-> r] \in n.found
        BY DEF Listed
      <4>1. p \in Own(r) /\ p \in snaps' /\ p \notin touched
        BY <3>1 DEF Leaks
      <4>2. snaps' \subseteq snaps \/ "sweep" \in gaveUp'[run]
        BY <3>2, <3>4
      <4>3. [name |-> p, value |-> r] \in j.found
        BY <3>5, <4>1, <4>2 DEF Listed, Leaks
      <4>4. CASE Current(j) = [name |-> p, value |-> r] /\ n.found = j.found \ {Current(j)}
        <5>1. p \in snaps' /\ p \notin touched
          BY <4>1
        <5>2. snaps' = snaps /\ p \in snaps
          BY <3>2, <3>4, <3>5, <4>4, <5>1
        <5>3. tag[p] = OwnTag(r) /\ p \notin Given /\ p[2] = r
          BY <1>0, <4>1, <5>1, Apart DEF TagInv, FirstTag
        <5>4. NamesLeak(j, Current(j))
          BY <1>0, <2>2, <4>4, <5>3 DEF NamesLeak, Spells
        <5>5. Current(j).name = p /\ Current(j).value = r /\ tag[p] = [value |-> r, source |-> "local"]
          BY <4>4, <5>3 DEF OwnTag
        <5> QED
          BY <3>2, <3>4, <3>5, <4>3, <5>1, <5>2, <5>4, <5>5
      <4> QED
        BY <3>2, <3>4, <3>5, <4>3, <4>4
    <3> QED
      BY <1>a, <2>1, <2>2, <3>1, <3>2, <3>3, <3>4, <3>5 DEF Sweeping
  <2>11. CASE Swept(j)
    <3>1. /\ at' = "create" /\ j.step = "sweep" /\ j.found = {} /\ snaps' = snaps /\ gaveUp' = gaveUp
          /\ touched' = touched
          /\ \A k \in jobs' : k.step = "check"
      BY <2>1, <2>2, <2>11, StepOf DEF Swept, To, Goes, flow, zfs, Job
    <3>2. (\A r \in 1..run - 1 : Listed(j, r)) => Clean'
      BY <1>0, <2>1, <3>1 DEF Listed, Leaks, Clean
    <3> QED
      BY <1>a, <2>1, <2>2, <3>1, <3>2 DEF Sweeping
  <2>6. CASE Check(j)
    <3>1. j.step = "check" /\ at = "create" /\ snaps' = snaps /\ touched' = touched
      BY <2>2, <2>6, StepOf DEF Check, zfs
    <3>2. Clean => Clean'
      BY <2>1, <3>1 DEF Clean
    <3>3. \/ at' = "create" /\ gaveUp' = gaveUp /\ \A k \in jobs' : k.step \in {"check", "take"}
          \/ jobs' = {} /\ at' \in {at, "release"}
      <4>1. \A b : Fails(j, b) => jobs' = {} /\ at' \in {at, "release"}
        BY <2>2, <3>1, Tables DEF Fails, GiveUp, flow
      <4>2. ASSUME NEW p, Did(j, p) PROVE at' = "create" /\ gaveUp' = gaveUp /\ \A k \in jobs' : k.step = "check"
        BY <2>2, <3>1, <4>2 DEF Did, Goes, flow, Job
      <4>3. ASSUME NEW p, Goes(j, [j EXCEPT !.todo = @ \ {p}, !.absent = @ \cup {p}])
            PROVE  at' = "create" /\ gaveUp' = gaveUp /\ \A k \in jobs' : k.step = "check"
        BY <2>2, <3>1, <4>3 DEF Goes, flow, Job
      <4>4. To(j, "take") => at' = "create" /\ gaveUp' = gaveUp /\ \A k \in jobs' : k.step = "take"
        BY <2>2, <3>1 DEF To, Goes, flow, Job
      <4> QED
        BY <2>6, <4>1, <4>2, <4>3, <4>4 DEF Check
    <3> QED
      BY <1>a, <2>1, <2>2, <3>1, <3>2, <3>3 DEF Sweeping
  <2>7. CASE Take(j)
    <3>1. j.step = "take" /\ at = "create" /\ After[at] = "hold"
      BY <2>2, <2>7, StepOf, Tables DEF Take
    <3>2. Clean => Clean'
      <4>1. touched' = touched /\ (snaps' = snaps \/ \E p \in Own(run) : snaps' = snaps \cup {p})
        BY <2>2, <2>7, FirstIn DEF Take
      <4> QED
        BY <1>0, <2>1, <4>1, Apart DEF Clean
    <3>3. \/ at' = "create" /\ gaveUp' = gaveUp /\ \A k \in jobs' : k.step = "take"
          \/ jobs' = {} /\ EndsFlow(j)
      <4>1. ASSUME NEW p, Goes(j, [j EXCEPT !.absent = @ \ {p}])
            PROVE  at' = "create" /\ gaveUp' = gaveUp /\ \A k \in jobs' : k.step = "take"
        BY <2>2, <3>1, <4>1 DEF Goes, flow, Job
      <4> QED
        BY <2>2, <2>7, <4>1, EndShapes DEF Take
    <3> QED
      BY <1>a, <2>1, <2>2, <2>3, <3>1, <3>2, <3>3 DEF Early, Sweeping
  <2>8. CASE Hold(j)
    <3>1. j.step = "hold" /\ at = "hold" /\ After[at] = "prepare" /\ snaps' = snaps /\ touched' = touched
      BY <2>2, <2>8, StepOf, Tables DEF Hold
    <3>2. \A p \in Path : Held(p) => Held(p)'
      <4>1. holds' = holds \/ \E p : holds' = [holds EXCEPT ![p] = @ \cup {j.run}]
        BY <2>8 DEF Hold
      <4> QED
        BY <2>1, <3>1, <4>1 DEF Held, TypeOK
    <3>3. \/ /\ at' = "hold" /\ gaveUp' = gaveUp /\ j.todo # {} /\ Held(First(j.todo))'
             /\ \A k \in jobs' : k.step = "hold" /\ k.todo = j.todo \ {First(j.todo)}
          \/ jobs' = {} /\ at' = "prepare" /\ gaveUp' = gaveUp /\ j.todo = {}
          \/ jobs' = {} /\ EndsFlow(j) /\ at' # "prepare"
      <4>1. CASE j.todo # {} /\ First(j.todo) \in snaps /\ Did(j, First(j.todo)) /\ holds' = [holds EXCEPT ![First(j.todo)] = @ \cup {j.run}]
        BY <2>1, <2>2, <3>1, <4>1, FirstIn DEF Did, Goes, flow, Held, Job, TypeOK
      <4>2. CASE \E b : Fails(j, b)
        BY <2>2, <3>1, <4>2, EndShapes, Tables DEF Fails, GiveUp, flow
      <4>3. CASE j.todo = {} /\ Succeeds(j)
        BY <2>2, <3>1, <4>3 DEF Succeeds
      <4> QED
        BY <2>8, <4>1, <4>2, <4>3 DEF Hold
    <3>4. Clean => Clean'
      BY <2>1, <3>1 DEF Clean
    <3>5. sources[run] \subseteq Path
      BY <2>1 DEF TypeOK
    <3> QED
      BY <1>a, <2>1, <2>2, <2>3, <3>1, <3>2, <3>3, <3>4, <3>5 DEF Early, Sweeping
  <2>9. CASE Stage(j)
    <3>1. j.step = "stage" /\ at = "prepare" /\ After[at] = "rest" /\ snaps' = snaps /\ holds' = holds /\ touched' = touched
      BY <2>2, <2>9, StepOf, Tables DEF Stage, zfs
    <3>2. \/ at' = at /\ gaveUp' = gaveUp /\ jobs' = {j}
          \/ jobs' = {} /\ EndsFlow(j)
      BY <2>2, <2>9, EndShapes DEF Stage, Goes, flow
    <3> QED
      BY <1>a, <2>1, <2>3, <3>1, <3>2 DEF Held, Clean, Early, Sweeping
  <2>10. CASE Release(j) \/ Destroy(j) \/ Drop(j) \/ Reclaim(j)
    <3>1. at \in {"release", "destroy", "cleanup"} /\ ActivityOf(j.step) \in {"release", "destroy", "cleanup"}
      BY <2>2, <2>10, StepOf DEF Release, Destroy, Drop, Reclaim
    <3>2. at' \notin Early \cup {"rest"}
      BY <2>1, <2>3, <3>1, Tables DEF Shape, Moves, Early
    <3>3. \A k \in jobs' : ActivityOf(k.step) \in {"release", "destroy", "cleanup"}
      BY <2>1, <2>2, <3>1 DEF Shape, Moves, GoesOn
    <3> QED
      BY <3>2, <3>3, StepOf DEF Early
  <2> QED
    BY <1>8, <2>4, <2>5, <2>11, <2>6, <2>7, <2>8, <2>9, <2>10 DEF JobStep
<1>9. CASE UNCHANGED vars
  BY <1>9, <1>a DEF vars, flow, zfs, logs, Held, Clean, Listed, Leaks
<1> QED
  BY <1>1, <1>2, <1>3, <1>4, <1>5, <1>6, <1>7, <1>8, <1>9 DEF Next, Progress, Ended

-----------------------------------------------------------------------------
(* Nothing left behind, and the alert *)

\* What an attempt adds is its own run's, and only one of an early activity adds.
LEMMA JobAdds ==
    ASSUME TypeOK, FlowInv, JobInv, OwnInv, NEW j \in jobs, JobStep(j)
    PROVE  /\ \A p \in Path : \A r \in holds'[p] : r \in holds[p] \/ (r = j.run /\ j.step = "hold")
           /\ \A p \in snaps' : p \in snaps \/ (p \in Own(j.run) /\ j.step = "take")
           /\ \A r \in staging' : r \in staging \/ (r = j.run /\ j.step = "stage")
           /\ \A r \in Runs : gaveUp[r] \subseteq gaveUp'[r]
           /\ touched' = touched
<1>0. j.run \in Runs /\ j \in Job /\ JobOK(j)
  BY DEF TypeOK, Job, JobInv
<1>a. (Hold(j) => j.step = "hold") /\ (Take(j) => j.step = "take") /\ (Stage(j) => j.step = "stage")
  BY DEF Hold, Take, Stage
<1>1. \A p \in Path : \A r \in holds'[p] : r \in holds[p] \/ (r = j.run /\ j.step = "hold")
  BY <1>a, JobEffects DEF TypeOK
<1>2. \A p \in snaps' : p \in snaps \/ (p \in Own(j.run) /\ j.step = "take")
  <2>1. j.absent \subseteq Own(j.run)
    BY <1>0, Apart DEF JobOK, OwnInv
  <2> QED
    BY <1>a, <2>1, JobEffects, FirstIn
<1>3. \A r \in staging' : r \in staging \/ (r = j.run /\ j.step = "stage")
  BY <1>a, JobEffects
<1>4. \A r \in Runs : gaveUp[r] \subseteq gaveUp'[r]
  BY Shapes DEF Shape, Moves, EndsFlow, GiveUp, TypeOK
<1> QED
  BY <1>1, <1>2, <1>3, <1>4, JobEffects

\* A step that adds nothing, and moves no workflow, to what runs have given back.
LEMMA StillGiven ==
    ASSUME TypeOK, Giving, run' = run, cancelled' = cancelled, at' = at,
           NEW s, \A r \in Runs : r = s =>
                    \/ r \in cancelled
                    \/ ~(r < run \/ (r = run /\ at \in {"destroy", "alert", "cleanup", "idle"})),
           \A p \in Path : \A r \in holds'[p] : r \in holds[p] \/ r = s,
           \A r \in Runs : r # s => Own(r) \cap snaps' \subseteq snaps,
           \A r \in staging' : r \in staging \/ r = s,
           \A r \in Runs : gaveUp[r] \subseteq gaveUp'[r], touched' = touched
    PROVE  Giving'
BY DEF Giving, Past

LEMMA GivenPreserved ==
    ASSUME TypeOK, FlowInv, JobInv, OwnInv, TagInv, GivenBack, [Next]_vars
    PROVE  GivenBack'
<1>0. /\ run \in Nat /\ (at # "idle" => run \in Runs) /\ \A r \in Runs : r \in Nat
      /\ Giving /\ \A k \in jobs : Remains(k)
  BY LifecycleAssumption DEF TypeOK, FlowInv, Runs, GivenBack
<1>1. CASE Submit
  <2>1. run + 1 \in Runs /\ run' = run + 1 /\ at = "idle" /\ UNCHANGED <<jobs, snaps, holds, touched, staging, gaveUp, cancelled>>
    BY <1>0, <1>1, LifecycleAssumption DEF Submit, Runs, zfs, logs
  <2>2. \A r \in Runs : r < run + 1 => r < run \/ r = run
    BY <1>0
  <2>3. (\A p \in Path : run + 1 \notin holds[p]) /\ Own(run + 1) \cap snaps = {} /\ run + 1 \notin staging
    BY <1>0, <2>1 DEF OwnInv, TypeOK
  <2>4. Giving'
    BY <1>0, <2>1, <2>2, <2>3 DEF Giving, Past
  <2> QED
    BY <1>0, <2>1, <2>4 DEF GivenBack, Remains
<1>2. CASE Skip
  <2>1. /\ at \in {"create", "destroy"} /\ at' = After[at] /\ NoLive /\ run \in Runs
        /\ UNCHANGED <<run, cancelled, jobs, snaps, holds, touched, staging, gaveUp>>
    BY <1>0, <1>2 DEF Skip, Input, NoLive, zfs, logs
  <2>2. Own(run) \cap snaps = {}
    BY <2>1, Apart DEF OwnInv, NoLive
  <2>3. Giving'
    BY <1>0, <2>1, <2>2, Tables DEF Giving, Past
  <2> QED
    BY <1>0, <2>1, <2>3 DEF GivenBack, Remains
<1>3. CASE Rest \/ NotifyFailure \/ Cancel
  <2>1. Giving'
    BY <1>0, <1>3 DEF Rest, NotifyFailure, Cancel, Giving, Past, zfs, logs
  <2> QED
    BY <1>0, <1>3, <2>1 DEF Rest, NotifyFailure, Cancel, GivenBack, Remains, zfs, logs
<1>4. CASE Start
  <2>1. run \in Runs /\ at \in Names
    BY <1>0, <1>4, Tables DEF Start, Names
  <2>2. PICK n : n = [run |-> run, step |-> FirstStep[at], todo |-> Input(at), failed |-> FALSE,
                       found |-> {}, tags |-> {}, absent |-> {}]
    OBVIOUS
  <2>3. jobs' = jobs \cup {n} /\ n.run = run /\ n.step = FirstStep[at] /\ n.todo = Input(at)
    BY <1>4, <2>2 DEF Start
  <2>4. UNCHANGED <<run, at, cancelled, sources, snaps, holds, touched, staging, gaveUp>>
    BY <1>4 DEF Start, flow, zfs, logs
  <2>5. n.step = "release" => n.todo = sources[run]
    BY <2>1, <2>3, Steps DEF Names, Input
  <2>6. n.step = "destroy" => n.todo = sources[run] \cap RunScoped
    BY <2>1, <2>3, Steps DEF Names, Input
  <2>9. n.step # "drop"
    BY <2>1, <2>3, Steps DEF Names
  <2>7. Remains(n)
    BY <2>9, <2>1, <2>3, <2>5, <2>6, Apart DEF Remains, OwnInv
  <2>8. Giving'
    BY <1>0, <2>4 DEF Giving, Past
  <2> QED
    BY <1>0, <2>3, <2>4, <2>7, <2>8 DEF GivenBack, Remains
<1>5. CASE WindowPasses
  <2>1. /\ run \in Runs /\ UNCHANGED <<run, cancelled, snaps, holds, touched, staging>> /\ jobs' \subseteq jobs
        /\ \/ at = "release" /\ at' = "destroy" /\ gaveUp' = [gaveUp EXCEPT ![run] = @ \cup {"hold"}]
           \/ at = "destroy" /\ at' = "alert" /\ gaveUp' = [gaveUp EXCEPT ![run] = @ \cup {"snapshot"}]
    BY <1>0, <1>5, Tables DEF WindowPasses, GiveUp, zfs
  <2>2. Giving'
    BY <1>0, <2>1 DEF Giving, Past, TypeOK
  <2> QED
    BY <1>0, <2>1, <2>2 DEF GivenBack, Remains
<1>6. ASSUME NEW q \in snaps, Prune(q) \/ Retag(q) PROVE GivenBack'
  <2>1. /\ snaps' \subseteq snaps /\ touched \subseteq touched'
        /\ UNCHANGED <<run, at, cancelled, jobs, holds, staging, gaveUp>>
    BY <1>6 DEF Prune, Retag, flow, logs
  <2>2. Giving'
    BY <1>0, <2>1 DEF Giving, Past
  <2>3. \A k \in jobs : Remains(k)'
    BY <1>0, <2>1 DEF Remains
  <2> QED
    BY <2>1, <2>2, <2>3 DEF GivenBack
<1>7. ASSUME NEW j \in jobs, JobStep(j) PROVE GivenBack'
  <2>1. /\ Shape(j) /\ run' = run /\ cancelled' = cancelled /\ sources' = sources
        /\ j.run \in Runs /\ j \in Job /\ JobOK(j) /\ j.step \in Kinds
    BY <1>7, Shapes DEF Shape, Moves, EndsFlow, TypeOK, Job, JobInv, Kinds
  <2>2. /\ \A p \in Path : \A r \in holds'[p] : r \in holds[p] \/ (r = j.run /\ j.step = "hold")
        /\ \A p \in snaps' : p \in snaps \/ (p \in Own(j.run) /\ j.step = "take")
        /\ \A r \in staging' : r \in staging \/ (r = j.run /\ j.step = "stage")
        /\ \A r \in Runs : gaveUp[r] \subseteq gaveUp'[r]
        /\ touched' = touched
    BY <1>7, JobAdds
  <2>3. \A k \in jobs : k # j => Remains(k)'
    <3> SUFFICES ASSUME NEW k \in jobs, k # j, k.step \in {"release", "destroy", "drop"}, k.run \notin cancelled
                 PROVE  Remains(k)'
      BY <2>1 DEF Remains
    <3>1. Awaited(k) /\ k.run \in Runs
      BY StepOf DEF JobInv, JobOK, Early, TypeOK, Job
    <3>2. ~Awaited(j)
      BY <3>1 DEF JobInv
    <3>3. j.run # k.run
      BY <2>1, <3>2 DEF JobOK
    <3> QED
      BY <1>0, <2>1, <2>2, <3>1, <3>3, Apart DEF Remains
  <2>4. CASE j.step \in Sweeping \cup {"list", "check", "take", "hold", "stage"}
    <3>1. ActivityOf(j.step) \in Early
      BY <2>4, StepOf DEF Early
    <3>2. j.run \in cancelled \/ (j.run = run /\ at \in Early)
      BY <2>1, <3>1 DEF JobOK, Awaited
    <3>3. at' = at \/ (j.run = run /\ at \in Early /\ at' \in Early \cup {"rest", "release"})
      BY <2>1, <3>1, Tables DEF Shape, Moves, EndsFlow, GiveUp, Awaited, Early
    <3>4. \A r \in Runs : r # j.run => Own(r) \cap snaps' \subseteq snaps
      BY <2>1, <2>2, Apart
    <3>5. Giving'
      <4>1. CASE at' = at
        BY <1>0, <2>1, <2>2, <3>2, <3>4, <4>1, StillGiven DEF Early
      <4>2. CASE j.run = run /\ at \in Early /\ at' \in Early \cup {"rest", "release"}
        BY <1>0, <2>1, <2>2, <3>4, <4>2 DEF Giving, Past, Early
      <4> QED
        BY <3>3, <4>1, <4>2
    <3>6. \A k \in jobs' : (k \in jobs /\ k # j) \/ k.step \notin {"release", "destroy", "drop"}
      BY <2>1, <2>4, <3>1, StepOf DEF Shape, Moves, GoesOn, Early
    <3> QED
      BY <2>3, <3>5, <3>6 DEF GivenBack, Remains
  <2>5. CASE j.step \in {"release", "destroy", "drop", "reclaim"}
    <3>1. Awaited(j) /\ j.run = run /\ at = ActivityOf(j.step) /\ run \in Runs
      BY <2>1, <2>5, StepOf DEF JobOK, Awaited, Early
    <3>2. /\ \A p \in Path : \A r \in holds'[p] : r \in holds[p]
          /\ snaps' \subseteq snaps /\ staging' \subseteq staging
      BY <2>2, <2>5
    <3>3. at' = at => Giving'
      BY <1>0, <2>1, <2>2, <3>2 DEF Giving, Past
    <3>4. j.step \in {"release", "destroy"} => \A p : Failed(j, p) => at' = at /\ \A k \in jobs' : Remains(k)'
      <4> SUFFICES ASSUME j.step \in {"release", "destroy"}, NEW p, Failed(j, p) PROVE at' = at /\ \A k \in jobs' : Remains(k)'
        OBVIOUS
      <4>1. PICK n : Moves(j, n) /\ n.failed
        BY <2>1, FailedShape
      <4> QED
        BY <2>3, <4>1 DEF Moves, Remains
    <3>5. \A b : Succeeds(j) \/ Fails(j, b) => \A k \in jobs' : Remains(k)'
      BY <2>3 DEF Succeeds, Fails
    <3>6. CASE Release(j)
      <4>1. at = "release" /\ j.step = "release"
        BY <3>1, <3>6, StepOf DEF Release
      <4>2. \A b : Fails(j, b) => at' = at \/ (at' = "destroy" /\ "hold" \in gaveUp'[run])
        BY <3>1, <4>1, Tables DEF Fails, GiveUp, TypeOK, flow
      <4>3. at' = "destroy" /\ "hold" \in gaveUp'[run] => Giving'
        BY <1>0, <2>1, <2>2, <3>2, <4>1 DEF Giving, Past
      <4>4. CASE j.todo # {} /\ holds' = [holds EXCEPT ![First(j.todo)] = @ \ {j.run}] /\ Did(j, First(j.todo))
        <5>1. PICK n : Moves(j, n) /\ n.step = j.step /\ n.todo = j.todo \ {First(j.todo)} /\ n.failed = j.failed
          <6>1. PICK q : q = First(j.todo)
            OBVIOUS
          <6>2. Did(j, q)
            BY <4>4, <6>1
          <6>3. \E n : Moves(j, n) /\ n.step = j.step /\ n.todo = j.todo \ {q} /\ n.failed = j.failed
            BY <2>1, <4>1, <6>2, DidShape
          <6> QED
            BY <6>1, <6>3
        <5>2. Remains(n)'
          BY <1>0, <2>1, <4>1, <4>4, <5>1 DEF Moves, Remains, TypeOK
        <5> QED
          BY <2>3, <3>3, <5>1, <5>2 DEF Moves, GivenBack
      <4>5. CASE j.todo = {} /\ ~j.failed /\ Succeeds(j)
        <5>1. run \notin cancelled => \A p \in Path : run \notin holds[p]
          BY <1>0, <3>1, <4>1, <4>5 DEF Remains
        <5>2. at' = "destroy"
          BY <3>1, <4>1, <4>5, Tables DEF Succeeds
        <5>3. Giving'
          BY <1>0, <2>1, <2>2, <3>2, <4>1, <5>1, <5>2 DEF Giving, Past
        <5> QED
          BY <3>5, <4>5, <5>3 DEF GivenBack
      <4> QED
        BY <3>3, <3>4, <3>5, <3>6, <4>2, <4>3, <4>4, <4>5 DEF Release, GivenBack
    <3>7. CASE Destroy(j)
      <4>1. at = "destroy" /\ j.step = "destroy"
        BY <3>1, <3>7, StepOf DEF Destroy
      <4>2. \A b : Fails(j, b) => at' = at \/ (at' = "alert" /\ "snapshot" \in gaveUp'[run])
        BY <3>1, <4>1, Tables DEF Fails, GiveUp, TypeOK, flow
      <4>3. at' = "alert" /\ "snapshot" \in gaveUp'[run] => Giving'
        BY <1>0, <2>1, <2>2, <3>2, <4>1 DEF Giving, Past
      <4>0. snaps' = snaps /\ j.todo \subseteq Own(j.run)
        BY <2>1, <3>7, <4>1, StepOf, Apart DEF Destroy, zfs, JobOK, OwnInv
      <4>4. CASE j.todo # {} /\ To(j, "drop")
        <5>1. PICK n : Moves(j, n) /\ n.step = "drop" /\ n.todo = j.todo /\ n.failed = j.failed
          BY <2>1, <4>1, <4>4, StepOf, ToShapes DEF Kinds
        <5>2. Remains(n)'
          BY <1>0, <2>1, <2>2, <4>0, <4>1, <5>1 DEF Moves, Remains
        <5> QED
          BY <2>3, <3>3, <5>1, <5>2 DEF Moves, GivenBack
      <4>6. CASE /\ j.todo # {} /\ Did(j, First(j.todo))
                 /\ ~(First(j.todo) \in snaps /\ tag[First(j.todo)].value = j.run)
        <5>0. PICK q \in j.todo : q = First(j.todo)
          BY <4>6, FirstIn
        <5>1. PICK n : Moves(j, n) /\ n.step = j.step /\ n.todo = j.todo \ {q} /\ n.failed = j.failed
          BY <2>1, <4>1, <4>6, <5>0, DidShape
        <5>2. q \notin snaps \/ q \in touched
          BY <2>1, <4>0, <4>6, <5>0, OwnTagged
        <5>3. Remains(n)'
          BY <1>0, <2>1, <2>2, <4>0, <4>1, <5>1, <5>2 DEF Moves, Remains
        <5> QED
          BY <2>3, <3>3, <5>1, <5>3 DEF Moves, GivenBack
      <4>5. CASE j.todo = {} /\ ~j.failed /\ Succeeds(j)
        <5>1. run \notin cancelled => Own(run) \cap snaps \subseteq touched
          BY <1>0, <3>1, <4>1, <4>5 DEF Remains
        <5>2. at' = "alert"
          BY <3>1, <4>1, <4>5, Tables DEF Succeeds
        <5>3. Giving'
          BY <1>0, <2>1, <2>2, <3>2, <4>1, <5>1, <5>2 DEF Giving, Past
        <5> QED
          BY <3>5, <4>5, <5>3 DEF GivenBack
      <4> QED
        BY <3>3, <3>4, <3>5, <3>7, <4>2, <4>3, <4>4, <4>5, <4>6 DEF Destroy, GivenBack
    <3>9. CASE Drop(j)
      <4>0. j \in Job
        BY <2>1
      <4>2. PICK n : /\ Moves(j, n) /\ n.step = "destroy" /\ n.todo = j.todo \ {First(j.todo)}
                     /\ ~n.failed => ~j.failed /\ snaps' = snaps \ {First(j.todo)}
        BY <4>0, <3>9, DropShapes
      <4>1. at' = at /\ j.step = "drop"
        BY <4>2, <3>9 DEF Drop, Moves
      <4>3. Remains(n)'
        BY <1>0, <2>1, <2>2, <4>1, <4>2 DEF Moves, Remains
      <4> QED
        BY <2>3, <3>3, <4>1, <4>2, <4>3 DEF Moves, GivenBack
    <3>8. CASE Reclaim(j)
      <4>1. at = "cleanup" /\ j.step = "reclaim"
        BY <3>1, <3>8, StepOf DEF Reclaim
      <4>2. \A b : Fails(j, b) => at' = at \/ (at' = "idle" /\ "staging" \in gaveUp'[run])
        BY <3>1, <4>1, Tables DEF Fails, GiveUp, TypeOK, flow
      <4>3. at' = "idle" /\ ("staging" \in gaveUp'[run] \/ run \notin staging') => Giving'
        BY <1>0, <2>1, <2>2, <3>2, <4>1 DEF Giving, Past
      <4>4. staging' = staging \ {j.run} /\ Succeeds(j) => at' = "idle" /\ run \notin staging'
        BY <3>1, <4>1, Tables DEF Succeeds
      <4> QED
        BY <3>3, <3>5, <3>8, <4>2, <4>3, <4>4 DEF Reclaim, GivenBack
    <3> QED
      BY <1>7, <2>5, <3>6, <3>7, <3>8, <3>9 DEF JobStep, List, Sweep, SweepValue, SweepSource, SweepHolds, SweepRelease, SweepDestroy, Swept, Check, Take, Hold, Stage, Sweeping
  <2> QED
    BY <2>1, <2>4, <2>5 DEF Kinds
<1>8. CASE UNCHANGED vars
  BY <1>8 DEF vars, flow, zfs, logs, GivenBack, Giving, Past, Remains
<1> QED
  BY <1>1, <1>2, <1>3, <1>4, <1>5, <1>6, <1>7, <1>8 DEF Next, Progress, Ended

\* The alert of a failed run is sent after what it may name was given up.
LEMMA AlertPreserved ==
    ASSUME TypeOK, FlowInv, JobInv, OwnInv, AlertInv, [Next]_vars
    PROVE  AlertInv'
<1>0. run \in Nat /\ (at # "idle" => run \in Runs) /\ \A r \in Runs : r \in Nat
  BY LifecycleAssumption DEF TypeOK, FlowInv, Runs
<1>1. CASE Submit
  <2>1. run + 1 \in Runs /\ run' = run + 1 /\ UNCHANGED <<gaveUp, alert>> /\ gaveUp[run + 1] = {} /\ alert[run + 1] = {}
    BY <1>0, <1>1, LifecycleAssumption DEF Submit, Runs, logs, OwnInv
  <2> QED
    BY <2>1 DEF AlertInv, AlertNamesLeaks
<1>2. CASE Skip \/ Rest \/ Cancel
  BY <1>2, Tables DEF Skip, Rest, Cancel, AlertInv, AlertNamesLeaks, logs, Early
<1>3. CASE NotifyFailure
  BY <1>0, <1>3 DEF NotifyFailure, AlertInv, AlertNamesLeaks, TypeOK, Early
<1>4. ASSUME run \in Runs, at \in Names, GiveUp, alert' = alert PROVE AlertInv'
  <2>1. CASE at \notin DOMAIN Leftover
    BY <1>4, <2>1, Tables DEF GiveUp, AlertInv, AlertNamesLeaks, Names, Early
  <2>2. CASE at \in {"release", "destroy"}
    <3>1. /\ at' \in {"destroy", "alert"} /\ alert[run] = {} /\ run' = run
          /\ gaveUp' = [gaveUp EXCEPT ![run] = @ \cup {Leftover[at]}]
          /\ err' = IF err # {} THEN err \cup {Leftover[at]} ELSE err
      BY <1>4, <2>2, Tables DEF GiveUp, AlertInv
    <3>2. \A r \in Runs : gaveUp'[r] = IF r = run THEN gaveUp[r] \cup {Leftover[at]} ELSE gaveUp[r]
      BY <3>1 DEF TypeOK
    <3> QED
      BY <1>4, <2>2, <3>1, <3>2 DEF AlertInv, AlertNamesLeaks, Early
  <2>3. CASE at = "cleanup"
    <3>1. at' = "idle" /\ gaveUp' = [gaveUp EXCEPT ![run] = @ \cup {"staging"}] /\ run' = run
      BY <1>4, <2>3, Tables DEF GiveUp
    <3>2. \A r \in Runs : gaveUp'[r] \cap {"hold", "snapshot"} = gaveUp[r] \cap {"hold", "snapshot"}
      BY <3>1 DEF TypeOK
    <3> QED
      BY <1>4, <3>1, <3>2 DEF AlertInv, AlertNamesLeaks, Early
  <2> QED
    BY <2>1, <2>2, <2>3, Tables
<1>5. CASE WindowPasses
  BY <1>0, <1>4, <1>5 DEF WindowPasses, Names
<1>6. ASSUME NEW j \in jobs, JobStep(j) PROVE AlertInv'
  <2>1. Shape(j) /\ run' = run /\ sources' = sources /\ alert' = alert /\ j.run \in Runs
    BY <1>6, Shapes DEF Shape, Moves, EndsFlow, TypeOK, Job
  <2>2. Awaited(j) => run \in Runs /\ at \in Names
    BY <2>1, Steps DEF TypeOK, Job, Kinds, Awaited
  <2>3. CASE \E n : Moves(j, n)
    <3>1. \A r \in Runs : gaveUp'[r] \cap {"hold", "snapshot"} = gaveUp[r] \cap {"hold", "snapshot"}
      BY <2>1, <2>3 DEF Moves, TypeOK
    <3> QED
      BY <1>0, <2>1, <2>3, <3>1 DEF Moves, AlertInv, AlertNamesLeaks, Early
  <2>4. CASE EndsFlow(j)
    <3>1. CASE Awaited(j) /\ at' = After[at] /\ err' = err /\ gaveUp' = gaveUp
      BY <2>1, <2>2, <3>1, Tables DEF AlertInv, AlertNamesLeaks, Early, Names
    <3>2. CASE at' = at /\ err' = err /\ gaveUp' = gaveUp
      BY <2>1, <3>2 DEF AlertInv, AlertNamesLeaks
    <3> QED
      BY <1>4, <2>1, <2>2, <2>4, <3>1, <3>2 DEF EndsFlow
  <2> QED
    BY <2>1, <2>3, <2>4 DEF Shape
<1>7. CASE Start \/ (\E p \in snaps : Prune(p) \/ Retag(p)) \/ UNCHANGED vars
  BY <1>7 DEF Start, Prune, Retag, vars, flow, logs, AlertInv, AlertNamesLeaks
<1> QED
  BY <1>1, <1>2, <1>3, <1>5, <1>6, <1>7 DEF Next, Progress, Ended

-----------------------------------------------------------------------------
(* The theorems *)

LEMMA LifecycleInitially == Init => LifecycleInv
<1> SUFFICES ASSUME Init PROVE LifecycleInv
  OBVIOUS
<1>1. TypeOK
  <2>1. tag \in [Path -> Tag]
    <3>1. \A p \in Given : GivenTag[p] \in Tag
      BY LifecycleAssumption DEF LifecycleAssumption
    <3>2. \A p \in RunScoped : OwnTag(p[2]) \in Tag
      BY LifecycleAssumption DEF RunScoped, Runs, OwnTag, Tag, Values
    <3> QED
      BY <3>1, <3>2 DEF Init, Path
  <2> QED
    BY <2>1, LifecycleAssumption, LimitPositive, Tables DEF Init, TypeOK, Path
<1>2. OwnInv
  BY Apart DEF Init, OwnInv, Path
<1>3. FlowInv /\ JobInv /\ PinInv
  BY DEF Init, FlowInv, JobInv, PinInv, Early
<1>4. GivenBack
  BY <1>2, Apart DEF Init, GivenBack, Giving, Remains, Past, OwnInv
<1>6. TagInv
  BY TagsFirst
<1>5. AlertInv
  BY DEF Init, AlertInv, AlertNamesLeaks, Early
<1> QED
  BY <1>1, <1>2, <1>3, <1>4, <1>5, <1>6 DEF LifecycleInv

LEMMA LifecyclePreserved == LifecycleInv /\ [Next]_vars => LifecycleInv'
BY TypePreserved, FlowPreserved, JobPreserved, OwnPreserved, TagPreserved, PinPreserved, GivenPreserved, AlertPreserved
   DEF LifecycleInv

LEMMA LifecycleImplies == LifecycleInv => LifecycleSound
<1> SUFFICES ASSUME LifecycleInv PROVE LifecycleSound
  OBVIOUS
<1>1. TypeOK /\ AlertNamesLeaks
  BY DEF LifecycleInv, AlertInv
<1>2. at # "idle" => run \in Runs /\ (cancelled \subseteq {run} /\ at \in {"hold", "prepare", "rest"} => cancelled = {})
  BY DEF LifecycleInv, FlowInv, Early
<1>3. PinnedWhileRead
  BY <1>2 DEF LifecycleInv, PinInv, PinnedWhileRead, SourcesExist
<1>4. LeaksSwept
  BY <1>2 DEF LifecycleInv, PinInv, LeaksSwept, Clean
<1>5. NothingLeftBehind
  BY DEF LifecycleInv, GivenBack, Giving, Past, NothingLeftBehind, Closed
<1> QED
  BY <1>1, <1>3, <1>4, <1>5 DEF LifecycleSound

(***************************************************************************)
(* The sources of a run are there while it reads them, whatever external   *)
(* pruning does, unless an earlier run was cancelled; a run that closed    *)
(* has left nothing behind that it did not log, but what has no longer its *)
(* id; the alert of a failed run names its leaks; and the next run sweeps  *)
(* them (hold.go, runsnapshot.go, cleanup.go, failure.go).                 *)
(***************************************************************************)
THEOREM LifecycleIsSound == Spec => []LifecycleSound
BY LifecycleInitially, LifecyclePreserved, LifecycleImplies, PTL DEF Spec

(***************************************************************************)
(* The sweep destroys no given snapshot whose property nobody sets while   *)
(* the runs go on: of the name, the value and the source of the property,  *)
(* which are checked one after another, one is not a run's, and the record *)
(* of a listing, which anybody's value may have made up, decides nothing.  *)
(* The destroy of a run takes only what the run was given of its own.      *)
(***************************************************************************)
THEOREM GivenSnapshotsAreSafe == Spec => OnlyOwnDestroyed
<1>1. ASSUME LifecycleInv, [Next]_vars, ~((Given \ touched) \cap snaps \subseteq snaps')
      PROVE  UNCHANGED <<flow, jobs>>
  <2>1. snaps' # snaps
    BY <1>1
  <2>2. CASE \E p \in snaps : Prune(p) \/ Retag(p)
    BY <2>1, <2>2 DEF Prune, Retag
  <2>3. ASSUME NEW j \in jobs, JobStep(j) PROVE FALSE
    <3>0. j \in Job /\ JobOK(j) /\ Vetted(j)
      BY <1>1 DEF LifecycleInv, JobInv, TagInv, TypeOK
    <3>1. SweepDestroy(j) \/ Take(j) \/ Drop(j)
      BY <2>1, <2>3
         DEF JobStep, List, Sweep, SweepValue, SweepSource, SweepHolds, SweepRelease, Swept, Check, Hold, Stage,
             Release, Destroy, Reclaim, zfs
    <3>2. CASE Take(j)
      BY <1>1, <3>2 DEF Take
    <3>3. CASE SweepDestroy(j)
      <4>1. j.step = "untag" /\ (snaps' = snaps \ {Current(j).name} \/ snaps' = snaps)
        BY <3>3 DEF SweepDestroy
      <4>2. Current(j).name \notin Given \ touched
        BY <3>0, <4>1 DEF Vetted
      <4> QED
        BY <1>1, <4>1, <4>2
    <3>4. CASE Drop(j)
      <4>1. j.todo \subseteq RunScoped /\ j.todo # {} /\ (snaps' = snaps \ {First(j.todo)} \/ snaps' = snaps)
        BY <3>0, <3>4, StepOf DEF Drop, JobOK
      <4>2. First(j.todo) \in RunScoped
        BY <4>1, FirstIn
      <4> QED
        BY <1>1, <4>1, <4>2, Apart
    <3> QED
      BY <3>1, <3>2, <3>3, <3>4
  <2> QED
    BY <1>1, <2>1, <2>2, <2>3
       DEF Next, Progress, Ended, Submit, Skip, Start, Rest, NotifyFailure, WindowPasses, Cancel, vars, zfs
<1> QED
  BY <1>1, LifecycleInitially, LifecyclePreserved, PTL DEF Spec, OnlyOwnDestroyed
=============================================================================

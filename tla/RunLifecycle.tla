---------------------------- MODULE RunLifecycle ----------------------------
(***************************************************************************)
(* What a Backup run owns outside itself and how it gives it back: its     *)
(* run-scoped ZFS snapshots, its holds and its staged data.  Runs follow   *)
(* one another under one workflow id.  Every exit path goes through the    *)
(* deferred release, destroy, alert and cleanup.                           *)
(*                                                                         *)
(* The activities run on the data worker, one zfs command per step, while  *)
(* external pruning destroys whatever is not held, and an administrator    *)
(* may set or inherit the run-id property of any snapshot.  A cancelled    *)
(* workflow stops waiting at once (no activity sets WaitForCancellation),  *)
(* but the attempt it waited for runs on.                                  *)
(***************************************************************************)
EXTENDS Naturals, FiniteSets

CONSTANTS
    MaxRuns,     \* runs submitted
    Pools,       \* pools with live datasets; one zfs snapshot call for each
    Given,       \* existing snapshots
    Named,       \* the sets of them that configurations name
    Spelled,     \* Spelled[g]: the run whose run-scoped snapshot name g has, or 0
    GivenTag,    \* GivenTag[g]: the run-id property of g when the first run starts
    Forgeries,   \* what records a value with a newline may add to a listing
    Attempts,    \* holdMaxAttempts, runSnapshotMaxAttempts, prepareMaxAttempts, cleanupMaxAttempts
    Retries,     \* releaseMaxAttempts
    Retags,      \* what somebody else makes of the run-id property of a snapshot
    MaxFaults,
    MaxTouched,  \* snapshots whose property is changed while the runs go on
    MaxCancels,  \* runs that may be cancelled
    MaxMishaps   \* of faults, changes and cancellations together

Runs == 1..MaxRuns
RunScoped == Pools \X Runs             \* <dataset>@tape-archiver-<run id>
Own(r) == Pools \X {r}
Path == RunScoped \cup Given

\* RunIDProperty: a run's id, or (0) anything else, and whether it was set on the
\* snapshot itself or was inherited, received or never set.
Values == 0..MaxRuns
Tag == [value : Values, source : {"local", "other"}]
OwnTag(r) == [value |-> r, source |-> "local"]
Record == [name : Path, value : Values]   \* zfs.PropertyRecord

\* A given snapshot with the name of a run's snapshot and that run's id set on it is
\* one of the run's for all the code can tell.
ASSUME LifecycleAssumption ==
    /\ MaxRuns \in Nat /\ Attempts \in Nat \ {0} /\ Retries \in Nat \ {0}
    /\ {MaxFaults, MaxTouched, MaxCancels, MaxMishaps} \subseteq Nat
    /\ Given \cap RunScoped = {} /\ Named \subseteq SUBSET Given /\ Retags \subseteq Tag
    /\ Spelled \in [Given -> Values] /\ GivenTag \in [Given -> Tag]
    /\ \A g \in Given : Spelled[g] = 0 \/ GivenTag[g] # OwnTag(Spelled[g])
    /\ Forgeries \subseteq SUBSET Record

Sweeping == {"sweep", "source", "holds", "untag"}
Job == [run : Runs, todo : SUBSET Path, failed : BOOLEAN,
        step : Sweeping \cup {"list", "check", "take", "hold", "stage", "release", "destroy", "drop", "reclaim"},
        found : SUBSET Record,    \* the listing of leaks, as far as it is still to be gone through
        tags : SUBSET Runs,       \* the holds to release on a leak
        absent : SUBSET Path]     \* the run's snapshots that are to be taken

VARIABLES
    run,      \* the newest run
    at,       \* what its workflow waits for, "idle" once it closed
    attempt,  \* failed attempts of the activity it waits for
    err,      \* what the run's error names
    sources,  \* sources[r]: the snapshots run r archives
    jobs,     \* the activity attempts running on the data worker
    snaps,    \* the snapshots that exist
    holds,    \* holds[p]: runs whose tag is on p
    tag,      \* tag[p]: the run-id property of p; of no meaning until p exists
    touched,  \* the snapshots whose property somebody else has changed
    staging,  \* runs with bulk data in the staging directory
    alert,    \* alert[r]: what the failure alert of r named
    gaveUp,   \* gaveUp[r]: what r logged that it left behind
    cancelled,\* the runs that were cancelled
    faults

flow == <<run, at, attempt, err, cancelled>>
zfs  == <<snaps, holds, tag, touched>>
logs == <<alert, gaveUp>>
vars == <<flow, sources, jobs, zfs, staging, logs, faults>>

MishapsLeft == faults + Cardinality(touched) + Cardinality(cancelled) < MaxMishaps
Fault == faults < MaxFaults /\ MishapsLeft /\ faults' = faults + 1

Init ==
    /\ run = 0 /\ at = "idle" /\ attempt = 0 /\ err = {} /\ sources = [r \in Runs |-> {}]
    /\ cancelled = {} /\ jobs = {} /\ snaps = Given /\ holds = [p \in Path |-> {}] /\ staging = {}
    /\ tag = [p \in Path |-> IF p \in Given THEN GivenTag[p] ELSE OwnTag(p[2])] /\ touched = {}
    /\ alert = [r \in Runs |-> {}] /\ gaveUp = [r \in Runs |-> {}] /\ faults = 0

-----------------------------------------------------------------------------
(* The workflow *)

\* One run at a time.  Resolve yields named snapshots and live datasets, or
\* fails, before the cleanup of snapshots is armed.
Submit ==
    /\ at = "idle" /\ run < MaxRuns /\ run' = run + 1 /\ attempt' = 0
    /\ \/ /\ at' = "create" /\ err' = {}
          /\ \E named \in Named \cap SUBSET snaps, live \in {{}, Own(run + 1)} :
               /\ named \cup live # {}
               /\ sources' = [sources EXCEPT ![run + 1] = named \cup live]
       \/ at' = "alert" /\ err' = {"phase"} /\ UNCHANGED sources
    /\ UNCHANGED <<cancelled, jobs, zfs, staging, logs, faults>>

ActivityOf(step) ==
    CASE step \in Sweeping \cup {"list", "check", "take"} -> "create"
      [] step = "drop" -> "destroy" [] step = "stage" -> "prepare"
      [] step = "reclaim" -> "cleanup" [] OTHER -> step
FirstStep == [create |-> "list", hold |-> "hold", prepare |-> "stage", release |-> "release",
              destroy |-> "destroy", cleanup |-> "reclaim"]
After == [create |-> "hold", hold |-> "prepare", prepare |-> "rest", release |-> "destroy",
          destroy |-> "alert", cleanup |-> "idle"]

Awaited(j) == j.run = run /\ ActivityOf(j.step) = at
Activities == DOMAIN FirstStep

\* The snapshots an activity is given.
Input(a) == CASE a \in {"create", "destroy"} -> sources[run] \cap RunScoped
              [] a \in {"hold", "release"} -> sources[run]
              [] OTHER -> {}

\* Nothing to do: createRunSnapshots and destroyRunSnapshots of a run with no
\* live dataset.
Skip ==
    /\ at \in {"create", "destroy"} /\ Input(at) = {}
    /\ at' = After[at]
    /\ UNCHANGED <<run, attempt, err, cancelled, sources, jobs, zfs, staging, logs, faults>>

\* The data worker takes up the next attempt.
Start ==
    /\ at \in Activities /\ (at \in {"create", "destroy"} => Input(at) # {})
    /\ \A j \in jobs : ~Awaited(j)
    /\ jobs' = jobs \cup {[run |-> run, step |-> FirstStep[at], todo |-> Input(at), failed |-> FALSE,
                             found |-> {}, tags |-> {}, absent |-> {}]}
    /\ UNCHANGED <<flow, sources, zfs, staging, logs, faults>>

Limit == IF at \in {"release", "destroy"} THEN Retries ELSE Attempts

AttemptsLeft == attempt + 1 < Limit

Leftover == [release |-> "hold", destroy |-> "snapshot", cleanup |-> "staging"]

\* Mutant: the error of the run stays as it was.
MutGiveUp ==
    /\ attempt' = 0 /\ UNCHANGED <<run, cancelled>>
    /\ IF at \in DOMAIN Leftover
       THEN /\ at' = After[at] /\ UNCHANGED err
            /\ gaveUp' = [gaveUp EXCEPT ![run] = @ \cup {Leftover[at]}]
       ELSE at' = "release" /\ err' = {"phase"} /\ UNCHANGED gaveUp

\* The activity failed for good.  A failed phase fails the run; a failed
\* release or destroy is logged and joins the error of a failed run.
GiveUp ==
    /\ attempt' = 0 /\ UNCHANGED <<run, cancelled>>
    /\ IF at \in DOMAIN Leftover
       THEN /\ at' = After[at]
            /\ err' = IF err # {} /\ at # "cleanup" THEN err \cup {Leftover[at]} ELSE err
            /\ gaveUp' = [gaveUp EXCEPT ![run] = @ \cup {Leftover[at]}]
       ELSE at' = "release" /\ err' = {"phase"} /\ UNCHANGED gaveUp

\* An attempt ends; nobody hears of it if nobody waits for it.
Succeeds(j) ==
    /\ jobs' = jobs \ {j} /\ UNCHANGED <<run, err, cancelled, gaveUp>>
    /\ IF Awaited(j) THEN at' = After[at] /\ attempt' = 0 ELSE UNCHANGED <<at, attempt>>

\* Mutant: a failed destroy is retried without limit.
MutFails(j, retryable) ==
    /\ jobs' = jobs \ {j}
    /\ IF ~Awaited(j) \/ at = "destroy" THEN UNCHANGED <<flow, gaveUp>> ELSE GiveUp

Fails(j, retryable) ==
    /\ jobs' = jobs \ {j}
    /\ IF ~Awaited(j) THEN UNCHANGED <<flow, gaveUp>>
       ELSE IF retryable /\ AttemptsLeft THEN attempt' = attempt + 1 /\ UNCHANGED <<run, at, err, cancelled, gaveUp>>
       ELSE GiveUp
Goes(j, next) == jobs' = (jobs \ {j}) \cup {next} /\ UNCHANGED <<flow, gaveUp>>
\* The next snapshot of the list, in its order.
First(todo) == CHOOSE p \in todo : TRUE
Did(j, p) == Goes(j, [j EXCEPT !.todo = @ \ {p}])
Failed(j, p) == Goes(j, [j EXCEPT !.todo = @ \ {p}, !.failed = TRUE])

\* Pack to Deliver, abstracted: the run finishes or a phase fails.
Rest ==
    /\ at = "rest" /\ at' = "release"
    /\ err' \in {{}, {"phase"}}
    /\ UNCHANGED <<run, attempt, cancelled, sources, jobs, zfs, staging, logs, faults>>

\* releaseWindow and destroyRunSnapshots' own pass with the worker unreachable.
WindowPasses ==
    /\ at \in {"release", "destroy"} /\ Fault
    /\ GiveUp /\ jobs' = {j \in jobs : ~Awaited(j)}
    /\ UNCHANGED <<sources, zfs, staging, alert>>

NotifyFailure ==
    /\ at = "alert" /\ at' = "cleanup"
    /\ alert' = [alert EXCEPT ![run] = err]
    /\ UNCHANGED <<run, attempt, err, cancelled, sources, jobs, zfs, staging, gaveUp, faults>>

Cancel ==
    /\ MaxCancels > Cardinality(cancelled) /\ MishapsLeft /\ at \in {"create", "hold", "prepare", "rest"}
    /\ at' = "release" /\ attempt' = 0 /\ err' = {"phase"} /\ cancelled' = cancelled \cup {run}
    /\ UNCHANGED <<run, sources, jobs, zfs, staging, logs, faults>>

-----------------------------------------------------------------------------
(* CreateRunSnapshots: removeLeaked *)

\* The current record of the listing, and the next step with or without it.
Current(j) == CHOOSE rec \in j.found : TRUE
To(j, step) == Goes(j, [j EXCEPT !.step = step])
Passed(j) == [j EXCEPT !.step = "sweep", !.found = @ \ {Current(j)}, !.tags = {}]
PassOver(j) == Goes(j, Passed(j))

\* A leak stays: a command failed, which is logged unless it read the property.
LeftLeak(j) ==
    /\ jobs' = (jobs \ {j}) \cup {Passed(j)}
    /\ gaveUp' = [gaveUp EXCEPT ![j.run] = @ \cup {"sweep"}] /\ UNCHANGED flow

\* One command lists the snapshots where the property is set locally; a value with a
\* newline can fabricate records.  A failed listing is only logged.  A record that is
\* there twice is gone through twice, and found false the second time.
List(j) ==
    /\ j.step = "list"
    /\ \/ /\ \E forged \in Forgeries \cup {{}} :
               Goes(j, [j EXCEPT !.step = "sweep",
                          !.found = {[name |-> p, value |-> tag[p].value] : p \in {q \in snaps : tag[q].source = "local"}}
                                    \cup forged])
          /\ UNCHANGED faults
       \/ /\ Fault /\ jobs' = (jobs \ {j}) \cup {[j EXCEPT !.step = "sweep"]}
          /\ gaveUp' = [gaveUp EXCEPT ![j.run] = @ \cup {"sweep"}] /\ UNCHANGED flow
    /\ UNCHANGED <<sources, zfs, staging, alert>>

\* The record names another run and the snapshot a run of that id takes.
Spells(p) == IF p \in Given THEN Spelled[p] ELSE p[2]
NamesLeak(j, rec) == rec.value # j.run /\ rec.value # 0 /\ Spells(rec.name) = rec.value

\* isLeakedRunSnapshot: the name, and UserProperty.
SweepValue(j) ==
    LET rec == Current(j) IN
    /\ j.step = "sweep" /\ j.found # {}
    /\ \/ /\ UNCHANGED faults
          /\ IF NamesLeak(j, rec) /\ rec.name \in snaps /\ tag[rec.name].value = rec.value
             THEN To(j, "source") ELSE PassOver(j)
       \/ NamesLeak(j, rec) /\ Fault /\ LeftLeak(j)
    /\ UNCHANGED <<sources, zfs, staging, alert>>

\* Mutant: an inherited or received id will do.
MutIsLocal(p) == TRUE
IsLocal(p) == tag[p].source = "local"

\* isLeakedRunSnapshot: PropertySource.
SweepSource(j) ==
    LET p == Current(j).name IN
    /\ j.step = "source"
    /\ \/ UNCHANGED faults /\ IF p \in snaps /\ IsLocal(p) THEN To(j, "holds") ELSE PassOver(j)
       \/ Fault /\ LeftLeak(j)
    /\ UNCHANGED <<sources, zfs, staging, alert>>

\* destroyLeaked: the holds of tape-archiver, whichever run's they are.
SweepHolds(j) ==
    LET p == Current(j).name IN
    /\ j.step = "holds"
    /\ \/ p \in snaps /\ Goes(j, [j EXCEPT !.step = "untag", !.tags = holds[p]]) /\ UNCHANGED faults
       \/ p \notin snaps /\ LeftLeak(j) /\ UNCHANGED faults
       \/ Fault /\ LeftLeak(j)
    /\ UNCHANGED <<sources, zfs, staging, alert>>

\* destroyLeaked: each is released.
SweepRelease(j) ==
    LET p == Current(j).name IN
    /\ j.step = "untag"
    /\ \E r \in j.tags :
         \/ holds' = [holds EXCEPT ![p] = @ \ {r}] /\ Goes(j, [j EXCEPT !.tags = @ \ {r}]) /\ UNCHANGED faults
         \/ Fault /\ LeftLeak(j) /\ UNCHANGED holds
    /\ UNCHANGED <<sources, snaps, tag, touched, staging, alert>>

\* destroyLeaked: zfs refuses to destroy a snapshot held meanwhile.
SweepDestroy(j) ==
    LET p == Current(j).name IN
    /\ j.step = "untag" /\ j.tags = {}
    /\ \/ holds[p] = {} /\ snaps' = snaps \ {p} /\ PassOver(j) /\ UNCHANGED faults
       \/ p \in snaps /\ holds[p] # {} /\ LeftLeak(j) /\ UNCHANGED <<snaps, faults>>
       \/ Fault /\ LeftLeak(j) /\ UNCHANGED snaps
    /\ UNCHANGED <<sources, holds, tag, touched, staging, alert>>

Sweep(j) == SweepValue(j) \/ SweepSource(j) \/ SweepHolds(j) \/ SweepRelease(j) \/ SweepDestroy(j)

-----------------------------------------------------------------------------
(* CreateRunSnapshots: taking them *)

Swept(j) ==
    /\ j.step = "sweep" /\ j.found = {} /\ To(j, "check")
    /\ UNCHANGED <<sources, zfs, staging, alert, faults>>

\* UserProperty of each: an earlier attempt of this run took it, it is to be taken, or
\* it is not this run's, which no retry mends.
Check(j) ==
    LET p == First(j.todo) IN
    /\ j.step = "check"
    /\ \/ /\ j.todo # {} /\ UNCHANGED faults
          /\ \/ p \notin snaps /\ Goes(j, [j EXCEPT !.todo = @ \ {p}, !.absent = @ \cup {p}])
             \/ p \in snaps /\ tag[p].value = j.run /\ Did(j, p)
             \/ p \in snaps /\ tag[p].value # j.run /\ Fails(j, FALSE)
       \/ j.todo # {} /\ Fault /\ Fails(j, TRUE)
       \/ j.todo = {} /\ To(j, "take") /\ UNCHANGED faults
    /\ UNCHANGED <<sources, zfs, staging, alert>>

\* One zfs snapshot for each pool, then the creation times.
Take(j) ==
    LET p == First(j.absent) IN
    /\ j.step = "take"
    /\ \/ /\ j.absent # {} /\ Goes(j, [j EXCEPT !.absent = @ \ {p}]) /\ UNCHANGED faults
          /\ snaps' = snaps \cup {p} /\ tag' = [tag EXCEPT ![p] = OwnTag(j.run)]
       \/ j.absent # {} /\ Fault /\ Fails(j, TRUE) /\ UNCHANGED <<snaps, tag>>
       \/ /\ j.absent = {} /\ UNCHANGED <<snaps, tag, faults>>
          /\ IF sources[j.run] \cap RunScoped \subseteq snaps THEN Succeeds(j) ELSE Fails(j, TRUE)
    /\ UNCHANGED <<sources, holds, touched, staging, alert>>

-----------------------------------------------------------------------------
(* The other activities *)

\* HoldSnapshots: a vanished snapshot is not retried.
Hold(j) ==
    LET p == First(j.todo) IN
    /\ j.step = "hold"
    /\ \/ /\ j.todo # {} /\ p \in snaps /\ Did(j, p)
          /\ holds' = [holds EXCEPT ![p] = @ \cup {j.run}] /\ UNCHANGED faults
       \/ j.todo # {} /\ p \notin snaps /\ Fails(j, FALSE) /\ UNCHANGED <<holds, faults>>
       \/ j.todo # {} /\ Fault /\ Fails(j, TRUE) /\ UNCHANGED holds
       \/ j.todo = {} /\ Succeeds(j) /\ UNCHANGED <<holds, faults>>
    /\ UNCHANGED <<sources, snaps, tag, touched, staging, alert>>

\* PrepareArchives: slices are written until the pipeline ends, fails, or hears
\* of a cancellation in answer to a heartbeat.
Stage(j) ==
    /\ j.step = "stage"
    /\ \/ /\ staging' = staging \cup {j.run} /\ UNCHANGED faults
          /\ \/ Goes(j, j)
             \/ sources[j.run] \subseteq snaps /\ Succeeds(j)
             \/ ~(sources[j.run] \subseteq snaps) /\ Fails(j, TRUE)
       \/ Fault /\ Fails(j, TRUE) /\ UNCHANGED staging
       \/ ~Awaited(j) /\ Fails(j, TRUE) /\ UNCHANGED <<staging, faults>>
    /\ UNCHANGED <<sources, zfs, alert>>

\* ReleaseSnapshots: one failure does not stop the others.
Release(j) ==
    LET p == First(j.todo) IN
    /\ j.step = "release"
    /\ \/ j.todo # {} /\ holds' = [holds EXCEPT ![p] = @ \ {j.run}] /\ Did(j, p) /\ UNCHANGED faults
       \/ j.todo # {} /\ Fault /\ Failed(j, p) /\ UNCHANGED holds
       \/ /\ j.todo = {} /\ UNCHANGED <<holds, faults>>
          /\ IF j.failed THEN Fails(j, TRUE) ELSE Succeeds(j)
    /\ UNCHANGED <<sources, snaps, tag, touched, staging, alert>>

\* DestroyRunSnapshots: a snapshot that has not this run's id is left alone.
Destroy(j) ==
    LET p == First(j.todo) IN
    /\ j.step = "destroy"
    /\ \/ /\ j.todo # {} /\ UNCHANGED faults
          /\ IF p \in snaps /\ tag[p].value = j.run THEN To(j, "drop") ELSE Did(j, p)
       \/ j.todo # {} /\ Fault /\ Failed(j, p)
       \/ /\ j.todo = {} /\ UNCHANGED faults
          /\ IF j.failed THEN Fails(j, TRUE) ELSE Succeeds(j)
    /\ UNCHANGED <<sources, zfs, staging, alert>>

\* zfs refuses to destroy a held snapshot, and one that is gone is no error.
Drop(j) ==
    LET p == First(j.todo) IN
    /\ j.step = "drop"
    /\ \/ /\ snaps' = snaps \ {p} /\ (p \in snaps => holds[p] = {})
          /\ Goes(j, [j EXCEPT !.step = "destroy", !.todo = @ \ {p}]) /\ UNCHANGED faults
       \/ /\ IF p \in snaps /\ holds[p] # {} THEN UNCHANGED faults ELSE Fault
          /\ Goes(j, [j EXCEPT !.step = "destroy", !.todo = @ \ {p}, !.failed = TRUE]) /\ UNCHANGED snaps
    /\ UNCHANGED <<sources, holds, tag, touched, staging, alert>>

\* CleanupStaging
Reclaim(j) ==
    /\ j.step = "reclaim"
    /\ \/ staging' = staging \ {j.run} /\ Succeeds(j) /\ UNCHANGED faults
       \/ Fault /\ Fails(j, TRUE) /\ UNCHANGED staging
    /\ UNCHANGED <<sources, zfs, alert>>

\* External pruning: zfs destroy of anything that is not held.
Prune(p) ==
    /\ p \in snaps /\ holds[p] = {}
    /\ snaps' = snaps \ {p}
    /\ UNCHANGED <<flow, sources, jobs, holds, tag, touched, staging, logs, faults>>

\* zfs set or inherit of the property, by hand or by a tool that copies properties.
Retag(p) ==
    /\ p \in snaps \ touched /\ Cardinality(touched) < MaxTouched /\ MishapsLeft
    /\ tag' \in {[tag EXCEPT ![p] = t] : t \in Retags} /\ touched' = touched \cup {p}
    /\ UNCHANGED <<flow, sources, jobs, snaps, holds, staging, logs, faults>>

-----------------------------------------------------------------------------
JobStep(j) ==
    \/ List(j) \/ Sweep(j) \/ Swept(j) \/ Check(j) \/ Take(j) \/ Hold(j) \/ Stage(j)
    \/ Release(j) \/ Destroy(j) \/ Drop(j) \/ Reclaim(j)
Ended == at = "idle" /\ run = MaxRuns /\ jobs = {} /\ UNCHANGED vars
Progress == Skip \/ Start \/ Rest \/ NotifyFailure \/ \E j \in jobs : JobStep(j)
Next ==
    \/ Submit \/ Progress \/ WindowPasses \/ Cancel \/ Ended
    \/ \E p \in snaps : Prune(p) \/ Retag(p)

Spec == Init /\ [][Next]_vars

\* The control worker runs the workflow and a data worker its activities.
FairSpec == Spec /\ WF_vars(Progress)

-----------------------------------------------------------------------------
(* Properties *)

Closed(r) == r < run \/ (r = run /\ at = "idle")

\* The type of every variable.
TypeOK ==
    /\ run \in 0..MaxRuns /\ at \in Activities \cup {"idle", "rest", "alert"}
    /\ attempt \in 0..Limit - 1
    /\ err \subseteq {"phase", "hold", "snapshot"}
    /\ sources \in [Runs -> SUBSET Path] /\ jobs \subseteq Job
    /\ snaps \subseteq Path /\ holds \in [Path -> SUBSET Runs] /\ staging \subseteq Runs
    /\ tag \in [Path -> Tag] /\ touched \subseteq Path
    /\ alert \in [Runs -> SUBSET {"phase", "hold", "snapshot"}]
    /\ gaveUp \in [Runs -> SUBSET {"hold", "snapshot", "staging", "sweep"}]
    /\ cancelled \subseteq Runs /\ faults \in 0..MaxFaults

(***************************************************************************)
(* "so external pruning cannot destroy it mid-run", and "only one run is   *)
(* ever active (fixed workflow id), so they are leaks": from the end of    *)
(* the hold on, every source snapshot of the run exists.                   *)
(***************************************************************************)
SourcesExist == at \in {"prepare", "rest"} => sources[run] \subseteq snaps

(***************************************************************************)
(* The same where no earlier run was cancelled: pruning between resolving, *)
(* taking and holding the snapshots never lets a run read a missing one.   *)
(***************************************************************************)
PinnedWhileRead == cancelled \subseteq {run} => SourcesExist

(***************************************************************************)
(* A run that closed has left no hold, no snapshot of its own and no bulk  *)
(* data behind, unless it logged that it gave up on it, or the snapshot no *)
(* longer has its id.  The activities of a cancelled run may outlive it.   *)
(***************************************************************************)
NothingLeftBehind ==
    \A r \in Runs \ cancelled : Closed(r) =>
        /\ "hold" \notin gaveUp[r] => \A p \in Path : r \notin holds[p]
        /\ {"hold", "snapshot"} \cap gaveUp[r] = {} => Own(r) \cap snaps \subseteq touched
        /\ r \in staging => "staging" \in gaveUp[r]

(***************************************************************************)
(* "A failed run's alert names a leaked hold or snapshot".                 *)
(***************************************************************************)
AlertNamesLeaks ==
    \A r \in Runs : alert[r] # {} => gaveUp[r] \cap {"hold", "snapshot"} \subseteq alert[r]

(***************************************************************************)
(* Leaks do not pile up: once a run has taken its snapshots, those of      *)
(* every earlier run are gone, held or not, unless a command of the sweep  *)
(* failed, somebody changed their property, or a cancelled run's activity  *)
(* is still at work.                                                       *)
(***************************************************************************)
LeaksSwept ==
    cancelled = {} /\ at \in {"hold", "prepare", "rest"} /\ Own(run) \subseteq sources[run] /\ "sweep" \notin gaveUp[run]
        => \A r \in 1..run - 1 : Own(r) \cap snaps \subseteq touched

(***************************************************************************)
(* "cleanup never destroys a snapshot tape-archiver did not create": no    *)
(* step but external pruning removes one, whatever its name, its property  *)
(* and the records a listing makes up, as long as nobody sets the property *)
(* while the runs go on (name, value and source are not read at once).     *)
(***************************************************************************)
OnlyOwnDestroyed ==
    [][~((Given \ touched) \cap snaps \subseteq snaps') => UNCHANGED <<flow, jobs>>]_vars

(***************************************************************************)
(* Every run closes, whatever fails: nothing deferred waits for ever.      *)
(***************************************************************************)
RunCloses == at # "idle" ~> at = "idle"

(***************************************************************************)
(* A run's sources are there while it reads them, and what it took and     *)
(* held is gone afterwards, or named in its alert and swept by the next.   *)
(***************************************************************************)
LifecycleSound == TypeOK /\ PinnedWhileRead /\ NothingLeftBehind /\ AlertNamesLeaks /\ LeaksSwept
=============================================================================

------------------------------ MODULE BurnPath ------------------------------
(***************************************************************************)
(* The Burn phase: copies of the recovery disc are burned and verified in  *)
(* sets of one disc per burner, with a pause for the operator before every *)
(* later set and after every failure.  There is no autoloader: what lies   *)
(* in a burner is up to the operator, who changes discs during pauses.     *)
(*                                                                         *)
(* One xorriso command is one step.  Failed commands, timeouts and the     *)
(* loss of the worker draw on MaxFaults, resumes on MaxResumes.            *)
(***************************************************************************)
EXTENDS Naturals, FiniteSets

CONSTANTS
    NumBurners,     \* len(cfg.Delivery.OpticalBurn.Drives)
    Copies,         \* cfg.Delivery.OpticalBurn.Copies
    AllowNonBlank,  \* cfg.Delivery.OpticalBurn.AllowNonBlankDiscs
    Discs, NoDisc,
    Rewritable,     \* discs that can be blanked; the others are write-once
    Used,           \* discs that held data before the run
    Crosses,        \* whether a disc may move from one burner to another
    MaxFaults, MaxResumes

Burners == 1..NumBurners
Assignment == [device : Burners, copy : 0..Copies - 1]
BurnResult == [device : Burners, copy : 0..Copies - 1, disc : Discs, overwrote : BOOLEAN]

ASSUME BurnAssumption ==
    /\ NumBurners \in Nat \ {0} /\ Copies \in Nat \ {0}
    /\ AllowNonBlank \in BOOLEAN /\ Crosses \in BOOLEAN
    /\ NoDisc \notin Discs /\ Rewritable \subseteq Discs /\ Used \subseteq Discs
    /\ MaxFaults \in Nat /\ MaxResumes \in Nat

VARIABLES
    wf,       \* the workflow's position in runBurnPath
    base,     \* copies handed to burn-sets so far
    pending,  \* the assignments of the set, or of its retry
    burned,   \* state.burnedDiscs, with the disc and copy the code does not keep
    step,     \* step[d]: the coroutine of burner d
    guard,    \* guard[d]: driveHasVerifiedCopy, read when the set starts
    over,     \* over[d]: result.OverwroteNonBlank of the burn under way
    tray,     \* tray[d]: the disc in burner d
    from,     \* from[x]: the burner disc x was last in, 0 for none
    medium,   \* medium[x]: "blank", "used", "image", or "bad" after a failed burn
    erased,   \* used discs whose data the run destroyed
    faults, resumes

flow == <<wf, base, pending, burned>>
job  == <<step, guard, over>>
disc == <<tray, from, medium, erased>>
vars == <<flow, job, disc, faults, resumes>>

Terminal == {"ok", "failed", "cancelled"}
Pauses == {"swapPause", "failPause"}
Busy == {"state", "blank", "write", "verify"}

Init ==
    /\ wf = "set" /\ base = 0 /\ pending = {} /\ burned = {}
    /\ step = [d \in Burners |-> "idle"] /\ guard = [d \in Burners |-> FALSE]
    /\ over = [d \in Burners |-> FALSE]
    /\ tray \in [Burners -> Discs \cup {NoDisc}]
    /\ \A c, d \in Burners : tray[c] = tray[d] /\ tray[c] # NoDisc => c = d
    /\ from = [x \in Discs |-> IF \E d \in Burners : tray[d] = x
                               THEN CHOOSE d \in Burners : tray[d] = x ELSE 0]
    /\ medium = [x \in Discs |-> IF x \in Used THEN "used" ELSE "blank"]
    /\ erased = {} /\ faults = 0 /\ resumes = 0

-----------------------------------------------------------------------------
(* The workflow *)

\* planBurnSets: the next chunk of copies, disc j to burner j.
NextBurnSet ==
    LET size == IF Copies - base < NumBurners THEN Copies - base ELSE NumBurners
    IN  {[device |-> n, copy |-> base + n - 1] : n \in 1..size}

\* Mutant: no burner is known to hold a verified copy.
MutDeviceHasVerifiedCopy(d) == FALSE
DeviceHasVerifiedCopy(d) == \E r \in burned : r.device = d

\* burnDiscSet starts one coroutine per disc.
Starts(set) ==
    /\ wf' = "burning" /\ pending' = set
    /\ step' = [d \in Burners |-> IF \E a \in set : a.device = d THEN "state" ELSE "idle"]
    /\ guard' = [d \in Burners |-> DeviceHasVerifiedCopy(d)]
    /\ over' = [d \in Burners |-> FALSE]

\* runBurnPath: the first set starts at once, every later one after a pause.
RunBurnPath ==
    /\ wf = "set"
    /\ \/ base = 0 /\ Starts(NextBurnSet) /\ base' = base + Cardinality(NextBurnSet)
       \/ /\ base \in 1..Copies - 1 /\ wf' = "swapPause" /\ UNCHANGED <<base, pending, job>>
       \/ /\ base = Copies /\ wf' = "report" /\ UNCHANGED <<base, pending, job>>
    /\ UNCHANGED <<burned, disc, faults, resumes>>

\* retryBurnSet: only the failed discs, with their burner and copy.
RetryBurnSet == {a \in pending : step[a.device] = "err"}

\* All results are in: what verified is on record, a failure pauses the run.
SetDone ==
    /\ wf = "burning" /\ \A a \in pending : step[a.device] \in {"ok", "err"}
    /\ burned' = burned \cup {[device |-> a.device, copy |-> a.copy, disc |-> tray[a.device],
                               overwrote |-> over[a.device]] :
                                a \in {b \in pending : step[b.device] = "ok"}}
    /\ pending' = RetryBurnSet
    /\ wf' = IF RetryBurnSet = {} THEN "set" ELSE "failPause"
    /\ step' = [d \in Burners |-> "idle"]
    /\ UNCHANGED <<base, guard, over, disc, faults, resumes>>

\* A resume, whatever the operator did to the discs.
Resume ==
    /\ wf \in Pauses /\ resumes < MaxResumes /\ resumes' = resumes + 1
    /\ \/ wf = "swapPause" /\ Starts(NextBurnSet) /\ base' = base + Cardinality(NextBurnSet)
       \/ wf = "failPause" /\ Starts(pending) /\ UNCHANGED base
    /\ UNCHANGED <<burned, disc, faults>>

\* Mutant: only the pause after a failure has a timer.
MutPauseEnds ==
    /\ wf = "failPause" /\ wf' = "failed"
    /\ UNCHANGED <<base, pending, burned, job, disc, faults, resumes>>
\* An abort, or the burn-wait timeout.
PauseEnds ==
    /\ wf \in Pauses /\ wf' = "failed"
    /\ UNCHANGED <<base, pending, burned, job, disc, faults, resumes>>

\* rebuildDeliveredReport records the discs.  It names no retry policy, so a
\* failed attempt is followed by another.
RebuildDeliveredReport ==
    /\ wf = "report"
    /\ \/ wf' = "ok" /\ UNCHANGED faults
       \/ faults < MaxFaults /\ faults' = faults + 1 /\ UNCHANGED wf
    /\ UNCHANGED <<base, pending, burned, job, disc, resumes>>

\* Activities under way run on until they hear of it.
Cancel ==
    /\ wf \notin Terminal /\ wf' = "cancelled"
    /\ UNCHANGED <<base, pending, burned, job, disc, faults, resumes>>

-----------------------------------------------------------------------------
(* BurnDisc and VerifyDisc *)

\* A command fails on a fault, or is killed when the run was cancelled.
Fault == IF wf = "cancelled" THEN UNCHANGED faults ELSE faults < MaxFaults /\ faults' = faults + 1
Goes(d, s) == step' = [step EXCEPT ![d] = s]

\* Mutant: media that are not recognised count as rewritable.
MutDiscStates(x) == IF medium[x] = "blank" THEN {"blank"} ELSE {"nonBlankRewritable", "finalized"}
\* What xorriso -toc may report of a disc: any written disc may be closed, which
\* goes before its being rewritable.
DiscStates(x) ==
    CASE medium[x] = "blank" -> {"blank"}
      [] medium[x] # "blank" /\ x \in Rewritable -> {"nonBlankRewritable", "finalized"}
      [] OTHER -> {"appendableWriteOnce", "finalized"}

\* decideBurn: write, blank first, or pause, which is an error of the activity.
DecideBurn(state, hasCopy) ==
    CASE state = "blank" -> "write"
      [] state = "nonBlankRewritable" /\ AllowNonBlank /\ ~hasCopy -> "blank"
      [] OTHER -> "err"

ReadState(d) ==
    /\ step[d] = "state"
    /\ \/ /\ tray[d] # NoDisc /\ UNCHANGED faults
          /\ \E state \in DiscStates(tray[d]) : Goes(d, DecideBurn(state, guard[d]))
       \/ tray[d] = NoDisc /\ Goes(d, "err") /\ UNCHANGED faults
       \/ Fault /\ Goes(d, "err")
    /\ UNCHANGED <<flow, guard, over, disc, resumes>>

\* Disc x gets the given content, its old data with it.
Becomes(x, content) ==
    /\ medium' = [medium EXCEPT ![x] = content]
    /\ erased' = IF medium[x] = "used" /\ content # "used" THEN erased \cup {x} ELSE erased
    /\ UNCHANGED <<tray, from>>

\* Blank probes the disc again; it refuses what DecideBurn does not send here.
Blank(d) ==
    /\ step[d] = "blank"
    /\ \/ /\ Becomes(tray[d], "blank") /\ Goes(d, "write")
          /\ over' = [over EXCEPT ![d] = TRUE] /\ UNCHANGED faults
       \/ /\ Fault /\ \E content \in {medium[tray[d]], "bad"} : Becomes(tray[d], content)
          /\ Goes(d, "err") /\ UNCHANGED over
    /\ UNCHANGED <<flow, guard, resumes>>

\* A burn may fail, or end well with a bad disc.  A write-once disc that is
\* not blank refuses it.
WriteImage(d) ==
    LET x == tray[d] IN
    /\ step[d] = "write"
    /\ \/ /\ medium[x] = "blank" \/ x \in Rewritable
          /\ \/ Becomes(x, "image") /\ Goes(d, "verify") /\ UNCHANGED faults
             \/ Fault /\ Becomes(x, "bad") /\ Goes(d, "verify")
             \/ Fault /\ (\E content \in {medium[x], "bad"} : Becomes(x, content)) /\ Goes(d, "err")
       \/ medium[x] # "blank" /\ x \notin Rewritable /\ Goes(d, "err") /\ UNCHANGED <<disc, faults>>
    /\ UNCHANGED <<flow, guard, over, resumes>>

\* The disc is read back against the manifest.
VerifyDisc(d) ==
    /\ step[d] = "verify"
    /\ \/ medium[tray[d]] = "image" /\ Goes(d, "ok") /\ UNCHANGED faults
       \/ medium[tray[d]] # "image" /\ Goes(d, "err") /\ UNCHANGED faults
       \/ Fault /\ Goes(d, "err")
    /\ UNCHANGED <<flow, guard, over, disc, resumes>>

-----------------------------------------------------------------------------
(* The operator, during pauses *)

Unload(d) ==
    /\ wf \in Pauses /\ tray[d] # NoDisc
    /\ tray' = [tray EXCEPT ![d] = NoDisc]
    /\ UNCHANGED <<flow, job, from, medium, erased, faults, resumes>>

Insert(d, x) ==
    /\ wf \in Pauses /\ tray[d] = NoDisc /\ \A c \in Burners : tray[c] # x
    /\ Crosses \/ from[x] \in {0, d}
    /\ tray' = [tray EXCEPT ![d] = x] /\ from' = [from EXCEPT ![x] = d]
    /\ UNCHANGED <<flow, job, medium, erased, faults, resumes>>

-----------------------------------------------------------------------------
Ended == wf \in Terminal /\ (\A d \in Burners : step[d] \notin Busy) /\ UNCHANGED vars
DiscNext(d) == ReadState(d) \/ Blank(d) \/ WriteImage(d) \/ VerifyDisc(d)
Workflow == RunBurnPath \/ SetDone \/ RebuildDeliveredReport
Operator == \E d \in Burners : Unload(d) \/ \E x \in Discs : Insert(d, x)

Next ==
    \/ Workflow \/ Resume \/ PauseEnds \/ Cancel \/ Operator \/ Ended
    \/ \E d \in Burners : DiscNext(d)

Spec == Init /\ [][Next]_vars

\* Workers and timers; nothing is assumed of the operator.
FairSpec ==
    /\ Spec /\ WF_vars(Workflow) /\ WF_vars(PauseEnds)
    /\ \A d \in Burners : WF_vars(DiscNext(d))

-----------------------------------------------------------------------------
(* Properties *)

\* The type of every variable.
TypeOK ==
    /\ wf \in Terminal \cup Pauses \cup {"set", "burning", "report"} /\ base \in 0..Copies
    /\ pending \subseteq Assignment /\ burned \subseteq BurnResult
    /\ step \in [Burners -> Busy \cup {"idle", "ok", "err"}]
    /\ guard \in [Burners -> BOOLEAN] /\ over \in [Burners -> BOOLEAN]
    /\ tray \in [Burners -> Discs \cup {NoDisc}] /\ from \in [Discs -> Burners \cup {0}]
    /\ medium \in [Discs -> {"blank", "used", "image", "bad"}] /\ erased \subseteq Used
    /\ faults \in 0..MaxFaults /\ resumes \in 0..MaxResumes

(***************************************************************************)
(* "never reclaims a disc this run itself already burned and verified":    *)
(* the copies on record are as many discs, and each still carries the      *)
(* image, whatever sets, retries and forgotten swaps came after (#154).    *)
(***************************************************************************)
CopiesIntact ==
    \A r \in burned :
        /\ medium[r.disc] = "image"
        /\ \A q \in burned : q # r => q.disc # r.disc /\ q.copy # r.copy

(***************************************************************************)
(* A burn phase that ends well has every configured copy on record.        *)
(***************************************************************************)
BurnComplete == wf = "ok" => {r.copy : r \in burned} = 0..Copies - 1

(***************************************************************************)
(* Data from before the run is destroyed only with the opt-in, only on a   *)
(* rewritable disc, and never in a burner that made a verified copy.       *)
(***************************************************************************)
OldDiscsKept ==
    [][\A x \in erased' \ erased :
         /\ AllowNonBlank /\ x \in Rewritable
         /\ \A d \in Burners : tray[d] = x => \A r \in burned : r.device # d]_vars

(***************************************************************************)
(* The Burn phase ends, whatever fails and whatever the operator does.     *)
(***************************************************************************)
BurnEnds == <>(wf \in Terminal)

(***************************************************************************)
(* The copies on record are as many as were asked for, on discs of their   *)
(* own, and are still on them.                                             *)
(***************************************************************************)
BurnSound == TypeOK /\ CopiesIntact /\ BurnComplete
=============================================================================

------------------------------ MODULE Delivery ------------------------------
(***************************************************************************)
(* What a run leaves behind: the Report phase writes the PDF report, the   *)
(* recovery ISO and the disc manifest into the run's staging directory,    *)
(* the Burn phase burns the ISO and verifies each disc against the         *)
(* manifest, the report is rendered again with the discs on it, and the    *)
(* Deliver phase posts it to the success webhook.                          *)
(*                                                                         *)
(* The activities run on the data worker, which may crash or lose its      *)
(* heartbeats between any two steps: the next attempt starts again, and a  *)
(* lost attempt may go on writing to the same directory.  Such attempts    *)
(* are assumed to have stopped once all discs have been burned.  A file    *)
(* or a disc is the set of its content, empty when it cannot be read, and  *)
(* a digest stands for what it is of.  Which disc lies in which burner is  *)
(* BurnPath's concern.                                                     *)
(***************************************************************************)
EXTENDS Naturals, Sequences, FiniteSets, SequencesExt

CONSTANTS
    Runs,                \* the runs considered: what the earlier phases left in runState
    MaxStem,             \* characters of a file name that ISO 9660 keeps
    DeliverMaxAttempts,
    MaxFaults,           \* failed or lost attempts of Report and Burn
    MaxResumes           \* resumes of the burn pause

Devices == {"inquired", "unknown"}
\* "unparsable": present, which is all the configuration's validation asks, but no age identity.
Escrows == {"match", "empty", "other", "unparsable"}
FileKinds == {"static", "dynamic", "plain", "dir"}

WrittenTape == [barcode : Seq(STRING), tapeIndex : Nat, copy : Nat, generation : STRING, health : STRING]
ToolFile == [stem : Seq(STRING), ext : STRING, kind : FileKinds]

(* A run: the tapes in the order they were written, each with its place in *)
(* the plan, media generation and write health; the archives of each       *)
(* planned tape; the recovery tools installed on the worker; the escrowed  *)
(* identity; and what the configuration and the memo ask for.              *)
ASSUME DeliveryAssumption ==
    /\ \A r \in Runs :
        /\ r.written \in Seq(WrittenTape) \ {<<>>} /\ r.escrow \in Escrows
        /\ r.webhook \in BOOLEAN /\ r.dryRun \in BOOLEAN /\ r.copies \in Nat
        /\ \A t \in Range(r.written) : t.tapeIndex \in DOMAIN r.plan
        /\ r.binaries \in Seq(ToolFile) /\ r.sources \in Seq(ToolFile)
    /\ MaxStem \in Nat \ {0} /\ DeliverMaxAttempts \in Nat \ {0}
    /\ MaxFaults \in Nat /\ MaxResumes \in Nat

VARIABLES
    run,        \* the run
    wf,         \* the phase, or how the run ended
    at,         \* where the running attempt of the phase's activity is
    ren,        \* the report it has rendered
    old, oldRen,  \* the same of a lost attempt of BuildReport that is still running
    overlapped,   \* a lost attempt ran beside a later one
    pdf, iso, man,  \* report.pdf, the recovery ISO and the disc manifest in staging
    tray,       \* what the disc being burned reads back
    discs,      \* the verified discs: what each holds, and whether it was reclaimed
    attempts,   \* attempts of Deliver
    posts,      \* the messages the webhook accepted
    faults, resumes

files == <<pdf, iso, man>>
lost  == <<old, oldRen, overlapped>>
burn  == <<tray, discs>>
vars  == <<run, wf, at, ren, lost, files, burn, attempts, posts, faults, resumes>>

Terminal == {"ok", "failed"}
BuildSteps == {"escrow", "render", "pdf", "create", "build", "manifest"}
Idle == "-"
NoDisc == [holds |-> {}, overwrote |-> FALSE]

Init ==
    /\ run \in Runs /\ wf = "report" /\ at = "escrow" /\ ren = {}
    /\ old = Idle /\ oldRen = {} /\ overlapped = FALSE
    /\ pdf = {} /\ iso = {} /\ man = {}
    /\ tray = NoDisc /\ discs = <<>>
    /\ attempts = 0 /\ posts = <<>> /\ faults = 0 /\ resumes = 0

-----------------------------------------------------------------------------
(* The report *)

\* archivesForTape: what the plan put on the tape.
OnTape(t) == run.plan[t.tapeIndex]

\* Mutant: the copy number is taken for the place in the plan.
MutReportTapes ==
    {[barcode |-> t.barcode, contents |-> run.plan[t.copy + 1], health |-> t.health] : t \in Range(run.written)}
ReportTapes ==
    {[barcode |-> t.barcode, contents |-> OnTape(t), health |-> t.health] : t \in Range(run.written)}

\* One generation, "mixed", or "unknown" as soon as one tape's is.
TapeGeneration ==
    LET all == {t.generation : t \in Range(run.written)}
    IN  CASE "unknown" \in all -> "unknown" [] Cardinality(all) = 1 -> CHOOSE g \in all : TRUE [] OTHER -> "mixed"

\* buildReportManifest; burned is input.Discs, device what queryDeviceIdentity read.
BuildReportManifest(device, burned) ==
    [tapes |-> ReportTapes, discs |-> burned, generation |-> TapeGeneration,
     device |-> device, identity |-> run.escrow, dryRun |-> run.dryRun]

\* buildSHA256Manifest: one line per file, prefixed with the tape's barcode.
BuildSHA256Manifest ==
    UNION {{[barcode |-> t.barcode, archive |-> a] : a \in OnTape(t)} : t \in Range(run.written)}

\* reportDiscs: in burning order, whether each disc was reclaimed.
ReportDiscs(verified) == [k \in DOMAIN verified |-> verified[k].overwrote]

-----------------------------------------------------------------------------
(* The recovery kit: names on an ISO 9660 level-2 disc *)

Lower(c) == IF c = "A" THEN "a" ELSE c

\* mangleD1: lowercased, characters outside d1Characters replaced, cut at max.
MangleD1(stem, max) ==
    [k \in 1..(IF Len(stem) < max THEN Len(stem) ELSE max) |->
        IF stem[k] = "#" THEN "_" ELSE Lower(stem[k])]

\* readbackPath: the dots of the stem have become underscores.
ReadbackPath(p) ==
    [p EXCEPT !.stem = MangleD1([k \in DOMAIN p.stem |-> IF p.stem[k] = "." THEN "_" ELSE p.stem[k]], MaxStem)]

\* The ISO writer's own name for a file.
WriterName(p) ==
    [p EXCEPT !.stem = [k \in 1..(IF Len(p.stem) < MaxStem THEN Len(p.stem) ELSE MaxStem) |->
        CASE p.stem[k] \in {"#", "."} -> "_" [] p.stem[k] = "A" -> "a" [] OTHER -> p.stem[k]]]

Path(dir, stem, ext) == [dir |-> dir, stem |-> stem, ext |-> ext]
IndexPath(t) == Path("ltfs-index", t.barcode, "schema")

\* A file staged for the disc: the pos-th of its directory.
StagedFile(path, pos, data) == [path |-> path, pos |-> pos, data |-> data]

\* The last of the files staged under each name, as both the writer and the
\* manifest keep it; named is a set of [name, pos, data].
Keyed(named) ==
    [n \in {f.name : f \in named} |->
        (CHOOSE f \in named : f.name = n /\ \A g \in named : g.name = n => g.pos <= f.pos).data]

\* stageBinaries and stageSources: the top-level files, subdirectories skipped.
Staged(dir, entries) ==
    {StagedFile(Path(dir, entries[k].stem, entries[k].ext), k, entries[k]) :
        k \in {j \in DOMAIN entries : entries[j].kind # "dir"}}

\* tapeIndexes, staged by Build.
StagedIndexes ==
    {StagedFile(IndexPath(run.written[k]), k, [indexOf |-> run.written[k].barcode]) : k \in DOMAIN run.written}

\* Build: everything on the disc.
KitFiles(report) ==
    {StagedFile(Path("", <<"report">>, "pdf"), 1, [report |-> report]),
     StagedFile(Path("", <<"manifest">>, "sha256"), 2, [sums |-> BuildSHA256Manifest]),
     StagedFile(Path("", <<"recovery-procedure">>, "md"), 3, [doc |-> "procedure"])}
    \cup StagedIndexes \cup Staged("bin", run.binaries) \cup Staged("src", run.sources)

\* Mutant: barcodes are compared, not the names they get on the disc.
MutValidate ==
    \A j, k \in DOMAIN run.written : run.written[j].barcode = run.written[k].barcode => j = k
\* Input.validate: no two tape indexes under one name.
Validate ==
    \A j, k \in DOMAIN run.written :
        ReadbackPath(IndexPath(run.written[j])) = ReadbackPath(IndexPath(run.written[k])) => j = k

StaticallyLinked(b) == b.kind = "static"
\* stageBinaries: at least one file, and each of them static.
BinariesUsable ==
    /\ Staged("bin", run.binaries) # {}
    /\ \A b \in Range(run.binaries) : b.kind # "dir" => StaticallyLinked(b)
\* stageSources: at least one file.
SourcesUsable == Staged("src", run.sources) # {}

Buildable == Validate /\ BinariesUsable /\ SourcesUsable

Image(report) ==
    Keyed({[name |-> WriterName(f.path), pos |-> f.pos, data |-> f.data] : f \in KitFiles(report)})
DiscManifest(report) ==
    Keyed({[name |-> ReadbackPath(f.path), pos |-> f.pos, data |-> f.data] : f \in KitFiles(report)})

-----------------------------------------------------------------------------
(* BuildReport and RebuildDeliveredReport *)

\* Mutant: an identity that is present is taken to be the right one.
MutEscrowValid == run.escrow # "empty"
\* verifyEscrowIdentity: present, and the private key of a recipient.
EscrowValid == run.escrow = "match"

\* The step that follows p in buildReport.
After(p) ==
    CASE p = "escrow" -> "render"
      [] p = "render" -> "pdf"
      [] p = "pdf"    -> IF run.copies = 0 THEN "done" ELSE "create"
      [] p = "create" -> "build"
      [] p = "build"  -> IF Buildable THEN "manifest" ELSE "error"
      [] OTHER        -> "done"

\* What the step writes, r being the rendered report.  The ISO is truncated before
\* recoverykit.Build looks at its input, and unreadable until it is complete.
Writes(p, r) ==
    /\ pdf' = IF p = "pdf" THEN r ELSE pdf
    /\ iso' = CASE p = "create" -> {}
                [] p = "build" /\ Buildable -> {Image(x) : x \in r}
                [] OTHER -> iso
    /\ man' = IF p = "manifest" THEN {DiscManifest(x) : x \in r} ELSE man

\* renderReportPDF: what the step has rendered; the drive may or may not answer.
Rendered(p, r, burned) ==
    IF p = "render" THEN {{BuildReportManifest(d, burned)} : d \in Devices} ELSE {r}

\* RecipientFromIdentity: age-keygen reads the identity.
EscrowParses == run.escrow # "unparsable"

\* The identity that is not escrowed right fails the run without a retry.  One that does
\* not parse is taken for an age-keygen that failed to run: the next attempt meets it again.
EscrowFails ==
    /\ wf \in {"report", "rebuild"} /\ at = "escrow" /\ ~EscrowValid
    /\ \/ EscrowParses /\ wf' = "failed" /\ at' = Idle
       \/ ~EscrowParses /\ UNCHANGED <<wf, at>>
    /\ UNCHANGED <<run, ren, lost, files, burn, attempts, posts, faults, resumes>>

\* A step of BuildReport; an attempt that cannot build the kit is retried without limit.
BuildReport ==
    /\ wf = "report" /\ at \in BuildSteps /\ (at = "escrow" => EscrowValid)
    /\ ren' \in Rendered(at, ren, <<>>)
    /\ Writes(at, ren)
    /\ CASE After(at) = "done"  -> /\ wf' = (IF run.copies = 0 THEN "deliver" ELSE "burn")
                                   /\ at' = (IF run.copies = 0 THEN "start" ELSE Idle)
         [] After(at) = "error" -> at' = "escrow" /\ UNCHANGED wf
         [] OTHER               -> at' = After(at) /\ UNCHANGED wf
    /\ UNCHANGED <<run, lost, burn, attempts, posts, faults, resumes>>

\* A transient error, or the worker gone: the next attempt starts again.
AttemptFails ==
    /\ wf \in {"report", "rebuild"} /\ faults < MaxFaults
    /\ faults' = faults + 1 /\ at' = "escrow" /\ ren' = {}
    /\ UNCHANGED <<run, wf, lost, files, burn, attempts, posts, resumes>>

\* The heartbeats are lost, the attempt is not.
AttemptLost ==
    /\ wf = "report" /\ old = Idle /\ at # "escrow" /\ faults < MaxFaults
    /\ faults' = faults + 1 /\ old' = at /\ oldRen' = ren /\ overlapped' = TRUE
    /\ at' = "escrow" /\ ren' = {}
    /\ UNCHANGED <<run, wf, files, burn, attempts, posts, resumes>>

\* The lost attempt goes on; nobody hears how it ends.
LostStep ==
    /\ old # Idle
    /\ oldRen' \in Rendered(old, oldRen, <<>>)
    /\ Writes(old, oldRen)
    /\ old' = IF After(old) \in {"done", "error"} THEN Idle ELSE After(old)
    /\ UNCHANGED <<run, wf, at, ren, overlapped, burn, attempts, posts, faults, resumes>>

\* It learns that it was given up, or its process ends.
LostStops ==
    /\ old # Idle /\ old' = Idle /\ oldRen' = {}
    /\ UNCHANGED <<run, wf, at, ren, overlapped, files, burn, attempts, posts, faults, resumes>>

\* rebuildDeliveredReport: input.Discs.
RebuildDiscs == ReportDiscs(discs)

\* A step of RebuildDeliveredReport.
RebuildReport ==
    /\ wf = "rebuild" /\ old = Idle /\ (at = "escrow" => EscrowValid)
    /\ ren' \in Rendered(at, ren, RebuildDiscs)
    /\ pdf' = IF at = "pdf" THEN ren ELSE pdf
    /\ wf' = IF at = "pdf" THEN "deliver" ELSE wf
    /\ at' = IF at = "pdf" THEN "start" ELSE After(at)
    /\ UNCHANGED <<run, lost, iso, man, burn, attempts, posts, faults, resumes>>

-----------------------------------------------------------------------------
(* Burning a disc and reading it back *)

\* BurnDisc writes the staged ISO, or damages a file of it.
BurnDisc ==
    /\ wf = "burn" /\ wf' = "verify"
    /\ \E reclaimed \in BOOLEAN :
        \/ tray' = [holds |-> iso, overwrote |-> reclaimed] /\ UNCHANGED faults
        \/ /\ faults < MaxFaults /\ faults' = faults + 1
           /\ \E x \in iso : \E n \in DOMAIN x :
                tray' = [holds |-> {[x EXCEPT ![n] = [damaged |-> TRUE]]}, overwrote |-> reclaimed]
    /\ UNCHANGED <<run, at, ren, lost, files, discs, attempts, posts, resumes>>

\* verifyTree: nothing mismatched, missing or extra.
VerifyTree(x, m) == DOMAIN x = DOMAIN m /\ \A n \in DOMAIN m : x[n] = m[n]

Verified == \E x \in tray.holds, m \in man : VerifyTree(x, m)

\* VerifyDisc: the disc counts, and the last one ends the phase.
VerifyDisc ==
    /\ wf = "verify" /\ Verified
    /\ discs' = Append(discs, tray)
    /\ wf' = IF Len(discs') = run.copies THEN "rebuild" ELSE "burn"
    /\ at' = IF Len(discs') = run.copies THEN "escrow" ELSE Idle
    /\ ren' = {} /\ tray' = NoDisc
    /\ UNCHANGED <<run, lost, files, attempts, posts, faults, resumes>>

\* A disc that does not burn or verify waits for the operator.
DiscFails ==
    /\ \/ wf = "verify" /\ ~Verified /\ UNCHANGED faults
       \/ wf \in {"burn", "verify"} /\ faults < MaxFaults /\ faults' = faults + 1
    /\ wf' = "pause" /\ tray' = NoDisc
    /\ UNCHANGED <<run, at, ren, lost, files, discs, attempts, posts, resumes>>

Resume ==
    /\ wf = "pause" /\ resumes < MaxResumes /\ resumes' = resumes + 1 /\ wf' = "burn"
    /\ UNCHANGED <<run, at, ren, lost, files, burn, attempts, posts, faults>>

\* An abort, or nobody answers in time.
GivenUp ==
    /\ wf = "pause" /\ wf' = "failed"
    /\ UNCHANGED <<run, at, ren, lost, files, burn, attempts, posts, faults, resumes>>

-----------------------------------------------------------------------------
(* Deliver *)

\* writeHealthProblems: tapes that could not be judged are left to the report.
WriteHealthProblems == {t.barcode : t \in {u \in Range(run.written) : u.health = "poor"}}

\* deliverySummary, with the report it is posted with.
Message(report) ==
    [report |-> report, dryRun |-> run.dryRun, tapes |-> {t.barcode : t \in Range(run.written)},
     problems |-> WriteHealthProblems]

\* Mutant: attempts have no maximum, so that counting them means nothing.
MutThisAttempt == IF attempts = 0 THEN 1 ELSE attempts
\* The attempts deliverMaxAttempts bounds.
ThisAttempt == attempts + 1

\* RetryPolicy.MaximumAttempts.
AttemptsLeft == attempts < DeliverMaxAttempts

\* SendFile reads the report; without a webhook there is nothing to do.
Deliver ==
    /\ wf = "deliver" /\ at = "start" /\ old = Idle
    /\ attempts' = ThisAttempt
    /\ \/ run.webhook /\ at' = "post" /\ ren' = pdf /\ UNCHANGED wf
       \/ ~run.webhook /\ wf' = "ok" /\ at' = Idle /\ UNCHANGED ren
    /\ UNCHANGED <<run, lost, files, burn, posts, faults, resumes>>

\* The webhook takes the message; the answer is still under way.
Accepted ==
    /\ at = "post" /\ at' = "accepted"
    /\ posts' = posts \o SetToSeq({Message(x) : x \in ren})
    /\ UNCHANGED <<run, wf, ren, lost, files, burn, attempts, faults, resumes>>

Statuses == {"none", "429", "5xx", "other"}

\* doReturningBody: an answer with another status than 2xx is an error.
Succeeded(status) == status = "2xx"

\* StatusError.Retryable, and every error that is not a status.
Retryable(status) == status \in {"none", "429", "5xx"}

\* How the attempt ends on an answer; the guild lookup that follows a success
\* and a body that does not parse change nothing but the link.
Ends(status) ==
    /\ ren' = {}
    /\ \/ Succeeded(status) /\ wf' = "ok" /\ at' = Idle
       \/ ~Succeeded(status) /\ Retryable(status) /\ AttemptsLeft /\ at' = "start" /\ UNCHANGED wf
       \/ ~Succeeded(status) /\ ~(Retryable(status) /\ AttemptsLeft) /\ wf' = "failed" /\ at' = Idle
    /\ UNCHANGED <<run, lost, files, burn, attempts, posts, faults, resumes>>

\* No answer ("none": transport, timeout, or the worker gone), or one that refuses.
Refused == at = "post" /\ \E status \in Statuses : Ends(status)

\* The answer to an accepted message, which may be lost.
Answered == at = "accepted" /\ \E status \in {"2xx", "none"} : Ends(status)

-----------------------------------------------------------------------------
Done == wf \in Terminal /\ UNCHANGED vars

Next ==
    \/ EscrowFails \/ BuildReport \/ RebuildReport \/ AttemptFails \/ AttemptLost
    \/ LostStep \/ LostStops
    \/ BurnDisc \/ VerifyDisc \/ DiscFails \/ Resume \/ GivenUp
    \/ Deliver \/ Accepted \/ Refused \/ Answered
    \/ Done

\* Attempts run and lost ones end, the operator's wait is bounded, every request is
\* answered or times out; faults, and that the operator answers, are not assumed.
Spec ==
    /\ Init /\ [][Next]_vars
    /\ WF_vars(EscrowFails \/ BuildReport \/ RebuildReport) /\ WF_vars(LostStops)
    /\ WF_vars(BurnDisc) /\ WF_vars(VerifyDisc \/ (DiscFails /\ wf = "verify")) /\ WF_vars(GivenUp)
    /\ WF_vars(Deliver) /\ WF_vars(Refused \/ Answered)

-----------------------------------------------------------------------------
(* Properties *)

Report ==
    [tapes : SUBSET {[barcode |-> t.barcode, contents |-> c, health |-> t.health] :
                       t \in Range(run.written), c \in Range(run.plan)},
     discs : BoundedSeq(BOOLEAN, run.copies),
     generation : {t.generation : t \in Range(run.written)} \cup {"mixed", "unknown"}, device : Devices,
     identity : Escrows, dryRun : BOOLEAN]

\* Every variable is of its type; Deliver is never attempted more often than its policy says.
TypeOK ==
    /\ run \in Runs /\ wf \in {"report", "burn", "verify", "pause", "rebuild", "deliver"} \cup Terminal
    /\ at \in BuildSteps \cup {Idle, "start", "post", "accepted"} /\ old \in BuildSteps \cup {Idle}
    /\ \A set \in {ren, oldRen, pdf} : Cardinality(set) <= 1 /\ set \subseteq Report
    /\ Cardinality(iso) <= 1 /\ Cardinality(man) <= 1 /\ Cardinality(tray.holds) <= 1
    /\ overlapped \in BOOLEAN /\ tray.overwrote \in BOOLEAN /\ Len(discs) <= run.copies
    /\ attempts \in 0..DeliverMaxAttempts /\ Len(posts) <= attempts
    /\ faults \in 0..MaxFaults /\ resumes \in 0..MaxResumes

\* Reads(x): the contents found on a disc, whatever their names.
Reads(x) == {x[n] : n \in DOMAIN x}

\* A disc that passed verification holds the whole kit, whichever attempts built and
\* overlapped: the index of every written tape, although barcodes may become the same
\* name on the disc, a report that lists them, and tools that run on a bare machine.
VerifiedIsKit ==
    \A k \in DOMAIN discs : \A x \in discs[k].holds :
        /\ \A t \in Range(run.written) : [indexOf |-> t.barcode] \in Reads(x)
        /\ \E r \in {c.report : c \in {y \in Reads(x) : "report" \in DOMAIN y}} :
                {u.barcode : u \in r.tapes} = {t.barcode : t \in Range(run.written)}
        /\ \A n \in DOMAIN x : n.dir = "bin" => x[n].kind = "static"
        /\ \E n \in DOMAIN x : n.dir = "bin"
        /\ \E n \in DOMAIN x : n.dir = "src"

\* A disc burned as it should be passes: the manifest names every file the way the disc
\* reads back, so no good disc is refused and the operator is not asked to burn in vain.
\* (Not so when a lost attempt overwrites the files of the one that succeeded.)
GoodDiscPasses ==
    wf = "burn" /\ ~overlapped => \E x \in iso, m \in man : VerifyTree(x, m)

\* The report and the summary of every message posted agree with what was written, with
\* each other, and with the report and the digests on the discs: the same tapes with the
\* archives really on them, the tapes of poor health named, a rehearsal called one.
DeliveredTrue ==
    \A k \in DOMAIN posts :
        LET msg == posts[k]
            rep == msg.report
        IN  /\ \A t \in Range(run.written) : \E u \in rep.tapes :
                    u.barcode = t.barcode /\ u.contents = run.plan[t.tapeIndex] /\ u.health = t.health
            /\ msg.tapes = {u.barcode : u \in rep.tapes}
            /\ msg.problems = {u.barcode : u \in {v \in rep.tapes : v.health = "poor"}}
            /\ msg.dryRun = run.dryRun /\ rep.dryRun = run.dryRun
            /\ rep.generation \notin {"mixed", "unknown"} =>
                    \A t \in Range(run.written) : t.generation = rep.generation
            /\ \A d \in DOMAIN discs : \A x \in discs[d].holds : \A c \in Reads(x) :
                    /\ "report" \in DOMAIN c => c.report.tapes = rep.tapes
                    /\ "sums" \in DOMAIN c => \A u \in rep.tapes :
                            u.contents = {s.archive : s \in {l \in c.sums : l.barcode = u.barcode}}

\* A report that leaves the system names the discs burned before it, each with whether a
\* used disc was reclaimed for it.
DeliveredNamesDiscs ==
    \A k \in DOMAIN posts :
        posts[k].report.discs = [d \in DOMAIN discs |-> discs[d].overwrote] /\ Len(discs) = run.copies

\* Whatever leaves the system, a disc or a message, carries an identity that decrypts the
\* archives; a run without one writes neither a report nor an ISO.
EscrowHolds ==
    /\ \A k \in DOMAIN posts : posts[k].report.identity = "match"
    /\ \A k \in DOMAIN discs : \A x \in discs[k].holds : \A c \in Reads(x) :
            "report" \in DOMAIN c => c.report.identity = "match"
    /\ run.escrow # "match" => pdf = {} /\ iso = {}

\* A run that succeeds has posted its report, if it has a webhook, and burned its discs.
OkMeansDelivered ==
    wf = "ok" => (run.webhook => posts # <<>>) /\ Len(discs) = run.copies /\ pdf # {}

\* Every run comes to an end, however the webhook answers, unless an error that no retry
\* can mend is retried without limit: the kit cannot be built, or the identity is present
\* but does not parse.
RunEnds == (run.copies = 0 \/ Buildable) /\ EscrowParses ~> wf \in Terminal

\* Verification tells good discs from bad ones: what passes is a whole kit, and a
\* disc burned as it should be passes.
DiscsSound == TypeOK /\ VerifiedIsKit /\ GoodDiscPasses

\* What a run delivers is true of its tapes and its discs, and a run that succeeds
\* has delivered it.
DeliveredSound == DeliveredTrue /\ DeliveredNamesDiscs /\ OkMeansDelivered
=============================================================================

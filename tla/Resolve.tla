------------------------------ MODULE Resolve ------------------------------
(***************************************************************************)
(* The Resolve phase (workflows/backup/resolve.go, pkg/k8ssnap, pkg/zfs):  *)
(* the configured sources become a work list of archives.  ZFS property    *)
(* sources are expanded on the data worker, PersistentVolumeClaim          *)
(* selectors on the control worker; k8s sources are then resolved on the   *)
(* control worker, and everything is verified and sized against the pool   *)
(* on the data worker.  The pool and the cluster change meanwhile.         *)
(*                                                                         *)
(* Each activity goes through its sources one step at a time and starts    *)
(* over when it fails, MaxAttempts times.  MaxChanges bounds the changes   *)
(* of the pool and the cluster, MaxErrors the commands that fail.          *)
(***************************************************************************)
EXTENDS Integers, Sequences, FiniteSets, SequencesExt

CONSTANTS
    Cases,        \* the sources to choose from, each list with the state of the
                  \* pool [local, forged, snaps] and cluster [claims, vsnaps]
    Later,        \* snapshots that may be taken during the phase
    Staging,      \* the filesystem that holds the staging directory
    Managed,      \* the datasets democratic-csi manages
    LogicalOf,    \* LogicalOf[d]: logicalreferenced
    Sanitize,     \* Sanitize[raw]: the label of a raw name
    TooLong,      \* member names no file system can create
    Capacity, RunTarget, ArchiveTarget, SliceUnit, SliceBudget,
    MaxAttempts, MaxChanges, MaxErrors

Live == <<>>             \* no snapshot name: the dataset itself
RunSnapshot == <<0>>     \* RunSnapshotName
NoPVC == 0               \* a snapshot with no source claim
Selector == 0            \* the name of a group, its selector

\* Names are numbers; those of datasets, snapshots and labels are sequences.
Names == Seq(Nat)
Source ==
    [kind : {"path"}, ds : Names, snap : Names] \cup [kind : {"newest"}, ds : Names, prefix : Names]
    \cup [kind : {"property"}, under : Names] \cup [kind : {"claimSelector"}]
    \cup [kind : {"claim"}, ns : Nat, name : Nat \ {NoPVC}, label : Names]
    \cup [kind : {"snapshot"}, ns : Nat, name : Nat] \cup [kind : {"group"}, newest : BOOLEAN]

EverySnapshot == Later \cup UNION {c.pool.snaps : c \in Cases}
EveryClaim == UNION {c.cluster.claims : c \in Cases}
EveryVolumeSnapshot == UNION {c.cluster.vsnaps : c \in Cases}

ASSUME ResolveAssumption ==
    /\ {RunTarget, ArchiveTarget, SliceUnit, MaxAttempts} \subseteq Nat \ {0}
    /\ {Capacity, SliceBudget, MaxChanges, MaxErrors} \subseteq Nat
    /\ DOMAIN LogicalOf \subseteq Names /\ \A d \in DOMAIN LogicalOf : LogicalOf[d] \in Nat

\* The pool and the cluster are finite; what is in them has a name that is not
\* the run's own snapshot's, and a dataset's snapshot is told by its name.
ASSUME CasesAssumption ==
    /\ \A c \in Cases :
          /\ c.sources \in Seq(Source) /\ IsFiniteSet(c.pool.snaps)
          /\ IsFiniteSet(c.cluster.claims) /\ IsFiniteSet(c.cluster.vsnaps)
    /\ \A x \in EverySnapshot :
          /\ x.ds \in DOMAIN LogicalOf /\ x.name \in Names \ {Live, RunSnapshot}
          /\ x.time \in Nat /\ x.txg \in Nat
    /\ \A x, y \in EverySnapshot : x.ds = y.ds /\ x.name = y.name => x = y
    /\ \A c \in EveryClaim :
          DOMAIN c = {"ns", "name", "ds", "bound", "picked"} /\ c.ns \in Nat /\ c.name \in Nat \ {NoPVC}
    /\ \A v \in EveryVolumeSnapshot :
          /\ DOMAIN v = {"ns", "name", "pvc", "ds", "snap", "ready", "time"}
          /\ v.ns \in Nat /\ v.name \in Nat \ {0} /\ v.time \in Nat

VARIABLES
    pc,         \* property, confirm, claims, k8s, data, done, failed
    configured, \* cfg.Sources as submitted
    sources,    \* cfg.Sources, as expanded so far
    origin,     \* origin[i]: the configured source that sources[i] comes from
    at,         \* the source the activity has reached
    records,    \* the listed records still to be confirmed
    matches,    \* what the selector activity has collected, by source
    k8s,        \* what ResolveK8sSources has resolved, by source
    resolved,   \* the work list so far
    tries, reason,
    local,      \* datasets with the property set locally to the value asked
    forged,     \* a record that another value's newline fabricates, or none
    snaps,      \* the pool's snapshots: [ds, name, time, txg]
    claims,     \* the cluster's claims: [ns, name, ds, bound, picked by a selector]
    vsnaps,     \* its VolumeSnapshots: [ns, name, pvc, ds, snap, ready, time]
    everLocal, alwaysLocal,    \* history: selected at some time, all the time
    alwaysSnaps, alwaysReady,  \* history: there, and ready, all the time
    changes, errors

env == <<local, forged, snaps, claims, vsnaps>>
history == <<everLocal, alwaysLocal, alwaysSnaps, alwaysReady>>
work == <<pc, configured, sources, origin, at, records, matches, k8s, resolved, tries, reason>>
resolveVars == <<work, env, history, changes, errors>>

CeilDiv(n, d) == (n + d - 1) \div d
IsClaim(s) == s.kind \in {"claim", "claimSelector"}
IsK8s(s) == IsClaim(s) \/ s.kind \in {"snapshot", "group"}
Has(kind) == \E i \in DOMAIN sources : sources[i].kind = kind

\* A run without property sources goes straight to the claims, one without
\* claims straight to the k8s sources.
AfterProperty(ss) == IF \E i \in DOMAIN ss : IsClaim(ss[i]) THEN "claims" ELSE "k8s"

ResolveInit ==
    /\ \E c \in Cases :
          /\ configured = c.sources /\ sources = c.sources /\ origin = [i \in DOMAIN c.sources |-> i]
          /\ local = c.pool.local /\ forged = c.pool.forged /\ snaps = c.pool.snaps
          /\ claims = c.cluster.claims /\ vsnaps = c.cluster.vsnaps
    /\ pc = IF Has("property") THEN "property" ELSE AfterProperty(sources)
    /\ at = 1 /\ records = {} /\ matches = <<>> /\ k8s = <<>> /\ resolved = <<>>
    /\ tries = 1 /\ reason = "none" /\ changes = 0 /\ errors = 0
    /\ everLocal = local /\ alwaysLocal = local /\ alwaysSnaps = snaps
    /\ alwaysReady = {v \in vsnaps : v.ready}

-----------------------------------------------------------------------------
(* Activities *)

Begins(next) == pc' = next /\ at' = 1 /\ tries' = 1 /\ records' = {} /\ UNCHANGED reason

Fails(why) == pc' = "failed" /\ reason' = why /\ UNCHANGED <<at, tries, records>>

\* Mutant: attempts are not counted.
MutUncounted(why) ==
    /\ matches' = <<>> /\ k8s' = (IF pc = "k8s" THEN <<>> ELSE k8s) /\ resolved' = <<>>
    /\ at' = 1 /\ records' = {} /\ pc' = (IF pc = "confirm" THEN "property" ELSE pc)
    /\ UNCHANGED <<sources, origin, tries, reason>>
\* An attempt ends in an error: the next one starts from the first source, with
\* nothing of what this one collected.
AttemptFails(why) ==
    /\ matches' = <<>> /\ UNCHANGED <<sources, origin>>
    /\ k8s' = IF pc = "k8s" THEN <<>> ELSE k8s
    /\ resolved' = <<>>
    /\ IF tries < MaxAttempts
       THEN /\ tries' = tries + 1 /\ at' = 1 /\ records' = {} /\ UNCHANGED reason
            /\ pc' = IF pc = "confirm" THEN "property" ELSE pc
       ELSE Fails(why)

\* A zfs command or an API call fails.
CommandFails ==
    /\ pc \notin {"done", "failed"} /\ errors < MaxErrors /\ errors' = errors + 1
    /\ pc = "claims" => Has("claimSelector")
    /\ AttemptFails("command") /\ UNCHANGED <<configured, env, history, changes>>

-----------------------------------------------------------------------------
(* ResolvePropertySources *)

\* At or below the root a source is limited to.
DatasetWithin(d, root) == IsPrefix(root, d)

\* The staging dataset and its descendants are never selected.
NotStaged(d) == ~IsPrefix(Staging, d)

\* LocalProperty: the datasets that have it, and a record another value forges.
ListRecords ==
    LET s == sources[at] IN
    /\ pc = "property" /\ s.kind = "property"
    /\ records' = {d \in local \cup forged : DatasetWithin(d, s.under) /\ NotStaged(d)}
    /\ matches' = Append(matches, <<>>)
    /\ pc' = "confirm" /\ UNCHANGED <<sources, origin, at, k8s, resolved, tries, reason>>
    /\ UNCHANGED <<configured, env, history, changes, errors>>

\* Mutant: a listed record is taken as it is.
MutConfirmed(d) == TRUE
\* The value and its source are read again, by name.
Confirmed(d) == d \in local

Confirm ==
    LET d == CHOOSE x \in records : TRUE IN
    /\ pc = "confirm" /\ records # {}
    /\ \/ /\ d \in DOMAIN LogicalOf /\ records' = records \ {d}
          /\ matches' = IF Confirmed(d) THEN [matches EXCEPT ![at] = Append(@, d)] ELSE matches
          /\ UNCHANGED <<pc, sources, origin, at, k8s, resolved, tries, reason>>
       \/ d \notin DOMAIN LogicalOf /\ AttemptFails("no such dataset")
    /\ UNCHANGED <<configured, env, history, changes, errors>>

\* Where the matches are, <<source, match>>, in the order of the list.
PlacesIn(each, i) == [j \in DOMAIN each[i] |-> <<i, j>>]
Places(each) ==
    LET upto[i \in 0..Len(each)] == IF i = 0 THEN <<>> ELSE upto[i - 1] \o PlacesIn(each, i)
    IN  upto[Len(each)]

\* expandPropertySources, expandClaimSources: each source is replaced by its
\* own matches, in place.
Expanded(each) == [k \in DOMAIN Places(each) |-> each[Places(each)[k][1]][Places(each)[k][2]]]

\* The configured source of each expanded one.
Origins(each) == [k \in DOMAIN Places(each) |-> origin[Places(each)[k][1]]]

\* The path sources of the datasets a property source matched.
Paths(m) == [j \in DOMAIN m |-> [kind |-> "path", ds |-> m[j], snap |-> Live]]

PropertyNext ==
    LET last == at = Len(sources)
        none == sources[at].kind = "property" /\ matches[at] = <<>>
        each == [i \in DOMAIN sources |->
                   IF sources[i].kind = "property" THEN Paths(matches[i]) ELSE <<sources[i]>>]
    IN
    /\ \/ pc = "confirm" /\ records = {}
       \/ pc = "property" /\ sources[at].kind # "property"
    /\ IF none THEN Fails("no match") /\ UNCHANGED <<sources, origin, matches>>
       ELSE LET got == IF pc = "confirm" THEN matches ELSE Append(matches, <<>>) IN
            IF last
            THEN /\ sources' = Expanded(each) /\ origin' = Origins(each) /\ matches' = <<>>
                 /\ Begins(AfterProperty(sources'))
            ELSE /\ at' = at + 1 /\ pc' = "property" /\ matches' = got
                 /\ UNCHANGED <<sources, origin, tries, reason, records>>
    /\ UNCHANGED <<configured, k8s, resolved, env, history, changes, errors>>

-----------------------------------------------------------------------------
(* ListClaimSources and the claims' labels *)

\* ListClaims: the claims a selector picks, by namespace and name.
Picked == {c \in claims : c.picked}
ListedBefore(a, b) == a.ns < b.ns \/ (a.ns = b.ns /\ a.name < b.name)
Listed == {q \in [1..Cardinality(Picked) -> Picked] :
             \A i, j \in DOMAIN q : i < j => ListedBefore(q[i], q[j])}

Claim(c) == [kind |-> "claim", ns |-> c.ns, name |-> c.name, label |-> <<>>]
ClaimsOf(listed) == [j \in DOMAIN listed |-> Claim(listed[j])]

\* sourceLabel.
SourceLabel(s) ==
    Sanitize[CASE IsClaim(s) -> IF s.label # <<>> THEN s.label ELSE <<s.name>>
               [] s.kind \in {"path", "newest"} -> <<Last(s.ds)>>
               [] s.kind = "snapshot" -> <<s.name>>
               [] OTHER -> <<Selector>>]

\* An unlabelled claim whose name another namespace uses too is labelled with
\* its namespace.
Labelled(ss) ==
    [i \in DOMAIN ss |->
       IF IsClaim(ss[i]) /\ ss[i].label = <<>>
          /\ \E j \in DOMAIN ss : IsClaim(ss[j]) /\ ss[j].name = ss[i].name /\ ss[j].ns # ss[i].ns
       THEN [ss[i] EXCEPT !.label = <<ss[i].ns, ss[i].name>>] ELSE ss[i]]

\* Mutant: labels are compared as given, before they are cut to length.
MutLabelsCollide(ss, before) ==
    \E i, j \in DOMAIN ss : IsClaim(ss[i]) /\ IsClaim(ss[j]) /\ ss[i].label # <<>>
        /\ ss[i].label = ss[j].label /\ <<ss[i].ns, ss[i].name>> # <<ss[j].ns, ss[j].name>>
\* Two different claims, labelled by their names, get the same label.
LabelsCollide(ss, before) ==
    \E i, j \in DOMAIN ss :
       /\ IsClaim(ss[i]) /\ IsClaim(ss[j]) /\ before[i].label = <<>> /\ before[j].label = <<>>
       /\ SourceLabel(ss[i]) = SourceLabel(ss[j])
       /\ <<ss[i].ns, ss[i].name>> # <<ss[j].ns, ss[j].name>>

ClaimsExpand == \E listed \in Listed :
    LET each == [i \in DOMAIN sources |->
                   IF sources[i].kind = "claimSelector" THEN ClaimsOf(listed) ELSE <<sources[i]>>]
        plain == Expanded(each)
    IN
    /\ pc = "claims"
    /\ IF Has("claimSelector") /\ Picked = {} THEN Fails("no match") /\ UNCHANGED <<sources, origin>>
       ELSE IF LabelsCollide(Labelled(plain), plain) THEN Fails("labels") /\ UNCHANGED <<sources, origin>>
       ELSE sources' = Labelled(plain) /\ origin' = Origins(each) /\ Begins("k8s")
    /\ UNCHANGED <<configured, matches, k8s, resolved, env, history, changes, errors>>

-----------------------------------------------------------------------------
(* ResolveK8sSources *)

\* isNewer: a later creation, or a greater name at the same one.
IsNewer(a, b) == a.time > b.time \/ (a.time = b.time /\ a.name > b.name)

\* newestPerPVC: each claim's newest ready snapshot; a claim with none is
\* skipped.
NewestPerPVC(vs) ==
    {v \in vs : v.ready /\ ~\E w \in vs : w.ready /\ w.ns = v.ns /\ w.pvc = v.pvc /\ IsNewer(w, v)}

Snapshot(v) == [ds |-> v.ds, snap |-> v.snap, ns |-> v.ns, pvc |-> v.pvc, vs |-> v.name]
MemberName(s) == <<s.ns, IF s.pvc # NoPVC THEN <<s.pvc>> ELSE <<Last(s.ds)>>>>

\* checkMemberNames: two members would share a subdirectory.
MembersCollide(ms) == \E m, n \in ms : m # n /\ MemberName(m) = MemberName(n)

Archive(i, found, size) ==
    [index |-> i, label |-> SourceLabel(sources[i]), snaps |-> found, size |-> size]

\* What a source resolves to, or why it does not.  An error that is final is not
\* retried.
Error(why, final) == [error |-> why, final |-> final, snaps |-> {}]
Found(members) == [error |-> "none", final |-> FALSE, snaps |-> members]

\* ResolveClaim: the claim's volume, live.
ResolveClaim(s) ==
    LET claim == {c \in claims : <<c.ns, c.name>> = <<s.ns, s.name>>}
    IN  IF claim = {} THEN Error("claim", FALSE)
        ELSE IF \E c \in claim : ~c.bound THEN Error("unsupported", TRUE)
        ELSE Found({[ds |-> c.ds, snap |-> Live, ns |-> c.ns, pvc |-> c.name, vs |-> 0] : c \in claim})

\* Resolve, ResolveGroup: the named VolumeSnapshot, or those the selector picks.
ResolveGroup(s) ==
    LET all == IF s.kind = "group" THEN vsnaps ELSE {v \in vsnaps : <<v.ns, v.name>> = <<s.ns, s.name>>}
        newest == s.kind = "group" /\ s.newest
        picked == IF newest THEN NewestPerPVC(all) ELSE all
    IN  IF picked = {} \/ \E v \in picked : ~v.ready THEN Error("snapshot", FALSE)
        ELSE IF newest /\ \E v \in all : v.pvc = NoPVC THEN Error("no claim", FALSE)
        ELSE Found({Snapshot(v) : v \in picked})

\* resolveK8sSource: a group's members need names that fit and differ.
ResolveK8sSource(i) ==
    LET s == sources[i]  r == IF IsClaim(s) THEN ResolveClaim(s) ELSE ResolveGroup(s)
    IN  IF r.error # "none" \/ s.kind # "group" THEN r
        ELSE IF \E m \in r.snaps : MemberName(m) \in TooLong THEN Error("too long", TRUE)
        ELSE IF MembersCollide(r.snaps) THEN Error("members", TRUE)
        ELSE r

K8sSource ==
    LET r == ResolveK8sSource(at) IN
    /\ pc = "k8s" /\ at <= Len(sources)
    /\ IF ~IsK8s(sources[at])
       THEN at' = at + 1 /\ UNCHANGED <<pc, sources, origin, matches, k8s, resolved, tries, reason, records>>
       ELSE IF r.error # "none"
       THEN IF r.final THEN Fails(r.error) /\ UNCHANGED <<sources, origin, matches, k8s, resolved>>
            ELSE AttemptFails(r.error)
       ELSE /\ k8s' = Append(k8s, Archive(at, r.snaps, 0)) /\ at' = at + 1
            /\ UNCHANGED <<pc, sources, origin, matches, resolved, tries, reason, records>>
    /\ UNCHANGED <<configured, env, history, changes, errors>>

K8sDone ==
    /\ pc = "k8s" /\ at > Len(sources) /\ Begins("data")
    /\ UNCHANGED <<configured, sources, origin, matches, k8s, resolved, env, history, changes, errors>>

-----------------------------------------------------------------------------
(* ResolveAndCheck *)

Exists(s) ==
    /\ s.ds \in DOMAIN LogicalOf
    /\ s.snap = Live \/ \E x \in snaps : x.ds = s.ds /\ x.name = s.snap

Candidates(s) == {x \in snaps : x.ds = s.ds /\ IsPrefix(s.prefix, x.name)}
LaterThan(y, x) == y.time > x.time \/ (y.time = x.time /\ y.txg > x.txg)

\* newestSnapshot: the latest creation, then the latest transaction group.
Newest(s) == {x \in Candidates(s) : ~\E y \in Candidates(s) : LaterThan(y, x)}

\* A snapshot named by its source, with no claim.
Raw(ds, name) == [ds |-> ds, snap |-> name, ns |-> 0, pvc |-> NoPVC, vs |-> 0]

\* What the data worker makes of a source, empty when it is not (or no longer)
\* there or not managed.
DataSnaps(i) ==
    LET s == sources[i]
        mine == {a \in Range(k8s) : a.index = i}
    IN  IF IsK8s(s)
        THEN IF mine # {} /\ \A a \in mine : \A x \in a.snaps : Exists(x) /\ x.ds \in Managed
             THEN (CHOOSE a \in mine : TRUE).snaps ELSE {}
        ELSE IF s.kind = "newest" THEN {Raw(s.ds, x.name) : x \in Newest(s)}
        ELSE {x \in {Raw(s.ds, s.snap)} : Exists(x)}

Sum(s) == LET t[i \in 0..Len(s)] == IF i = 0 THEN 0 ELSE t[i - 1] + s[i] IN t[Len(s)]

\* feasibilityEstimate, with the inflation of tar, compression and PAR2 in
\* LogicalOf.
Estimate(found) == Sum([i \in DOMAIN SetToSeq(found) |-> LogicalOf[SetToSeq(found)[i].ds]])

DataSource ==
    LET found == DataSnaps(at)  size == Estimate(found) IN
    /\ pc = "data" /\ at <= Len(sources)
    /\ IF found = {} THEN AttemptFails("missing")
       ELSE IF size > Capacity
       THEN Fails("infeasible") /\ UNCHANGED <<sources, origin, matches, k8s, resolved>>
       ELSE /\ resolved' = Append(resolved, Archive(at, found, size))
            /\ at' = at + 1
            /\ UNCHANGED <<pc, sources, origin, matches, k8s, tries, reason, records>>
    /\ UNCHANGED <<configured, env, history, changes, errors>>

Sizes(rs) == [i \in DOMAIN rs |-> rs[i].size]
MaxOf(s) == CHOOSE n \in Range(s) \cup {0} : \A m \in Range(s) : m <= n

\* Mutant: the largest archive is not taken into account.
MutDeriveSliceSize(sizes) ==
    LET raw == CeilDiv(Sum(sizes), RunTarget)
    IN  IF raw <= SliceUnit THEN SliceUnit ELSE CeilDiv(raw, SliceUnit) * SliceUnit
\* DeriveSliceSize: whole units, for at most RunTarget slices in all and
\* ArchiveTarget in one archive.
DeriveSliceSize(sizes) ==
    LET run == CeilDiv(Sum(sizes), RunTarget)
        one == CeilDiv(MaxOf(sizes), ArchiveTarget)
        raw == IF one > run THEN one ELSE run
    IN  IF raw <= SliceUnit THEN SliceUnit ELSE CeilDiv(raw, SliceUnit) * SliceUnit

\* checkPayloadBound.
PayloadFits(sizes) ==
    Sum([i \in DOMAIN sizes |-> CeilDiv(sizes[i], DeriveSliceSize(sizes))]) <= SliceBudget

\* planRunScopedSnapshots: every live dataset is read through the run's own
\* snapshot.
Frozen(x) == [x EXCEPT !.snap = IF x.snap = Live THEN RunSnapshot ELSE x.snap]
Planned(rs) == [i \in DOMAIN rs |-> [rs[i] EXCEPT !.snaps = {Frozen(x) : x \in rs[i].snaps}]]

DataDone ==
    /\ pc = "data" /\ at > Len(sources)
    /\ IF PayloadFits(Sizes(resolved))
       THEN /\ pc' = "done" /\ resolved' = Planned(resolved)
            /\ UNCHANGED <<sources, origin, at, records, matches, k8s, tries, reason>>
       ELSE AttemptFails("payload")
    /\ UNCHANGED <<configured, env, history, changes, errors>>

-----------------------------------------------------------------------------
(* The pool and the cluster *)

Change == pc \notin {"done", "failed"} /\ changes < MaxChanges /\ changes' = changes + 1

SetProperty(d) ==
    /\ Change
    /\ local' = IF d \in local THEN local \ {d} ELSE local \cup {d}
    /\ everLocal' = everLocal \cup local' /\ alwaysLocal' = alwaysLocal \cap local'
    /\ UNCHANGED <<work, forged, snaps, claims, vsnaps, alwaysSnaps, alwaysReady, errors>>

Prune(x) ==
    /\ Change /\ snaps' = snaps \ {x} /\ alwaysSnaps' = alwaysSnaps \ {x}
    /\ UNCHANGED <<work, local, forged, claims, vsnaps, everLocal, alwaysLocal, alwaysReady, errors>>

Take(x) ==
    /\ Change /\ x \notin snaps /\ snaps' = snaps \cup {x}
    /\ UNCHANGED <<work, local, forged, claims, vsnaps, history, errors>>

\* A VolumeSnapshot becomes ready, or goes with its ZFS snapshot.
VolumeSnapshotChanges(v) ==
    /\ Change
    /\ \/ ~v.ready /\ vsnaps' = (vsnaps \ {v}) \cup {[v EXCEPT !.ready = TRUE]}
          /\ UNCHANGED <<snaps, alwaysReady, alwaysSnaps>>
       \/ v.ready /\ vsnaps' = vsnaps \ {v} /\ alwaysReady' = alwaysReady \ {v}
          /\ snaps' = {x \in snaps : <<x.ds, x.name>> # <<v.ds, v.snap>>}
          /\ alwaysSnaps' = alwaysSnaps \cap snaps'
    /\ UNCHANGED <<work, local, forged, claims, everLocal, alwaysLocal, errors>>

ClaimChanges(c) ==
    /\ Change
    /\ \/ claims' = claims \ {c}
       \/ claims' = (claims \ {c}) \cup {[c EXCEPT !.bound = ~c.bound]}
    /\ UNCHANGED <<work, local, forged, snaps, vsnaps, history, errors>>

Stops == pc \in {"done", "failed"} /\ UNCHANGED resolveVars

Works == ListRecords \/ Confirm \/ PropertyNext \/ ClaimsExpand \/ K8sSource \/ K8sDone
         \/ DataSource \/ DataDone

ResolveNext ==
    \/ Works \/ CommandFails \/ Stops
    \/ \E d \in DOMAIN LogicalOf : SetProperty(d)
    \/ \E x \in snaps : Prune(x)
    \/ \E x \in Later : Take(x)
    \/ \E v \in vsnaps : VolumeSnapshotChanges(v)
    \/ \E c \in claims : ClaimChanges(c)

\* Activities are picked up and answer.
ResolveSpec == ResolveInit /\ [][ResolveNext]_resolveVars /\ WF_resolveVars(Works)

-----------------------------------------------------------------------------
(* Properties *)

\* Every variable has its type.
ResolveTypeOK ==
    /\ pc \in {"property", "confirm", "claims", "k8s", "data", "done", "failed"}
    /\ Len(origin) = Len(sources) /\ Range(origin) \subseteq DOMAIN configured
    /\ at \in 1..Len(sources) + 1 /\ tries \in 1..MaxAttempts
    /\ records \subseteq local \cup forged \cup everLocal
    /\ \A a \in Range(k8s) \cup Range(resolved) : a.index \in DOMAIN sources /\ a.snaps # {}
    /\ changes \in 0..MaxChanges /\ errors \in 0..MaxErrors

\* An archive is what a configured source asked for.
AsConfigured(a, s) ==
    \A x \in a.snaps :
       CASE s.kind = "path"     -> x.ds = s.ds /\ s.snap \in {Live, x.snap}
         [] s.kind = "newest"   -> x.ds = s.ds /\ x.snap # RunSnapshot /\ IsPrefix(s.prefix, x.snap)
         [] s.kind = "property" -> IsPrefix(s.under, x.ds)
         [] s.kind = "claim"    -> <<x.ns, x.pvc>> = <<s.ns, s.name>>
         [] s.kind = "claimSelector" -> x.pvc # NoPVC
         [] s.kind = "snapshot" -> <<x.ns, x.vs>> = <<s.ns, s.name>>
         [] OTHER               -> x.vs # 0

\* A work list has an archive for every configured source, and every archive is
\* numbered by, and holds what was asked by, the source it was expanded from.
WorkListFaithful ==
    pc = "done" =>
       /\ Range(origin) = DOMAIN configured
       /\ Len(resolved) = Len(sources)
       /\ \A i \in DOMAIN resolved :
             resolved[i].index = i /\ AsConfigured(resolved[i], configured[origin[i]])

ByProperty == {i \in DOMAIN resolved : configured[origin[i]].kind = "property"}

\* What a property source archives was selected while the phase ran, by a value
\* of its own and not by a record another value forged, and is not in the
\* staging area.
OnlySelected ==
    pc = "done" =>
       \A i \in ByProperty : \A x \in resolved[i].snaps : x.ds \in everLocal /\ ~IsPrefix(Staging, x.ds)

\* A dataset that is selected all through the phase is archived, unless it is
\* in the staging area.
AllSelected ==
    pc = "done" =>
       \A c \in DOMAIN configured : configured[c].kind = "property" =>
          \A d \in alwaysLocal :
             IsPrefix(configured[c].under, d) /\ ~IsPrefix(Staging, d)
                => \E i \in ByProperty : origin[i] = c /\ \E x \in resolved[i].snaps : x.ds = d

\* A source of a dataset's newest snapshot with a prefix gets none that is older
\* than one that was there all the time.
NewestChosen ==
    pc = "done" =>
       \A i \in DOMAIN resolved : configured[origin[i]].kind = "newest" =>
          \A x \in resolved[i].snaps :
             LET s == configured[origin[i]]
                 this == CHOOSE y \in EverySnapshot : y.ds = x.ds /\ y.name = x.snap
             IN  ~\E y \in alwaysSnaps : y.ds = s.ds /\ IsPrefix(s.prefix, y.name) /\ LaterThan(y, this)

\* A group archive by newest snapshot has a member for each claim with a
\* snapshot that was ready all the time, and it is not older than that.
NewestPerClaim ==
    pc = "done" =>
       \A i \in DOMAIN resolved :
          LET s == configured[origin[i]] IN
          s.kind = "group" /\ s.newest =>
             \A v \in alwaysReady : \E x \in resolved[i].snaps :
                /\ <<x.ns, x.pvc>> = <<v.ns, v.pvc>>
                /\ \E w \in EveryVolumeSnapshot : <<w.ns, w.name>> = <<x.ns, x.vs>> /\ w.time >= v.time

\* Two different claims that were not labelled by the operator are archived
\* under different labels.
LabelsTellApart ==
    pc = "done" =>
       \A i, j \in DOMAIN resolved :
          LET unlabelled(n) == LET s == configured[origin[n]] IN
                 s.kind = "claimSelector" \/ (s.kind = "claim" /\ s.label = <<>>)
              named(n) == {<<x.ns, x.pvc>> : x \in resolved[n].snaps}
          IN  unlabelled(i) /\ unlabelled(j) /\ named(i) # named(j) => resolved[i].label # resolved[j].label

\* The members of a group are archived under names that differ and that a
\* restore can create.
MembersDistinct ==
    pc = "done" =>
       \A i \in DOMAIN resolved : configured[origin[i]].kind = "group" =>
          /\ Cardinality({MemberName(x) : x \in resolved[i].snaps}) = Cardinality(resolved[i].snaps)
          /\ \A x \in resolved[i].snaps : MemberName(x) \notin TooLong

SlicesOf(size, slice) == CeilDiv(size, slice)

\* No archive has more slices than its target; and the bound on the metadata of
\* a run, an internal error, is met whenever the archives are no more than the
\* headroom left for rounding.
SlicesBounded ==
    /\ pc = "done" =>
          \A i \in DOMAIN resolved : SlicesOf(resolved[i].size, DeriveSliceSize(Sizes(resolved))) <= ArchiveTarget
    /\ reason = "payload" => Len(sources) > SliceBudget - RunTarget

\* No archive of the work list is read from a dataset that is still changing.
NoLiveReads ==
    pc = "done" => \A i \in DOMAIN resolved : \A x \in resolved[i].snaps : x.snap # Live

\* The phase ends, whatever changes meanwhile.
ResolveEnds == <>(pc \in {"done", "failed"})

\* The work list is what the configuration asks for: the right datasets, at
\* snapshots, the newest where that is asked, however the pool and the cluster
\* changed between two reads.
WorkListSound ==
    /\ ResolveTypeOK /\ NoLiveReads /\ WorkListFaithful
    /\ OnlySelected /\ AllSelected /\ NewestChosen /\ NewestPerClaim

\* What is archived from different places can be told apart on tape.
ToldApart == LabelsTellApart /\ MembersDistinct
=============================================================================

----------------------------- MODULE ReadAhead -----------------------------
(***************************************************************************)
(* The tar stage of Prepare (pkg/archive): a walk of each member's source  *)
(* tree runs ahead of the writer, reads small files in the background      *)
(* within a budget of memory and workers, and hands every entry to the     *)
(* writer through a bounded queue, in walk order.                          *)
(*                                                                         *)
(* A tree is a sequence of entries in walk order, each after its parent.   *)
(* An entry is one step of the writer; a small file's load is two, and a   *)
(* third in which its goroutine ends.  MaxFaults bounds failed writes.     *)
(***************************************************************************)
EXTENDS Naturals, Sequences, FiniteSets

CONSTANTS
    Trees,          \* Trees[m]: the source tree of member m
    Namings,        \* Namings: the subdirectories the members may ask for, in order
    Flaws,          \* the damage to choose from: [m, i, err] records, or {}
    Workers, MaxFile, Memory, Window,   \* readAhead's fields
    MaxFaults

Members == 1..Len(Trees)
Slots == UNION {1..Len(Trees[m]) : m \in Members}
Kinds == {"dir", "file", "symlink", "special"}
TreeEntry == [parent : Nat, kind : Kinds, size : Nat, dev : Nat, ino : Nat, sparse : BOOLEAN, zfs : BOOLEAN]
Loads == {"none", "start", "open", "done", "exited"}

ASSUME ReadAheadAssumption ==
    /\ Workers \in Nat \ {0} /\ MaxFile \in Nat /\ Memory \in Nat \ {0} /\ Window \in Nat \ {0}
    /\ MaxFaults \in Nat /\ Trees \in Seq(Seq(TreeEntry)) \ {<<>>}
    /\ \A m \in Members : \A i \in 1..Len(Trees[m]) :
          /\ Trees[m][i].parent \in 0..i - 1 /\ (Trees[m][i].parent = 0 <=> i = 1)

VARIABLES
    subdir,   \* the name each member asks for
    flaw,     \* the damaged entries of the source, with the call that fails
    member,   \* the member under way, 0 before validateMembers
    walk,     \* the walk's position: visit, mem, worker, send, error, closed
    pos,      \* the entry the walk has reached
    queue,    \* entries on their way to the writer, 0 for the walk's error
    load,     \* load[i]: the prefetch of entry i
    loadErr,  \* loadErr[i]: the error it recorded
    open,     \* prefetches that hold an open file
    memory, workers,   \* what is left of the semaphores
    writer,   \* recv, write, drain, or done
    cur,      \* the entry the writer is at
    links,    \* w.links: identity -> name of the entry that holds the data
    out,      \* the tar stream
    failed,   \* whether treeReadAhead is returning an error
    result,   \* what Tar returned
    cancelled, stopped,   \* ctx, and walkCtx on top of it
    faults

walkVars == <<walk, pos>>
loadVars == <<load, loadErr, open, memory, workers>>
outVars  == <<links, out>>
source   == <<subdir, flaw>>
vars == <<source, member, walkVars, queue, loadVars, writer, cur, outVars, failed, result,
          cancelled, stopped, faults>>

Tree == Trees[member]
Err(m, i) == IF \E f \in flaw : f.m = m /\ f.i = i
             THEN (CHOOSE f \in flaw : f.m = m /\ f.i = i).err ELSE "none"
WalkDone == cancelled \/ stopped

Init ==
    /\ subdir \in Namings /\ flaw \in Flaws
    /\ member = 0 /\ walk = "closed" /\ pos = 0 /\ queue = <<>>
    /\ load = [i \in Slots |-> "none"] /\ loadErr = [i \in Slots |-> "none"] /\ open = {}
    /\ memory = Memory /\ workers = Workers
    /\ writer = "done" /\ cur = 0 /\ links = {} /\ out = <<>>
    /\ failed = FALSE /\ result = "none" /\ cancelled = FALSE /\ stopped = FALSE /\ faults = 0

-----------------------------------------------------------------------------
(* What is archived *)

\* walkTree: the root's .zfs directory is skipped, and a file system mounted
\* inside the tree is visited but not entered.
Visited(t) ==
    LET v[i \in 1..Len(t)] ==
          \/ i = 1
          \/ LET e == t[i]  p == t[i].parent IN
             /\ ~(e.kind = "dir" /\ e.zfs /\ p = 1)
             /\ v[p] /\ (p = 1 \/ t[p].dev = t[1].dev)
    IN  {i \in 1..Len(t) : v[i]}

\* hardlinkID: only an inode with several links has one.
HardlinkID(e) == <<e.dev, e.ino>>
Linked(e) == e.kind = "file" /\ e.ino # 0

\* Mutant: a file as large as the budget is read ahead.
MutEligible(m, i) ==
    LET e == Trees[m][i] IN
    e.kind = "file" /\ Err(m, i) # "info" /\ ~Linked(e) /\ e.size < MaxFile /\ e.size <= Memory
\* eligible: a small regular file that is not hard-linked.
Eligible(m, i) ==
    LET e == Trees[m][i] IN
    e.kind = "file" /\ Err(m, i) # "info" /\ ~Linked(e) /\ e.size < MaxFile /\ e.size < Memory

\* One entry of the stream: the name of member m's entry i, and what it is.
Entry(m, i, what, link) == [name |-> <<subdir[m], i>>, m |-> m, what |-> what, link |-> link]

\* writeEntry, writeRegularFile: what entry i adds to the stream and to the
\* links known so far, and whether it fails.  A failure after the header
\* leaves a torn entry.
WriteEntry(m, i, known, err) ==
    LET e == Trees[m][i]  id == HardlinkID(e)
        Emits(what, link, k, fails) ==
            [out |-> <<Entry(m, i, what, link)>>, links |-> k, fails |-> fails]
        nothing == [out |-> <<>>, links |-> known, fails |-> err \in {"info", "open", "probe", "readlink"}]
    IN  IF nothing.fails \/ e.kind = "special" THEN nothing
        ELSE IF e.kind # "file" THEN Emits(e.kind, <<>>, known, FALSE)
        ELSE IF Linked(e) /\ \E k \in known : k.id = id
             THEN Emits("link", (CHOOSE k \in known : k.id = id).name, known, FALSE)
        ELSE Emits(IF err = "read" THEN "torn" ELSE "file", <<>>,
                   known \cup (IF Linked(e) THEN {[id |-> id, name |-> <<subdir[m], i>>]} ELSE {}),
                   err \in {"read", "close"})

\* The serial path, tarWriter.tree: what entry i adds to a stream so far.  The
\* first entry that fails is the last.
SerialEntry(m, i, so) ==
    IF so.fails \/ i \notin Visited(Trees[m]) THEN so
    ELSE IF Err(m, i) = "walk" THEN [so EXCEPT !.fails = TRUE]
    ELSE LET w == WriteEntry(m, i, so.links, Err(m, i))
         IN  [out |-> so.out \o w.out, links |-> w.links, fails |-> w.fails]

\* The stream after each entry of member m.
SerialTree(m, before) ==
    LET after[i \in 0..Len(Trees[m])] == IF i = 0 THEN before ELSE SerialEntry(m, i, after[i - 1])
    IN  after

\* The stream after each member.
SerialMembers ==
    LET after[m \in 0..Len(Trees)] ==
          IF m = 0 THEN [out |-> <<>>, links |-> {}, fails |-> FALSE]
          ELSE SerialTree(m, after[m - 1])[Len(Trees[m])]
    IN  after
Serial == SerialMembers[Len(Trees)]

-----------------------------------------------------------------------------
(* The call *)

\* treeReadAhead starts on a member with fresh budgets.
BeginTree(m) ==
    /\ member' = m /\ walk' = "visit" /\ pos' = 1 /\ queue' = <<>>
    /\ load' = [i \in Slots |-> "none"] /\ loadErr' = [i \in Slots |-> "none"] /\ open' = {}
    /\ memory' = Memory /\ workers' = Workers
    /\ writer' = "recv" /\ cur' = 0 /\ stopped' = FALSE

\* validateMembers: every subdirectory is named, and none twice.
MembersValid ==
    /\ \A m \in Members : subdir[m] # ""
    /\ \A m, n \in Members : m # n => subdir[m] # subdir[n]

\* TarMembers up to its first tree.
TarMembers ==
    /\ member = 0 /\ result = "none"
    /\ \/ MembersValid /\ BeginTree(1) /\ UNCHANGED result
       \/ /\ ~MembersValid /\ result' = "err"
          /\ UNCHANGED <<member, walkVars, queue, loadVars, writer, cur, stopped>>
    /\ UNCHANGED <<source, outVars, failed, cancelled, faults>>

-----------------------------------------------------------------------------
(* The walk *)

Reaches(w, p) == walk' = w /\ pos' = p
NextVisited == {i \in Visited(Tree) : i >= pos}

WalkVisit ==
    /\ walk = "visit"
    /\ IF WalkDone THEN Reaches("error", pos)
       ELSE IF NextVisited = {} THEN Reaches("closed", pos)
       ELSE LET i == CHOOSE j \in NextVisited : \A k \in NextVisited : j <= k IN
            IF Err(member, i) = "walk" THEN Reaches("error", i)
            ELSE Reaches(IF Eligible(member, i) THEN "mem" ELSE "send", i)
    /\ UNCHANGED <<source, member, queue, loadVars, writer, cur, outVars, failed, result,
                   cancelled, stopped, faults>>

Weight(i) == Tree[i].size + 1

\* startPrefetch: memory first, then a worker.
AcquireMemory ==
    /\ walk = "mem"
    /\ \/ memory >= Weight(pos) /\ memory' = memory - Weight(pos) /\ Reaches("worker", pos)
       \/ WalkDone /\ Reaches("error", pos) /\ UNCHANGED memory
    /\ UNCHANGED <<source, member, queue, load, loadErr, open, workers, writer, cur, outVars,
                   failed, result, cancelled, stopped, faults>>

AcquireWorker ==
    /\ walk = "worker"
    /\ \/ /\ workers > 0 /\ workers' = workers - 1 /\ load' = [load EXCEPT ![pos] = "start"]
          /\ Reaches("send", pos) /\ UNCHANGED memory
       \/ /\ WalkDone /\ memory' = memory + Weight(pos) /\ Reaches("error", pos)
          /\ UNCHANGED <<workers, load>>
    /\ UNCHANGED <<source, member, queue, loadErr, open, writer, cur, outVars, failed, result,
                   cancelled, stopped, faults>>

\* p.sparse: the open file is left to the writer, with the worker it counts for.
HandedBack(i) == Tree[i].sparse /\ loadErr[i] = "none"

\* Whether entry i was read ahead, and whether that has ended.
Prefetched(i) == i # 0 /\ load[i] # "none"
Loaded(i) == Prefetched(i) => load[i] \in {"done", "exited"}

\* queuedEntry.release: what entry i still holds goes back.
Release(i) ==
    IF Prefetched(i)
    THEN /\ Loaded(i) /\ open' = open \ {i} /\ memory' = memory + Weight(i)
         /\ workers' = IF HandedBack(i) THEN workers + 1 ELSE workers
    ELSE UNCHANGED <<open, memory, workers>>

\* Mutant: an entry that is not sent keeps what it holds.
MutSendFails == WalkDone /\ Reaches("error", pos) /\ UNCHANGED <<queue, open, memory, workers>>
SendFails == WalkDone /\ Release(pos) /\ Reaches("error", pos) /\ UNCHANGED queue

Send ==
    /\ walk = "send"
    /\ \/ /\ Len(queue) < Window /\ queue' = Append(queue, pos) /\ Reaches("visit", pos + 1)
          /\ UNCHANGED <<open, memory, workers>>
       \/ SendFails
    /\ UNCHANGED <<source, member, load, loadErr, writer, cur, outVars, failed, result,
                   cancelled, stopped, faults>>

\* The walk's error is queued, or dropped when nobody waits for it; the queue
\* is closed.
SendError ==
    /\ walk = "error" /\ Reaches("closed", pos)
    /\ \/ Len(queue) < Window /\ queue' = Append(queue, 0)
       \/ WalkDone /\ UNCHANGED queue
    /\ UNCHANGED <<source, member, loadVars, writer, cur, outVars, failed, result, cancelled,
                   stopped, faults>>

-----------------------------------------------------------------------------
(* prefetch.load, one goroutine per file *)

Load(i) ==
    /\ \/ /\ load[i] = "start"
          /\ LET err == IF WalkDone \/ Err(member, i) = "open" THEN "open" ELSE "none" IN
             /\ loadErr' = [loadErr EXCEPT ![i] = err]
             /\ load' = [load EXCEPT ![i] = IF err = "none" THEN "open" ELSE "done"]
             /\ open' = IF err = "none" THEN open \cup {i} ELSE open
          /\ UNCHANGED workers
       \/ /\ load[i] = "open" /\ load' = [load EXCEPT ![i] = "done"]
          /\ loadErr' = [loadErr EXCEPT ![i] =
                            IF Tree[i].sparse /\ Err(member, i) # "probe" THEN "none" ELSE Err(member, i)]
          /\ open' = IF Tree[i].sparse /\ Err(member, i) # "probe" THEN open ELSE open \ {i}
          /\ UNCHANGED workers
       \/ /\ load[i] = "done" /\ load' = [load EXCEPT ![i] = "exited"]
          /\ workers' = IF HandedBack(i) THEN workers ELSE workers + 1
          /\ UNCHANGED <<loadErr, open>>
    /\ UNCHANGED <<source, member, walkVars, queue, memory, writer, cur, outVars, failed, result,
                   cancelled, stopped, faults>>

-----------------------------------------------------------------------------
(* The writer *)

\* treeReadAhead returns: the walk is stopped and the queue drained.
Returns(err) == writer' = "drain" /\ failed' = err /\ stopped' = TRUE

\* The next entry, the walk's error, the end of the queue, or ctx is over.
Receive ==
    /\ writer = "recv"
    /\ \/ /\ queue # <<>> /\ queue' = Tail(queue) /\ cur' = Head(queue)
          /\ IF Head(queue) = 0 \/ cancelled
             THEN Release(Head(queue)) /\ Returns(TRUE)
             ELSE writer' = "write" /\ UNCHANGED <<open, memory, workers, failed, stopped>>
       \/ /\ queue = <<>> /\ walk = "closed" /\ Returns(cancelled)
          /\ UNCHANGED <<queue, cur, open, memory, workers>>
    /\ UNCHANGED <<source, member, walkVars, load, loadErr, outVars, result, cancelled, faults>>

\* Mutant: what the load met while it read is forgotten.
MutPrefetchErr(i) == IF loadErr[i] = "read" THEN "none" ELSE loadErr[i]
\* writePrefetched: the load's error in place of the writer's own.  A file that
\* was handed back is read by the writer.
PrefetchErr(i) == IF HandedBack(i) THEN Err(member, i) ELSE loadErr[i]

WriteFile ==
    /\ writer = "write" /\ Loaded(cur) /\ Release(cur)
    /\ LET w == WriteEntry(member, cur, links,
                           IF Prefetched(cur) THEN PrefetchErr(cur) ELSE Err(member, cur))
       IN  \/ /\ out' = out \o w.out /\ links' = w.links /\ UNCHANGED faults
              /\ IF w.fails THEN Returns(TRUE) ELSE writer' = "recv" /\ UNCHANGED <<failed, stopped>>
           \/ /\ w.out # <<>> /\ out' = out \o [k \in 1..1 |-> [w.out[k] EXCEPT !.what = "torn"]]
              /\ \/ cancelled /\ UNCHANGED faults
                 \/ faults < MaxFaults /\ faults' = faults + 1
              /\ Returns(TRUE) /\ UNCHANGED links
    /\ UNCHANGED <<source, member, walkVars, queue, load, loadErr, cur, result, cancelled>>

\* The deferred drain.
Drain ==
    /\ writer = "drain" /\ queue # <<>> /\ Release(Head(queue)) /\ queue' = Tail(queue)
    /\ UNCHANGED <<source, member, walkVars, load, loadErr, writer, cur, outVars, failed, result,
                   cancelled, stopped, faults>>

\* loads.Wait()
LoadsDone == \A i \in Slots : load[i] \in {"none", "exited"}

\* The tree is done: the next member, or the end of the archive, whose last
\* blocks are written.
TreeDone ==
    /\ writer = "drain" /\ queue = <<>> /\ walk = "closed" /\ LoadsDone
    /\ \/ /\ ~failed /\ member < Len(Trees) /\ BeginTree(member + 1) /\ UNCHANGED <<result, faults>>
       \/ /\ failed \/ member = Len(Trees)
          /\ \/ result' = (IF failed THEN "err" ELSE "ok") /\ UNCHANGED faults
             \/ ~failed /\ faults < MaxFaults /\ faults' = faults + 1 /\ result' = "err"
          /\ writer' = "done" /\ UNCHANGED <<member, walkVars, queue, loadVars, cur, stopped>>
    /\ UNCHANGED <<source, outVars, failed, cancelled>>

Cancel ==
    /\ ~cancelled /\ result = "none" /\ cancelled' = TRUE
    /\ UNCHANGED <<source, member, walkVars, queue, loadVars, writer, cur, outVars, failed, result,
                   stopped, faults>>

Ended == result # "none" /\ UNCHANGED vars

-----------------------------------------------------------------------------
Walk == WalkVisit \/ AcquireMemory \/ AcquireWorker \/ Send \/ SendError
Writer == TarMembers \/ Receive \/ WriteFile \/ Drain \/ TreeDone

Next == Walk \/ Writer \/ Cancel \/ Ended \/ \E i \in Slots : Load(i)

Spec == Init /\ [][Next]_vars

\* Goroutines are scheduled and file I/O returns.
FairSpec == Spec /\ WF_vars(Walk) /\ WF_vars(Writer) /\ \A i \in Slots : WF_vars(Load(i))

-----------------------------------------------------------------------------
(* Properties *)

\* The type of every variable: the semaphores never hold more than they have.
TypeOK ==
    /\ member \in 0..Len(Trees) /\ pos \in Nat /\ queue \in Seq({0} \cup Slots) /\ Len(queue) <= Window
    /\ walk \in {"visit", "mem", "worker", "send", "error", "closed"}
    /\ load \in [Slots -> Loads] /\ open \subseteq Slots
    /\ memory \in 0..Memory /\ workers \in 0..Workers
    /\ writer \in {"recv", "write", "drain", "done"} /\ cur \in {0} \cup Slots
    /\ result \in {"none", "ok", "err"} /\ faults \in 0..MaxFaults

(***************************************************************************)
(* "the writer reproduces the serial path's output and errors exactly":    *)
(* whatever order files are loaded in, the stream is that of the serial    *)
(* path so far, and without a cancellation or a failed write so is the     *)
(* outcome.                                                                *)
(***************************************************************************)
SameAsSerial ==
    MembersValid =>
        LET serial == Serial IN
        /\ Len(out) <= Len(serial.out)
        /\ \A k \in 1..Len(out) :
              \/ out[k] = serial.out[k]
              \/ k = Len(out) /\ failed /\ out[k].what = "torn" /\ out[k].name = serial.out[k].name
        /\ result # "none" /\ ~cancelled /\ faults = 0 =>
              out = serial.out /\ (result = "ok" <=> ~serial.fails)
        /\ result = "ok" => out = serial.out

(***************************************************************************)
(* "Later sightings of a multiply-linked inode become hardlink entries":   *)
(* each names an earlier entry that has the data of the same file of the   *)
(* same file system, also across members.                                  *)
(***************************************************************************)
LinksResolve ==
    \A k \in 1..Len(out) : out[k].what = "link" =>
        \E j \in 1..k - 1 :
            LET src == Trees[out[j].m][out[j].name[2]]  dst == Trees[out[k].m][out[k].name[2]] IN
            /\ out[j].name = out[k].link /\ out[j].what = "file"
            /\ src.dev = dst.dev /\ src.ino = dst.ino

(***************************************************************************)
(* Extraction is last-entry-wins: no two entries have the same name.       *)
(***************************************************************************)
NamesDistinct == \A j, k \in 1..Len(out) : out[j].name = out[k].name => j = k

(***************************************************************************)
(* "open fds stay bounded by workers", those of files handed back to the   *)
(* writer included.                                                        *)
(***************************************************************************)
FdsBounded == Cardinality(open) <= Workers - workers

(***************************************************************************)
(* "so no goroutine or fd outlives the call": when Tar returns, by any     *)
(* path, both budgets are whole, no file is open and nothing still runs.   *)
(***************************************************************************)
NothingOutlives ==
    result # "none" =>
        /\ memory = Memory /\ workers = Workers /\ open = {} /\ queue = <<>>
        /\ walk = "closed" /\ \A i \in Slots : load[i] \in {"none", "exited"}

(***************************************************************************)
(* "the budget cannot deadlock": Tar returns.                              *)
(***************************************************************************)
TarReturns == <>(result # "none")

(***************************************************************************)
(* Reading ahead does not show in the archive, which extracts to the tree. *)
(***************************************************************************)
ArchiveSound == SameAsSerial /\ LinksResolve /\ NamesDistinct

(***************************************************************************)
(* The budgets bound what is in flight, and are whole when Tar returns.    *)
(***************************************************************************)
BudgetsSound == TypeOK /\ FdsBounded /\ NothingOutlives
=============================================================================

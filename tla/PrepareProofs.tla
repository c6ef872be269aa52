--------------------------- MODULE PrepareProofs ---------------------------
(***************************************************************************)
(* Proofs about ReadAhead and Staging.  ReadAhead: the budgets of memory   *)
(* and workers are kept, and reading ahead does not show in the archive,   *)
(* for every source tree, every damage to it and every budget.  Staging:   *)
(* every tape holds what was planned, verified and recorded for it, for    *)
(* every input, number of attempts and number of mishaps.                  *)
(***************************************************************************)
EXTENDS ReadAhead, Staging, FiniteSetTheorems, WellFoundedInduction, TLAPS

-----------------------------------------------------------------------------
(* Numbers *)

\* A set of numbers that has any has a smallest.
LEMMA LeastOf ==
    ASSUME NEW S \in SUBSET Nat, S # {}
    PROVE  \E i \in S : \A j \in S : i <= j
<1>1. PICK R : R = OpToRel(<, Nat)
  OBVIOUS
<1>2. PICK i \in S : \A j \in S : ~(<<j, i>> \in R)
  BY <1>1, NatLessThanWellFounded, WFMin
<1>3. \A j \in S : ~(j < i)
  BY <1>1, <1>2 DEF OpToRel
<1> QED
  BY <1>3

\* What holds of a and of every next number up to b holds up to b.
LEMMA UpTo ==
    ASSUME NEW a \in Nat, NEW b \in Nat, NEW S, a \in S, \A j \in a..b - 1 : j \in S => j + 1 \in S
    PROVE  \A j \in a..b : j \in S
<1>1. SUFFICES ASSUME {j \in a..b : j \notin S} # {} PROVE FALSE
  OBVIOUS
<1>2. PICK B : B = {j \in a..b : j \notin S}
  OBVIOUS
<1>3. B \in SUBSET Nat
  BY <1>2
<1>4. PICK i \in B : \A j \in B : i <= j
  BY <1>1, <1>2, <1>3, LeastOf
<1>5. i # a /\ i \in a..b
  BY <1>2
<1>6. i - 1 \in a..b - 1 /\ i - 1 \notin B
  BY <1>4, <1>5
<1> QED
  BY <1>2, <1>4, <1>5, <1>6

-----------------------------------------------------------------------------
(* The inductive invariant *)

Sequential(s) == \E S : s \in Seq(S)
Files == Visited(Tree)
In(q, i) == \E k \in 1..Len(q) : q[k] = i
InQueue(i) == In(queue, i)
Busy == writer \in {"recv", "write"}

\* Entries between the walk and the writer.
InFlight(i) == InQueue(i) \/ (walk = "send" /\ i = pos) \/ (writer = "write" /\ i = cur)

\* Entries the writer has yet to deal with; r splits the tree there.
Pending(j) == InQueue(j) \/ (writer = "write" /\ j = cur) \/ j >= pos
Split(r) == \A j \in Files : Pending(j) <=> j > r

\* Where the walk, the writer and the call are.
FlowType ==
    /\ member \in 0..Len(Trees) /\ pos \in Nat
    /\ walk \in {"visit", "mem", "worker", "send", "error", "closed"}
    /\ writer \in {"recv", "write", "drain", "done"} /\ cur \in {0} \cup Slots
    /\ result \in {"none", "ok", "err"} /\ faults \in 0..MaxFaults

CallInv ==
    /\ member = 0 => writer = "done" /\ ~failed /\ out = <<>> /\ links = {}
    /\ writer = "done" => walk = "closed" /\ queue = <<>> /\ LoadsDone
    /\ writer = "done" /\ member # 0 => result # "none" /\ (~failed => member = Len(Trees))
    /\ Busy => ~stopped /\ ~failed
    /\ writer = "drain" => stopped
    /\ result # "none" => writer = "done" /\ (member = 0 => ~MembersValid)
    /\ result = "ok" => member # 0 /\ ~failed
    /\ result = "err" /\ member # 0 => failed \/ faults > 0

WalkInv ==
    /\ member # 0 => pos \in 1..Len(Tree) + 1 /\ MembersValid
    /\ walk \in {"mem", "worker", "send"} => pos \in Files /\ Err(member, pos) # "walk"
    /\ walk \in {"mem", "worker"} => Eligible(member, pos)
    /\ walk = "send" /\ ~Eligible(member, pos) => load[pos] = "none"

FlowInv == FlowType /\ CallInv /\ WalkInv

\* The entries on their way are in the order of the walk, which is at p and in
\* state w; its error is the last.
OnTheWay(q, p, w) ==
    /\ q \in Seq({0} \cup Slots) /\ Len(q) <= Window
    /\ \A k \in 1..Len(q) :
          \/ q[k] \in Files /\ q[k] < p /\ Err(member, q[k]) # "walk"
          \/ q[k] = 0 /\ k = Len(q) /\ w = "closed"
    /\ \A j, k \in 1..Len(q) : j < k /\ q[k] # 0 => q[j] < q[k]

QueueInv ==
    /\ OnTheWay(queue, pos, walk)
    /\ writer = "write" =>
          /\ cur \in Files /\ cur < pos /\ Err(member, cur) # "walk"
          /\ \A i : InQueue(i) /\ i # 0 => cur < i

\* What a load has done, and that it belongs to an entry the walk has seen.
LoadInv ==
    /\ load \in [Slots -> Loads] /\ DOMAIN loadErr = Slots
    /\ \A i \in Slots : load[i] = "none" => loadErr[i] = "none"
    /\ \A i \in Slots : load[i] # "none" =>
          /\ i \in Files /\ i <= pos /\ (walk \in {"visit", "mem", "worker"} => i < pos)
          /\ Eligible(member, i) /\ (load[i] \in {"start", "open"} => InFlight(i) /\ loadErr[i] = "none")
          /\ load[i] = "open" => Err(member, i) # "open"
          /\ load[i] \in {"done", "exited"} =>
                PrefetchErr(i) = Err(member, i) \/ (WalkDone /\ PrefetchErr(i) = "open")

HoldsMemory == {i \in Slots : (load[i] # "none" /\ InFlight(i)) \/ (walk = "worker" /\ i = pos)}
HoldsWorker ==
    {i \in Slots :
        \/ load[i] \in {"start", "open"}
        \/ load[i] = "done" /\ ~HandedBack(i)
        \/ load[i] \in {"done", "exited"} /\ HandedBack(i) /\ InFlight(i)}
\* Entries the memory budget has room for, and a set of as many elements as
\* entries S of member m weigh.
Small(m) == {i \in 1..Len(Trees[m]) : Trees[m][i].size < Memory}
Units(m, S) == {u \in S \X Nat : u[2] < Trees[m][u[1]].size + 1}

\* Both budgets: what is left and what is held add up.
BudgetInv ==
    /\ memory \in Nat /\ memory + Cardinality(Units(member, HoldsMemory)) = Memory
    /\ workers \in Nat /\ workers + Cardinality(HoldsWorker) = Workers
    /\ open \subseteq Slots
    /\ \A i \in open : load[i] = "open" \/ (load[i] \in {"done", "exited"} /\ HandedBack(i) /\ InFlight(i))

\* Nothing is left out between the writer and the walk.
WholeInv == Busy => \E r \in 0..Len(Tree) : Split(r)

\* The walk ends for a reason.
ReasonInv ==
    /\ walk = "error" \/ InQueue(0) => WalkDone \/ (pos \in Files /\ Err(member, pos) = "walk")
    /\ walk = "closed" /\ Busy => InQueue(0) \/ WalkDone \/ NextVisited = {}

\* The names of the stream are in order.
NamesInv ==
    /\ Sequential(out)
    /\ \A k \in 1..Len(out) :
          /\ out[k].m \in 1..member /\ out[k].name[2] \in 1..Len(Trees[out[k].m])
          /\ out[k].name = <<subdir[out[k].m], out[k].name[2]>>
          /\ Busy /\ out[k].m = member => out[k].name[2] \in Files /\ ~Pending(out[k].name[2])
    /\ \A j, k \in 1..Len(out) : j < k =>
          out[j].m < out[k].m \/ (out[j].m = out[k].m /\ out[j].name[2] < out[k].name[2])

\* Every link the writer knows has its data in the stream.
LinksInv ==
    /\ ~failed => \A l \in links : \E j \in 1..Len(out) :
          out[j].name = l.name /\ out[j].what = "file" /\ l.id = HardlinkID(Trees[out[j].m][out[j].name[2]])
    /\ LinksResolve

\* T[m][i]: the stream of the serial path after entry i of member m.
IsSerial(T) ==
    /\ DOMAIN T = Members
    /\ T[1][0] = [out |-> <<>>, links |-> {}, fails |-> FALSE]
    /\ \A m \in Members :
          /\ DOMAIN T[m] = 0..Len(Trees[m])
          /\ m > 1 => T[m][0] = T[m - 1][Len(Trees[m - 1])]
          /\ \A i \in 1..Len(Trees[m]) : T[m][i] = SerialEntry(m, i, T[m][i - 1])

\* s is the stream of so, up to its last entry, which may be torn.
UpToTorn(s, so) ==
    /\ Len(s) = Len(so.out)
    /\ \A k \in 1..Len(s) : s[k] = so.out[k] \/ (k = Len(s) /\ s[k].what = "torn" /\ s[k].name = so.out[k].name)

\* The stream is that of the serial path as far as the writer has come.
SoFar(so) == out = so.out /\ links = so.links /\ ~so.fails
SameInv(T) ==
    /\ Busy => \E r \in 0..Len(Tree) : Split(r) /\ SoFar(T[member][r])
    /\ member # 0 /\ ~Busy /\ ~failed => SoFar(T[member][Len(Tree)])
    /\ member # 0 /\ ~Busy /\ failed => \E i \in 0..Len(Tree) :
          /\ UpToTorn(out, T[member][i])
          /\ ~cancelled /\ faults = 0 => out = T[member][i].out /\ T[member][i].fails

ArchiveInv == WholeInv /\ ReasonInv /\ NamesInv /\ LinksInv /\ \A T : IsSerial(T) => SameInv(T)

-----------------------------------------------------------------------------
(* The constants *)

LEMMA TreesFacts ==
    /\ Len(Trees) \in Nat /\ Len(Trees) >= 1 /\ 1 \in Members
    /\ \A m \in Members :
          /\ Trees[m] \in Seq(TreeEntry) /\ Len(Trees[m]) \in Nat
          /\ \A i \in 1..Len(Trees[m]) : Trees[m][i] \in TreeEntry /\ i \in Slots
<1>1. Trees \in Seq(Seq(TreeEntry)) /\ Trees # <<>>
  BY ReadAheadAssumption
<1>2. Len(Trees) \in Nat /\ Len(Trees) >= 1 /\ 1 \in Members
  BY <1>1 DEF Members
<1>3. ASSUME NEW m \in Members PROVE Trees[m] \in Seq(TreeEntry)
  BY <1>1, <1>3 DEF Members
<1>4. ASSUME NEW m \in Members, NEW i \in 1..Len(Trees[m])
      PROVE  Trees[m][i] \in TreeEntry /\ i \in Slots
  BY <1>3, <1>4 DEF Slots
<1> QED
  BY <1>2, <1>3, <1>4

LEMMA SlotsFinite == IsFiniteSet(Slots) /\ Slots \subseteq Nat \ {0}
<1>1. IsFiniteSet(Members)
  BY TreesFacts, FS_Interval DEF Members
<1>2. PICK F : F = [m \in Members |-> 1..Len(Trees[m])]
  OBVIOUS
<1>3. \A m \in Members : IsFiniteSet(1..Len(Trees[m]))
  BY TreesFacts, FS_Interval
<1>4. PICK S : S = {F[m] : m \in Members}
  OBVIOUS
<1>5. IsFiniteSet(S)
  <2>1. F \in Surjection(Members, S)
    BY <1>2, <1>4 DEF Surjection
  <2> QED
    BY <1>1, <2>1, FS_Surjection
<1>6. IsFiniteSet(UNION S)
  BY <1>2, <1>3, <1>4, <1>5, FS_UNION
<1>7. Slots \subseteq Nat \ {0}
  BY TreesFacts DEF Slots
<1> QED
  BY <1>2, <1>4, <1>6, <1>7 DEF Slots

\* The walk stays in the tree.
LEMMA VisitedIn ==
    ASSUME NEW m \in Members
    PROVE  Visited(Trees[m]) \subseteq 1..Len(Trees[m])
  BY DEF Visited

LEMMA Entries ==
    ASSUME member \in Members
    PROVE  /\ Len(Tree) \in Nat /\ Files \subseteq 1..Len(Tree) /\ Files \subseteq Slots
           /\ \A i \in Files : Tree[i] \in TreeEntry /\ Weight(i) \in Nat \ {0}
<1>1. Files \subseteq 1..Len(Tree)
  BY VisitedIn DEF Files, Tree
<1>2. ASSUME NEW i \in Files PROVE Tree[i] \in TreeEntry /\ i \in Slots
  BY <1>1, <1>2, TreesFacts DEF Tree
<1>3. ASSUME NEW i \in Files PROVE Weight(i) \in Nat \ {0}
  BY <1>2, <1>3 DEF Weight, TreeEntry
<1> QED
  BY <1>1, <1>2, <1>3, TreesFacts DEF Tree

-----------------------------------------------------------------------------
(* The source is read, never written *)

LEMMA SourceFixed ==
    ASSUME Next
    PROVE  UNCHANGED source
  BY DEF Next, Walk, WalkVisit, AcquireMemory, AcquireWorker, Send, SendError, Writer, TarMembers,
         Receive, WriteFile, Drain, TreeDone, Cancel, Ended, Load, vars

LEMMA SourceSame ==
    ASSUME UNCHANGED source
    PROVE  /\ \A m, i : Err(m, i)' = Err(m, i)
           /\ \A m, i : Eligible(m, i)' <=> Eligible(m, i)
           /\ MembersValid' <=> MembersValid
<1>1. \A m, i : Err(m, i)' = Err(m, i)
  BY DEF Err, source
<1>2. \A m, i : Eligible(m, i)' <=> Eligible(m, i)
  BY <1>1 DEF Eligible
<1>3. MembersValid' <=> MembersValid
  BY DEF MembersValid, source
<1> QED
  BY <1>1, <1>2, <1>3

-----------------------------------------------------------------------------
(* Where the walk and the writer are *)

\* The walk goes to the first entry it has not visited.
LEMMA NextEntry ==
    ASSUME member \in Members, pos \in Nat, NextVisited # {},
           NEW i, i = CHOOSE j \in NextVisited : \A k \in NextVisited : j <= k
    PROVE  i \in Files /\ i >= pos /\ i \in 1..Len(Tree) /\ \A k \in Files : k >= pos => i <= k
<1>1. NextVisited \in SUBSET Nat
  BY Entries DEF NextVisited, Files
<1>2. \E j \in NextVisited : \A k \in NextVisited : j <= k
  BY <1>1, LeastOf
<1>3. i \in NextVisited /\ \A k \in NextVisited : i <= k
  BY <1>2
<1> QED
  BY <1>3, Entries DEF NextVisited, Files

LEMMA FlowInit ==
    ASSUME Init
    PROVE  FlowInv /\ QueueInv /\ LoadInv
<1>1. FlowType
  BY TreesFacts, ReadAheadAssumption DEF Init, FlowType
<1>2. CallInv
  BY TreesFacts DEF Init, CallInv, Busy, LoadsDone
<1>3. WalkInv
  BY DEF Init, WalkInv
<1>4. QueueInv
  BY ReadAheadAssumption DEF Init, QueueInv, OnTheWay
<1>5. LoadInv
  BY DEF Init, LoadInv, Loads
<1> QED
  BY <1>1, <1>2, <1>3, <1>4, <1>5 DEF FlowInv

LEMMA FlowTypeStep ==
    ASSUME FlowInv, QueueInv, LoadInv, Next
    PROVE  FlowType'
<1>0. UNCHANGED source
  BY SourceFixed
<1> USE SourceSame, <1>0, TreesFacts
<1>1. ASSUME TarMembers PROVE FlowType'
  BY <1>1
  DEF TarMembers, BeginTree, FlowInv, FlowType, WalkInv, walkVars, outVars, loadVars
<1>2. ASSUME WalkVisit PROVE FlowType'
  <2>1. CASE WalkDone \/ NextVisited = {}
    BY <1>2, <2>1
    DEF WalkVisit, Reaches, FlowInv, FlowType, WalkInv, walkVars, outVars, loadVars
  <2>2. CASE ~WalkDone /\ NextVisited # {}
    <3>1. PICK i : i = CHOOSE j \in NextVisited : \A k \in NextVisited : j <= k
      OBVIOUS
    <3>2. /\ pos' = i
          /\ walk' = IF Err(member, i) = "walk" THEN "error" ELSE IF Eligible(member, i) THEN "mem" ELSE "send"
      BY <1>2, <2>2, <3>1 DEF WalkVisit, Reaches
    <3>3. member \in Members /\ pos \in Nat
      BY <1>2 DEF WalkVisit, FlowInv, FlowType, CallInv, Members
    <3>4. i \in Files /\ i \in 1..Len(Tree)
      BY <2>2, <3>1, <3>3, NextEntry
    <3> QED
      BY <1>2, <3>2, <3>3, <3>4
      DEF WalkVisit, FlowInv, FlowType, WalkInv, walkVars, outVars, loadVars
  <2> QED
    BY <2>1, <2>2
<1>3. ASSUME AcquireMemory PROVE FlowType'
  BY <1>3
  DEF AcquireMemory, Reaches, FlowInv, FlowType, WalkInv, walkVars, outVars, loadVars
<1>4. ASSUME AcquireWorker PROVE FlowType'
  BY <1>4
  DEF AcquireWorker, Reaches, FlowInv, FlowType, WalkInv, walkVars, outVars, loadVars
<1>5. ASSUME Send PROVE FlowType'
  BY <1>5, Entries
  DEF Send, SendFails, Reaches, Members, FlowInv, FlowType, WalkInv, walkVars, outVars, loadVars
<1>6. ASSUME SendError PROVE FlowType'
  BY <1>6
  DEF SendError, Reaches, FlowInv, FlowType, WalkInv, walkVars, outVars, loadVars
<1>7. ASSUME Receive PROVE FlowType'
  BY <1>7
  DEF Receive, Returns, QueueInv, OnTheWay, FlowInv, FlowType, WalkInv, walkVars, outVars, loadVars
<1>8. ASSUME WriteFile PROVE FlowType'
  BY <1>8, ReadAheadAssumption
  DEF WriteFile, Returns, FlowInv, FlowType, WalkInv, walkVars, outVars, loadVars
<1>9. ASSUME Drain PROVE FlowType'
  BY <1>9
  DEF Drain, FlowInv, FlowType, WalkInv, walkVars, outVars, loadVars
<1>10. ASSUME TreeDone PROVE FlowType'
  BY <1>10, ReadAheadAssumption
  DEF TreeDone, BeginTree, FlowInv, FlowType, WalkInv, walkVars, outVars, loadVars
<1>11. ASSUME Cancel \/ Ended PROVE FlowType'
  BY <1>11
  DEF Cancel, Ended, vars, FlowInv, FlowType, WalkInv, walkVars, outVars, loadVars
<1>12. ASSUME NEW i \in Slots, Load(i) PROVE FlowType'
  BY <1>12
  DEF Load, FlowInv, FlowType, WalkInv, walkVars, outVars, loadVars
<1> QED
  BY <1>1, <1>2, <1>3, <1>4, <1>5, <1>6, <1>7, <1>8, <1>9, <1>10, <1>11, <1>12 DEF Next, Walk, Writer

LEMMA CallInvStep ==
    ASSUME FlowInv, QueueInv, LoadInv, Next
    PROVE  CallInv'
<1>0. UNCHANGED source
  BY SourceFixed
<1> USE SourceSame, <1>0, TreesFacts
<1>1. ASSUME TarMembers PROVE CallInv'
  BY <1>1
  DEF TarMembers, BeginTree, WalkInv, FlowInv, FlowType, CallInv, Busy, LoadsDone, walkVars, outVars, loadVars
<1>2. ASSUME WalkVisit PROVE CallInv'
  BY <1>2
  DEF WalkVisit, Reaches, FlowInv, FlowType, CallInv, Busy, LoadsDone, walkVars, outVars, loadVars
<1>3. ASSUME AcquireMemory PROVE CallInv'
  BY <1>3
  DEF AcquireMemory, Reaches, FlowInv, FlowType, CallInv, Busy, LoadsDone, walkVars, outVars, loadVars
<1>4. ASSUME AcquireWorker PROVE CallInv'
  BY <1>4
  DEF AcquireWorker, Reaches, FlowInv, FlowType, CallInv, Busy, LoadsDone, walkVars, outVars, loadVars
<1>5. ASSUME Send PROVE CallInv'
  BY <1>5
  DEF Send, SendFails, Reaches, FlowInv, FlowType, CallInv, Busy, LoadsDone, walkVars, outVars, loadVars
<1>6. ASSUME SendError PROVE CallInv'
  BY <1>6
  DEF SendError, Reaches, FlowInv, FlowType, CallInv, Busy, LoadsDone, walkVars, outVars, loadVars
<1>7. ASSUME Receive PROVE CallInv'
  BY <1>7
  DEF Receive, Returns, FlowInv, FlowType, CallInv, Busy, LoadsDone, walkVars, outVars, loadVars
<1>8. ASSUME WriteFile PROVE CallInv'
  BY <1>8
  DEF WriteFile, Returns, FlowInv, FlowType, CallInv, Busy, LoadsDone, walkVars, outVars, loadVars
<1>9. ASSUME Drain PROVE CallInv'
  BY <1>9
  DEF Drain, FlowInv, FlowType, CallInv, Busy, LoadsDone, walkVars, outVars, loadVars
<1>10. ASSUME TreeDone PROVE CallInv'
  <2>1. member \in Members /\ walk = "closed" /\ MembersValid
    BY <1>10 DEF TreeDone, FlowInv, FlowType, CallInv, WalkInv, Members
  <2>2. ASSUME ~failed, member < Len(Trees), BeginTree(member + 1), UNCHANGED <<result, faults>> PROVE CallInv'
    <3>1. member + 1 \in Members
      BY <2>1, <2>2 DEF Members
    <3> QED
      BY <1>10, <2>1, <2>2, <3>1
      DEF TreeDone, BeginTree, FlowInv, FlowType, CallInv, Busy, LoadsDone, walkVars, outVars, loadVars
  <2>3. ASSUME failed \/ member = Len(Trees), writer' = "done", UNCHANGED <<member, walkVars, queue, loadVars, cur, stopped>>,
               \/ result' = (IF failed THEN "err" ELSE "ok") /\ UNCHANGED faults
               \/ ~failed /\ faults < MaxFaults /\ faults' = faults + 1 /\ result' = "err"
        PROVE  CallInv'
    BY <1>10, <2>1, <2>3, ReadAheadAssumption
    DEF TreeDone, FlowInv, FlowType, CallInv, Busy, LoadsDone, walkVars, outVars, loadVars
  <2> QED
    BY <1>10, <2>2, <2>3 DEF TreeDone
<1>11. ASSUME Cancel \/ Ended PROVE CallInv'
  BY <1>11
  DEF Cancel, Ended, vars, FlowInv, FlowType, CallInv, Busy, LoadsDone, walkVars, outVars, loadVars
<1>12. ASSUME NEW i \in Slots, Load(i) PROVE CallInv'
  BY <1>12
  DEF Load, FlowInv, FlowType, CallInv, Busy, LoadsDone, walkVars, outVars, loadVars
<1> QED
  BY <1>1, <1>2, <1>3, <1>4, <1>5, <1>6, <1>7, <1>8, <1>9, <1>10, <1>11, <1>12 DEF Next, Walk, Writer

LEMMA WalkInvStep ==
    ASSUME FlowInv, QueueInv, LoadInv, Next
    PROVE  WalkInv'
<1>0. UNCHANGED source
  BY SourceFixed
<1> USE SourceSame, <1>0, TreesFacts
<1>1. ASSUME TarMembers PROVE WalkInv'
  BY <1>1
  DEF TarMembers, BeginTree, FlowInv, FlowType, CallInv, WalkInv, Tree, Files, Members, walkVars, outVars, loadVars
<1>2. ASSUME WalkVisit PROVE WalkInv'
  <2>1. CASE WalkDone \/ NextVisited = {}
    BY <1>2, <2>1
    DEF WalkVisit, Reaches, FlowInv, FlowType, CallInv, WalkInv, LoadInv, Tree, Files, Members, walkVars, outVars, loadVars
  <2>2. CASE ~WalkDone /\ NextVisited # {}
    <3>1. PICK i : i = CHOOSE j \in NextVisited : \A k \in NextVisited : j <= k
      OBVIOUS
    <3>2. /\ pos' = i
          /\ walk' = IF Err(member, i) = "walk" THEN "error" ELSE IF Eligible(member, i) THEN "mem" ELSE "send"
      BY <1>2, <2>2, <3>1 DEF WalkVisit, Reaches
    <3>3. member \in Members /\ pos \in Nat
      BY <1>2 DEF WalkVisit, FlowInv, FlowType, CallInv, Members
    <3>4. i \in Files /\ i \in 1..Len(Tree)
      BY <2>2, <3>1, <3>3, NextEntry
    <3> QED
      BY <1>2, <3>2, <3>3, <3>4
      DEF WalkVisit, FlowInv, FlowType, CallInv, WalkInv, LoadInv, Tree, Files, Members, walkVars, outVars, loadVars
  <2> QED
    BY <2>1, <2>2
<1>3. ASSUME AcquireMemory PROVE WalkInv'
  BY <1>3
  DEF AcquireMemory, Reaches, FlowInv, FlowType, CallInv, WalkInv, Tree, Files, Members, walkVars, outVars, loadVars
<1>4. ASSUME AcquireWorker PROVE WalkInv'
  BY <1>4
  DEF AcquireWorker, Reaches, FlowInv, FlowType, CallInv, WalkInv, Tree, Files, Members, walkVars, outVars, loadVars
<1>5. ASSUME Send PROVE WalkInv'
  BY <1>5, Entries
  DEF Send, SendFails, Reaches, FlowInv, FlowType, CallInv, WalkInv, Tree, Files, Members, walkVars, outVars, loadVars
<1>6. ASSUME SendError PROVE WalkInv'
  BY <1>6, Entries
  DEF SendError, Reaches, FlowInv, FlowType, CallInv, WalkInv, Tree, Files, Members, walkVars, outVars, loadVars
<1>7. ASSUME Receive PROVE WalkInv'
  BY <1>7
  DEF Receive, Returns, FlowInv, FlowType, CallInv, WalkInv, Tree, Files, Members, walkVars, outVars, loadVars
<1>8. ASSUME WriteFile PROVE WalkInv'
  BY <1>8
  DEF WriteFile, Returns, FlowInv, FlowType, CallInv, WalkInv, Tree, Files, Members, walkVars, outVars, loadVars
<1>9. ASSUME Drain PROVE WalkInv'
  BY <1>9
  DEF Drain, FlowInv, FlowType, CallInv, WalkInv, Tree, Files, Members, walkVars, outVars, loadVars
<1>10. ASSUME TreeDone PROVE WalkInv'
  <2>1. member \in Members /\ walk = "closed" /\ MembersValid
    BY <1>10 DEF TreeDone, FlowInv, FlowType, CallInv, WalkInv, Members
  <2>2. ASSUME ~failed, member < Len(Trees), BeginTree(member + 1), UNCHANGED <<result, faults>> PROVE WalkInv'
    <3>1. member + 1 \in Members
      BY <2>1, <2>2 DEF Members
    <3> QED
      BY <1>10, <2>1, <2>2, <3>1
      DEF TreeDone, BeginTree, FlowInv, FlowType, CallInv, WalkInv, Tree, Files, Members, walkVars, outVars, loadVars
  <2>3. ASSUME failed \/ member = Len(Trees), writer' = "done", UNCHANGED <<member, walkVars, queue, loadVars, cur, stopped>>,
               \/ result' = (IF failed THEN "err" ELSE "ok") /\ UNCHANGED faults
               \/ ~failed /\ faults < MaxFaults /\ faults' = faults + 1 /\ result' = "err"
        PROVE  WalkInv'
    BY <1>10, <2>1, <2>3, ReadAheadAssumption
    DEF TreeDone, FlowInv, FlowType, CallInv, WalkInv, Tree, Files, Members, walkVars, outVars, loadVars
  <2> QED
    BY <1>10, <2>2, <2>3 DEF TreeDone
<1>11. ASSUME Cancel \/ Ended PROVE WalkInv'
  BY <1>11
  DEF Cancel, Ended, vars, FlowInv, FlowType, CallInv, WalkInv, Tree, Files, Members, walkVars, outVars, loadVars
<1>12. ASSUME NEW i \in Slots, Load(i) PROVE WalkInv'
  <2>1. UNCHANGED <<member, walk, pos>>
    BY <1>12 DEF Load, walkVars
  <2>2. load \in [Slots -> Loads] /\ load[i] # "none" /\ \A j \in Slots : j # i => load'[j] = load[j]
    BY <1>12 DEF Load, LoadInv
  <2>3. walk = "send" => member \in Members /\ pos \in Slots
    BY Entries DEF FlowInv, FlowType, CallInv, WalkInv, Members
  <2>4. ASSUME walk = "send", ~Eligible(member, pos) PROVE load'[pos] = "none"
    BY <2>2, <2>3, <2>4 DEF FlowInv, WalkInv, LoadInv
  <2> QED
    BY <2>1, <2>4
    DEF FlowInv, WalkInv, Tree, Files
<1> QED
  BY <1>1, <1>2, <1>3, <1>4, <1>5, <1>6, <1>7, <1>8, <1>9, <1>10, <1>11, <1>12 DEF Next, Walk, Writer

-----------------------------------------------------------------------------
(* The queue and the loads *)

\* Where a step may leave the member: in place, or at the next.
LEMMA Inside ==
    ASSUME FlowInv
    PROVE  /\ member # 0 => member \in Members
           /\ writer # "done" => member \in Members
           /\ walk # "closed" => member \in Members /\ pos \in 1..Len(Tree) + 1
           /\ walk \in {"mem", "worker", "send"} => pos \in Files /\ pos \in Slots
  BY Entries DEF FlowInv, FlowType, CallInv, WalkInv, Members

\* Where the walk goes.
LEMMA VisitFacts ==
    ASSUME FlowInv, WalkVisit
    PROVE  /\ member \in Members /\ pos' \in Nat /\ pos' >= pos /\ walk # "closed"
           /\ \A k \in Files : k >= pos => k >= pos'
           /\ walk' \in {"mem", "send", "error", "closed"}
           /\ walk' \in {"mem", "send"} => pos' \in Files
           /\ walk' = "error" => WalkDone \/ (pos' \in Files /\ Err(member, pos') = "walk")
           /\ walk' = "closed" => NextVisited = {} /\ pos' = pos
<1>1. member \in Members /\ pos \in Nat /\ walk # "closed"
  BY Inside DEF WalkVisit, FlowInv, FlowType
<1>2. CASE WalkDone \/ NextVisited = {}
  BY <1>1, <1>2 DEF WalkVisit, Reaches
<1>3. CASE ~WalkDone /\ NextVisited # {}
  <2>1. PICK i : i = CHOOSE j \in NextVisited : \A k \in NextVisited : j <= k
    OBVIOUS
  <2>2. /\ pos' = i
        /\ walk' = IF Err(member, i) = "walk" THEN "error" ELSE IF Eligible(member, i) THEN "mem" ELSE "send"
    BY <1>3, <2>1, SMT DEF WalkVisit, Reaches
  <2>3. i \in Files /\ i >= pos /\ i \in 1..Len(Tree) /\ \A k \in Files : k >= pos => i <= k
    BY <1>1, <1>3, <2>1, NextEntry
  <2>4. i \in Nat /\ Files \subseteq Nat
    BY <1>1, <2>3, Entries, TreesFacts
  <2> QED
    BY <1>1, <2>2, <2>3, <2>4
<1> QED
  BY <1>2, <1>3

\* Taking the first of a queue, and adding one.
LEMMA TailFacts ==
    ASSUME NEW S, NEW q \in Seq(S), q # <<>>
    PROVE  /\ Head(q) = q[1] /\ 1 \in 1..Len(q) /\ Head(q) \in S /\ In(q, Head(q))
           /\ Tail(q) \in Seq(S) /\ Len(Tail(q)) = Len(q) - 1
           /\ \A k \in 1..Len(Tail(q)) : k + 1 \in 1..Len(q) /\ Tail(q)[k] = q[k + 1]
           /\ \A i : In(Tail(q), i) <=> \E k \in 2..Len(q) : q[k] = i
           /\ \A i : In(q, i) <=> i = Head(q) \/ In(Tail(q), i)
<1>1. /\ Head(q) = q[1] /\ 1 \in 1..Len(q) /\ Head(q) \in S
      /\ Tail(q) \in Seq(S) /\ Len(Tail(q)) = Len(q) - 1 /\ Len(q) \in Nat
      /\ \A k \in 1..Len(Tail(q)) : k + 1 \in 1..Len(q) /\ Tail(q)[k] = q[k + 1]
  OBVIOUS
<1>2. ASSUME NEW i PROVE In(Tail(q), i) <=> \E k \in 2..Len(q) : q[k] = i
  <2>1. ASSUME NEW k \in 2..Len(q) PROVE k - 1 \in 1..Len(Tail(q)) /\ Tail(q)[k - 1] = q[k]
    BY <1>1, <2>1
  <2> QED
    BY <1>1, <2>1 DEF In
<1>3. ASSUME NEW i PROVE In(q, i) <=> i = Head(q) \/ In(Tail(q), i)
  <2>1. \A k \in 1..Len(q) : k = 1 \/ k \in 2..Len(q)
    BY <1>1
  <2>2. \A k \in 2..Len(q) : k \in 1..Len(q)
    BY <1>1
  <2> QED
    BY <1>1, <1>2, <2>1, <2>2 DEF In
<1> QED
  BY <1>1, <1>2, <1>3

LEMMA AppendFacts ==
    ASSUME NEW S, NEW q \in Seq(S), NEW x \in S
    PROVE  /\ Append(q, x) \in Seq(S) /\ Len(Append(q, x)) = Len(q) + 1 /\ Len(q) \in Nat
           /\ \A k \in 1..Len(q) : Append(q, x)[k] = q[k]
           /\ Append(q, x)[Len(q) + 1] = x
           /\ \A i : In(Append(q, x), i) <=> i = x \/ In(q, i)
<1>1. /\ Append(q, x) \in Seq(S) /\ Len(Append(q, x)) = Len(q) + 1 /\ Len(q) \in Nat
      /\ \A k \in 1..Len(q) : Append(q, x)[k] = q[k]
      /\ Append(q, x)[Len(q) + 1] = x
  OBVIOUS
<1>2. \A k \in 1..Len(q) + 1 : k = Len(q) + 1 \/ k \in 1..Len(q)
  BY <1>1
<1>3. Len(q) + 1 \in 1..Len(q) + 1 /\ \A k \in 1..Len(q) : k \in 1..Len(q) + 1
  BY <1>1
<1> QED
  BY <1>1, <1>2, <1>3 DEF In

LEMMA WayTail ==
    ASSUME NEW q, NEW p \in Nat, NEW w, OnTheWay(q, p, w), q # <<>>, Files \subseteq Nat \ {0}
    PROVE  /\ OnTheWay(Tail(q), p, w)
           /\ Head(q) # 0 =>
                 /\ Head(q) \in Files /\ Head(q) < p /\ Err(member, Head(q)) # "walk"
                 /\ \A i : In(Tail(q), i) /\ i # 0 => Head(q) < i
           /\ Head(q) = 0 => Tail(q) = <<>> /\ w = "closed"
<1>1. q \in Seq({0} \cup Slots) /\ Len(q) \in Nat
  BY DEF OnTheWay
<1>2. Window \in Nat
  BY ReadAheadAssumption
<1> HIDE DEF OnTheWay
<1>3. PICK t : t = Tail(q)
  OBVIOUS
<1>4. /\ Head(q) = q[1] /\ 1 \in 1..Len(q) /\ t \in Seq({0} \cup Slots) /\ Len(t) = Len(q) - 1
      /\ \A k \in 1..Len(t) : k + 1 \in 1..Len(q) /\ t[k] = q[k + 1]
      /\ \A i : In(t, i) <=> \E k \in 2..Len(q) : q[k] = i
  BY <1>1, <1>3, TailFacts
<1>5. OnTheWay(t, p, w)
  <2>1. \A k \in 1..Len(t) :
          \/ t[k] \in Files /\ t[k] < p /\ Err(member, t[k]) # "walk"
          \/ t[k] = 0 /\ k = Len(t) /\ w = "closed"
    BY <1>1, <1>4 DEF OnTheWay
  <2>2. ASSUME NEW j \in 1..Len(t), NEW k \in 1..Len(t), j < k, t[k] # 0 PROVE t[j] < t[k]
    <3>1. j + 1 \in 1..Len(q) /\ k + 1 \in 1..Len(q) /\ j + 1 < k + 1 /\ t[j] = q[j + 1] /\ t[k] = q[k + 1]
      BY <1>4, <2>2
    <3>2. \A a, b \in 1..Len(q) : a < b /\ q[b] # 0 => q[a] < q[b]
      BY DEF OnTheWay
    <3> QED
      BY <2>2, <3>1, <3>2
  <2> QED
    BY <1>1, <1>2, <1>4, <2>1, <2>2 DEF OnTheWay
<1>6. ASSUME Head(q) # 0
      PROVE  /\ Head(q) \in Files /\ Head(q) < p /\ Err(member, Head(q)) # "walk"
             /\ \A i : In(t, i) /\ i # 0 => Head(q) < i
  BY <1>1, <1>4, <1>6 DEF OnTheWay
<1>7. ASSUME Head(q) = 0 PROVE t = <<>> /\ w = "closed"
  BY <1>1, <1>4, <1>7 DEF OnTheWay
<1> QED
  BY <1>3, <1>5, <1>6, <1>7

LEMMA WayOn ==
    ASSUME NEW q, NEW p \in Nat, NEW w, OnTheWay(q, p, w), w # "closed", Files \subseteq Nat \ {0},
           NEW p2 \in Nat, p2 >= p, NEW w2
    PROVE  /\ OnTheWay(q, p2, w2)
           /\ \A i : In(q, i) => i \in Files /\ i < p
<1>1. \A k \in 1..Len(q) : q[k] \in Files /\ q[k] < p /\ Err(member, q[k]) # "walk"
  BY DEF OnTheWay
<1>2. ASSUME NEW k \in 1..Len(q) PROVE q[k] < p2
  <2>1. q[k] \in Nat /\ q[k] < p
    BY <1>1
  <2> QED
    BY <2>1
<1> QED
  BY <1>1, <1>2 DEF OnTheWay, In

LEMMA WaySend ==
    ASSUME NEW q, NEW p \in Nat, NEW w, OnTheWay(q, p, w), w # "closed", Files \subseteq Nat \ {0},
           p \in Files, Err(member, p) # "walk", Files \subseteq Slots, Len(q) < Window, NEW w2
    PROVE  OnTheWay(Append(q, p), p + 1, w2)
<1>1. q \in Seq({0} \cup Slots) /\ p \in {0} \cup Slots
  BY DEF OnTheWay
<1>2. Window \in Nat
  BY ReadAheadAssumption
<1>3. PICK t : t = Append(q, p)
  OBVIOUS
<1>4. /\ t \in Seq({0} \cup Slots) /\ Len(t) = Len(q) + 1 /\ Len(q) \in Nat
      /\ \A k \in 1..Len(q) : t[k] = q[k]
      /\ t[Len(q) + 1] = p
  BY <1>1, <1>3, AppendFacts
<1>5. \A k \in 1..Len(q) : q[k] \in Files /\ q[k] < p /\ Err(member, q[k]) # "walk"
  BY DEF OnTheWay
<1>6. \A k \in 1..Len(t) : t[k] \in Files /\ t[k] < p + 1 /\ Err(member, t[k]) # "walk"
  <2>1. \A k \in 1..Len(t) : k = Len(q) + 1 \/ k \in 1..Len(q)
    BY <1>4
  <2>2. ASSUME NEW k \in 1..Len(q) PROVE q[k] < p + 1
    <3>1. q[k] \in Nat /\ q[k] < p
      BY <1>5
    <3> QED
      BY <3>1
  <2> QED
    BY <1>4, <1>5, <2>1, <2>2
<1>7. \A j, k \in 1..Len(t) : j < k => t[j] < t[k]
  <2>1. ASSUME NEW j \in 1..Len(t), NEW k \in 1..Len(t), j < k PROVE t[j] < t[k]
    <3>1. j \in 1..Len(q) /\ t[j] = q[j]
      BY <1>4, <2>1
    <3>2. CASE k \in 1..Len(q)
      BY <1>4, <1>5, <2>1, <3>1, <3>2 DEF OnTheWay
    <3>3. CASE k = Len(q) + 1
      BY <1>4, <1>5, <3>1, <3>3
    <3> QED
      BY <1>4, <3>2, <3>3
  <2> QED
    BY <2>1
<1> QED
  BY <1>2, <1>3, <1>4, <1>6, <1>7 DEF OnTheWay

LEMMA WayError ==
    ASSUME NEW q, NEW p \in Nat, NEW w, OnTheWay(q, p, w), w # "closed", Files \subseteq Nat \ {0},
           Len(q) < Window
    PROVE  OnTheWay(Append(q, 0), p, "closed")
<1>1. q \in Seq({0} \cup Slots)
  BY DEF OnTheWay
<1>2. Window \in Nat
  BY ReadAheadAssumption
<1>3. PICK t : t = Append(q, 0)
  OBVIOUS
<1>4. /\ t \in Seq({0} \cup Slots) /\ Len(t) = Len(q) + 1 /\ Len(q) \in Nat
      /\ \A k \in 1..Len(q) : t[k] = q[k]
      /\ t[Len(q) + 1] = 0
  BY <1>1, <1>3, AppendFacts
<1>5. \A k \in 1..Len(t) : k = Len(t) \/ k \in 1..Len(q)
  BY <1>4
<1>6. \A k \in 1..Len(q) : q[k] \in Files /\ q[k] < p /\ Err(member, q[k]) # "walk"
  BY DEF OnTheWay
<1>7. \A j, k \in 1..Len(t) : j < k /\ t[k] # 0 => t[j] < t[k]
  BY <1>4, <1>5, <1>6 DEF OnTheWay
<1> QED
  BY <1>2, <1>3, <1>4, <1>5, <1>6, <1>7 DEF OnTheWay

\* The queue while the member stays.
LEMMA WaySame ==
    ASSUME UNCHANGED <<member, source>>
    PROVE  \A q, p, w : OnTheWay(q, p, w)' <=> OnTheWay(q, p, w)
  BY SourceSame DEF OnTheWay, Files, Tree

LEMMA QueueInvStep ==
    ASSUME FlowInv, QueueInv, LoadInv, Next
    PROVE  QueueInv'
<1>0. UNCHANGED source
  BY SourceFixed
<1>a. member \in Members => Files \subseteq Nat \ {0} /\ Files \subseteq Slots
  BY Entries, SlotsFinite
<1>b. pos \in Nat /\ (walk # "closed" => member \in Members) /\ (writer # "done" => member \in Members)
  BY Inside DEF FlowInv, FlowType
<1>c. ASSUME UNCHANGED <<member, pos, walk, queue, writer, cur>> PROVE QueueInv'
  BY <1>0, <1>c, WaySame, WaySame, SourceSame DEF QueueInv, InQueue, Files, Tree
<1>d. ASSUME BeginTree(1) \/ BeginTree(member + 1) PROVE QueueInv'
  <2>1. queue' = <<>> /\ writer' = "recv"
    BY <1>d DEF BeginTree
  <2>2. Window \in Nat
    BY ReadAheadAssumption
  <2>3. queue' \in Seq({0} \cup Slots) /\ Len(queue') = 0
    BY <2>1
  <2> QED
    BY <2>1, <2>2, <2>3 DEF QueueInv, OnTheWay
<1>1. ASSUME TarMembers PROVE QueueInv'
  BY <1>1, <1>c, <1>d DEF TarMembers, walkVars
<1>2. ASSUME WalkVisit PROVE QueueInv'
  <2>1. pos' \in Nat /\ pos' >= pos /\ walk # "closed" /\ member \in Members
    BY <1>2, VisitFacts
  <2>2. UNCHANGED <<member, queue, writer, cur>>
    BY <1>2 DEF WalkVisit
  <2>3. OnTheWay(queue', pos', walk')
    BY <1>0, <1>a, <1>b, <2>1, <2>2, WaySame, WayOn DEF QueueInv
  <2> QED
    BY <1>0, <1>a, <1>b, <2>1, <2>2, <2>3, WaySame, SourceSame DEF QueueInv, InQueue, Files, Tree
<1>3. ASSUME AcquireMemory \/ AcquireWorker PROVE QueueInv'
  <2>1. UNCHANGED <<member, queue, writer, cur, pos>> /\ walk # "closed"
    BY <1>3 DEF AcquireMemory, AcquireWorker, Reaches
  <2>2. OnTheWay(queue', pos', walk')
    BY <1>0, <1>a, <1>b, <2>1, WaySame, WayOn DEF QueueInv
  <2> QED
    BY <1>0, <2>1, <2>2, WaySame, SourceSame DEF QueueInv, InQueue, Files, Tree
<1>4. ASSUME Send PROVE QueueInv'
  <2>1. UNCHANGED <<member, writer, cur>> /\ walk = "send" /\ pos \in Files /\ Err(member, pos) # "walk" /\ member \in Members
    BY <1>4, Inside DEF Send, FlowInv, WalkInv
  <2>2. CASE queue' = Append(queue, pos) /\ pos' = pos + 1 /\ Len(queue) < Window
    <3>1. OnTheWay(queue', pos', walk')
      BY <1>0, <1>a, <1>b, <2>1, <2>2, WaySame, WaySend DEF QueueInv
    <3>2. queue \in Seq({0} \cup Slots) /\ pos \in {0} \cup Slots
      BY <1>a, <2>1 DEF QueueInv, OnTheWay
    <3>3. \A i : In(queue', i) <=> i = pos \/ In(queue, i)
      BY <2>2, <3>2, AppendFacts
    <3> QED
      BY <1>0, <1>a, <1>b, <2>1, <2>2, <3>1, <3>3, WaySame, SourceSame DEF QueueInv, InQueue, Files, Tree
  <2>3. CASE UNCHANGED <<queue, pos>>
    <3>1. OnTheWay(queue', pos', walk')
      BY <1>0, <1>a, <1>b, <2>1, <2>3, WaySame, WayOn DEF QueueInv
    <3> QED
      BY <1>0, <2>1, <2>3, <3>1, WaySame, SourceSame DEF QueueInv, InQueue, Files, Tree
  <2> QED
    BY <1>4, <2>2, <2>3 DEF Send, SendFails, Reaches
<1>5. ASSUME SendError PROVE QueueInv'
  <2>1. UNCHANGED <<member, writer, cur, pos>> /\ walk = "error" /\ walk' = "closed" /\ member \in Members
    BY <1>5, Inside DEF SendError, Reaches
  <2>2. CASE queue' = Append(queue, 0) /\ Len(queue) < Window
    <3>1. OnTheWay(queue', pos', walk')
      BY <1>0, <1>a, <1>b, <2>1, <2>2, WaySame, WayError DEF QueueInv
    <3>2. queue \in Seq({0} \cup Slots)
      BY DEF QueueInv, OnTheWay
    <3>3. \A i : In(queue', i) <=> i = 0 \/ In(queue, i)
      BY <2>2, <3>2, AppendFacts
    <3> QED
      BY <1>0, <1>a, <1>b, <2>1, <2>2, <3>1, <3>3, WaySame, SourceSame DEF QueueInv, InQueue, Files, Tree
  <2>3. CASE UNCHANGED queue
    <3>1. OnTheWay(queue', pos', walk')
      BY <1>0, <1>a, <1>b, <2>1, <2>3, WaySame, WayOn DEF QueueInv
    <3> QED
      BY <1>0, <2>1, <2>3, <3>1, WaySame, SourceSame DEF QueueInv, InQueue, Files, Tree
  <2> QED
    BY <1>5, <2>2, <2>3 DEF SendError
<1>6. ASSUME Receive \/ Drain PROVE QueueInv'
  <2>1. UNCHANGED <<member, walk, pos>> /\ member \in Members
    BY <1>6, <1>b DEF Receive, Drain, walkVars
  <2>2. CASE queue # <<>> /\ queue' = Tail(queue) /\ (writer' = "write" => cur' = Head(queue) /\ Head(queue) # 0)
    <3>1. OnTheWay(queue', pos', walk')
      BY <1>0, <1>a, <1>b, <2>1, <2>2, WaySame, WayTail DEF QueueInv
    <3>2. Head(queue) # 0 =>
                 /\ Head(queue) \in Files /\ Head(queue) < pos /\ Err(member, Head(queue)) # "walk"
                 /\ \A i : In(Tail(queue), i) /\ i # 0 => Head(queue) < i
      BY <1>a, <1>b, <2>1, <2>2, WayTail DEF QueueInv
    <3> QED
      BY <1>0, <2>1, <2>2, <3>1, <3>2, WaySame, SourceSame DEF QueueInv, InQueue, Files, Tree
  <2>3. CASE queue' = queue /\ writer' # "write"
    BY <1>0, <2>1, <2>3, WaySame DEF QueueInv
  <2> QED
    BY <1>6, <2>2, <2>3 DEF Receive, Returns, Drain
<1>7. ASSUME WriteFile PROVE QueueInv'
  BY <1>0, <1>7, WaySame DEF WriteFile, Returns, QueueInv, walkVars
<1>8. ASSUME TreeDone PROVE QueueInv'
  <2>1. CASE UNCHANGED <<member, walkVars, queue, loadVars, cur, stopped>> /\ writer' = "done"
    BY <1>0, <2>1, WaySame DEF QueueInv, walkVars
  <2> QED
    BY <1>8, <1>d, <2>1 DEF TreeDone
<1>9. ASSUME Cancel \/ Ended PROVE QueueInv'
  BY <1>9, <1>c DEF Cancel, Ended, vars, walkVars
<1>10. ASSUME NEW i \in Slots, Load(i) PROVE QueueInv'
  BY <1>10, <1>c DEF Load, walkVars
<1> QED
  BY <1>1, <1>2, <1>3, <1>4, <1>5, <1>6, <1>7, <1>8, <1>9, <1>10 DEF Next, Walk, Writer

LEMMA LoadFrame ==
    ASSUME LoadInv, UNCHANGED <<source, member, load, loadErr>>, WalkDone => WalkDone',
           \A i \in Slots : load[i] # "none" => i <= pos' /\ (walk' \in {"visit", "mem", "worker"} => i < pos'),
           \A i \in Slots : load[i] \in {"start", "open"} => InFlight(i)'
    PROVE  LoadInv'
<1>1. /\ \A m, i : Err(m, i)' = Err(m, i)
      /\ \A m, i : Eligible(m, i)' <=> Eligible(m, i)
  BY SourceSame
<1>2. Files' = Files
  BY DEF Files, Tree
<1>3. \A i : PrefetchErr(i)' = PrefetchErr(i)
  BY <1>1 DEF PrefetchErr, HandedBack, Tree
<1> QED
  BY <1>1, <1>2, <1>3 DEF LoadInv

\* What was sent or taken is in flight no more only when its load has ended.
LEMMA Kept ==
    ASSUME NEW i \in Slots, Release(i)
    PROVE  load[i] \notin {"start", "open"}
  BY SlotsFinite DEF Release, Prefetched, Loaded

LEMMA LoadInvStep ==
    ASSUME FlowInv, QueueInv, LoadInv, Next
    PROVE  LoadInv'
<1>0. UNCHANGED source
  BY SourceFixed
<1>a. member \in Members => Files \subseteq Nat \ {0} /\ Files \subseteq Slots
  BY Entries, SlotsFinite
<1>b. pos \in Nat /\ (walk # "closed" => member \in Members) /\ (writer # "done" => member \in Members)
  BY Inside DEF FlowInv, FlowType
<1>c. /\ Slots \subseteq Nat /\ queue \in Seq({0} \cup Slots)
      /\ \A i \in Slots : load[i] # "none" => i <= pos /\ (walk \in {"visit", "mem", "worker"} => i < pos)
      /\ \A i \in Slots : load[i] \in {"start", "open"} => InFlight(i)
  BY SlotsFinite DEF LoadInv, QueueInv, OnTheWay
<1>d. ASSUME BeginTree(1) \/ BeginTree(member + 1) PROVE LoadInv'
  BY <1>d DEF BeginTree, LoadInv, Loads
<1>1. ASSUME TarMembers PROVE LoadInv'
  <2>1. CASE UNCHANGED <<member, walkVars, queue, loadVars, writer, cur, stopped>>
    BY <1>0, <1>1, <1>c, <2>1, LoadFrame DEF TarMembers, InFlight, InQueue, walkVars, loadVars, WalkDone
  <2> QED
    BY <1>1, <1>d, <2>1 DEF TarMembers
<1>2. ASSUME WalkVisit PROVE LoadInv'
  <2>1. pos' \in Nat /\ pos' >= pos /\ walk = "visit" /\ walk' \in {"mem", "send", "error", "closed"}
    BY <1>2, VisitFacts DEF WalkVisit
  <2>2. \A i \in Slots : load[i] # "none" => i <= pos' /\ (walk' \in {"visit", "mem", "worker"} => i < pos')
    BY <1>b, <1>c, <2>1
  <2> QED
    BY <1>0, <1>2, <1>c, <2>1, <2>2, LoadFrame DEF WalkVisit, loadVars, InFlight, InQueue, WalkDone
<1>3. ASSUME AcquireMemory \/ (AcquireWorker /\ UNCHANGED load) PROVE LoadInv'
  <2>1. UNCHANGED <<source, member, load, loadErr, pos, queue, writer, cur, cancelled, stopped>> /\ walk \in {"mem", "worker"}
    BY <1>3, <1>0 DEF AcquireMemory, AcquireWorker, Reaches
  <2> QED
    BY <1>c, <2>1, LoadFrame DEF InFlight, InQueue, WalkDone
<1>4. ASSUME AcquireWorker, ~UNCHANGED load PROVE LoadInv'
  <2>1. /\ UNCHANGED <<member, pos, queue, writer, cur, loadErr, cancelled, stopped>>
        /\ load' = [load EXCEPT ![pos] = "start"] /\ walk = "worker" /\ walk' = "send"
    BY <1>4 DEF AcquireWorker, Reaches
  <2>2. pos \in Slots /\ pos \in Files /\ Eligible(member, pos) /\ load[pos] = "none"
    BY <1>b, <1>c, <2>1, Inside DEF FlowInv, WalkInv
  <2>3. Files' = Files
    BY <2>1 DEF Files, Tree
  <2>4. /\ \A m, i : Err(m, i)' = Err(m, i)
        /\ \A m, i : Eligible(m, i)' <=> Eligible(m, i)
    BY <1>0, SourceSame
  <2>5. \A i : PrefetchErr(i)' = PrefetchErr(i)
    BY <2>1, <2>4 DEF PrefetchErr, HandedBack, Tree
  <2>6. load \in [Slots -> Loads] /\ load'[pos] = "start" /\ \A i \in Slots : i # pos => load'[i] = load[i]
    BY <2>1, <2>2 DEF LoadInv
  <2>7. load' \in [Slots -> Loads] /\ DOMAIN loadErr' = Slots
    BY <2>1, <2>2 DEF LoadInv, Loads
  <2>8. ASSUME NEW i \in Slots, i # pos, load[i] # "none"
        PROVE  /\ i \in Files' /\ i <= pos' /\ (walk' \in {"visit", "mem", "worker"} => i < pos')
               /\ Eligible(member, i)' /\ (load'[i] \in {"start", "open"} => InFlight(i)' /\ loadErr'[i] = "none")
               /\ load'[i] = "open" => Err(member, i)' # "open"
               /\ load'[i] \in {"done", "exited"} =>
                     PrefetchErr(i)' = Err(member, i)' \/ (WalkDone' /\ PrefetchErr(i)' = "open")
    BY <2>1, <2>3, <2>4, <2>5, <2>6, <2>8 DEF LoadInv, InFlight, InQueue, WalkDone
  <2>9. loadErr[pos] = "none"
    BY <2>2 DEF LoadInv
  <2>10. pos \in Files' /\ pos <= pos' /\ Eligible(member, pos)' /\ InFlight(pos)' /\ loadErr'[pos] = "none"
    BY <1>b, <2>1, <2>2, <2>3, <2>4, <2>9 DEF InFlight
  <2> QED
    BY <2>1, <2>6, <2>7, <2>8, <2>10 DEF LoadInv
<1>5. ASSUME Send PROVE LoadInv'
  <2>1. UNCHANGED <<member, load, loadErr, writer, cur, cancelled, stopped>> /\ walk = "send" /\ pos \in Slots
    BY <1>5, Inside DEF Send
  <2>2. CASE queue' = Append(queue, pos) /\ pos' = pos + 1
    <3>1. \A i : In(queue', i) <=> i = pos \/ In(queue, i)
      BY <1>c, <2>1, <2>2, AppendFacts
    <3>2. \A i \in Slots : load[i] \in {"start", "open"} => InFlight(i)'
      BY <1>c, <2>1, <3>1 DEF InFlight, InQueue
    <3>3. \A i \in Slots : load[i] # "none" => i < pos'
      BY <1>b, <1>c, <2>2
    <3>4. \A i \in Slots : load[i] # "none" => i <= pos'
      BY <1>b, <1>c, <2>2
    <3> QED
      BY <1>0, <2>1, <3>2, <3>3, <3>4, LoadFrame DEF WalkDone
  <2>3. CASE UNCHANGED <<queue, pos>> /\ walk' = "error" /\ Release(pos)
    <3>1. load[pos] \notin {"start", "open"}
      BY <2>1, <2>3, Kept
    <3>2. \A i \in Slots : load[i] \in {"start", "open"} => InFlight(i)'
      BY <1>c, <2>1, <2>3, <3>1 DEF InFlight, InQueue
    <3> QED
      BY <1>0, <1>c, <2>1, <2>3, <3>2, LoadFrame DEF WalkDone
  <2> QED
    BY <1>5, <2>2, <2>3 DEF Send, SendFails, Reaches
<1>6. ASSUME SendError PROVE LoadInv'
  <2>1. UNCHANGED <<member, load, loadErr, writer, cur, pos, cancelled, stopped>> /\ walk = "error" /\ walk' = "closed"
    BY <1>6 DEF SendError, Reaches, loadVars
  <2>2. \A i \in Slots : In(queue, i) => In(queue', i)
    <3>1. CASE queue' = Append(queue, 0)
      BY <1>c, <3>1, AppendFacts
    <3> QED
      BY <1>6, <3>1 DEF SendError
  <2> QED
    BY <1>0, <1>c, <2>1, <2>2, LoadFrame DEF WalkDone, InFlight, InQueue
<1>7. ASSUME Receive \/ Drain PROVE LoadInv'
  <2>1. UNCHANGED <<member, load, loadErr, walk, pos, cancelled>> /\ (stopped => stopped') /\ writer # "write"
    BY <1>7 DEF Receive, Drain, Returns, walkVars
  <2>2. CASE queue # <<>> /\ queue' = Tail(queue) /\ ((writer' = "write" /\ cur' = Head(queue)) \/ Release(Head(queue)))
    <3>1. Head(queue) \in {0} \cup Slots /\ \A i : In(queue, i) <=> i = Head(queue) \/ In(queue', i)
      BY <1>c, <2>2, TailFacts
    <3>2. \A i \in Slots : load[i] \in {"start", "open"} => InFlight(i)'
      <4>1. ASSUME NEW i \in Slots, load[i] \in {"start", "open"} PROVE InFlight(i)'
        <5>1. InFlight(i)
          BY <1>c, <4>1
        <5>2. CASE In(queue', i) \/ (walk = "send" /\ i = pos)
          BY <2>1, <5>2 DEF InFlight, InQueue
        <5>3. CASE i = Head(queue)
          BY <2>2, <4>1, <5>3, Kept DEF InFlight
        <5> QED
          BY <2>1, <3>1, <5>1, <5>2, <5>3 DEF InFlight, InQueue
      <4> QED
        BY <4>1
    <3> QED
      BY <1>0, <1>c, <2>1, <3>2, LoadFrame DEF WalkDone
  <2>3. CASE queue' = queue
    BY <1>0, <1>c, <2>1, <2>3, LoadFrame DEF WalkDone, InFlight, InQueue
  <2> QED
    BY <1>7, <2>2, <2>3 DEF Receive, Returns, Drain
<1>8. ASSUME WriteFile PROVE LoadInv'
  <2>1. UNCHANGED <<member, load, loadErr, walk, pos, queue, cancelled>> /\ (stopped => stopped') /\ Release(cur) /\ cur \in Slots
    BY <1>8, <1>a, <1>b DEF WriteFile, Returns, walkVars, QueueInv
  <2>2. \A i \in Slots : load[i] \in {"start", "open"} => InFlight(i)'
    BY <1>c, <2>1, Kept DEF InFlight, InQueue
  <2> QED
    BY <1>0, <1>c, <2>1, <2>2, LoadFrame DEF WalkDone
<1>9. ASSUME TreeDone PROVE LoadInv'
  <2>1. CASE UNCHANGED <<member, walkVars, queue, loadVars, cur, stopped>> /\ writer' = "done"
    BY <1>0, <1>9, <1>c, <2>1, LoadFrame DEF TreeDone, LoadsDone, InFlight, InQueue, walkVars, loadVars, WalkDone
  <2> QED
    BY <1>9, <1>d, <2>1 DEF TreeDone
<1>10. ASSUME Cancel \/ Ended PROVE LoadInv'
  BY <1>0, <1>10, <1>c, LoadFrame DEF Cancel, Ended, vars, walkVars, loadVars, InFlight, InQueue, WalkDone
<1>11. ASSUME NEW j \in Slots, Load(j) PROVE LoadInv'
  <2>1. UNCHANGED <<member, walk, pos, queue, writer, cur, cancelled, stopped>>
    BY <1>11 DEF Load, walkVars
  <2>2. Files' = Files /\ \A i : InFlight(i)' <=> InFlight(i)
    BY <2>1 DEF Files, Tree, InFlight, InQueue
  <2>3. /\ \A m, i : Err(m, i)' = Err(m, i)
        /\ \A m, i : Eligible(m, i)' <=> Eligible(m, i)
    BY <1>0, SourceSame
  <2>4. /\ load \in [Slots -> Loads] /\ load' \in [Slots -> Loads] /\ DOMAIN loadErr' = Slots
        /\ \A i \in Slots : i # j => load'[i] = load[i] /\ loadErr'[i] = loadErr[i]
    BY <1>11 DEF Load, LoadInv, Loads
  <2>5. \A i \in Slots : i # j => PrefetchErr(i)' = PrefetchErr(i)
    BY <2>1, <2>3, <2>4 DEF PrefetchErr, HandedBack, Tree
  <2>6. ASSUME NEW i \in Slots, i # j, load[i] # "none"
        PROVE  /\ i \in Files' /\ i <= pos' /\ (walk' \in {"visit", "mem", "worker"} => i < pos')
               /\ Eligible(member, i)' /\ (load'[i] \in {"start", "open"} => InFlight(i)' /\ loadErr'[i] = "none")
               /\ load'[i] = "open" => Err(member, i)' # "open"
               /\ load'[i] \in {"done", "exited"} =>
                     PrefetchErr(i)' = Err(member, i)' \/ (WalkDone' /\ PrefetchErr(i)' = "open")
    BY <2>1, <2>2, <2>3, <2>4, <2>5, <2>6 DEF LoadInv, WalkDone
  <2>7. /\ load[j] # "none" /\ j \in Files' /\ j <= pos' /\ (walk' \in {"visit", "mem", "worker"} => j < pos')
        /\ Eligible(member, j)'
    BY <1>11, <2>1, <2>2, <2>3 DEF Load, LoadInv
  <2>8. /\ load'[j] \in {"start", "open"} => InFlight(j)' /\ loadErr'[j] = "none"
        /\ load'[j] = "open" => Err(member, j)' # "open"
    BY <1>11, <2>1, <2>2, <2>3 DEF Load, LoadInv
  <2>9. load'[j] \in {"done", "exited"} =>
           PrefetchErr(j)' = Err(member, j)' \/ (WalkDone' /\ PrefetchErr(j)' = "open")
    BY <1>11, <2>1, <2>3 DEF Load, LoadInv, PrefetchErr, HandedBack, WalkDone, Tree
  <2>10. load'[j] # "none"
    BY <1>11 DEF Load, LoadInv
  <2> QED
    BY <2>4, <2>6, <2>7, <2>8, <2>9, <2>10 DEF LoadInv
<1> QED
  BY <1>1, <1>2, <1>3, <1>4, <1>5, <1>6, <1>7, <1>8, <1>9, <1>10, <1>11 DEF Next, Walk, Writer

FrontInv == FlowInv /\ QueueInv /\ LoadInv

-----------------------------------------------------------------------------
(* The budgets *)

LEMMA UnitsAdd ==
    ASSUME NEW m \in Members, NEW S \in SUBSET Small(m), NEW i \in Small(m) \ S
    PROVE  /\ Cardinality(Units(m, S)) \in Nat
           /\ Cardinality(Units(m, S \cup {i})) = Cardinality(Units(m, S)) + Trees[m][i].size + 1
<1>1. \A j \in Small(m) : Trees[m][j].size \in Nat /\ Trees[m][j].size < Memory
  BY TreesFacts DEF Small, TreeEntry
<1>2. IsFiniteSet(Small(m)) /\ Memory \in Nat
  <2>1. IsFiniteSet(1..Len(Trees[m]))
    BY TreesFacts, FS_Interval
  <2> QED
    BY <2>1, FS_Subset, ReadAheadAssumption DEF Small
<1>3. IsFiniteSet(Units(m, S))
  <2>1. IsFiniteSet(S) /\ IsFiniteSet(0..Memory)
    BY <1>2, FS_Subset, FS_Interval
  <2>2. IsFiniteSet(S \X (0..Memory))
    BY <2>1, FS_Product
  <2>3. Units(m, S) \subseteq S \X (0..Memory)
    BY <1>1, <1>2 DEF Units
  <2> QED
    BY <2>2, <2>3, FS_Subset
<1>4. PICK w : w = Trees[m][i].size + 1
  OBVIOUS
<1>5. w \in Nat /\ w >= 1
  BY <1>1, <1>4
<1>6. IsFiniteSet({i} \X (0..w - 1)) /\ Cardinality({i} \X (0..w - 1)) = w
  <2>1. IsFiniteSet({i}) /\ Cardinality({i}) = 1
    BY FS_Singleton
  <2>2. IsFiniteSet(0..w - 1) /\ Cardinality(0..w - 1) = w
    BY <1>5, FS_Interval
  <2>3. IsFiniteSet({i} \X (0..w - 1)) /\ Cardinality({i} \X (0..w - 1)) = 1 * w
    BY <2>1, <2>2, FS_Product
  <2> QED
    BY <1>5, <2>3
<1>7. Units(m, S \cup {i}) = Units(m, S) \cup ({i} \X (0..w - 1))
  <2>1. \A u \in Units(m, S \cup {i}) : u \in Units(m, S) \cup ({i} \X (0..w - 1))
    BY <1>4, <1>5 DEF Units
  <2>2. \A u \in Units(m, S) : u \in Units(m, S \cup {i})
    BY DEF Units
  <2>3. \A u \in {i} \X (0..w - 1) : u \in Units(m, S \cup {i})
    BY <1>4, <1>5 DEF Units
  <2> QED
    BY <2>1, <2>2, <2>3
<1>8. Units(m, S) \cap ({i} \X (0..w - 1)) = {}
  BY DEF Units
<1>9. PICK A, B : A = Units(m, S) /\ B = {i} \X (0..w - 1)
  OBVIOUS
<1>10. IsFiniteSet(A) /\ IsFiniteSet(B) /\ A \cap B = {} /\ Cardinality(B) = w
  BY <1>3, <1>6, <1>8, <1>9
<1>11. Cardinality(A) \in Nat /\ Cardinality(A \cup B) = Cardinality(A) + Cardinality(B) - Cardinality(A \cap B)
  BY <1>10, FS_Union, FS_CardinalityType
<1>12. Cardinality(A \cup B) = Cardinality(A) + w
  <2>1. Cardinality(A \cap B) = 0
    BY <1>10, FS_EmptySet
  <2>2. PICK x, y : x = Cardinality(A) /\ y = Cardinality(A \cup B)
    OBVIOUS
  <2>3. x \in Nat /\ y = x + w - 0
    BY <1>10, <1>11, <2>1, <2>2
  <2> QED
    BY <1>5, <2>2, <2>3
<1>13. Cardinality(Units(m, S \cup {i})) = Cardinality(A) + w
  BY <1>7, <1>9, <1>12
<1>14. Trees[m][i].size \in Nat
  BY <1>1
<1> QED
  BY <1>4, <1>9, <1>11, <1>13, <1>14

LEMMA UnitsNone ==
    ASSUME NEW m
    PROVE  Cardinality(Units(m, {})) = 0
<1>1. Units(m, {}) = {}
  BY DEF Units
<1> QED
  BY <1>1, FS_EmptySet

\* Who holds something is an entry the budgets know.
LEMMA Holders ==
    ASSUME FrontInv, member \in Members
    PROVE  /\ HoldsMemory \in SUBSET Small(member) /\ IsFiniteSet(HoldsWorker)
           /\ HoldsWorker \subseteq Slots
           /\ \A i \in Slots : load[i] # "none" => i \in Small(member) /\ Weight(i) = Trees[member][i].size + 1
           /\ walk \in {"mem", "worker"} =>
                 pos \in Small(member) /\ pos \in Slots /\ load[pos] = "none" /\ Weight(pos) = Trees[member][pos].size + 1
<1>1. Files \subseteq 1..Len(Trees[member]) /\ Files \subseteq Slots
  BY Entries DEF Tree
<1>2. \A i \in Files : Eligible(member, i) => i \in Small(member)
  BY <1>1 DEF Eligible, Small
<1>3. \A i : Weight(i) = Trees[member][i].size + 1
  BY DEF Weight, Tree
<1>4. \A i \in Slots : load[i] # "none" => i \in Small(member)
  BY <1>2 DEF FrontInv, LoadInv
<1>5. walk \in {"mem", "worker"} => pos \in Small(member) /\ pos \in Slots /\ load[pos] = "none"
  <2>1. pos \in Nat
    BY DEF FrontInv, FlowInv, FlowType
  <2> QED
    BY <1>1, <1>2, <2>1 DEF FrontInv, FlowInv, WalkInv, LoadInv
<1>6. HoldsMemory \in SUBSET Small(member)
  BY <1>4, <1>5 DEF HoldsMemory
<1>7. IsFiniteSet(HoldsWorker) /\ HoldsWorker \subseteq Slots
  <2>1. HoldsWorker \subseteq Slots
    BY DEF HoldsWorker
  <2> QED
    BY <2>1, SlotsFinite, FS_Subset
<1> QED
  BY <1>3, <1>4, <1>5, <1>6, <1>7

\* Adding and removing one of a set.
LEMMA OneMore ==
    ASSUME NEW S, IsFiniteSet(S), NEW i
    PROVE  /\ Cardinality(S) \in Nat
           /\ i \notin S => Cardinality(S \cup {i}) = Cardinality(S) + 1
           /\ i \in S => Cardinality(S \ {i}) = Cardinality(S) - 1
  BY FS_AddElement, FS_RemoveElement, FS_CardinalityType

\* Nothing is taken or given back.
LEMMA BudgetSame ==
    ASSUME BudgetInv, UNCHANGED <<member, memory, workers>>,
           HoldsMemory' = HoldsMemory, HoldsWorker' = HoldsWorker, open' \subseteq Slots,
           \A i \in open' : load'[i] = "open" \/ (load'[i] \in {"done", "exited"} /\ HandedBack(i)' /\ InFlight(i)')
    PROVE  BudgetInv'
  BY DEF BudgetInv

LEMMA BudgetFrame ==
    ASSUME FrontInv, BudgetInv, UNCHANGED <<member, memory, workers, load, loadErr, open>>,
           \A i \in Slots : load[i] # "none" => (InFlight(i)' <=> InFlight(i)),
           (walk' = "worker") <=> (walk = "worker"), walk = "worker" => pos' = pos
    PROVE  BudgetInv'
<1>1. \A i : HandedBack(i)' <=> HandedBack(i)
  BY DEF HandedBack, Tree
<1>2. HoldsMemory' = HoldsMemory
  BY DEF HoldsMemory
<1>3. HoldsWorker' = HoldsWorker
  BY <1>1 DEF HoldsWorker
<1> QED
  BY <1>1, <1>2, <1>3, BudgetSame DEF BudgetInv

\* Entry i is let go: what it held is given back.
LEMMA BudgetRelease ==
    ASSUME FrontInv, BudgetInv, member \in Members, UNCHANGED <<member, load, loadErr>>,
           NEW i \in {0} \cup Slots, i # 0 => InFlight(i), Release(i),
           \A j \in Slots : InFlight(j)' <=> InFlight(j) /\ j # i,
           (walk' = "worker") <=> (walk = "worker"), walk = "worker" => pos' = pos
    PROVE  BudgetInv'
<1>1. CASE ~Prefetched(i)
  <2>1. UNCHANGED <<open, memory, workers>>
    BY <1>1 DEF Release
  <2>2. \A j \in Slots : load[j] # "none" => (InFlight(j)' <=> InFlight(j))
    BY <1>1, SlotsFinite DEF Prefetched
  <2> QED
    BY <2>1, <2>2, BudgetFrame
<1>2. CASE Prefetched(i)
  <2>1. /\ i \in Slots /\ load[i] \in {"done", "exited"} /\ open' = open \ {i} /\ memory' = memory + Weight(i)
        /\ workers' = IF HandedBack(i) THEN workers + 1 ELSE workers
    BY <1>2, SlotsFinite DEF Release, Prefetched, Loaded
  <2>2. \A j : HandedBack(j)' <=> HandedBack(j)
    BY DEF HandedBack, Tree
  <2>3. /\ HoldsMemory \in SUBSET Small(member) /\ IsFiniteSet(HoldsWorker)
        /\ i \in Small(member) /\ Weight(i) = Trees[member][i].size + 1
        /\ walk = "worker" => load[pos] = "none"
    BY <2>1, Holders
  <2>4. i \in HoldsMemory /\ HoldsMemory' = HoldsMemory \ {i}
    <3>1. i \in HoldsMemory
      BY <2>1, SlotsFinite DEF HoldsMemory
    <3>2. walk = "worker" => i # pos
      BY <2>1, <2>3
    <3>3. \A j : j \in HoldsMemory' <=> j \in HoldsMemory /\ j # i
      BY <3>2 DEF HoldsMemory
    <3> QED
      BY <3>1, <3>3
  <2>5. HandedBack(i) => i \in HoldsWorker /\ HoldsWorker' = HoldsWorker \ {i}
    <3>1. SUFFICES ASSUME HandedBack(i) PROVE i \in HoldsWorker /\ HoldsWorker' = HoldsWorker \ {i}
      OBVIOUS
    <3>2. i \in HoldsWorker
      BY <2>1, <3>1, SlotsFinite DEF HoldsWorker
    <3>3. \A j : j \in HoldsWorker' <=> j \in HoldsWorker /\ j # i
      BY <2>1, <2>2, <3>1 DEF HoldsWorker
    <3> QED
      BY <3>2, <3>3
  <2>6. ~HandedBack(i) => HoldsWorker' = HoldsWorker
    <3>1. SUFFICES ASSUME ~HandedBack(i) PROVE HoldsWorker' = HoldsWorker
      OBVIOUS
    <3>2. \A j : j \in HoldsWorker' <=> j \in HoldsWorker
      BY <2>1, <2>2, <3>1 DEF HoldsWorker
    <3> QED
      BY <3>2
  <2>7. memory' \in Nat /\ memory' + Cardinality(Units(member, HoldsMemory')) = Memory
    <3>1. PICK S : S = HoldsMemory \ {i}
      OBVIOUS
    <3>2. S \in SUBSET Small(member) /\ i \in Small(member) \ S /\ S \cup {i} = HoldsMemory
      BY <2>3, <2>4, <3>1
    <3>3. /\ Cardinality(Units(member, S)) \in Nat
          /\ Cardinality(Units(member, S \cup {i})) = Cardinality(Units(member, S)) + Trees[member][i].size + 1
      BY <3>2, UnitsAdd
    <3>4. PICK x, w : x = Cardinality(Units(member, S)) /\ w = Trees[member][i].size
      OBVIOUS
    <3>5. x \in Nat /\ w \in Nat /\ memory \in Nat /\ memory + (x + w + 1) = Memory /\ memory' = memory + (w + 1)
      <4>1. w \in Nat
        BY <2>3, <3>4, TreesFacts DEF Small, TreeEntry
      <4> QED
        BY <2>1, <2>3, <3>2, <3>3, <3>4, <4>1 DEF BudgetInv
    <3>6. memory' \in Nat /\ memory' + x = Memory
      BY <3>5
    <3> QED
      BY <2>4, <3>1, <3>4, <3>6
  <2>8. workers' \in Nat /\ workers' + Cardinality(HoldsWorker') = Workers
    <3>1. workers \in Nat /\ workers + Cardinality(HoldsWorker) = Workers
      BY DEF BudgetInv
    <3>2. CASE ~HandedBack(i)
      BY <2>1, <2>6, <3>1, <3>2
    <3>3. CASE HandedBack(i)
      <4>1. PICK S : S = HoldsWorker
        OBVIOUS
      <4>2. Cardinality(S) \in Nat /\ Cardinality(S \ {i}) = Cardinality(S) - 1
        BY <2>3, <2>5, <3>3, <4>1, OneMore
      <4>3. workers' = workers + 1 /\ HoldsWorker' = S \ {i}
        BY <2>1, <2>5, <3>3, <4>1
      <4> QED
        BY <3>1, <4>1, <4>2, <4>3
    <3> QED
      BY <3>2, <3>3
  <2>9. open' \subseteq Slots
    BY <2>1 DEF BudgetInv
  <2>10. \A j \in open' : load'[j] = "open" \/ (load'[j] \in {"done", "exited"} /\ HandedBack(j)' /\ InFlight(j)')
    BY <2>1, <2>2 DEF BudgetInv
  <2> QED
    BY <2>7, <2>8, <2>9, <2>10 DEF BudgetInv
<1> QED
  BY <1>1, <1>2

\* No entry is in flight twice.
LEMMA Distinct ==
    ASSUME FrontInv, member \in Members
    PROVE  /\ \A i \in Slots : InQueue(i) => i < pos /\ i # pos
           /\ writer = "write" => cur \in Slots /\ cur # pos /\ ~InQueue(cur) /\ InFlight(cur)
           /\ queue # <<>> =>
                 /\ Head(queue) \in {0} \cup Slots /\ Head(queue) # pos
                 /\ \A i : In(queue, i) <=> i = Head(queue) \/ In(Tail(queue), i)
                 /\ Head(queue) # 0 => ~In(Tail(queue), Head(queue)) /\ InFlight(Head(queue))
<1>1. Files \subseteq Nat \ {0} /\ Files \subseteq Slots /\ pos \in Nat \ {0} /\ Slots \subseteq Nat \ {0}
  BY Entries, SlotsFinite, TreesFacts DEF FrontInv, FlowInv, FlowType, WalkInv, Members
<1>2. queue \in Seq({0} \cup Slots) /\ OnTheWay(queue, pos, walk)
  BY DEF FrontInv, QueueInv, OnTheWay
<1>3. \A k \in 1..Len(queue) : queue[k] = 0 \/ (queue[k] \in Files /\ queue[k] < pos)
  BY DEF FrontInv, QueueInv, OnTheWay
<1>4. \A i \in Slots : InQueue(i) => i < pos /\ i # pos
  BY <1>1, <1>3 DEF InQueue, In
<1>5. writer = "write" => cur \in Slots /\ cur # pos /\ ~InQueue(cur) /\ InFlight(cur)
  <2>1. SUFFICES ASSUME writer = "write" PROVE cur \in Slots /\ cur # pos /\ ~InQueue(cur) /\ InFlight(cur)
    OBVIOUS
  <2>2. cur \in Files /\ cur < pos /\ \A i : InQueue(i) /\ i # 0 => cur < i
    BY <2>1 DEF FrontInv, QueueInv
  <2>3. cur \in Nat /\ cur # 0 /\ cur \in Slots
    BY <1>1, <2>2
  <2>4. ~(cur < cur) /\ cur # pos
    BY <1>1, <2>2, <2>3
  <2> QED
    BY <2>1, <2>2, <2>3, <2>4 DEF InFlight
<1>6. ASSUME queue # <<>>
      PROVE  /\ Head(queue) \in {0} \cup Slots /\ Head(queue) # pos
             /\ \A i : In(queue, i) <=> i = Head(queue) \/ In(Tail(queue), i)
             /\ Head(queue) # 0 => ~In(Tail(queue), Head(queue)) /\ InFlight(Head(queue))
  <2>1. /\ Head(queue) = queue[1] /\ 1 \in 1..Len(queue) /\ Head(queue) \in {0} \cup Slots /\ In(queue, Head(queue))
        /\ \A i : In(queue, i) <=> i = Head(queue) \/ In(Tail(queue), i)
    BY <1>2, <1>6, TailFacts
  <2>2. Head(queue) # pos
    BY <1>1, <1>3, <2>1
  <2>3. Head(queue) # 0 => Head(queue) \in Files /\ \A i : In(Tail(queue), i) /\ i # 0 => Head(queue) < i
    BY <1>1, <1>2, <1>6, WayTail
  <2>4. Head(queue) # 0 => ~(Head(queue) < Head(queue))
    <3>1. PICK h : h = Head(queue)
      OBVIOUS
    <3>2. h # 0 => h \in Nat
      BY <1>1, <2>1, <3>1
    <3>3. h # 0 => ~(h < h)
      BY <3>2
    <3> QED
      BY <3>1, <3>3
  <2>5. Head(queue) # 0 => InFlight(Head(queue))
    BY <2>1 DEF InFlight, InQueue
  <2> QED
    BY <2>1, <2>2, <2>3, <2>4, <2>5
<1> QED
  BY <1>4, <1>5, <1>6

LEMMA BudgetInvStep ==
    ASSUME FrontInv, BudgetInv, Next
    PROVE  BudgetInv'
<1>0. UNCHANGED source
  BY SourceFixed
<1>b. pos \in Nat /\ (walk # "closed" => member \in Members) /\ (writer # "done" => member \in Members)
  BY Inside DEF FrontInv, FlowInv, FlowType
<1>c. queue \in Seq({0} \cup Slots) /\ load \in [Slots -> Loads] /\ DOMAIN loadErr = Slots
  BY DEF FrontInv, QueueInv, OnTheWay, LoadInv
<1>d. ASSUME BeginTree(1) \/ BeginTree(member + 1) PROVE BudgetInv'
  <2>1. memory' = Memory /\ workers' = Workers /\ open' = {} /\ Memory \in Nat /\ Workers \in Nat
    BY <1>d, ReadAheadAssumption DEF BeginTree
  <2>2. HoldsMemory' = {} /\ HoldsWorker' = {}
    BY <1>d DEF BeginTree, HoldsMemory, HoldsWorker
  <2>3. \A m : Cardinality(Units(m, {})) = 0 /\ Cardinality({}) = 0
    BY UnitsNone, FS_EmptySet
  <2> QED
    BY <2>1, <2>2, <2>3 DEF BudgetInv
<1>1. ASSUME TarMembers PROVE BudgetInv'
  <2>1. CASE UNCHANGED <<member, walkVars, queue, loadVars, writer, cur, stopped>>
    BY <2>1, BudgetFrame DEF InFlight, InQueue, walkVars, loadVars
  <2> QED
    BY <1>1, <1>d, <2>1 DEF TarMembers
<1>2. ASSUME WalkVisit PROVE BudgetInv'
  <2>1. walk = "visit" /\ walk' \in {"mem", "send", "error", "closed"} /\ pos' >= pos /\ pos' \in Nat /\ member \in Members
    BY <1>2, VisitFacts DEF FrontInv, WalkVisit
  <2>2. UNCHANGED <<member, queue, load, loadErr, open, memory, workers, writer, cur>>
    BY <1>2 DEF WalkVisit, loadVars
  <2>3. \A i \in Slots : load[i] # "none" => i < pos /\ i \in Nat
    BY <2>1, SlotsFinite DEF FrontInv, LoadInv
  <2>4. \A i \in Slots : load[i] # "none" => (InFlight(i)' <=> InFlight(i))
    BY <1>b, <2>1, <2>2, <2>3 DEF InFlight, InQueue
  <2> QED
    BY <2>1, <2>2, <2>4, BudgetFrame
<1>3. ASSUME AcquireMemory, memory' = memory - Weight(pos), memory >= Weight(pos), walk' = "worker", pos' = pos PROVE BudgetInv'
  <2>1. walk = "mem" /\ UNCHANGED <<member, queue, load, loadErr, open, workers, writer, cur>> /\ member \in Members
    BY <1>3, <1>b DEF AcquireMemory
  <2>2. /\ HoldsMemory \in SUBSET Small(member)
        /\ pos \in Small(member) /\ pos \in Slots /\ load[pos] = "none" /\ Weight(pos) = Trees[member][pos].size + 1
    BY <2>1, Holders
  <2>3. \A i : InFlight(i)' <=> InFlight(i)
    BY <1>3, <2>1 DEF InFlight, InQueue
  <2>4. \A i : HandedBack(i)' <=> HandedBack(i)
    BY <2>1 DEF HandedBack, Tree
  <2>5. pos \notin HoldsMemory /\ HoldsMemory' = HoldsMemory \cup {pos}
    <3>1. pos \notin HoldsMemory
      BY <2>1, <2>2 DEF HoldsMemory
    <3>2. \A j : j \in HoldsMemory' <=> j \in HoldsMemory \/ j = pos
      BY <1>3, <2>1, <2>2, <2>3 DEF HoldsMemory
    <3> QED
      BY <3>1, <3>2
  <2>6. HoldsWorker' = HoldsWorker
    BY <2>1, <2>3, <2>4 DEF HoldsWorker
  <2>7. memory' \in Nat /\ memory' + Cardinality(Units(member, HoldsMemory')) = Memory
    <3>1. PICK S : S = HoldsMemory
      OBVIOUS
    <3>3. /\ Cardinality(Units(member, S)) \in Nat
          /\ Cardinality(Units(member, S \cup {pos})) = Cardinality(Units(member, S)) + Trees[member][pos].size + 1
      BY <2>1, <2>2, <2>5, <3>1, UnitsAdd
    <3>4. PICK x, w : x = Cardinality(Units(member, S)) /\ w = Trees[member][pos].size
      OBVIOUS
    <3>5. /\ x \in Nat /\ w \in Nat /\ memory \in Nat /\ memory + x = Memory
          /\ memory' = memory - (w + 1) /\ memory >= w + 1
      <4>1. w \in Nat
        BY <2>1, <2>2, <3>4, TreesFacts DEF Small, TreeEntry
      <4> QED
        BY <1>3, <2>2, <3>1, <3>3, <3>4, <4>1 DEF BudgetInv
    <3>6. memory' \in Nat /\ memory' + (x + w + 1) = Memory
      BY <3>5
    <3> QED
      BY <2>5, <3>1, <3>3, <3>4, <3>6
  <2> QED
    BY <2>1, <2>3, <2>4, <2>6, <2>7 DEF BudgetInv
<1>4. ASSUME AcquireMemory, walk' = "error", UNCHANGED <<memory, pos>> PROVE BudgetInv'
  BY <1>4, BudgetFrame DEF AcquireMemory, InFlight, InQueue
<1>5. ASSUME AcquireWorker, workers > 0, workers' = workers - 1, load' = [load EXCEPT ![pos] = "start"],
             walk' = "send", UNCHANGED <<memory, pos>>
      PROVE  BudgetInv'
  <2>1. walk = "worker" /\ UNCHANGED <<member, queue, loadErr, open, writer, cur>> /\ member \in Members
    BY <1>5, <1>b DEF AcquireWorker
  <2>2. pos \in Slots /\ load[pos] = "none" /\ IsFiniteSet(HoldsWorker)
    BY <2>1, Holders
  <2>3. \A i : i # pos => (InFlight(i)' <=> InFlight(i))
    BY <1>5, <2>1 DEF InFlight, InQueue
  <2>4. \A i : HandedBack(i)' <=> HandedBack(i)
    BY <2>1 DEF HandedBack, Tree
  <2>5. load'[pos] = "start" /\ InFlight(pos)' /\ \A i \in Slots : i # pos => load'[i] = load[i]
    BY <1>5, <1>c, <2>2 DEF InFlight
  <2>6. HoldsMemory' = HoldsMemory
    <3>1. \A i : i \in HoldsMemory' <=> i \in HoldsMemory
      BY <1>5, <2>1, <2>2, <2>3, <2>5 DEF HoldsMemory
    <3> QED
      BY <3>1
  <2>7. pos \notin HoldsWorker /\ HoldsWorker' = HoldsWorker \cup {pos}
    <3>1. pos \notin HoldsWorker
      BY <2>2 DEF HoldsWorker
    <3>2. \A i : i \in HoldsWorker' <=> i \in HoldsWorker \/ i = pos
      BY <2>2, <2>3, <2>4, <2>5 DEF HoldsWorker
    <3> QED
      BY <3>1, <3>2
  <2>8. workers' \in Nat /\ workers' + Cardinality(HoldsWorker') = Workers
    <3>1. PICK S : S = HoldsWorker
      OBVIOUS
    <3>2. Cardinality(S) \in Nat /\ Cardinality(S \cup {pos}) = Cardinality(S) + 1
      BY <2>2, <2>7, <3>1, OneMore
    <3>3. workers \in Nat /\ workers + Cardinality(S) = Workers
      BY <3>1 DEF BudgetInv
    <3> QED
      BY <1>5, <2>7, <3>1, <3>2, <3>3
  <2>9. \A i \in open' : load'[i] = "open" \/ (load'[i] \in {"done", "exited"} /\ HandedBack(i)' /\ InFlight(i)')
    BY <2>1, <2>2, <2>3, <2>4, <2>5 DEF BudgetInv
  <2> QED
    BY <1>5, <2>1, <2>6, <2>8, <2>9 DEF BudgetInv
<1>6. ASSUME AcquireWorker, memory' = memory + Weight(pos), walk' = "error", UNCHANGED <<workers, load, pos>> PROVE BudgetInv'
  <2>1. walk = "worker" /\ UNCHANGED <<member, queue, load, loadErr, open, workers, writer, cur>> /\ member \in Members
    BY <1>6, <1>b DEF AcquireWorker
  <2>2. /\ HoldsMemory \in SUBSET Small(member)
        /\ pos \in Small(member) /\ pos \in Slots /\ load[pos] = "none" /\ Weight(pos) = Trees[member][pos].size + 1
    BY <2>1, Holders
  <2>3. \A i : InFlight(i)' <=> InFlight(i)
    BY <1>6, <2>1 DEF InFlight, InQueue
  <2>4. \A i : HandedBack(i)' <=> HandedBack(i)
    BY <2>1 DEF HandedBack, Tree
  <2>5. pos \in HoldsMemory /\ HoldsMemory' = HoldsMemory \ {pos}
    <3>1. pos \in HoldsMemory
      BY <2>1, <2>2 DEF HoldsMemory
    <3>2. \A j : j \in HoldsMemory' <=> j \in HoldsMemory /\ j # pos
      BY <1>6, <2>1, <2>2, <2>3 DEF HoldsMemory
    <3> QED
      BY <3>1, <3>2
  <2>6. HoldsWorker' = HoldsWorker
    BY <2>1, <2>3, <2>4 DEF HoldsWorker
  <2>7. memory' \in Nat /\ memory' + Cardinality(Units(member, HoldsMemory')) = Memory
    <3>1. PICK S : S = HoldsMemory \ {pos}
      OBVIOUS
    <3>2. S \in SUBSET Small(member) /\ pos \in Small(member) \ S /\ S \cup {pos} = HoldsMemory
      BY <2>2, <2>5, <3>1
    <3>3. /\ Cardinality(Units(member, S)) \in Nat
          /\ Cardinality(Units(member, S \cup {pos})) = Cardinality(Units(member, S)) + Trees[member][pos].size + 1
      BY <2>1, <3>2, UnitsAdd
    <3>4. PICK x, w : x = Cardinality(Units(member, S)) /\ w = Trees[member][pos].size
      OBVIOUS
    <3>5. x \in Nat /\ w \in Nat /\ memory \in Nat /\ memory + (x + w + 1) = Memory /\ memory' = memory + (w + 1)
      <4>1. w \in Nat
        BY <2>1, <2>2, <3>4, TreesFacts DEF Small, TreeEntry
      <4> QED
        BY <1>6, <2>2, <3>2, <3>3, <3>4, <4>1 DEF BudgetInv
    <3>6. memory' \in Nat /\ memory' + x = Memory
      BY <3>5
    <3> QED
      BY <2>5, <3>1, <3>4, <3>6
  <2> QED
    BY <2>1, <2>3, <2>4, <2>6, <2>7 DEF BudgetInv
<1>7. ASSUME Send PROVE BudgetInv'
  <2>1. UNCHANGED <<member, load, loadErr, writer, cur>> /\ walk = "send" /\ member \in Members /\ pos \in Slots
    BY <1>7, <1>b, Inside DEF Send, FrontInv
  <2>2. CASE queue' = Append(queue, pos) /\ walk' = "visit" /\ UNCHANGED <<open, memory, workers>>
    <3>1. \A i : In(queue', i) <=> i = pos \/ In(queue, i)
      BY <1>c, <2>1, <2>2, AppendFacts
    <3>2. \A i \in Slots : InFlight(i)' <=> InFlight(i)
      BY <2>1, <2>2, <3>1 DEF InFlight, InQueue
    <3> QED
      BY <2>1, <2>2, <3>2, BudgetFrame
  <2>3. CASE UNCHANGED <<queue, pos>> /\ walk' = "error" /\ Release(pos)
    <3>1. InFlight(pos) /\ \A i \in Slots : InFlight(i)' <=> InFlight(i) /\ i # pos
      BY <2>1, <2>3, Distinct DEF InFlight, InQueue
    <3> QED
      BY <2>1, <2>3, <3>1, BudgetRelease
  <2> QED
    BY <1>7, <2>2, <2>3 DEF Send, SendFails, Reaches
<1>8. ASSUME SendError PROVE BudgetInv'
  <2>1. UNCHANGED <<member, load, loadErr, open, memory, workers, writer, cur, pos>> /\ walk = "error" /\ walk' = "closed"
    BY <1>8 DEF SendError, Reaches, loadVars
  <2>2. \A i \in Slots : In(queue, i) <=> In(queue', i)
    <3>1. CASE queue' = Append(queue, 0)
      BY <1>c, <3>1, AppendFacts, SlotsFinite
    <3> QED
      BY <1>8, <3>1 DEF SendError
  <2> QED
    BY <2>1, <2>2, BudgetFrame DEF InFlight, InQueue
<1>9. ASSUME Receive \/ Drain PROVE BudgetInv'
  <2>1. UNCHANGED <<member, load, loadErr, walk, pos>> /\ writer # "write" /\ member \in Members
    BY <1>9, <1>b DEF Receive, Drain, walkVars
  <2>2. CASE queue # <<>> /\ queue' = Tail(queue) /\ writer' = "write" /\ cur' = Head(queue) /\ UNCHANGED <<open, memory, workers>>
    <3>1. \A i \in Slots : InFlight(i)' <=> InFlight(i)
      BY <2>1, <2>2, Distinct DEF InFlight, InQueue
    <3> QED
      BY <2>1, <2>2, <3>1, BudgetFrame
  <2>3. CASE queue # <<>> /\ queue' = Tail(queue) /\ writer' # "write" /\ Release(Head(queue))
    <3>1. /\ Head(queue) \in {0} \cup Slots /\ (Head(queue) # 0 => InFlight(Head(queue)))
          /\ \A i \in Slots : InFlight(i)' <=> InFlight(i) /\ i # Head(queue)
      BY <2>1, <2>3, Distinct, SlotsFinite DEF InFlight, InQueue
    <3> QED
      BY <2>1, <2>3, <3>1, BudgetRelease
  <2>4. CASE UNCHANGED <<queue, open, memory, workers>> /\ writer' # "write"
    BY <2>1, <2>4, BudgetFrame DEF InFlight, InQueue
  <2> QED
    BY <1>9, <2>2, <2>3, <2>4 DEF Receive, Returns, Drain
<1>10. ASSUME WriteFile PROVE BudgetInv'
  <2>1. /\ UNCHANGED <<member, load, loadErr, walk, pos, queue>> /\ writer = "write" /\ writer' # "write"
        /\ Release(cur) /\ member \in Members
    BY <1>10, <1>b DEF WriteFile, Returns, walkVars
  <2>2. cur \in Slots /\ InFlight(cur) /\ \A i \in Slots : InFlight(i)' <=> InFlight(i) /\ i # cur
    BY <2>1, Distinct DEF InFlight, InQueue
  <2> QED
    BY <2>1, <2>2, BudgetRelease
<1>11. ASSUME TreeDone PROVE BudgetInv'
  <2>1. CASE UNCHANGED <<member, walkVars, queue, loadVars, cur, stopped>> /\ writer' = "done"
    BY <1>11, <2>1, BudgetFrame DEF TreeDone, InFlight, InQueue, walkVars, loadVars
  <2> QED
    BY <1>11, <1>d, <2>1 DEF TreeDone
<1>12. ASSUME Cancel \/ Ended PROVE BudgetInv'
  BY <1>12, BudgetFrame DEF Cancel, Ended, vars, walkVars, loadVars, InFlight, InQueue
<1>13. ASSUME NEW j \in Slots, Load(j) PROVE BudgetInv'
  <2>1. UNCHANGED <<member, walk, pos, queue, memory, writer, cur>>
    BY <1>13 DEF Load, walkVars
  <2>2. \A i : InFlight(i)' <=> InFlight(i)
    BY <2>1 DEF InFlight, InQueue
  <2>3. \A m, i : Err(m, i)' = Err(m, i)
    BY <1>0, SourceSame
  <2>4. \A i \in Slots : i # j => load'[i] = load[i] /\ loadErr'[i] = loadErr[i]
    BY <1>13, <1>c DEF Load
  <2>5. \A i \in Slots : i # j => (HandedBack(i)' <=> HandedBack(i))
    BY <2>1, <2>4 DEF HandedBack, Tree
  <2>6. load[j] # "none" /\ load'[j] # "none" /\ (load[j] \in {"start", "open"} => InFlight(j) /\ loadErr[j] = "none")
    BY <1>13, <1>c DEF Load, FrontInv, LoadInv
  <2>7. HoldsMemory' = HoldsMemory
    <3>1. \A i \in Slots : load'[i] # "none" <=> load[i] # "none"
      BY <2>4, <2>6
    <3> QED
      BY <2>1, <2>2, <3>1 DEF HoldsMemory
  <2>8. \A i \in Slots : i # j => (i \in HoldsWorker' <=> i \in HoldsWorker)
    BY <2>2, <2>4, <2>5 DEF HoldsWorker
  <2>9. CASE load[j] = "done" /\ ~HandedBack(j)
    <3>1. load'[j] = "exited" /\ workers' = workers + 1 /\ UNCHANGED <<loadErr, open>>
      BY <1>13, <1>c, <2>9 DEF Load
    <3>2. HandedBack(j)' <=> HandedBack(j)
      BY <2>1, <3>1 DEF HandedBack, Tree
    <3>3. j \in HoldsWorker /\ j \notin HoldsWorker'
      BY <2>9, <3>1, <3>2 DEF HoldsWorker
    <3>4. HoldsWorker' = HoldsWorker \ {j}
      <4>1. HoldsWorker \subseteq Slots /\ HoldsWorker' \subseteq Slots
        BY DEF HoldsWorker
      <4> QED
        BY <2>8, <3>3, <4>1
    <3>5. IsFiniteSet(HoldsWorker)
      <4>1. HoldsWorker \subseteq Slots
        BY DEF HoldsWorker
      <4> QED
        BY <4>1, SlotsFinite, FS_Subset
    <3>6. workers' \in Nat /\ workers' + Cardinality(HoldsWorker') = Workers
      <4>1. PICK S : S = HoldsWorker
        OBVIOUS
      <4>2. Cardinality(S) \in Nat /\ Cardinality(S \ {j}) = Cardinality(S) - 1
        BY <3>3, <3>5, <4>1, OneMore
      <4>3. workers \in Nat /\ workers + Cardinality(S) = Workers
        BY <4>1 DEF BudgetInv
      <4> QED
        BY <3>1, <3>4, <4>1, <4>2, <4>3
    <3>7. \A i \in open' : load'[i] = "open" \/ (load'[i] \in {"done", "exited"} /\ HandedBack(i)' /\ InFlight(i)')
      BY <2>2, <2>4, <2>5, <2>9, <3>1, <3>2 DEF BudgetInv
    <3> QED
      BY <2>1, <2>7, <3>1, <3>6, <3>7 DEF BudgetInv
  <2>10. CASE load[j] # "done" \/ HandedBack(j)
    <3>1. UNCHANGED workers
      BY <1>13, <2>10 DEF Load
    <3>2. j \in HoldsWorker' <=> j \in HoldsWorker
      BY <1>13, <1>c, <2>1, <2>2, <2>3, <2>6, <2>10 DEF Load, HoldsWorker, HandedBack, Tree
    <3>3. HoldsWorker' = HoldsWorker
      <4>1. HoldsWorker \subseteq Slots /\ HoldsWorker' \subseteq Slots
        BY DEF HoldsWorker
      <4> QED
        BY <2>8, <3>2, <4>1
    <3>4. open' \subseteq Slots /\ \A i \in open' : i = j \/ i \in open
      BY <1>13 DEF Load, BudgetInv
    <3>5. \A i \in open' : i # j => load'[i] = "open" \/ (load'[i] \in {"done", "exited"} /\ HandedBack(i)' /\ InFlight(i)')
      BY <2>2, <2>4, <2>5, <3>4 DEF BudgetInv
    <3>6. j \in open' => load'[j] = "open" \/ (load'[j] \in {"done", "exited"} /\ HandedBack(j)' /\ InFlight(j)')
      BY <1>13, <1>c, <2>1, <2>2, <2>3, <2>6, <2>10 DEF Load, HandedBack, Tree, BudgetInv
    <3> QED
      BY <2>1, <2>7, <3>1, <3>3, <3>4, <3>5, <3>6, BudgetSame
  <2> QED
    BY <2>9, <2>10
<1>14. ASSUME AcquireMemory \/ AcquireWorker PROVE BudgetInv'
  BY <1>3, <1>4, <1>5, <1>6, <1>14 DEF AcquireMemory, AcquireWorker, Reaches
<1> QED
  BY <1>1, <1>2, <1>7, <1>8, <1>9, <1>10, <1>11, <1>12, <1>13, <1>14 DEF Next, Walk, Writer

LEMMA BudgetInit ==
    ASSUME Init
    PROVE  BudgetInv
<1>1. memory = Memory /\ workers = Workers /\ open = {} /\ Memory \in Nat /\ Workers \in Nat
  BY ReadAheadAssumption DEF Init
<1>2. HoldsMemory = {} /\ HoldsWorker = {}
  BY DEF Init, HoldsMemory, HoldsWorker
<1>3. \A m : Cardinality(Units(m, {})) = 0 /\ Cardinality({}) = 0
  BY UnitsNone, FS_EmptySet
<1> QED
  BY <1>1, <1>2, <1>3 DEF BudgetInv

LEMMA FrontInit ==
    ASSUME Init
    PROVE  FrontInv
  BY FlowInit DEF FrontInv

LEMMA FrontStep ==
    ASSUME FrontInv, Next
    PROVE  FrontInv'
  BY FlowTypeStep, CallInvStep, WalkInvStep, QueueInvStep, LoadInvStep DEF FrontInv, FlowInv

LEMMA FrontStutter ==
    ASSUME FrontInv, BudgetInv, UNCHANGED vars
    PROVE  FrontInv' /\ BudgetInv'
<1>0. Ended \/ result = "none"
  BY DEF Ended
<1>1. UNCHANGED <<source, member, walk, pos, queue, load, loadErr, open, memory, workers, writer, cur,
                  links, out, failed, result, cancelled, stopped, faults>>
  BY DEF vars, walkVars, loadVars, outVars
<1>2. FlowInv'
  <2>1. MembersValid' <=> MembersValid /\ \A m, i : Err(m, i)' = Err(m, i) /\ (Eligible(m, i)' <=> Eligible(m, i))
    BY <1>1, SourceSame
  <2> QED
    BY <1>1, SourceSame DEF FrontInv, FlowInv, FlowType, CallInv, WalkInv, Busy, LoadsDone, Files, Tree
<1>3. QueueInv'
  BY <1>1, WaySame, SourceSame DEF FrontInv, QueueInv, InQueue, Files, Tree
<1>4. LoadInv'
  <2>1. \A i : InFlight(i)' <=> InFlight(i)
    BY <1>1 DEF InFlight, InQueue
  <2> QED
    BY <1>1, <2>1, LoadFrame DEF FrontInv, LoadInv, WalkDone
<1>5. BudgetInv'
  BY <1>1, BudgetFrame DEF InFlight, InQueue
<1> QED
  BY <1>2, <1>3, <1>4, <1>5 DEF FrontInv

\* What holds nothing has given everything back.
LEMMA BudgetsHold ==
    ASSUME FrontInv, BudgetInv
    PROVE  BudgetsSound
<1>1. Memory \in Nat /\ Workers \in Nat
  BY ReadAheadAssumption
<1>2. Cardinality(Units(member, HoldsMemory)) \in Nat
  <2>1. CASE member \in Members
    <3>1. PICK S : S = HoldsMemory
      OBVIOUS
    <3>2. S \in SUBSET Small(member)
      BY <2>1, <3>1, Holders
    <3>3. CASE S = {}
      BY <3>1, <3>3, UnitsNone
    <3>4. CASE S # {}
      <4>1. PICK i \in S : TRUE
        BY <3>4
      <4>2. PICK R : R = S \ {i}
        OBVIOUS
      <4>3. R \in SUBSET Small(member) /\ i \in Small(member) \ R /\ R \cup {i} = S
        BY <3>2, <4>1, <4>2
      <4>4. /\ Cardinality(Units(member, R)) \in Nat
            /\ Cardinality(Units(member, R \cup {i})) = Cardinality(Units(member, R)) + Trees[member][i].size + 1
        BY <2>1, <4>3, UnitsAdd
      <4>5. Trees[member][i].size \in Nat
        BY <2>1, <4>3, TreesFacts DEF Small, TreeEntry
      <4>6. PICK x, w : x = Cardinality(Units(member, R)) /\ w = Trees[member][i].size
        OBVIOUS
      <4>7. x + w + 1 \in Nat
        BY <4>4, <4>5, <4>6
      <4>8. Cardinality(Units(member, S)) = x + w + 1
        BY <4>3, <4>4, <4>6
      <4> QED
        BY <3>1, <4>7, <4>8
    <3> QED
      BY <3>3, <3>4
  <2>2. CASE member \notin Members
    <3>1. walk = "closed" /\ queue = <<>> /\ writer = "done"
      BY <2>2, Inside DEF FrontInv, FlowInv, FlowType, CallInv
    <3>2. HoldsMemory = {}
      BY <3>1 DEF HoldsMemory, InFlight, InQueue, In
    <3> QED
      BY <3>2, UnitsNone
  <2> QED
    BY <2>1, <2>2
<1>3. IsFiniteSet(HoldsWorker) /\ Cardinality(HoldsWorker) \in Nat
  <2>1. HoldsWorker \subseteq Slots
    BY DEF HoldsWorker
  <2> QED
    BY <2>1, SlotsFinite, FS_Subset, FS_CardinalityType
<1>4. memory \in 0..Memory /\ workers \in 0..Workers
  BY <1>1, <1>2, <1>3 DEF BudgetInv
<1>5. TypeOK
  BY <1>4 DEF TypeOK, FrontInv, FlowInv, FlowType, QueueInv, OnTheWay, LoadInv, BudgetInv
<1>6. FdsBounded
  <2>1. open \subseteq HoldsWorker
    BY DEF BudgetInv, HoldsWorker
  <2>2. Cardinality(open) <= Cardinality(HoldsWorker) /\ Cardinality(open) \in Nat
    BY <1>3, <2>1, FS_Subset, FS_CardinalityType
  <2> QED
    BY <1>1, <1>3, <2>2 DEF FdsBounded, BudgetInv
<1>7. NothingOutlives
  <2>1. SUFFICES ASSUME result # "none" PROVE NothingOutlives
    BY DEF NothingOutlives
  <2>2. queue = <<>> /\ walk = "closed" /\ writer = "done" /\ LoadsDone
    BY <2>1 DEF FrontInv, FlowInv, CallInv
  <2>3. \A i : ~InFlight(i)
    BY <2>2 DEF InFlight, InQueue, In
  <2>4. HoldsMemory = {} /\ HoldsWorker = {} /\ open = {}
    BY <2>2, <2>3 DEF HoldsMemory, HoldsWorker, LoadsDone, BudgetInv
  <2>5. Cardinality(Units(member, HoldsMemory)) = 0 /\ Cardinality(HoldsWorker) = 0
    BY <2>4, UnitsNone, FS_EmptySet
  <2>6. memory = Memory /\ workers = Workers
    BY <1>1, <2>5 DEF BudgetInv
  <2> QED
    BY <2>2, <2>4, <2>6 DEF NothingOutlives, LoadsDone
<1> QED
  BY <1>5, <1>6, <1>7 DEF BudgetsSound

(***************************************************************************)
(* The budgets of memory and workers that startPrefetch takes from and     *)
(* load and release give back to are kept on every path: an open file      *)
(* counts for a worker until it is closed, and when Tar returns both       *)
(* budgets are whole, no file is open and no goroutine runs.  For every    *)
(* tree, every budget and every interleaving of the walk, the loads, the   *)
(* writer and a cancellation.                                              *)
(***************************************************************************)
THEOREM BudgetsAreKept == Spec => []BudgetsSound
<1>1. Init => FrontInv /\ BudgetInv
  BY FrontInit, BudgetInit
<1>2. FrontInv /\ BudgetInv /\ [Next]_vars => (FrontInv /\ BudgetInv)'
  BY FrontStep, BudgetInvStep, FrontStutter
<1>3. FrontInv /\ BudgetInv => BudgetsSound
  BY BudgetsHold
<1> QED
  BY <1>1, <1>2, <1>3, PTL DEF Spec

-----------------------------------------------------------------------------
(* The serial path *)

\* Writing an entry reads the source only.
LEMMA WriteSame ==
    ASSUME UNCHANGED source
    PROVE  /\ \A m, i, known, err : WriteEntry(m, i, known, err)' = WriteEntry(m, i, known, err)
           /\ \A m, i, so : SerialEntry(m, i, so)' = SerialEntry(m, i, so)
           /\ \A T : IsSerial(T)' <=> IsSerial(T)
<1>1. \A m, i : Err(m, i)' = Err(m, i)
  BY SourceSame
<1>2. \A m, i, known, err : WriteEntry(m, i, known, err)' = WriteEntry(m, i, known, err)
  BY DEF WriteEntry, Entry, source
<1>3. \A m, i, so : SerialEntry(m, i, so)' = SerialEntry(m, i, so)
  <2>1. SUFFICES ASSUME NEW m, NEW i, NEW so PROVE SerialEntry(m, i, so)' = SerialEntry(m, i, so)
    OBVIOUS
  <2>2. PICK err : err = Err(m, i)
    OBVIOUS
  <2>3. Err(m, i)' = err
    BY <1>1, <2>2
  <2>4. WriteEntry(m, i, so.links, err)' = WriteEntry(m, i, so.links, err)
    BY <1>2
  <2>5. WriteEntry(m, i, so.links, Err(m, i))' = WriteEntry(m, i, so.links, err)'
    BY <2>3 DEF WriteEntry, Entry
  <2>6. WriteEntry(m, i, so.links, Err(m, i))' = WriteEntry(m, i, so.links, Err(m, i))
    BY <2>2, <2>4, <2>5
  <2> QED
    BY <2>2, <2>3, <2>6 DEF SerialEntry
<1>4. \A T : IsSerial(T)' <=> IsSerial(T)
  BY <1>3 DEF IsSerial
<1> QED
  BY <1>2, <1>3, <1>4

\* What writing an entry adds.
LEMMA WriteFacts ==
    ASSUME NEW m \in Members, NEW i \in 1..Len(Trees[m]), NEW known, NEW err,
           NEW w, w = WriteEntry(m, i, known, err)
    PROVE  \/ w.out = <<>> /\ w.links = known
           \/ \E what, link :
                 /\ w.out = <<Entry(m, i, what, link)>>
                 /\ what = "link" => \E k \in known : k.id = HardlinkID(Trees[m][i]) /\ link = k.name
                 /\ w.links = known
                    \/ (w.links = known \cup {[id |-> HardlinkID(Trees[m][i]), name |-> <<subdir[m], i>>]}
                        /\ (~w.fails => what = "file"))
<1>1. Trees[m][i].kind \in Kinds
  BY TreesFacts DEF TreeEntry
<1>2. PICK e, id : e = Trees[m][i] /\ id = HardlinkID(e)
  OBVIOUS
<1>3. CASE err \in {"info", "open", "probe", "readlink"} \/ e.kind = "special"
  BY <1>2, <1>3 DEF WriteEntry
<1>4. CASE err \notin {"info", "open", "probe", "readlink"} /\ e.kind \in {"dir", "symlink"}
  <2>1. w.out = <<Entry(m, i, e.kind, <<>>)>> /\ w.links = known
    BY <1>2, <1>4 DEF WriteEntry
  <2> QED
    BY <1>4, <2>1
<1>5. CASE err \notin {"info", "open", "probe", "readlink"} /\ e.kind = "file"
  <2>1. CASE Linked(e) /\ \E k \in known : k.id = id
    <3>1. PICK k : k = CHOOSE l \in known : l.id = id
      OBVIOUS
    <3>2. k \in known /\ k.id = id
      BY <2>1, <3>1
    <3>3. w.out = <<Entry(m, i, "link", k.name)>> /\ w.links = known
      BY <1>2, <1>5, <2>1, <3>1 DEF WriteEntry
    <3> QED
      BY <1>2, <3>2, <3>3
  <2>2. CASE ~(Linked(e) /\ \E k \in known : k.id = id)
    <3>1. PICK what : what = IF err = "read" THEN "torn" ELSE "file"
      OBVIOUS
    <3>2. PICK added : added = IF Linked(e) THEN {[id |-> id, name |-> <<subdir[m], i>>]} ELSE {}
      OBVIOUS
    <3>3. /\ w.out = <<Entry(m, i, what, <<>>)>> /\ w.links = known \cup added
          /\ err = "read" => w.fails
      BY <1>2, <1>5, <2>2, <3>1, <3>2 DEF WriteEntry
    <3> QED
      BY <1>2, <3>1, <3>2, <3>3
  <2> QED
    BY <2>1, <2>2
<1> QED
  BY <1>1, <1>2, <1>3, <1>4, <1>5 DEF Kinds

LEMMA OpenFails ==
    ASSUME NEW m, NEW i, NEW known
    PROVE  WriteEntry(m, i, known, "open").out = <<>>
  BY DEF WriteEntry

\* The functions the serial path defines.
LEMMA TreeRecursion ==
    ASSUME NEW m \in Members, NEW before
    PROVE  SerialTree(m, before) =
             [i \in 0..Len(Trees[m]) |-> IF i = 0 THEN before ELSE SerialEntry(m, i, SerialTree(m, before)[i - 1])]
<1>1. PICK N : N = Len(Trees[m])
  OBVIOUS
<1>2. N \in Nat
  BY <1>1, TreesFacts
<1>3. PICK S : S = {n \in Nat : \E g : g = [i \in 0..n |-> IF i = 0 THEN before ELSE SerialEntry(m, i, g[i - 1])]}
  OBVIOUS
<1>4. 0 \in S
  <2>1. PICK g : g = [i \in 0..0 |-> before]
    OBVIOUS
  <2>2. g = [i \in 0..0 |-> IF i = 0 THEN before ELSE SerialEntry(m, i, g[i - 1])]
    BY <2>1
  <2> QED
    BY <1>3, <2>2
<1>5. ASSUME NEW j \in 0..N - 1, j \in S PROVE j + 1 \in S
  <2>1. PICK g : g = [i \in 0..j |-> IF i = 0 THEN before ELSE SerialEntry(m, i, g[i - 1])]
    BY <1>3, <1>5
  <2>2. PICK h : h = [i \in 0..j + 1 |-> IF i = j + 1 THEN SerialEntry(m, j + 1, g[j]) ELSE g[i]]
    OBVIOUS
  <2>3. j \in Nat
    BY <1>2, <1>5
  <2>4. \A i \in 0..j : h[i] = g[i]
    BY <2>2, <2>3
  <2>5. ASSUME NEW i \in 0..j + 1 PROVE h[i] = IF i = 0 THEN before ELSE SerialEntry(m, i, h[i - 1])
    <3>1. CASE i = j + 1
      BY <2>2, <2>3, <2>4, <3>1
    <3>2. CASE i # j + 1
      <4>1. i \in 0..j /\ (i # 0 => i - 1 \in 0..j)
        BY <2>3, <3>2
      <4> QED
        BY <2>1, <2>4, <4>1
    <3> QED
      BY <3>1, <3>2
  <2>6. h = [i \in 0..j + 1 |-> IF i = 0 THEN before ELSE SerialEntry(m, i, h[i - 1])]
    BY <2>2, <2>5
  <2> QED
    BY <1>3, <2>3, <2>6
<1>6. N \in S
  BY <1>2, <1>4, <1>5, UpTo
<1>7. \E g : g = [i \in 0..Len(Trees[m]) |-> IF i = 0 THEN before ELSE SerialEntry(m, i, g[i - 1])]
  BY <1>1, <1>3, <1>6
<1> QED
  BY <1>7 DEF SerialTree

LEMMA MembersRecursion ==
    SerialMembers =
      [m \in 0..Len(Trees) |->
         IF m = 0 THEN [out |-> <<>>, links |-> {}, fails |-> FALSE]
         ELSE SerialTree(m, SerialMembers[m - 1])[Len(Trees[m])]]
<1>0. PICK zero : zero = [out |-> <<>>, links |-> {}, fails |-> FALSE]
  OBVIOUS
<1>1. PICK N : N = Len(Trees)
  OBVIOUS
<1>2. N \in Nat
  BY <1>1, TreesFacts
<1>3. PICK S : S = {n \in Nat : \E g : g = [m \in 0..n |-> IF m = 0 THEN zero ELSE SerialTree(m, g[m - 1])[Len(Trees[m])]]}
  OBVIOUS
<1>4. 0 \in S
  <2>1. PICK g : g = [m \in 0..0 |-> zero]
    OBVIOUS
  <2>2. g = [m \in 0..0 |-> IF m = 0 THEN zero ELSE SerialTree(m, g[m - 1])[Len(Trees[m])]]
    BY <2>1
  <2> QED
    BY <1>3, <2>2
<1>5. ASSUME NEW j \in 0..N - 1, j \in S PROVE j + 1 \in S
  <2>1. PICK g : g = [m \in 0..j |-> IF m = 0 THEN zero ELSE SerialTree(m, g[m - 1])[Len(Trees[m])]]
    BY <1>3, <1>5
  <2>2. PICK h : h = [m \in 0..j + 1 |-> IF m = j + 1 THEN SerialTree(j + 1, g[j])[Len(Trees[j + 1])] ELSE g[m]]
    OBVIOUS
  <2>3. j \in Nat
    BY <1>2, <1>5
  <2>4. \A m \in 0..j : h[m] = g[m]
    BY <2>2, <2>3
  <2>5. ASSUME NEW m \in 0..j + 1 PROVE h[m] = IF m = 0 THEN zero ELSE SerialTree(m, h[m - 1])[Len(Trees[m])]
    <3>1. CASE m = j + 1
      BY <2>2, <2>3, <2>4, <3>1
    <3>2. CASE m # j + 1
      <4>1. m \in 0..j /\ (m # 0 => m - 1 \in 0..j)
        BY <2>3, <3>2
      <4> QED
        BY <2>1, <2>4, <4>1
    <3> QED
      BY <3>1, <3>2
  <2>6. h = [m \in 0..j + 1 |-> IF m = 0 THEN zero ELSE SerialTree(m, h[m - 1])[Len(Trees[m])]]
    BY <2>2, <2>5
  <2> QED
    BY <1>3, <2>3, <2>6
<1>6. N \in S
  BY <1>2, <1>4, <1>5, UpTo
<1>7. \E g : g = [m \in 0..Len(Trees) |-> IF m = 0 THEN [out |-> <<>>, links |-> {}, fails |-> FALSE]
                                           ELSE SerialTree(m, g[m - 1])[Len(Trees[m])]]
  BY <1>0, <1>1, <1>3, <1>6
<1> QED
  BY <1>7 DEF SerialMembers

\* The serial path, entry by entry, and where it ends.
LEMMA SerialExists ==
    \E T : IsSerial(T) /\ Serial = T[Len(Trees)][Len(Trees[Len(Trees)])]
<1>1. PICK T : T = [m \in Members |-> SerialTree(m, SerialMembers[m - 1])]
  OBVIOUS
<1>2. Len(Trees) \in Nat /\ Len(Trees) >= 1
  BY TreesFacts
<1>3. ASSUME NEW m \in Members
      PROVE  /\ T[m] = SerialTree(m, SerialMembers[m - 1]) /\ m \in 0..Len(Trees) /\ m # 0 /\ m - 1 \in 0..Len(Trees)
             /\ Len(Trees[m]) \in Nat
  BY <1>1, <1>2, <1>3, TreesFacts DEF Members
<1>4. ASSUME NEW m \in Members
      PROVE  T[m] = [i \in 0..Len(Trees[m]) |-> IF i = 0 THEN SerialMembers[m - 1] ELSE SerialEntry(m, i, T[m][i - 1])]
  BY <1>3, <1>4, TreeRecursion
<1>5. ASSUME NEW m \in Members PROVE SerialMembers[m] = T[m][Len(Trees[m])]
  BY <1>3, <1>5, MembersRecursion
<1>6. SerialMembers[0] = [out |-> <<>>, links |-> {}, fails |-> FALSE]
  BY <1>2, MembersRecursion
<1>a. ASSUME NEW m \in Members PROVE T[m][0] = SerialMembers[m - 1]
  <2>1. 0 \in 0..Len(Trees[m])
    BY <1>3, <1>a
  <2> QED
    BY <1>4, <1>a, <2>1
<1>7. T[1][0] = [out |-> <<>>, links |-> {}, fails |-> FALSE]
  <2>1. T[1][0] = SerialMembers[1 - 1]
    BY <1>a, TreesFacts
  <2> QED
    BY <1>6, <2>1
<1>8. ASSUME NEW m \in Members, m > 1 PROVE T[m][0] = T[m - 1][Len(Trees[m - 1])]
  <2>1. m - 1 \in Members
    BY <1>2, <1>8 DEF Members
  <2> QED
    BY <1>5, <1>8, <1>a, <2>1
<1>9. ASSUME NEW m \in Members, NEW i \in 1..Len(Trees[m]) PROVE T[m][i] = SerialEntry(m, i, T[m][i - 1])
  <2>1. i \in 0..Len(Trees[m]) /\ i # 0
    BY <1>3, <1>9
  <2> QED
    BY <1>4, <1>9, <2>1
<1>10. DOMAIN T = Members /\ \A m \in Members : DOMAIN T[m] = 0..Len(Trees[m])
  BY <1>1, <1>4
<1>11. IsSerial(T)
  BY <1>7, <1>8, <1>9, <1>10 DEF IsSerial
<1>12. Serial = T[Len(Trees)][Len(Trees[Len(Trees)])]
  <2>1. Len(Trees) \in Members
    BY <1>2 DEF Members
  <2> QED
    BY <1>5, <2>1 DEF Serial
<1> QED
  BY <1>11, <1>12

\* Entries the walk does not visit add nothing.
LEMMA Gap ==
    ASSUME NEW T, IsSerial(T), NEW m \in Members, NEW a \in 0..Len(Trees[m]), NEW b \in 0..Len(Trees[m]), a <= b,
           \A j \in Visited(Trees[m]) : ~(a < j /\ j <= b)
    PROVE  T[m][a] = T[m][b]
<1>1. Len(Trees[m]) \in Nat
  BY TreesFacts
<1>2. PICK S : S = {j \in Nat : T[m][j] = T[m][a]}
  OBVIOUS
<1>3. a \in S /\ a \in Nat /\ b \in Nat
  BY <1>1, <1>2
<1>4. ASSUME NEW j \in a..b - 1, j \in S PROVE j + 1 \in S
  <2>1. j \in Nat /\ j + 1 \in 1..Len(Trees[m]) /\ (j + 1) - 1 = j /\ a < j + 1 /\ j + 1 <= b
    BY <1>1, <1>3, <1>4
  <2>2. j + 1 \notin Visited(Trees[m])
    BY <2>1
  <2>3. T[m][j + 1] = SerialEntry(m, j + 1, T[m][(j + 1) - 1])
    BY <2>1 DEF IsSerial
  <2>4. T[m][j + 1] = T[m][j]
    BY <2>1, <2>2, <2>3 DEF SerialEntry
  <2> QED
    BY <1>2, <1>4, <2>1, <2>4
<1>5. b \in S
  <2>1. \A j \in a..b : j \in S
    BY <1>3, <1>4, UpTo
  <2> QED
    BY <1>3, <2>1
<1> QED
  BY <1>2, <1>5

\* A stream, and one that goes on from it; what has failed stays as it is.
IsStream(so) == \E o, l, f : so = [out |-> o, links |-> l, fails |-> f] /\ Sequential(o)
Later(so, next) ==
    IsStream(so) =>
        /\ IsStream(next) /\ Len(so.out) <= Len(next.out)
        /\ \A k \in 1..Len(so.out) : so.out[k] = next.out[k]
        /\ so.fails => next = so

\* A sequence and one more element.
LEMMA OneMoreEntry ==
    ASSUME NEW s, Sequential(s), NEW x
    PROVE  /\ Sequential(s \o <<x>>) /\ Len(s) \in Nat /\ Len(s \o <<x>>) = Len(s) + 1
           /\ \A k \in 1..Len(s) : (s \o <<x>>)[k] = s[k]
           /\ (s \o <<x>>)[Len(s) + 1] = x
<1>1. PICK S : s \in Seq(S)
  BY DEF Sequential
<1>2. PICK R : R = S \cup {x}
  OBVIOUS
<1>3. s \in Seq(R) /\ <<x>> \in Seq(R) /\ Len(<<x>>) = 1 /\ <<x>>[1] = x
  BY <1>1, <1>2
<1>4. s \o <<x>> \in Seq(R) /\ Len(s) \in Nat /\ Len(s \o <<x>>) = Len(s) + 1
  BY <1>3
<1>5. \A k \in 1..Len(s) : (s \o <<x>>)[k] = s[k]
  BY <1>3, <1>4
<1>6. (s \o <<x>>)[Len(s) + 1] = x
  BY <1>3, <1>4
<1> QED
  BY <1>4, <1>5, <1>6 DEF Sequential

LEMMA NoMoreEntry ==
    ASSUME NEW s, Sequential(s)
    PROVE  s \o <<>> = s /\ Len(s) \in Nat
<1>1. PICK S : s \in Seq(S)
  BY DEF Sequential
<1> QED
  BY <1>1

LEMMA LaterEntry ==
    ASSUME NEW m \in Members, NEW i \in 1..Len(Trees[m]), NEW so
    PROVE  Later(so, SerialEntry(m, i, so))
<1>1. SUFFICES ASSUME IsStream(so)
               PROVE  LET next == SerialEntry(m, i, so) IN
                      /\ IsStream(next) /\ Len(so.out) <= Len(next.out)
                      /\ \A k \in 1..Len(so.out) : so.out[k] = next.out[k]
                      /\ so.fails => next = so
  BY DEF Later
<1>2. PICK o, l, f : so = [out |-> o, links |-> l, fails |-> f] /\ Sequential(o)
  BY <1>1 DEF IsStream
<1>3. PICK next : next = SerialEntry(m, i, so)
  OBVIOUS
<1>4. so.out = o /\ so.links = l /\ (so.fails <=> f) /\ Len(o) \in Nat
  BY <1>2, NoMoreEntry
<1>5. CASE so.fails \/ i \notin Visited(Trees[m])
  <2>1. next = so
    BY <1>3, <1>5 DEF SerialEntry
  <2> QED
    BY <1>1, <1>3, <1>4, <2>1
<1>6. CASE ~so.fails /\ i \in Visited(Trees[m]) /\ Err(m, i) = "walk"
  <2>1. next = [so EXCEPT !.fails = TRUE]
    BY <1>3, <1>6 DEF SerialEntry
  <2>2. next = [out |-> o, links |-> l, fails |-> TRUE]
    BY <1>2, <2>1
  <2>3. IsStream(next) /\ next.out = o
    BY <1>2, <2>2 DEF IsStream
  <2> QED
    BY <1>3, <1>4, <1>6, <2>3
<1>7. CASE ~so.fails /\ i \in Visited(Trees[m]) /\ Err(m, i) # "walk"
  <2>1. PICK w : w = WriteEntry(m, i, so.links, Err(m, i))
    OBVIOUS
  <2>2. next = [out |-> o \o w.out, links |-> w.links, fails |-> w.fails]
    BY <1>3, <1>4, <1>7, <2>1 DEF SerialEntry
  <2>3. w.out = <<>> \/ \E x : w.out = <<x>>
    BY <2>1, WriteFacts
  <2>4. Sequential(o \o w.out) /\ Len(o) <= Len(o \o w.out) /\ \A k \in 1..Len(o) : o[k] = (o \o w.out)[k]
    <3>1. CASE w.out = <<>>
      BY <1>2, <1>4, <3>1, NoMoreEntry
    <3>2. ASSUME NEW x, w.out = <<x>>
          PROVE  Sequential(o \o w.out) /\ Len(o) <= Len(o \o w.out) /\ \A k \in 1..Len(o) : o[k] = (o \o w.out)[k]
      BY <1>2, <3>2, OneMoreEntry
    <3> QED
      BY <2>3, <3>1, <3>2
  <2>5. IsStream(next) /\ next.out = o \o w.out
    BY <2>2, <2>4 DEF IsStream
  <2> QED
    BY <1>3, <1>4, <1>7, <2>4, <2>5
<1> QED
  BY <1>5, <1>6, <1>7

LEMMA LaterTrans ==
    ASSUME NEW a, NEW b, NEW c, Later(a, b), Later(b, c)
    PROVE  Later(a, c)
<1>1. SUFFICES ASSUME IsStream(a)
               PROVE  /\ IsStream(c) /\ Len(a.out) <= Len(c.out)
                      /\ \A k \in 1..Len(a.out) : a.out[k] = c.out[k]
                      /\ a.fails => c = a
  BY DEF Later
<1>2. IsStream(b) /\ IsStream(c)
  BY <1>1 DEF Later
<1>3. Len(a.out) \in Nat /\ Len(b.out) \in Nat /\ Len(c.out) \in Nat
  BY <1>1, <1>2, NoMoreEntry DEF IsStream
<1> QED
  BY <1>1, <1>2, <1>3 DEF Later

LEMMA LaterRefl ==
    ASSUME NEW a
    PROVE  Later(a, a)
<1>1. IsStream(a) => Len(a.out) \in Nat
  BY NoMoreEntry DEF IsStream
<1> QED
  BY <1>1 DEF Later

LEMMA LaterInTree ==
    ASSUME NEW T, IsSerial(T), NEW m \in Members, NEW a \in 0..Len(Trees[m]), NEW b \in 0..Len(Trees[m]), a <= b
    PROVE  Later(T[m][a], T[m][b])
<1>1. Len(Trees[m]) \in Nat
  BY TreesFacts
<1>2. PICK S : S = {j \in Nat : Later(T[m][a], T[m][j])}
  OBVIOUS
<1>3. a \in S /\ a \in Nat /\ b \in Nat
  BY <1>1, <1>2, LaterRefl
<1>4. ASSUME NEW j \in a..b - 1, j \in S PROVE j + 1 \in S
  <2>1. j \in Nat /\ j + 1 \in 1..Len(Trees[m]) /\ (j + 1) - 1 = j
    BY <1>1, <1>3, <1>4
  <2>2. T[m][j + 1] = SerialEntry(m, j + 1, T[m][j])
    BY <2>1 DEF IsSerial
  <2>3. Later(T[m][j], T[m][j + 1])
    BY <2>1, <2>2, LaterEntry
  <2>4. Later(T[m][a], T[m][j])
    BY <1>2, <1>4
  <2>5. Later(T[m][a], T[m][j + 1])
    BY <2>3, <2>4, LaterTrans
  <2> QED
    BY <1>2, <2>1, <2>5
<1>5. \A j \in a..b : j \in S
  BY <1>3, <1>4, UpTo
<1> QED
  BY <1>2, <1>3, <1>5

LEMMA LaterMembers ==
    ASSUME NEW T, IsSerial(T), NEW m \in Members, NEW n \in Members, m <= n
    PROVE  Later(T[m][0], T[n][0])
<1>1. Len(Trees) \in Nat /\ m \in Nat /\ n \in Nat /\ m >= 1
  BY TreesFacts DEF Members
<1>2. PICK S : S = {j \in Nat : Later(T[m][0], T[j][0])}
  OBVIOUS
<1>3. m \in S
  BY <1>1, <1>2, LaterRefl
<1>4. ASSUME NEW j \in m..n - 1, j \in S PROVE j + 1 \in S
  <2>1. j \in Nat /\ j \in Members /\ j + 1 \in Members /\ j + 1 > 1 /\ (j + 1) - 1 = j
    BY <1>1, <1>4 DEF Members
  <2>2. T[j + 1][0] = T[j][Len(Trees[j])]
    BY <2>1 DEF IsSerial
  <2>3. Len(Trees[j]) \in Nat
    BY <2>1, TreesFacts
  <2>4. Later(T[j][0], T[j][Len(Trees[j])])
    BY <2>1, <2>3, LaterInTree
  <2>5. Later(T[m][0], T[j][0])
    BY <1>2, <1>4
  <2>6. Later(T[m][0], T[j + 1][0])
    BY <2>2, <2>4, <2>5, LaterTrans
  <2> QED
    BY <1>2, <2>1, <2>6
<1>5. \A j \in m..n : j \in S
  BY <1>1, <1>3, <1>4, UpTo
<1> QED
  BY <1>1, <1>2, <1>5

LEMMA LaterEnd ==
    ASSUME NEW T, IsSerial(T), NEW m \in Members, NEW i \in 0..Len(Trees[m])
    PROVE  IsStream(T[m][i]) /\ Later(T[m][i], T[Len(Trees)][Len(Trees[Len(Trees)])])
<1>1. Len(Trees) \in Nat /\ m \in Nat /\ Len(Trees[m]) \in Nat /\ 1 \in Members /\ Len(Trees) \in Members /\ 1 <= m
  BY TreesFacts DEF Members
<1>2. IsStream(T[m][i])
  <2>1. IsStream(T[1][0])
    <3>1. <<>> \in Seq({})
      OBVIOUS
    <3> QED
      BY <3>1 DEF IsSerial, IsStream, Sequential
  <2>2. Later(T[1][0], T[m][0])
    BY <1>1, LaterMembers
  <2>3. Later(T[m][0], T[m][i])
    BY <1>1, LaterInTree
  <2> QED
    BY <2>1, <2>2, <2>3, LaterTrans DEF Later
<1>3. Later(T[m][i], T[m][Len(Trees[m])])
  BY <1>1, LaterInTree
<1>4. CASE m = Len(Trees)
  BY <1>2, <1>3, <1>4
<1>5. CASE m # Len(Trees)
  <2>1. m + 1 \in Members /\ m + 1 > 1 /\ (m + 1) - 1 = m /\ m + 1 <= Len(Trees)
    BY <1>1, <1>5 DEF Members
  <2>2. T[m + 1][0] = T[m][Len(Trees[m])]
    BY <2>1 DEF IsSerial
  <2>3. PICK N : N = Len(Trees)
    OBVIOUS
  <2>4. N \in Members /\ Len(Trees[N]) \in Nat /\ m + 1 <= N
    BY <1>1, <2>1, <2>3, TreesFacts
  <2>5. Later(T[m + 1][0], T[N][0])
    BY <2>1, <2>4, LaterMembers
  <2>6. Later(T[N][0], T[N][Len(Trees[N])])
    BY <2>4, LaterInTree
  <2>7. Later(T[m][i], T[N][0])
    BY <1>3, <2>2, <2>5, LaterTrans
  <2>8. Later(T[m][i], T[N][Len(Trees[N])])
    BY <2>6, <2>7, LaterTrans
  <2> QED
    BY <1>2, <2>3, <2>8
<1> QED
  BY <1>4, <1>5

-----------------------------------------------------------------------------
(* The walk's reasons *)

LEMMA ReasonInvStep ==
    ASSUME FrontInv, ReasonInv, Next
    PROVE  ReasonInv'
<1>0. UNCHANGED source
  BY SourceFixed
<1>a. \A m, i : Err(m, i)' = Err(m, i)
  BY <1>0, SourceSame
<1>b. Busy => ~stopped
  BY DEF FrontInv, FlowInv, CallInv
<1>c. queue \in Seq({0} \cup Slots) /\ (InQueue(0) => walk = "closed")
  <2>1. \A k \in 1..Len(queue) : queue[k] # 0 \/ walk = "closed"
    <3>1. member \in Members => 0 \notin Files
      BY Entries
    <3>2. member \notin Members => walk = "closed"
      BY Inside DEF FrontInv
    <3> QED
      BY <3>1, <3>2 DEF FrontInv, QueueInv, OnTheWay
  <2> QED
    BY <2>1 DEF FrontInv, QueueInv, OnTheWay, InQueue, In
<1>d. ASSUME BeginTree(1) \/ BeginTree(member + 1) PROVE ReasonInv'
  BY <1>d DEF BeginTree, ReasonInv, InQueue, In
<1>e. ASSUME UNCHANGED <<member, walk, pos>>, WalkDone => WalkDone', Busy' => Busy,
             InQueue(0)' => InQueue(0), Busy' /\ InQueue(0) => InQueue(0)'
      PROVE  ReasonInv'
  BY <1>a, <1>e DEF ReasonInv, NextVisited, Files, Tree
<1>1. ASSUME TarMembers PROVE ReasonInv'
  <2>1. CASE UNCHANGED <<member, walkVars, queue, loadVars, writer, cur, stopped>>
    BY <1>1, <1>e, <2>1 DEF TarMembers, InQueue, walkVars, WalkDone, Busy
  <2> QED
    BY <1>1, <1>d, <2>1 DEF TarMembers
<1>2. ASSUME WalkVisit PROVE ReasonInv'
  <2>1. UNCHANGED <<member, queue, writer, cancelled, stopped>>
    BY <1>2 DEF WalkVisit
  <2>2. /\ walk # "closed"
        /\ walk' = "error" => WalkDone \/ (pos' \in Files /\ Err(member, pos') = "walk")
        /\ walk' = "closed" => NextVisited = {} /\ pos' = pos
    BY <1>2, VisitFacts DEF FrontInv
  <2>3. ~InQueue(0)'
    BY <1>c, <2>1, <2>2 DEF InQueue
  <2>4. Files' = Files /\ (pos' = pos => NextVisited' = NextVisited) /\ (WalkDone' <=> WalkDone)
    BY <2>1 DEF Files, NextVisited, Tree, WalkDone
  <2>5. Err(member, pos)' = Err(member, pos')
    BY <1>a, <2>1 DEF Err
  <2> QED
    BY <2>1, <2>2, <2>3, <2>4, <2>5 DEF ReasonInv
<1>3. ASSUME AcquireMemory \/ AcquireWorker PROVE ReasonInv'
  <2>1. /\ UNCHANGED <<queue, cancelled, stopped>> /\ walk # "closed" /\ walk' # "closed"
        /\ walk' = "error" => WalkDone
    BY <1>3 DEF AcquireMemory, AcquireWorker, Reaches
  <2> QED
    BY <1>c, <2>1 DEF ReasonInv, InQueue, WalkDone
<1>4. ASSUME Send PROVE ReasonInv'
  <2>1. /\ UNCHANGED <<cancelled, stopped>> /\ walk = "send" /\ walk' # "closed"
        /\ walk' = "error" => WalkDone
    BY <1>4 DEF Send, SendFails, Reaches
  <2>2. ~InQueue(0)'
    <3>1. CASE queue' = Append(queue, pos)
      <4>1. pos \in Slots /\ pos # 0
        BY <2>1, Inside, SlotsFinite DEF FrontInv
      <4>2. \A i : In(queue', i) <=> i = pos \/ In(queue, i)
        BY <1>c, <3>1, <4>1, AppendFacts
      <4> QED
        BY <1>c, <2>1, <4>1, <4>2 DEF InQueue
    <3>2. CASE queue' = queue
      BY <1>c, <2>1, <3>2 DEF InQueue
    <3> QED
      BY <1>4, <3>1, <3>2 DEF Send, SendFails
  <2> QED
    BY <2>1, <2>2 DEF ReasonInv, WalkDone
<1>5. ASSUME SendError PROVE ReasonInv'
  <2>1. UNCHANGED <<member, pos, cancelled, stopped>> /\ walk = "error" /\ walk' = "closed"
    BY <1>5 DEF SendError, Reaches
  <2>2. WalkDone' \/ (pos \in Files /\ Err(member, pos) = "walk")
    BY <2>1 DEF ReasonInv, WalkDone
  <2>3. InQueue(0)' \/ WalkDone'
    <3>1. CASE queue' = Append(queue, 0)
      BY <1>c, <3>1, AppendFacts DEF InQueue
    <3> QED
      BY <1>5, <2>1, <3>1 DEF SendError, WalkDone
  <2>4. Files' = Files
    BY <2>1 DEF Files, Tree
  <2> QED
    BY <1>a, <2>1, <2>2, <2>3, <2>4 DEF ReasonInv
<1>6. ASSUME Receive \/ Drain PROVE ReasonInv'
  <2>1. UNCHANGED <<member, walk, pos, cancelled>> /\ (stopped => stopped') /\ (Busy' => Busy)
    BY <1>6 DEF Receive, Drain, Returns, walkVars, Busy
  <2>2. CASE queue # <<>> /\ queue' = Tail(queue) /\ (Busy' => Head(queue) # 0)
    <3>1. \A i : In(queue, i) <=> i = Head(queue) \/ In(queue', i)
      BY <1>c, <2>2, TailFacts
    <3> QED
      BY <1>e, <2>1, <2>2, <3>1 DEF InQueue, WalkDone
  <2>3. CASE queue' = queue
    BY <1>e, <2>1, <2>3 DEF InQueue, WalkDone
  <2> QED
    BY <1>6, <2>2, <2>3 DEF Receive, Returns, Drain, Busy
<1>7. ASSUME WriteFile PROVE ReasonInv'
  BY <1>7, <1>e DEF WriteFile, Returns, walkVars, InQueue, WalkDone, Busy
<1>8. ASSUME TreeDone PROVE ReasonInv'
  <2>1. CASE UNCHANGED <<member, walkVars, queue, loadVars, cur, stopped>> /\ writer' = "done"
    BY <1>8, <1>e, <2>1 DEF TreeDone, InQueue, walkVars, WalkDone, Busy
  <2> QED
    BY <1>8, <1>d, <2>1 DEF TreeDone
<1>9. ASSUME Cancel \/ Ended PROVE ReasonInv'
  BY <1>9, <1>e DEF Cancel, Ended, vars, walkVars, InQueue, WalkDone, Busy
<1>10. ASSUME NEW j \in Slots, Load(j) PROVE ReasonInv'
  BY <1>10, <1>e DEF Load, walkVars, InQueue, WalkDone, Busy
<1> QED
  BY <1>1, <1>2, <1>3, <1>4, <1>5, <1>6, <1>7, <1>8, <1>9, <1>10 DEF Next, Walk, Writer

-----------------------------------------------------------------------------
(* The stream *)

\* What the stream must satisfy between the walk and the writer.
StreamInv(T) == WholeInv /\ NamesInv /\ LinksInv /\ SameInv(T)

\* The writer stays where it is.
LEMMA StreamFrame ==
    ASSUME NEW T, StreamInv(T), UNCHANGED <<source, member, out, links, failed>>, Busy' <=> Busy,
           Busy => \A j \in Files : Pending(j)' <=> Pending(j),
           cancelled => cancelled', faults' = 0 => faults = 0
    PROVE  StreamInv(T)'
<1>1. Files' = Files /\ Tree' = Tree
  BY DEF Files, Tree
<1>2. ASSUME Busy, NEW r PROVE Split(r)' <=> Split(r)
  BY <1>1, <1>2 DEF Split
<1>3. WholeInv'
  BY <1>1, <1>2 DEF StreamInv, WholeInv
<1>4. NamesInv'
  BY <1>1 DEF StreamInv, NamesInv, source
<1>5. LinksInv'
  BY DEF StreamInv, LinksInv, LinksResolve
<1>7. SameInv(T)'
  <2>1. ASSUME Busy' PROVE \E r \in 0..Len(Tree) : Split(r)' /\ SoFar(T[member][r])'
    <3>1. PICK r \in 0..Len(Tree) : Split(r) /\ SoFar(T[member][r])
      BY <2>1 DEF StreamInv, SameInv
    <3>2. Split(r)'
      BY <1>2, <2>1, <3>1
    <3> QED
      BY <3>1, <3>2 DEF SoFar
  <2>2. ASSUME member # 0, ~Busy', ~failed PROVE SoFar(T[member][Len(Tree)])'
    BY <1>1, <2>2 DEF StreamInv, SameInv, SoFar
  <2>3. ASSUME member # 0, ~Busy', failed
        PROVE  \E i \in 0..Len(Tree) :
                  /\ UpToTorn(out, T[member][i])
                  /\ ~cancelled' /\ faults' = 0 => out = T[member][i].out /\ T[member][i].fails
    BY <2>3 DEF StreamInv, SameInv
  <2>4. \A i : UpToTorn(out, T[member][i])' <=> UpToTorn(out, T[member][i])
    BY DEF UpToTorn
  <2> QED
    BY <1>1, <2>1, <2>2, <2>3, <2>4 DEF SameInv
<1> QED
  BY <1>3, <1>4, <1>5, <1>7 DEF StreamInv

\* A new tree: everything is before the writer.
LEMMA StreamBegin ==
    ASSUME NEW T, IsSerial(T), NEW m \in Members, BeginTree(m), UNCHANGED <<source, out, links, failed>>,
           NamesInv, LinksInv, SoFar(T[m][0]), \A k \in 1..Len(out) : out[k].m \in 1..m - 1
    PROVE  StreamInv(T)'
<1>1. member' = m /\ writer' = "recv" /\ pos' = 1 /\ queue' = <<>> /\ m \in Nat /\ m >= 1
  BY DEF BeginTree, Members
<1>2. Len(Trees[m]) \in Nat /\ Visited(Trees[m]) \subseteq 1..Len(Trees[m])
  BY TreesFacts, VisitedIn
<1>3. Split(0)'
  <2>1. \A j \in Visited(Trees[m]) : j >= 1 /\ j > 0
    BY <1>2
  <2>2. \A j \in Visited(Trees[m]) : Pending(j)' <=> j > 0
    BY <1>1, <2>1 DEF Pending, InQueue, In
  <2> QED
    BY <1>1, <2>2 DEF Split, Files, Tree
<1>4. Busy' /\ Tree' = Trees[m] /\ 0 \in 0..Len(Tree)'
  BY <1>1, <1>2 DEF Busy, Tree
<1>5. WholeInv'
  BY <1>3, <1>4 DEF WholeInv
<1>6. NamesInv'
  <2>1. \A k \in 1..Len(out) : out[k].m # m /\ out[k].m \in 1..m
    BY <1>1
  <2> QED
    BY <1>1, <2>1 DEF NamesInv, source
<1>7. LinksInv'
  BY DEF LinksInv, LinksResolve
<1>8. SameInv(T)'
  <2>1. SoFar(T[m][0])'
    BY DEF SoFar
  <2> QED
    BY <1>1, <1>3, <1>4, <2>1 DEF SameInv, SoFar
<1> QED
  BY <1>5, <1>6, <1>7, <1>8 DEF StreamInv

\* Where the writer is when it has an entry.
LEMMA WriteSplit ==
    ASSUME FrontInv, writer = "write", NEW r \in 0..Len(Tree), Split(r)
    PROVE  /\ member \in Members /\ cur \in Files /\ cur \in 1..Len(Tree) /\ cur - 1 \in 0..Len(Tree) /\ r <= cur - 1 /\ r < cur
           /\ Err(member, cur) # "walk"
           /\ \A j \in Files : ~(r < j /\ j <= cur - 1)
           /\ \A j \in Files : ~Pending(j) => j < cur
           /\ \A j \in Files : Pending(j) /\ j # cur <=> j > cur
<1>1. member \in Members /\ pos \in Nat /\ Files \subseteq 1..Len(Tree) /\ Len(Tree) \in Nat
  BY Inside, Entries DEF FrontInv, FlowInv, FlowType
<1>2. cur \in Files /\ cur < pos /\ Err(member, cur) # "walk" /\ \A i : InQueue(i) /\ i # 0 => cur < i
  BY DEF FrontInv, QueueInv
<1>3. cur \in Nat /\ cur \in 1..Len(Tree) /\ r \in Nat
  BY <1>1, <1>2
<1>4. Pending(cur) /\ cur > r
  BY <1>2 DEF Pending, Split
<1>5. \A j \in Files : Pending(j) => j >= cur
  <2>1. ASSUME NEW j \in Files, Pending(j) PROVE j >= cur
    <3>1. j \in Nat /\ j # 0
      BY <1>1
    <3> QED
      BY <1>1, <1>2, <1>3, <2>1, <3>1 DEF Pending
  <2> QED
    BY <2>1
<1>6. \A j \in Files : j > r => j >= cur
  BY <1>5 DEF Split
<1>7. \A j \in Files : j \in Nat
  BY <1>1
<1>8. \A j \in Files : Pending(j) /\ j # cur <=> j > cur
  <2>1. ASSUME NEW j \in Files PROVE Pending(j) /\ j # cur <=> j > cur
    <3>1. Pending(j) <=> j > r
      BY DEF Split
    <3>2. j \in Nat /\ (Pending(j) => j >= cur)
      BY <1>5, <1>7
    <3> QED
      BY <1>3, <1>4, <3>1, <3>2
  <2> QED
    BY <2>1
<1>9. \A j \in Files : ~Pending(j) => j < cur
  <2>1. ASSUME NEW j \in Files, ~Pending(j) PROVE j < cur
    <3>1. ~(j > r) /\ j \in Nat
      BY <1>7, <2>1 DEF Split
    <3> QED
      BY <1>3, <1>4, <3>1
  <2> QED
    BY <2>1
<1> QED
  BY <1>1, <1>2, <1>3, <1>4, <1>6, <1>7, <1>8, <1>9

\* One more entry of the stream, the one the writer is at.
LEMMA NamesGrow ==
    ASSUME FrontInv, NamesInv, writer = "write", WholeInv, UNCHANGED <<source, member>>,
           NEW x, x.m = member, x.name = <<subdir[member], cur>>,
           out' = out \o <<x>> \/ out' = out,
           Busy' => \A j \in Files : Pending(j)' <=> Pending(j) /\ j # cur
    PROVE  NamesInv'
<1>1. PICK r \in 0..Len(Tree) : Split(r)
  BY DEF WholeInv, Busy
<1>2. /\ member \in Members /\ cur \in Files /\ cur \in 1..Len(Tree)
      /\ \A j \in Files : ~Pending(j) => j < cur
  BY <1>1, WriteSplit
<1>3. Files' = Files /\ Tree = Trees[member] /\ member \in Nat /\ member >= 1
  BY <1>2 DEF Files, Tree, Members
<1>4. Busy
  BY DEF Busy
<1>5. CASE out' = out
  BY <1>3, <1>4, <1>5 DEF NamesInv, source
<1>6. CASE out' = out \o <<x>>
  <2>1. /\ Sequential(out') /\ Len(out) \in Nat /\ Len(out') = Len(out) + 1
        /\ \A k \in 1..Len(out) : out'[k] = out[k]
        /\ out'[Len(out) + 1] = x
    BY <1>6, OneMoreEntry DEF NamesInv
  <2>2. \A k \in 1..Len(out') : k = Len(out) + 1 \/ k \in 1..Len(out)
    BY <2>1
  <2>3. x.name[2] = cur
    OBVIOUS
  <2>4. \A k \in 1..Len(out) : out[k].m = member => out[k].name[2] \in Files /\ ~Pending(out[k].name[2])
    BY <1>4 DEF NamesInv
  <2>5. \A k \in 1..Len(out) : out[k].m = member => out[k].name[2] < cur
    BY <1>2, <2>4
  <2>6. \A k \in 1..Len(out) : out[k].m \in 1..member
    BY DEF NamesInv
  <2>7. \A k \in 1..Len(out) : out[k].m < member \/ (out[k].m = member /\ out[k].name[2] < cur)
    <3>1. ASSUME NEW k \in 1..Len(out) PROVE out[k].m < member \/ out[k].m = member
      BY <1>3, <2>6
    <3> QED
      BY <2>5, <3>1
  <2>8. ASSUME NEW k \in 1..Len(out')
        PROVE  /\ out'[k].m \in 1..member' /\ out'[k].name[2] \in 1..Len(Trees[out'[k].m])
               /\ out'[k].name = <<subdir'[out'[k].m], out'[k].name[2]>>
    <3>1. CASE k \in 1..Len(out)
      BY <2>1, <3>1 DEF NamesInv, source
    <3>2. CASE k = Len(out) + 1
      BY <1>2, <1>3, <2>1, <2>3, <3>2 DEF source
    <3> QED
      BY <2>2, <3>1, <3>2
  <2>9. ASSUME Busy', NEW k \in 1..Len(out'), out'[k].m = member', NEW i, i = out'[k].name[2]
        PROVE  i \in Files /\ ~Pending(i)'
    <3>1. CASE k \in 1..Len(out)
      <4>1. i \in Files /\ ~Pending(i)
        BY <1>3, <2>1, <2>4, <2>9, <3>1
      <4> QED
        BY <2>9, <4>1
    <3>2. CASE k = Len(out) + 1
      <4>1. i = cur
        BY <2>1, <2>3, <2>9, <3>2
      <4> QED
        BY <1>2, <2>9, <4>1
    <3> QED
      BY <2>2, <3>1, <3>2
  <2>10. ASSUME NEW j \in 1..Len(out'), NEW k \in 1..Len(out'), j < k
         PROVE  out'[j].m < out'[k].m \/ (out'[j].m = out'[k].m /\ out'[j].name[2] < out'[k].name[2])
    <3>1. j \in 1..Len(out)
      BY <2>1, <2>10
    <3>2. CASE k \in 1..Len(out)
      BY <2>1, <2>10, <3>1, <3>2 DEF NamesInv
    <3>3. CASE k = Len(out) + 1
      BY <2>1, <2>3, <2>7, <3>1, <3>3
    <3> QED
      BY <2>2, <3>2, <3>3
  <2>11. ASSUME Busy', NEW k \in 1..Len(out'), out'[k].m = member'
         PROVE  out'[k].name[2] \in Files /\ ~Pending(out[k].name[2])'
    BY <2>9, <2>11 DEF Pending, InQueue
  <2> QED
    BY <1>3, <2>1, <2>8, <2>10, <2>11 DEF NamesInv
<1> QED
  BY <1>5, <1>6

\* The links the writer knows when it adds to the stream.
LEMMA LinksGrow ==
    ASSUME FrontInv, NamesInv, LinksInv, ~failed, NEW x, out' = out \o <<x>>, x.m = member,
           x.name = <<subdir[member], cur>>,
           x.what = "link" => \E k \in links : k.id = HardlinkID(Trees[member][cur]) /\ x.link = k.name,
           ~failed' => \/ links' = links
                       \/ /\ links' = links \cup {[id |-> HardlinkID(Trees[member][cur]), name |-> <<subdir[member], cur>>]}
                          /\ x.what = "file"
    PROVE  LinksInv'
<1>1. /\ Len(out) \in Nat /\ Len(out') = Len(out) + 1
      /\ \A k \in 1..Len(out) : out'[k] = out[k]
      /\ out'[Len(out) + 1] = x
  BY OneMoreEntry DEF NamesInv
<1>2. \A k \in 1..Len(out') : k = Len(out) + 1 \/ k \in 1..Len(out)
  BY <1>1
<1>3. Len(out) + 1 \in 1..Len(out') /\ \A k \in 1..Len(out) : k \in 1..Len(out')
  BY <1>1
<1>4. x.name[2] = cur
  OBVIOUS
<1>5. ASSUME ~failed', NEW l \in links'
      PROVE  \E j \in 1..Len(out') :
                out'[j].name = l.name /\ out'[j].what = "file" /\ l.id = HardlinkID(Trees[out'[j].m][out'[j].name[2]])
  <2>1. CASE l \in links
    <3>1. PICK j \in 1..Len(out) :
             out[j].name = l.name /\ out[j].what = "file" /\ l.id = HardlinkID(Trees[out[j].m][out[j].name[2]])
      BY <2>1 DEF LinksInv
    <3> QED
      BY <1>1, <1>3, <3>1
  <2>2. CASE l \notin links
    <3>1. l = [id |-> HardlinkID(Trees[member][cur]), name |-> <<subdir[member], cur>>] /\ x.what = "file"
      BY <1>5, <2>2
    <3>2. l.name = x.name /\ l.id = HardlinkID(Trees[x.m][x.name[2]])
      BY <1>4, <3>1
    <3> QED
      BY <1>1, <1>3, <3>1, <3>2
  <2> QED
    BY <2>1, <2>2
<1>6. ASSUME NEW k \in 1..Len(out'), out'[k].what = "link"
      PROVE  \E j \in 1..k - 1 :
                /\ out'[j].name = out'[k].link /\ out'[j].what = "file"
                /\ Trees[out'[j].m][out'[j].name[2]].dev = Trees[out'[k].m][out'[k].name[2]].dev
                /\ Trees[out'[j].m][out'[j].name[2]].ino = Trees[out'[k].m][out'[k].name[2]].ino
  <2>1. CASE k \in 1..Len(out)
    <3>1. PICK j \in 1..k - 1 :
             /\ out[j].name = out[k].link /\ out[j].what = "file"
             /\ Trees[out[j].m][out[j].name[2]].dev = Trees[out[k].m][out[k].name[2]].dev
             /\ Trees[out[j].m][out[j].name[2]].ino = Trees[out[k].m][out[k].name[2]].ino
      BY <1>1, <1>6, <2>1 DEF LinksInv, LinksResolve
    <3>2. j \in 1..Len(out)
      BY <1>1, <2>1, <3>1
    <3> QED
      BY <1>1, <2>1, <3>1, <3>2
  <2>2. CASE k = Len(out) + 1
    <3>1. PICK l \in links : l.id = HardlinkID(Trees[member][cur]) /\ x.link = l.name
      BY <1>1, <1>6, <2>2
    <3>2. PICK j \in 1..Len(out) :
             out[j].name = l.name /\ out[j].what = "file" /\ l.id = HardlinkID(Trees[out[j].m][out[j].name[2]])
      BY <3>1 DEF LinksInv
    <3>3. PICK src, dst : src = Trees[out[j].m][out[j].name[2]] /\ dst = Trees[member][cur]
      OBVIOUS
    <3>4. src.dev = dst.dev /\ src.ino = dst.ino
      BY <3>1, <3>2, <3>3 DEF HardlinkID
    <3>5. j \in 1..k - 1
      BY <1>1, <2>2, <3>2
    <3>6. out'[j] = out[j] /\ out'[k] = x
      BY <1>1, <2>2, <3>2
    <3>7. src = Trees[out'[j].m][out'[j].name[2]] /\ dst = Trees[out'[k].m][out'[k].name[2]]
      BY <1>4, <3>3, <3>6
    <3>8. out'[j].name = out'[k].link /\ out'[j].what = "file"
      BY <3>1, <3>2, <3>6
    <3> QED
      BY <3>4, <3>5, <3>7, <3>8
  <2> QED
    BY <1>2, <2>1, <2>2
<1> QED
  BY <1>5, <1>6 DEF LinksInv, LinksResolve

\* The error the writer goes by is that of the source, or of a cancelled load.
LEMMA WriterErr ==
    ASSUME FrontInv, writer = "write", Loaded(cur),
           NEW err, err = IF Prefetched(cur) THEN PrefetchErr(cur) ELSE Err(member, cur)
    PROVE  err = Err(member, cur) \/ (cancelled /\ err = "open")
<1>1. CASE ~Prefetched(cur)
  BY <1>1
<1>2. CASE Prefetched(cur)
  <2>1. cur \in Slots
    BY Distinct, Inside DEF FrontInv
  <2>2. load[cur] # "none" /\ load[cur] \in {"done", "exited"}
    BY <1>2 DEF Prefetched, Loaded
  <2>3. PrefetchErr(cur) = Err(member, cur) \/ (WalkDone /\ PrefetchErr(cur) = "open")
    BY <2>1, <2>2 DEF FrontInv, LoadInv
  <2>4. ~stopped
    BY DEF FrontInv, FlowInv, CallInv, Busy
  <2> QED
    BY <1>2, <2>3, <2>4 DEF WalkDone
<1> QED
  BY <1>1, <1>2

LEMMA WriteStep ==
    ASSUME FrontInv, NEW T, IsSerial(T), StreamInv(T), WriteFile, UNCHANGED source
    PROVE  StreamInv(T)'
<1>1. /\ writer = "write" /\ Busy /\ ~failed /\ ~stopped /\ Loaded(cur)
      /\ UNCHANGED <<member, pos, queue, cur, cancelled>>
  BY DEF WriteFile, Busy, walkVars, FrontInv, FlowInv, CallInv
<1>2. PICK r \in 0..Len(Tree) : Split(r) /\ SoFar(T[member][r])
  BY <1>1 DEF StreamInv, SameInv
<1>3. /\ member \in Members /\ cur \in Files /\ cur \in 1..Len(Tree) /\ cur - 1 \in 0..Len(Tree) /\ r <= cur - 1
      /\ Err(member, cur) # "walk"
      /\ \A j \in Files : ~(r < j /\ j <= cur - 1)
      /\ \A j \in Files : Pending(j) /\ j # cur <=> j > cur
  BY <1>1, <1>2, WriteSplit
<1>4. Tree = Trees[member] /\ Files = Visited(Trees[member]) /\ cur \in 0..Len(Tree)
      /\ Tree' = Tree /\ Files' = Files /\ Len(Tree) \in Nat
  BY <1>1, <1>3, Entries DEF Tree, Files
<1>5. T[member][cur - 1] = T[member][r]
  BY <1>2, <1>3, <1>4, Gap
<1>6. T[member][cur] = SerialEntry(member, cur, T[member][r])
  BY <1>3, <1>4, <1>5 DEF IsSerial
<1>7. PICK err : err = IF Prefetched(cur) THEN PrefetchErr(cur) ELSE Err(member, cur)
  OBVIOUS
<1>8. err = Err(member, cur) \/ (cancelled /\ err = "open")
  BY <1>1, <1>7, WriterErr
<1>9. PICK w : w = WriteEntry(member, cur, links, err)
  OBVIOUS
<1>10. err = Err(member, cur) =>
          T[member][cur] = [out |-> out \o w.out, links |-> w.links, fails |-> w.fails]
  BY <1>2, <1>3, <1>4, <1>6, <1>9 DEF SerialEntry, SoFar
<1>11. Sequential(out)
  BY DEF StreamInv, NamesInv
<1>12. w.out = <<>> => out \o w.out = out
  BY <1>11, NoMoreEntry
<1>13. err # Err(member, cur) => w.out = <<>>
  BY <1>8, <1>9, OpenFails
<1>14. \/ w.out = <<>> /\ w.links = links
       \/ \E what, link :
             /\ w.out = <<Entry(member, cur, what, link)>>
             /\ what = "link" => \E k \in links : k.id = HardlinkID(Trees[member][cur]) /\ link = k.name
             /\ w.links = links
                \/ (w.links = links \cup {[id |-> HardlinkID(Trees[member][cur]), name |-> <<subdir[member], cur>>]}
                    /\ (~w.fails => what = "file"))
  BY <1>3, <1>4, <1>9, WriteFacts
<1>15. writer' \in {"recv", "drain"} /\ (writer' = "recv" => Busy') /\ (Busy' => writer' = "recv")
  BY DEF WriteFile, Returns, Busy
<1>16. \A j \in Files : Pending(j)' <=> Pending(j) /\ j # cur
  <2>1. ~InQueue(cur) /\ cur # pos /\ cur < pos
    BY <1>1, <1>3, Distinct DEF FrontInv, QueueInv
  <2>2. pos \in Nat /\ cur \in Nat
    BY <1>3, <1>4 DEF FrontInv, FlowInv, FlowType
  <2>3. ~(cur >= pos)
    BY <2>1, <2>2
  <2> QED
    BY <1>1, <1>15, <2>1, <2>3 DEF Pending, InQueue
<1>17. Split(cur)'
  BY <1>1, <1>3, <1>4, <1>16 DEF Split
<1>18. WholeInv'
  BY <1>1, <1>4, <1>17 DEF WholeInv
<1>19. WholeInv /\ NamesInv /\ LinksInv
  BY DEF StreamInv
<1>20. PICK first : first <=> (out' = out \o w.out /\ links' = w.links /\ UNCHANGED faults
                              /\ IF w.fails THEN Returns(TRUE) ELSE writer' = "recv" /\ UNCHANGED <<failed, stopped>>)
  OBVIOUS
<1>21. CASE first
  <2>1. /\ out' = out \o w.out /\ links' = w.links /\ UNCHANGED faults
        /\ w.fails => writer' = "drain" /\ failed'
        /\ ~w.fails => writer' = "recv" /\ ~failed'
    BY <1>1, <1>20, <1>21 DEF Returns
  <2>2. NamesInv' /\ LinksInv'
    <3>1. CASE w.out = <<>> /\ w.links = links
      <4>1. PICK x : x = Entry(member, cur, "file", <<>>)
        OBVIOUS
      <4>2. x.m = member /\ x.name = <<subdir[member], cur>>
        BY <4>1 DEF Entry
      <4>3. out' = out /\ links' = links
        BY <1>12, <2>1, <3>1
      <4>4. NamesInv'
        BY <1>1, <1>16, <1>19, <4>2, <4>3, NamesGrow
      <4>5. LinksInv'
        BY <1>1, <1>19, <4>3 DEF LinksInv, LinksResolve
      <4> QED
        BY <4>4, <4>5
    <3>2. ASSUME NEW what, NEW link,
                 w.out = <<Entry(member, cur, what, link)>>,
                 what = "link" => \E k \in links : k.id = HardlinkID(Trees[member][cur]) /\ link = k.name,
                 w.links = links
                 \/ (w.links = links \cup {[id |-> HardlinkID(Trees[member][cur]), name |-> <<subdir[member], cur>>]}
                     /\ (~w.fails => what = "file"))
          PROVE  NamesInv' /\ LinksInv'
      <4>1. PICK x : x = Entry(member, cur, what, link)
        OBVIOUS
      <4>2. x.m = member /\ x.name = <<subdir[member], cur>> /\ x.what = what /\ x.link = link
        BY <4>1 DEF Entry
      <4>3. out' = out \o <<x>>
        BY <2>1, <3>2, <4>1
      <4>4. NamesInv'
        BY <1>1, <1>16, <1>19, <4>2, <4>3, NamesGrow
      <4>5. ~failed' => \/ links' = links
                        \/ /\ links' = links \cup {[id |-> HardlinkID(Trees[member][cur]), name |-> <<subdir[member], cur>>]}
                           /\ x.what = "file"
        BY <2>1, <3>2, <4>2
      <4>6. x.what = "link" => \E k \in links : k.id = HardlinkID(Trees[member][cur]) /\ x.link = k.name
        BY <3>2, <4>2
      <4>7. LinksInv'
        BY <1>1, <1>19, <4>2, <4>3, <4>5, <4>6, LinksGrow
      <4> QED
        BY <4>4, <4>7
    <3> QED
      BY <1>14, <3>1, <3>2
  <2>3. CASE err = Err(member, cur)
    <3>1. T[member][cur].out = out' /\ T[member][cur].links = links' /\ (T[member][cur].fails <=> w.fails)
      BY <1>10, <2>1, <2>3
    <3>2. CASE ~w.fails
      <4>1. SoFar(T[member][cur])'
        BY <1>1, <2>1, <3>1, <3>2 DEF SoFar
      <4>2. Busy' /\ ~failed'
        BY <2>1, <3>2 DEF Busy
      <4>3. SameInv(T)'
        BY <1>1, <1>4, <1>17, <4>1, <4>2 DEF SameInv
      <4> QED
        BY <1>18, <2>2, <4>3 DEF StreamInv
    <3>3. CASE w.fails
      <4>1. ~Busy' /\ failed'
        BY <2>1, <3>3 DEF Busy
      <4>2. UpToTorn(out', T[member][cur])
        BY <3>1 DEF UpToTorn
      <4>3. UpToTorn(out, T[member][cur])'
        BY <1>1, <4>2 DEF UpToTorn
      <4>4. SameInv(T)'
        BY <1>1, <1>4, <3>1, <3>3, <4>1, <4>3 DEF SameInv
      <4> QED
        BY <1>18, <2>2, <4>4 DEF StreamInv
    <3> QED
      BY <3>2, <3>3
  <2>4. CASE err # Err(member, cur)
    <3>1. cancelled /\ out' = out
      BY <1>8, <1>12, <1>13, <2>1, <2>4
    <3>2. w.fails
      BY <1>8, <1>9, <2>4 DEF WriteEntry
    <3>3. ~Busy' /\ failed'
      BY <2>1, <3>2 DEF Busy
    <3>4. UpToTorn(out, T[member][r])'
      BY <1>1, <1>2, <3>1 DEF UpToTorn, SoFar
    <3>5. SameInv(T)'
      BY <1>1, <1>2, <1>4, <3>1, <3>3, <3>4 DEF SameInv
    <3> QED
      BY <1>18, <2>2, <3>5 DEF StreamInv
  <2> QED
    BY <2>3, <2>4
<1>22. CASE ~first
  <2>1. /\ w.out # <<>> /\ out' = out \o [k \in 1..1 |-> [w.out[k] EXCEPT !.what = "torn"]]
        /\ cancelled \/ faults' = faults + 1
        /\ writer' = "drain" /\ failed' /\ UNCHANGED links
    BY <1>7, <1>9, <1>20, <1>22 DEF WriteFile, Returns
  <2>2. PICK what, link : w.out = <<Entry(member, cur, what, link)>>
    BY <1>14, <2>1
  <2>3. PICK x : x = Entry(member, cur, what, link)
    OBVIOUS
  <2>4. PICK y : y = [x EXCEPT !.what = "torn"]
    OBVIOUS
  <2>5. y.m = member /\ y.name = <<subdir[member], cur>> /\ y.what = "torn" /\ x.name = y.name
    BY <2>3, <2>4 DEF Entry
  <2>6. out' = out \o <<y>>
    <3>1. w.out[1] = x
      BY <2>2, <2>3
    <3>2. [k \in 1..1 |-> [w.out[k] EXCEPT !.what = "torn"]] = <<y>>
      BY <2>4, <3>1
    <3> QED
      BY <2>1, <3>2
  <2>7. NamesInv'
    BY <1>1, <1>16, <1>19, <2>5, <2>6, NamesGrow
  <2>8. LinksInv'
    BY <1>1, <1>19, <2>1, <2>5, <2>6, LinksGrow
  <2>9. T[member][cur].out = out \o <<x>>
    <3>1. T[member][cur] = [out |-> out \o w.out, links |-> w.links, fails |-> w.fails]
      BY <1>10, <1>13, <2>1
    <3>2. T[member][cur].out = out \o w.out
      BY <3>1
    <3> QED
      BY <2>2, <2>3, <3>2
  <2>10. UpToTorn(out', T[member][cur])
    <3>1. /\ Len(out) \in Nat /\ Len(out') = Len(out) + 1
          /\ \A k \in 1..Len(out) : out'[k] = out[k]
          /\ out'[Len(out) + 1] = y
      BY <1>11, <2>6, OneMoreEntry
    <3>2. /\ Len(T[member][cur].out) = Len(out) + 1
          /\ \A k \in 1..Len(out) : T[member][cur].out[k] = out[k]
          /\ T[member][cur].out[Len(out) + 1] = x
      BY <1>11, <2>9, OneMoreEntry
    <3>3. \A k \in 1..Len(out') : k = Len(out') \/ k \in 1..Len(out)
      BY <3>1
    <3> QED
      BY <2>5, <3>1, <3>2, <3>3 DEF UpToTorn
  <2>11. ~Busy' /\ failed' /\ (cancelled' \/ faults' # 0)
    <3>1. faults \in Nat
      BY ReadAheadAssumption DEF FrontInv, FlowInv, FlowType
    <3> QED
      BY <1>1, <2>1, <3>1 DEF Busy
  <2>12. UpToTorn(out, T[member][cur])'
    BY <1>1, <2>10 DEF UpToTorn
  <2>13. SameInv(T)'
    BY <1>1, <1>4, <2>11, <2>12 DEF SameInv
  <2> QED
    BY <1>18, <2>7, <2>8, <2>13 DEF StreamInv
<1> QED
  BY <1>21, <1>22

\* The writer leaves the tree.
LEMMA ReceiveStep ==
    ASSUME FrontInv, ReasonInv, NEW T, IsSerial(T), StreamInv(T), Receive, UNCHANGED source
    PROVE  StreamInv(T)'
<1>1. /\ writer = "recv" /\ Busy /\ ~failed /\ ~stopped /\ member \in Members
      /\ UNCHANGED <<member, walk, pos, out, links, cancelled, faults>>
  BY Inside DEF Receive, Busy, walkVars, outVars, FrontInv, FlowInv, CallInv
<1>2. PICK r \in 0..Len(Tree) : Split(r) /\ SoFar(T[member][r])
  BY <1>1 DEF StreamInv, SameInv
<1>3. /\ Tree = Trees[member] /\ Files = Visited(Trees[member]) /\ Tree' = Tree /\ Files' = Files
      /\ Len(Tree) \in Nat /\ Files \subseteq 1..Len(Tree) /\ pos \in Nat
  BY <1>1, Entries DEF Tree, Files, FrontInv, FlowInv, FlowType
<1>4. queue \in Seq({0} \cup Slots)
  BY DEF FrontInv, QueueInv, OnTheWay
<1>5. CASE queue # <<>> /\ queue' = Tail(queue) /\ cur' = Head(queue) /\ writer' = "write" /\ UNCHANGED failed
  <2>1. \A j \in Files : Pending(j)' <=> Pending(j)
    <3>1. \A i : In(queue, i) <=> i = Head(queue) \/ In(queue', i)
      BY <1>4, <1>5, TailFacts
    <3> QED
      BY <1>1, <1>5, <3>1 DEF Pending, InQueue
  <2>2. Busy' /\ (Busy' <=> Busy)
    BY <1>1, <1>5 DEF Busy
  <2> QED
    BY <1>1, <1>5, <2>1, <2>2, StreamFrame
<1>6. CASE writer' = "drain"
  <2>1. ~Busy'
    BY <1>6 DEF Busy
  <2>2. WholeInv' /\ NamesInv'
    BY <1>1, <1>3, <2>1 DEF WholeInv, StreamInv, NamesInv, source
  <2>3. LinksInv'
    BY <1>1 DEF StreamInv, LinksInv, LinksResolve
  <2>4. UpToTorn(out, T[member][r])' /\ out' = T[member][r].out
    BY <1>1, <1>2 DEF UpToTorn, SoFar
  <2>5. CASE cancelled
    <3>1. failed'
      BY <1>1, <1>6, <2>5 DEF Receive, Returns
    <3>2. SameInv(T)'
      BY <1>1, <1>2, <1>3, <2>1, <2>4, <2>5, <3>1 DEF SameInv
    <3> QED
      BY <2>2, <2>3, <3>2 DEF StreamInv
  <2>6. CASE ~cancelled /\ queue # <<>>
    <3>1. Head(queue) = 0 /\ failed'
      BY <1>1, <1>6, <2>6 DEF Receive, Returns
    <3>2. Tail(queue) = <<>> /\ In(queue, 0) /\ \A i : In(queue, i) <=> i = Head(queue) \/ In(Tail(queue), i)
      <4>1. OnTheWay(queue, pos, walk) /\ Files \subseteq Nat \ {0}
        BY <1>3 DEF FrontInv, QueueInv
      <4> QED
        BY <1>3, <1>4, <2>6, <3>1, <4>1, WayTail, TailFacts
    <3>3. pos \in Files /\ Err(member, pos) = "walk"
      BY <1>1, <2>6, <3>2 DEF ReasonInv, InQueue, WalkDone
    <3>4. \A j \in Files : Pending(j) <=> j >= pos
      <4>1. \A j \in Files : ~In(queue, j)
        BY <1>3, <3>1, <3>2 DEF In
      <4> QED
        BY <1>1, <4>1 DEF Pending, InQueue
    <3>5. \A j \in Files : j > r <=> j >= pos
      BY <1>2, <3>4 DEF Split
    <3>6. pos \in 1..Len(Tree) /\ pos - 1 \in 0..Len(Tree) /\ r <= pos - 1 /\ \A j \in Files : ~(r < j /\ j <= pos - 1)
      BY <1>3, <3>3, <3>5
    <3>7. T[member][pos - 1] = T[member][r]
      BY <1>1, <1>2, <1>3, <3>6, Gap
    <3>8. T[member][pos] = SerialEntry(member, pos, T[member][r])
      BY <1>1, <1>3, <3>6, <3>7 DEF IsSerial
    <3>9. T[member][pos] = [T[member][r] EXCEPT !.fails = TRUE]
      BY <1>2, <1>3, <3>3, <3>8 DEF SerialEntry, SoFar
    <3>10. IsStream(T[member][r])
      BY <1>1, <1>2, <1>3, LaterEnd
    <3>11. T[member][pos].out = out /\ T[member][pos].fails
      <4>1. PICK o, l, f : T[member][r] = [out |-> o, links |-> l, fails |-> f]
        BY <3>10 DEF IsStream
      <4> QED
        BY <1>2, <3>9, <4>1 DEF SoFar
    <3>12. UpToTorn(out, T[member][pos])'
      BY <1>1, <3>11 DEF UpToTorn
    <3>13. SameInv(T)'
      BY <1>1, <1>3, <2>1, <3>1, <3>6, <3>11, <3>12 DEF SameInv
    <3> QED
      BY <2>2, <2>3, <3>13 DEF StreamInv
  <2>7. CASE ~cancelled /\ queue = <<>>
    <3>1. walk = "closed" /\ ~failed'
      BY <1>1, <1>6, <2>7 DEF Receive, Returns
    <3>2. \A i : ~InQueue(i)
      BY <2>7 DEF InQueue, In
    <3>3. NextVisited = {}
      BY <1>1, <2>7, <3>1, <3>2 DEF ReasonInv, WalkDone
    <3>4. \A j \in Files : ~Pending(j)
      BY <1>1, <1>3, <3>2, <3>3 DEF Pending, NextVisited, Files
    <3>5. Len(Tree) \in 0..Len(Tree) /\ r <= Len(Tree) /\ \A j \in Files : ~(r < j /\ j <= Len(Tree))
      BY <1>2, <1>3, <3>4 DEF Split
    <3>6. T[member][Len(Tree)] = T[member][r]
      BY <1>1, <1>2, <1>3, <3>5, Gap
    <3>7. SoFar(T[member][Len(Tree)])'
      BY <1>1, <1>2, <1>3, <3>6 DEF SoFar
    <3>8. SameInv(T)'
      BY <1>1, <1>3, <2>1, <3>1, <3>7 DEF SameInv
    <3> QED
      BY <2>2, <2>3, <3>8 DEF StreamInv
  <2> QED
    BY <2>5, <2>6, <2>7
<1> QED
  BY <1>1, <1>5, <1>6 DEF Receive, Returns

LEMMA StreamStep ==
    ASSUME FrontInv, ReasonInv, NEW T, IsSerial(T), StreamInv(T), Next
    PROVE  StreamInv(T)'
<1>0. UNCHANGED source
  BY SourceFixed
<1>1. member \in Members => Files \subseteq Nat
  BY Entries
<1>2. CASE TarMembers
  <2>1. CASE BeginTree(1)
    <3>1. out = <<>> /\ links = {} /\ UNCHANGED <<out, links, failed>>
      BY <1>2 DEF TarMembers, outVars, FrontInv, FlowInv, CallInv
    <3>2. SoFar(T[1][0])
      BY <3>1 DEF SoFar, IsSerial
    <3>3. \A k \in 1..Len(out) : out[k].m \in 1..1 - 1
      BY <3>1
    <3> QED
      BY <1>0, <2>1, <3>1, <3>2, <3>3, TreesFacts, StreamBegin DEF StreamInv
  <2>2. CASE UNCHANGED <<member, walkVars, queue, loadVars, writer, cur, stopped>>
    BY <1>0, <1>2, <2>2, StreamFrame DEF TarMembers, walkVars, outVars, Busy, Pending, InQueue
  <2> QED
    BY <1>2, <2>1, <2>2 DEF TarMembers
<1>3. CASE WalkVisit
  <2>1. UNCHANGED <<member, queue, writer, cur, out, links, failed, cancelled, faults>>
    BY <1>3 DEF WalkVisit, outVars
  <2>2. /\ member \in Members /\ pos \in Nat /\ pos' \in Nat /\ pos' >= pos
        /\ \A k \in Files : k >= pos => k >= pos'
    BY <1>3, VisitFacts DEF FrontInv, FlowInv, FlowType
  <2>3. \A j \in Files : j >= pos' <=> j >= pos
    BY <1>1, <2>2
  <2>4. \A j \in Files : Pending(j)' <=> Pending(j)
    BY <2>1, <2>3 DEF Pending, InQueue
  <2> QED
    BY <1>0, <2>1, <2>4, StreamFrame DEF Busy
<1>4. CASE AcquireMemory \/ AcquireWorker
  <2>1. UNCHANGED <<member, pos, queue, writer, cur, out, links, failed, cancelled, faults>>
    BY <1>4 DEF AcquireMemory, AcquireWorker, Reaches, outVars
  <2> QED
    BY <1>0, <2>1, StreamFrame DEF Busy, Pending, InQueue
<1>5. CASE Send
  <2>1. UNCHANGED <<member, writer, cur, out, links, failed, cancelled, faults>> /\ pos \in Slots /\ member \in Members
    BY <1>5, Inside DEF Send, outVars, FrontInv
  <2>2. queue \in Seq({0} \cup Slots) /\ pos \in Nat
    BY DEF FrontInv, QueueInv, OnTheWay, FlowInv, FlowType
  <2>3. CASE queue' = Append(queue, pos) /\ pos' = pos + 1
    <3>1. \A i : In(queue', i) <=> i = pos \/ In(queue, i)
      BY <2>1, <2>2, <2>3, AppendFacts
    <3>2. \A j \in Files : j >= pos <=> j = pos \/ j >= pos'
      BY <1>1, <2>1, <2>2, <2>3
    <3>3. \A j \in Files : Pending(j)' <=> Pending(j)
      BY <2>1, <3>1, <3>2 DEF Pending, InQueue
    <3> QED
      BY <1>0, <2>1, <3>3, StreamFrame DEF Busy
  <2>4. CASE UNCHANGED <<queue, pos>>
    BY <1>0, <2>1, <2>4, StreamFrame DEF Busy, Pending, InQueue
  <2> QED
    BY <1>5, <2>3, <2>4 DEF Send, SendFails, Reaches
<1>6. CASE SendError
  <2>1. UNCHANGED <<member, pos, writer, cur, out, links, failed, cancelled, faults>> /\ member \in Members
    BY <1>6, Inside DEF SendError, Reaches, outVars, FrontInv
  <2>2. queue \in Seq({0} \cup Slots) /\ 0 \notin Files
    BY <2>1, Entries DEF FrontInv, QueueInv, OnTheWay
  <2>3. \A i \in Files : In(queue', i) <=> In(queue, i)
    <3>1. CASE queue' = Append(queue, 0)
      BY <2>2, <3>1, AppendFacts
    <3> QED
      BY <1>6, <3>1 DEF SendError
  <2>4. \A j \in Files : Pending(j)' <=> Pending(j)
    BY <2>1, <2>3 DEF Pending, InQueue
  <2> QED
    BY <1>0, <2>1, <2>4, StreamFrame DEF Busy
<1>7. CASE Receive
  BY <1>0, <1>7, ReceiveStep
<1>8. CASE WriteFile
  BY <1>0, <1>8, WriteStep
<1>9. CASE Drain
  <2>1. UNCHANGED <<member, writer, out, links, failed, cancelled, faults>> /\ ~Busy /\ ~Busy'
    BY <1>9 DEF Drain, outVars, Busy
  <2> QED
    BY <1>0, <2>1, StreamFrame
<1>10. CASE TreeDone
  <2>1. UNCHANGED <<out, links, failed, cancelled>> /\ ~Busy /\ member \in Members
    BY <1>10, Inside DEF TreeDone, outVars, Busy, FrontInv
  <2>2. CASE ~failed /\ member < Len(Trees) /\ BeginTree(member + 1)
    <3>1. PICK m : m = member + 1
      OBVIOUS
    <3>2. m \in Members /\ m > 1 /\ m - 1 = member /\ member # 0
      BY <2>1, <2>2, <3>1, TreesFacts DEF Members
    <3>3. SoFar(T[member][Len(Trees[member])])
      BY <2>1, <2>2, <3>2 DEF StreamInv, SameInv, Tree
    <3>4. T[m][0] = T[member][Len(Trees[member])]
      BY <3>2 DEF IsSerial
    <3>5. \A k \in 1..Len(out) : out[k].m \in 1..m - 1
      BY <3>2 DEF StreamInv, NamesInv
    <3> QED
      BY <1>0, <2>1, <2>2, <3>1, <3>2, <3>3, <3>4, <3>5, StreamBegin DEF StreamInv
  <2>3. CASE UNCHANGED <<member, walkVars, queue, loadVars, cur, stopped>> /\ writer' = "done" /\ (UNCHANGED faults \/ faults' = faults + 1)
    <3>1. faults \in Nat
      BY ReadAheadAssumption DEF FrontInv, FlowInv, FlowType
    <3>2. faults' = 0 => faults = 0
      BY <2>3, <3>1
    <3>3. ~Busy'
      BY <2>3 DEF Busy
    <3> QED
      BY <1>0, <2>1, <2>3, <3>2, <3>3, StreamFrame
  <2> QED
    BY <1>10, <2>2, <2>3 DEF TreeDone
<1>11. CASE Cancel \/ Ended
  <2>1. UNCHANGED <<member, pos, queue, writer, cur, out, links, failed, faults>> /\ (cancelled => cancelled')
    BY <1>11 DEF Cancel, Ended, vars, walkVars, outVars
  <2> QED
    BY <1>0, <2>1, StreamFrame DEF Busy, Pending, InQueue
<1>12. ASSUME NEW j \in Slots, Load(j) PROVE StreamInv(T)'
  <2>1. UNCHANGED <<member, pos, queue, writer, cur, out, links, failed, cancelled, faults>>
    BY <1>12 DEF Load, walkVars, outVars
  <2> QED
    BY <1>0, <2>1, StreamFrame DEF Busy, Pending, InQueue
<1> QED
  BY <1>2, <1>3, <1>4, <1>5, <1>6, <1>7, <1>8, <1>9, <1>10, <1>11, <1>12 DEF Next, Walk, Writer

LEMMA ArchiveInit ==
    ASSUME Init
    PROVE  ArchiveInv
<1>1. member = 0 /\ out = <<>> /\ links = {} /\ writer = "done" /\ walk = "closed" /\ queue = <<>>
  BY DEF Init
<1>2. ~Busy /\ ~InQueue(0)
  BY <1>1 DEF Busy, InQueue, In
<1>3. Sequential(out)
  <2>1. <<>> \in Seq({})
    OBVIOUS
  <2> QED
    BY <1>1, <2>1 DEF Sequential
<1>4. WholeInv /\ ReasonInv
  BY <1>1, <1>2 DEF WholeInv, ReasonInv
<1>5. NamesInv /\ LinksInv
  BY <1>1, <1>3 DEF NamesInv, LinksInv, LinksResolve
<1>6. \A T : SameInv(T)
  BY <1>1, <1>2 DEF SameInv
<1> QED
  BY <1>4, <1>5, <1>6 DEF ArchiveInv

LEMMA ArchiveStep ==
    ASSUME FrontInv, ArchiveInv, Next
    PROVE  ArchiveInv'
<1>1. \A T : IsSerial(T)' <=> IsSerial(T)
  BY SourceFixed, WriteSame
<1>2. ASSUME NEW T, IsSerial(T) PROVE StreamInv(T)'
  BY <1>2, StreamStep DEF ArchiveInv, StreamInv
<1>3. PICK T : IsSerial(T)
  BY SerialExists
<1>4. WholeInv' /\ NamesInv' /\ LinksInv'
  BY <1>2, <1>3 DEF StreamInv
<1>5. ReasonInv'
  BY ReasonInvStep DEF ArchiveInv
<1>6. \A S : IsSerial(S)' => SameInv(S)'
  BY <1>1, <1>2 DEF StreamInv
<1> QED
  BY <1>4, <1>5, <1>6 DEF ArchiveInv

LEMMA ArchiveStutter ==
    ASSUME ArchiveInv, UNCHANGED vars
    PROVE  ArchiveInv'
<1>1. UNCHANGED <<source, member, walk, pos, queue, writer, cur, links, out, failed, cancelled, stopped, faults>>
  BY DEF vars, walkVars, loadVars, outVars
<1>2. \A T : IsSerial(T)' <=> IsSerial(T)
  BY <1>1, WriteSame
<1>3. ASSUME NEW T, IsSerial(T) PROVE StreamInv(T)'
  BY <1>1, <1>3, StreamFrame DEF ArchiveInv, StreamInv, Busy, Pending, InQueue
<1>4. PICK T : IsSerial(T)
  BY SerialExists
<1>5. WholeInv' /\ NamesInv' /\ LinksInv'
  BY <1>3, <1>4 DEF StreamInv
<1>6. ReasonInv'
  BY <1>1, SourceSame DEF ArchiveInv, ReasonInv, InQueue, WalkDone, NextVisited, Files, Tree, Busy
<1>7. \A S : IsSerial(S)' => SameInv(S)'
  BY <1>2, <1>3 DEF StreamInv
<1> QED
  BY <1>5, <1>6, <1>7 DEF ArchiveInv

LEMMA ArchiveHolds ==
    ASSUME FrontInv, ArchiveInv
    PROVE  ArchiveSound
<1>1. LinksResolve
  BY DEF ArchiveInv, LinksInv
<1>2. NamesDistinct
  <2>1. ASSUME NEW j \in 1..Len(out), NEW k \in 1..Len(out), j < k PROVE out[j].name # out[k].name
    <3>1. member # 0 /\ MembersValid
      <4>1. member # 0
        BY <2>1 DEF FrontInv, FlowInv, CallInv
      <4> QED
        BY <4>1 DEF FrontInv, FlowInv, WalkInv
    <3>2. member \in Members /\ member \in Nat /\ Len(Trees) \in Nat /\ member <= Len(Trees)
      BY <3>1, Inside, TreesFacts DEF FrontInv, Members
    <3>3. PICK a, b : a = out[j].m /\ b = out[k].m
      OBVIOUS
    <3>4. /\ a \in 1..member /\ b \in 1..member
          /\ out[j].name = <<subdir[a], out[j].name[2]>> /\ out[k].name = <<subdir[b], out[k].name[2]>>
          /\ out[j].name[2] \in 1..Len(Trees[a]) /\ out[k].name[2] \in 1..Len(Trees[b])
          /\ a < b \/ (a = b /\ out[j].name[2] < out[k].name[2])
      BY <2>1, <3>3 DEF ArchiveInv, NamesInv
    <3>5. a \in Members /\ b \in Members /\ a \in Nat /\ b \in Nat
      BY <3>2, <3>4 DEF Members
    <3>6. CASE a < b
      <4>0. a # b
        BY <3>5, <3>6
      <4>1. subdir[a] # subdir[b]
        BY <3>1, <3>5, <4>0 DEF MembersValid
      <4> QED
        BY <3>4, <4>1
    <3>7. CASE a = b /\ out[j].name[2] < out[k].name[2]
      <4>1. PICK x, y : x = out[j].name[2] /\ y = out[k].name[2]
        OBVIOUS
      <4>2. x \in Nat /\ y \in Nat /\ x < y
        BY <3>4, <3>5, <3>7, <4>1, TreesFacts
      <4>3. x # y
        BY <4>2
      <4> QED
        BY <4>1, <4>3
    <3> QED
      BY <3>4, <3>6, <3>7
  <2>2. Len(out) \in Nat
    BY NoMoreEntry DEF ArchiveInv, NamesInv
  <2>3. \A j, k \in 1..Len(out) : j < k \/ k < j \/ j = k
    BY <2>2
  <2> QED
    BY <2>1, <2>3 DEF NamesDistinct
<1>3. SameAsSerial
  <2>1. SUFFICES ASSUME MembersValid PROVE SameAsSerial
    BY DEF SameAsSerial
  <2>2. PICK T : IsSerial(T) /\ Serial = T[Len(Trees)][Len(Trees[Len(Trees)])]
    BY SerialExists
  <2>3. PICK serial : serial = Serial
    OBVIOUS
  <2>4. SameInv(T) /\ Sequential(out) /\ Len(out) \in Nat
    BY <2>2, NoMoreEntry DEF ArchiveInv, NamesInv
  <2>5. Len(Trees) \in Members /\ Len(Trees[Len(Trees)]) \in Nat /\ Len(Trees[Len(Trees)]) \in 0..Len(Trees[Len(Trees)])
    BY TreesFacts DEF Members
  <2>6. IsStream(serial) /\ Len(serial.out) \in Nat
    <3>1. IsStream(serial)
      BY <2>2, <2>3, <2>5, LaterEnd
    <3>2. PICK o, l, f : serial = [out |-> o, links |-> l, fails |-> f] /\ Sequential(o)
      BY <3>1 DEF IsStream
    <3>3. Len(o) \in Nat /\ serial.out = o
      BY <3>2, NoMoreEntry
    <3> QED
      BY <3>1, <3>3
  <2>7. ASSUME NEW m \in Members, NEW i \in 0..Len(Trees[m])
        PROVE  /\ Len(T[m][i].out) \in Nat /\ Len(T[m][i].out) <= Len(serial.out)
               /\ \A k \in 1..Len(T[m][i].out) : T[m][i].out[k] = serial.out[k]
               /\ T[m][i].fails => serial = T[m][i]
    <3>1. IsStream(T[m][i]) /\ Later(T[m][i], serial)
      BY <2>2, <2>3, <2>7, LaterEnd
    <3>2. Len(T[m][i].out) \in Nat
      BY <3>1, NoMoreEntry DEF IsStream
    <3> QED
      BY <3>1, <3>2 DEF Later
  <2>8. /\ Len(out) <= Len(serial.out)
        /\ \A k \in 1..Len(out) :
              \/ out[k] = serial.out[k]
              \/ k = Len(out) /\ failed /\ out[k].what = "torn" /\ out[k].name = serial.out[k].name
        /\ result # "none" /\ ~cancelled /\ faults = 0 =>
              out = serial.out /\ (result = "ok" <=> ~serial.fails)
        /\ result = "ok" => out = serial.out
    <3>1. CASE member = 0
      <4>1. out = <<>> /\ result = "none"
        BY <2>1, <3>1 DEF FrontInv, FlowInv, CallInv
      <4>2. Len(out) = 0
        BY <4>1
      <4> QED
        BY <2>6, <4>1, <4>2
    <3>2. CASE Busy
      <4>1. member \in Members /\ result = "none"
        BY <3>2, Inside DEF Busy, FrontInv, FlowInv, CallInv
      <4>2. PICK r \in 0..Len(Trees[member]) : out = T[member][r].out
        BY <2>4, <3>2 DEF SameInv, SoFar, Tree
      <4> QED
        BY <2>7, <4>1, <4>2
    <3>3. CASE member # 0 /\ ~Busy /\ ~failed
      <4>1. member \in Members /\ Len(Trees[member]) \in Nat
        BY <3>3, Inside, TreesFacts DEF FrontInv
      <4>2. out = T[member][Len(Trees[member])].out /\ ~T[member][Len(Trees[member])].fails
        BY <2>4, <3>3 DEF SameInv, SoFar, Tree
      <4>3. result # "none" => member = Len(Trees)
        BY <3>3 DEF FrontInv, FlowInv, CallInv
      <4>4. result = "err" => faults # 0
        <5>1. faults \in Nat
          BY ReadAheadAssumption DEF FrontInv, FlowInv, FlowType
        <5> QED
          BY <3>3, <5>1 DEF FrontInv, FlowInv, CallInv
      <4>5. result # "none" => out = serial.out /\ ~serial.fails
        BY <2>2, <2>3, <4>2, <4>3
      <4>6. result \in {"none", "ok", "err"}
        BY DEF FrontInv, FlowInv, FlowType
      <4>7. /\ Len(out) <= Len(serial.out)
            /\ \A k \in 1..Len(out) : out[k] = serial.out[k]
        <5>1. Len(Trees[member]) \in 0..Len(Trees[member])
          BY <4>1
        <5> QED
          BY <2>7, <4>1, <4>2, <5>1
      <4> QED
        BY <4>4, <4>5, <4>6, <4>7
    <3>4. CASE member # 0 /\ ~Busy /\ failed
      <4>1. member \in Members /\ result # "ok"
        BY <3>4, Inside DEF FrontInv, FlowInv, CallInv
      <4>2. PICK i \in 0..Len(Trees[member]) :
               /\ UpToTorn(out, T[member][i])
               /\ ~cancelled /\ faults = 0 => out = T[member][i].out /\ T[member][i].fails
        BY <2>4, <3>4 DEF SameInv, Tree
      <4>3. /\ Len(T[member][i].out) <= Len(serial.out)
            /\ \A k \in 1..Len(T[member][i].out) : T[member][i].out[k] = serial.out[k]
            /\ T[member][i].fails => serial = T[member][i]
        BY <2>7, <4>1
      <4>4. /\ Len(out) <= Len(serial.out)
            /\ \A k \in 1..Len(out) :
                  \/ out[k] = serial.out[k]
                  \/ k = Len(out) /\ failed /\ out[k].what = "torn" /\ out[k].name = serial.out[k].name
        BY <3>4, <4>2, <4>3 DEF UpToTorn
      <4>5. ~cancelled /\ faults = 0 => out = serial.out /\ serial.fails
        BY <4>2, <4>3
      <4> QED
        BY <4>1, <4>4, <4>5
    <3> QED
      BY <3>1, <3>2, <3>3, <3>4
  <2> QED
    BY <2>3, <2>8 DEF SameAsSerial
<1> QED
  BY <1>1, <1>2, <1>3 DEF ArchiveSound

(***************************************************************************)
(* Reading ahead does not show: "the writer reproduces the serial path's   *)
(* output and errors exactly" (readahead.go).  Whatever the trees, the     *)
(* damage to them and the budgets, and in whatever order small files are   *)
(* loaded, the stream treeReadAhead writes is at every moment what         *)
(* tarWriter.tree would have written so far, except for an entry torn by a *)
(* failed write; without a cancellation or a failed write the outcome is   *)
(* the same too; every hard link names an earlier entry with the data; and *)
(* no name occurs twice.                                                   *)
(***************************************************************************)
THEOREM ArchiveIsSerial == Spec => []ArchiveSound
<1>1. Init => FrontInv /\ BudgetInv /\ ArchiveInv
  BY FrontInit, BudgetInit, ArchiveInit
<1>2. FrontInv /\ BudgetInv /\ ArchiveInv /\ [Next]_vars => (FrontInv /\ BudgetInv /\ ArchiveInv)'
  BY FrontStep, BudgetInvStep, FrontStutter, ArchiveStep, ArchiveStutter
<1>3. FrontInv /\ ArchiveInv => ArchiveSound
  BY ArchiveHolds
<1> QED
  BY <1>1, <1>2, <1>3, PTL DEF Spec

PlanItems(A) == [index : A, data : Nat, slices : Nat, reserved : Int]

-----------------------------------------------------------------------------
(* The staged files: the inductive invariant *)

Num == Len(input.slices)
PastPack == {"par2", "verify", "write", "done"}

\* An input whose plan puts archives of its own on its tapes.
InputInv ==
    /\ input.slices \in Seq(Seq(Nat) \ {<<>>}) \ {<<>>}
    /\ input.pack.tapes \in Seq(Seq(PlanItems(Archives)) \ {<<>>})

\* Attempt k of Prepare, or of Generate PAR2, in phase ph, while the server waits
\* for attempt n: that one is the only one that runs, and none after it has begun.
PrepOK(p, k, ph, n) ==
    /\ DOMAIN p = {"st", "a", "s", "pc"} /\ p.st \in {"none", "run", "lost", "over"}
    /\ p.a \in Archives /\ p.s \in Slices(p.a) /\ p.pc \in {"create", "write", "end"}
    /\ p.st = "run" <=> ph = "prepare" /\ k = n
    /\ ph = "prepare" /\ k > n => p = NoPrepare
ParOK(p, k, ph, n) ==
    /\ DOMAIN p = {"st", "a", "pc", "seen", "got"} /\ p.st \in {"none", "run", "lost", "stopped", "over"}
    /\ p.a \in Archives /\ p.pc \in {"purge", "open", "compute", "measure", "end"}
    /\ p.st = "run" <=> ph = "par2" /\ k = n
    /\ ph \in {"prepare", "pack"} \/ (ph = "par2" /\ k > n) => p = NoPAR2

AttemptInv ==
    /\ attempt \in Attempts /\ DOMAIN prep = Attempts /\ DOMAIN par = Attempts
    /\ \A k \in Attempts : PrepOK(prep[k], k, phase, attempt) /\ ParOK(par[k], k, phase, attempt)

\* What the workflow has of the phases before.
PhaseInv ==
    /\ phase \in {"prepare", "pack", "failed"} \cup PastPack
    /\ staged \in 0..MaxAttempts /\ mishaps \in 0..MaxMishaps
    /\ phase \in {"pack"} \cup PastPack => staged \in Attempts /\ prep[staged].st = "over"
    /\ phase \in {"prepare", "pack"} => plan = <<>> /\ pdisk = [a \in Archives |-> [f \in SetFiles |-> None]]
    /\ phase \in PastPack => plan = input.pack.tapes
    /\ plan = <<>> \/ plan = input.pack.tapes
    /\ phase \in {"prepare", "pack", "par2"} => sets = <<>>
    /\ phase \in {"verify", "write", "done"} => Len(sets) = Num
    /\ sets = <<>> \/ Len(sets) = Num
    /\ tapes # <<>> => phase \in {"write", "done"}
    /\ reason # "none" => phase = "failed"

\* f is a function on S.
IsOver(f, S) == f = [x \in S |-> f[x]]

\* The staged slices, and the recovery files, which par2 creates all or none.
FilesInv ==
    /\ DOMAIN disk = Archives /\ DOMAIN pdisk = Archives
    /\ \A a \in Archives :
          /\ IsOver(disk[a], Slices(a)) /\ IsOver(pdisk[a], SetFiles)
          /\ phase = "par2" => \A f, g \in SetFiles : pdisk[a][f] = None => pdisk[a][g] = None

\* The slices of archive a are as the attempt that was reported wrote them, and
\* no attempt that is left can make them so again.
Good(a) == \A s \in Slices(a) : disk[a][s] = <<staged, "whole">>

Parts == {<<k, "part">> : k \in Attempts}
Of(a) == {<<k, "set", disk[a]>> : k \in Attempts}

\* While an archive is good, every recovery set of it is a set of what is there,
\* or is not finished; so is every set that attempt p of Generate PAR2 has read.
FilesOK(a) == \A f \in SetFiles : pdisk[a][f] \in {None} \cup Parts \cup Of(a)
WorkOK(p, a) ==
    /\ p.pc = "compute" /\ p.a = a => p.seen = disk[a]
    /\ a < p.a => \A f \in SetFiles : p.got[a][f] \in Parts \cup Of(a)
GotOK(p) ==
    /\ Len(p.got) = p.a - 1 /\ \E S : p.got \in Seq(S)
    /\ \A a \in 1..p.a - 1 : IsOver(p.got[a], SetFiles)
SetInv ==
    /\ phase = "par2" =>
          /\ \A a \in Archives : Good(a) => FilesOK(a) /\ \A k \in Attempts : WorkOK(par[k], a)
          /\ \A k \in Attempts : GotOK(par[k])
    /\ phase \in {"verify", "write", "done"} => \A a \in Archives :
          IsOver(sets[a], SetFiles) /\ (Good(a) => \A f \in SetFiles : sets[a][f] \in Parts \cup Of(a))

\* An unfinished recovery file belongs to a par2 that is at work, or was stopped
\* at it, or will be purged by the attempt the server waits for.
Purges(a) == phase = "par2" /\ (par[attempt].a < a \/ (par[attempt].a = a /\ par[attempt].pc = "purge"))
PartOK(a, f, k) ==
    pdisk[a][f] = <<k, "part">> =>
       \/ par[k].st = "stopped" \/ Purges(a)
       \/ par[k].st \in {"run", "lost"} /\ par[k].pc = "compute" /\ par[k].a = a
PartInv == phase \in PastPack => \A a \in Archives : \A f \in SetFiles : \A k \in Attempts : PartOK(a, f, k)

\* What Verify has been through matches, and nothing is at work on it any more.
Verified(t, n) == Matches(plan[t][n].index)
VerifyInv ==
    /\ checked = <<checked[1], checked[2]>> /\ checked[1] \in 1..Len(plan) + 1 /\ checked[2] \in Nat
    /\ phase \in {"prepare", "pack", "par2"} => checked = AtFirst
    /\ checked[1] \in DOMAIN plan => checked[2] < Len(plan[checked[1]])
    /\ checked[1] \notin DOMAIN plan => checked[2] = 0
    /\ phase \in {"verify", "write", "done"} =>
          /\ checked # AtFirst \/ phase # "verify" => \A k \in Attempts : ~Alive(k, prep) /\ ~Alive(k, par)
          /\ \A t \in DOMAIN plan : t < checked[1] => \A n \in DOMAIN plan[t] : Verified(t, n)
          /\ checked[1] \in DOMAIN plan => \A n \in 1..checked[2] : Verified(checked[1], n)
    /\ phase \in {"write", "done"} => checked[1] = Len(plan) + 1

\* What was written is what is there.
TapeInv ==
    /\ \E S : tapes \in Seq(S)
    /\ Len(tapes) <= Len(plan)
    /\ \A t \in DOMAIN tapes : tapes[t] =
         [i \in DOMAIN plan[t] |->
            [index |-> plan[t][i].index, slices |-> disk[plan[t][i].index], par2 |-> pdisk[plan[t][i].index],
             manifest |-> [by |-> staged, par2 |-> sets[plan[t][i].index]]]]

\* How attempt p of Generate PAR2 may still be heard of.
AtWork(p) == p.st \in {"run", "lost", "stopped"} \/ p.pc = "end"
Living(p) == p.st \in {"run", "lost"}
EmptyAt(files, a) == \A f \in SetFiles : files[a][f] = None

\* Attempt p has been past the opening, or the purge, of the archive q is at.
MetBy(p, q) == p.a > q.a \/ (p.a = q.a /\ p.pc \in {"compute", "measure", "end"})
PurgedBy(p, q) == p.a > q.a \/ (p.a = q.a /\ p.pc = "open")

\* G: the attempt n the server waits for, and those that have touched the recovery
\* files since it began.  Where one of them meets files after its own purge,
\* another made them; where its own files are gone, another purged them.
Causes(acts, files, n, G) ==
    /\ n \in G
    /\ \A k \in G : Living(acts[k]) /\ acts[k].pc = "open" /\ ~EmptyAt(files, acts[k].a) =>
          \E j \in G : j # k /\ AtWork(acts[j]) /\ MetBy(acts[j], acts[k])
    /\ \A k \in G : Living(acts[k]) /\ acts[k].pc \in {"compute", "measure"} /\ EmptyAt(files, acts[k].a) =>
          \E j \in G : j # k /\ AtWork(acts[j]) /\ PurgedBy(acts[j], acts[k])

RetryInv ==
    /\ phase = "par2" => \E G \in SUBSET Attempts : Causes(par, pdisk, attempt, G)
    /\ reason = "exists" => \E k \in Attempts : par[k].st \in {"lost", "stopped"} \/ par[k].pc = "end"

StagingInv ==
    InputInv /\ AttemptInv /\ PhaseInv /\ FilesInv /\ SetInv /\ PartInv /\ VerifyInv /\ TapeInv /\ RetryInv
-----------------------------------------------------------------------------
(* What a step leaves alone *)

LEMMA ArchiveFacts ==
    ASSUME InputInv
    PROVE  /\ Num \in Nat \ {0} /\ Archives = 1..Num /\ 1 \in Archives
           /\ \A a \in Archives : Len(input.slices[a]) \in Nat \ {0} /\ Slices(a) = 1..Len(input.slices[a]) /\ 1 \in Slices(a)
<1>1. input.slices \in Seq(Seq(Nat) \ {<<>>}) /\ input.slices # <<>>
  BY DEF InputInv
<1>2. Num \in Nat \ {0} /\ Archives = 1..Num /\ 1 \in Archives
  BY <1>1 DEF Num, Archives
<1>3. ASSUME NEW a \in Archives
      PROVE  Len(input.slices[a]) \in Nat \ {0} /\ Slices(a) = 1..Len(input.slices[a]) /\ 1 \in Slices(a)
  <2>1. input.slices[a] \in Seq(Nat) /\ input.slices[a] # <<>>
    BY <1>1, <1>2, <1>3 DEF Num, Archives
  <2> QED
    BY <2>1 DEF Slices
<1> QED
  BY <1>2, <1>3

-----------------------------------------------------------------------------
(* The attempts *)

-----------------------------------------------------------------------------
(* The attempts *)

LEMMA PrepSet ==
    ASSUME AttemptInv, NEW k \in Attempts, NEW r, NEW q, q = [prep EXCEPT ![k] = r]
    PROVE  DOMAIN q = Attempts /\ q[k] = r /\ \A j \in Attempts : j # k => q[j] = prep[j]
  BY DEF AttemptInv

LEMMA ParSet ==
    ASSUME AttemptInv, NEW k \in Attempts, NEW r, NEW q, q = [par EXCEPT ![k] = r]
    PROVE  DOMAIN q = Attempts /\ q[k] = r /\ \A j \in Attempts : j # k => q[j] = par[j]
  BY DEF AttemptInv

\* The next attempt begins.
LEMMA PrepBegins ==
    ASSUME InputInv, NEW k \in Nat
    PROVE  PrepOK([NoPrepare EXCEPT !.st = "run"], k, "prepare", k) /\ PrepOK(NoPrepare, k + 1, "prepare", k)
<1>1. PICK q : q = [NoPrepare EXCEPT !.st = "run"]
  OBVIOUS
<1>2. DOMAIN q = {"st", "a", "s", "pc"} /\ q.st = "run" /\ q.a = 1 /\ q.s = 1 /\ q.pc = "create"
  BY <1>1 DEF NoPrepare
<1>3. 1 \in Archives /\ 1 \in Slices(1)
  BY ArchiveFacts
<1> QED
  BY <1>1, <1>2, <1>3 DEF PrepOK, NoPrepare

LEMMA ParBegins ==
    ASSUME InputInv, NEW k \in Nat
    PROVE  ParOK([NoPAR2 EXCEPT !.st = "run"], k, "par2", k)
<1>1. PICK q : q = [NoPAR2 EXCEPT !.st = "run"]
  OBVIOUS
<1>2. DOMAIN q = {"st", "a", "pc", "seen", "got"} /\ q.st = "run" /\ q.a = 1 /\ q.pc = "purge"
  BY <1>1 DEF NoPAR2
<1>3. 1 \in Archives
  BY ArchiveFacts
<1> QED
  BY <1>1, <1>2, <1>3 DEF ParOK

LEMMA AttemptNumbers ==
    /\ MaxAttempts \in Nat \ {0} /\ Attempts \subseteq Nat \ {0} /\ 1 \in Attempts
    /\ \A k \in Attempts : k < MaxAttempts => k + 1 \in Attempts
  BY StagingAssumption DEF Attempts

\* The attempt the server waits for ends, or is given up, and the next one begins
\* or the run fails.
LEMMA RetriedPrep ==
    ASSUME InputInv, AttemptInv, phase = "prepare", input' = input, NEW st \in {"lost", "over"}, NEW retry, NEW why,
           Retried([prep EXCEPT ![attempt].st = st], retry, why)
    PROVE  AttemptInv' /\ par' = par /\ prep'[attempt].st = st
<1>1. PICK r : r = [prep[attempt] EXCEPT !.st = st]
  OBVIOUS
<1>2. PICK q : q = [prep EXCEPT ![attempt] = r]
  OBVIOUS
<1>3. attempt \in Attempts /\ DOMAIN prep = Attempts /\ DOMAIN par = Attempts
  BY DEF AttemptInv
<1>4. DOMAIN q = Attempts /\ q[attempt] = r /\ \A j \in Attempts : j # attempt => q[j] = prep[j]
  BY <1>2, <1>3, PrepSet
<1>5. [prep EXCEPT ![attempt].st = st] = q
  BY <1>1, <1>2
<1>6. DOMAIN r = {"st", "a", "s", "pc"} /\ r.st = st /\ r.a = prep[attempt].a /\ r.s = prep[attempt].s /\ r.pc = prep[attempt].pc
  BY <1>1, <1>3 DEF AttemptInv, PrepOK
<1>7. \A p, k, ph, n : PrepOK(p, k, ph, n)' <=> PrepOK(p, k, ph, n)
  BY DEF PrepOK, Archives, Slices
<1>8. \A p, k, ph, n : ParOK(p, k, ph, n)' <=> ParOK(p, k, ph, n)
  BY DEF ParOK, Archives
<1>9. CASE retry /\ attempt < MaxAttempts
  <2>1. attempt' = attempt + 1 /\ phase' = "prepare" /\ prep' = [q EXCEPT ![attempt + 1].st = "run"] /\ par' = par
    BY <1>5, <1>9 DEF Retried
  <2>2. attempt' \in Attempts /\ attempt \in Nat /\ attempt + 1 # attempt
    BY <1>3, <1>9, <2>1, AttemptNumbers
  <2>3. q[attempt + 1] = NoPrepare
    BY <1>4, <2>1, <2>2 DEF AttemptInv, PrepOK
  <2>4. DOMAIN prep' = Attempts /\ prep'[attempt + 1] = [NoPrepare EXCEPT !.st = "run"] /\ prep'[attempt] = r
        /\ \A j \in Attempts : j # attempt /\ j # attempt + 1 => prep'[j] = prep[j]
    BY <1>4, <2>1, <2>2, <2>3
  <2>5. ASSUME NEW j \in Attempts PROVE PrepOK(prep'[j], j, phase', attempt')
    <3>1. CASE j = attempt
      <4>1. PrepOK(prep[j], j, "prepare", attempt)
        BY DEF AttemptInv
      <4> QED
        BY <1>6, <2>1, <2>2, <2>4, <3>1, <4>1 DEF PrepOK
    <3>2. CASE j = attempt + 1
      BY <2>1, <2>2, <2>4, <3>2, PrepBegins, AttemptNumbers
    <3>3. CASE j # attempt /\ j # attempt + 1
      <4>1. PrepOK(prep[j], j, "prepare", attempt) /\ j \in Nat
        BY AttemptNumbers DEF AttemptInv
      <4>2. prep[j].st # "run"
        BY <3>3, <4>1 DEF PrepOK
      <4> QED
        BY <2>1, <2>2, <2>4, <3>3, <4>1, <4>2 DEF PrepOK
    <3> QED
      BY <3>1, <3>2, <3>3
  <2>6. ASSUME NEW j \in Attempts PROVE ParOK(par'[j], j, phase', attempt')
    <3>1. ParOK(par[j], j, "prepare", attempt)
      BY DEF AttemptInv
    <3> QED
      BY <2>1, <3>1 DEF ParOK, NoPAR2
  <2> QED
    BY <1>3, <1>6, <1>7, <1>8, <2>1, <2>2, <2>4, <2>5, <2>6 DEF AttemptInv
<1>10. CASE ~(retry /\ attempt < MaxAttempts)
  <2>1. attempt' = attempt /\ phase' = "failed" /\ prep' = q /\ par' = par
    BY <1>5, <1>10 DEF Retried
  <2>2. ASSUME NEW j \in Attempts PROVE PrepOK(prep'[j], j, phase', attempt')
    <3>1. PrepOK(prep[j], j, "prepare", attempt)
      BY DEF AttemptInv
    <3>2. CASE j = attempt
      BY <1>6, <1>4, <2>1, <3>1, <3>2 DEF PrepOK
    <3>3. CASE j # attempt
      <4>1. prep[j].st # "run"
        BY <3>1, <3>3 DEF PrepOK
      <4> QED
        BY <1>4, <2>1, <3>1, <3>3, <4>1 DEF PrepOK
    <3> QED
      BY <3>2, <3>3
  <2>3. ASSUME NEW j \in Attempts PROVE ParOK(par'[j], j, phase', attempt')
    <3>1. ParOK(par[j], j, "prepare", attempt)
      BY DEF AttemptInv
    <3> QED
      BY <2>1, <3>1 DEF ParOK, NoPAR2
  <2> QED
    BY <1>3, <1>4, <1>6, <1>7, <1>8, <2>1, <2>2, <2>3 DEF AttemptInv
<1> QED
  BY <1>9, <1>10

LEMMA RetriedPar ==
    ASSUME InputInv, AttemptInv, phase = "par2", input' = input, NEW st \in {"lost", "over"}, NEW retry, NEW why,
           Retried([par EXCEPT ![attempt].st = st], retry, why)
    PROVE  /\ AttemptInv' /\ prep' = prep
           /\ par'[attempt] = [par[attempt] EXCEPT !.st = st]
           /\ \/ phase' = "failed" /\ reason' = why /\ attempt' = attempt
                 /\ \A j \in Attempts : j # attempt => par'[j] = par[j]
              \/ phase' = "par2" /\ reason' = reason /\ attempt' = attempt + 1 /\ par'[attempt'].pc = "purge" /\ par'[attempt'].a = 1
                 /\ par'[attempt'].got = <<>>
                 /\ \A j \in Attempts : j # attempt /\ j # attempt' => par'[j] = par[j]
<1>1. PICK r : r = [par[attempt] EXCEPT !.st = st]
  OBVIOUS
<1>2. PICK q : q = [par EXCEPT ![attempt] = r]
  OBVIOUS
<1>3. attempt \in Attempts /\ DOMAIN prep = Attempts /\ DOMAIN par = Attempts
  BY DEF AttemptInv
<1>4. DOMAIN q = Attempts /\ q[attempt] = r /\ \A j \in Attempts : j # attempt => q[j] = par[j]
  BY <1>2, <1>3, ParSet
<1>5. [par EXCEPT ![attempt].st = st] = q
  BY <1>1, <1>2
<1>6. DOMAIN r = {"st", "a", "pc", "seen", "got"} /\ r.st = st /\ r.a = par[attempt].a /\ r.pc = par[attempt].pc
  BY <1>1, <1>3 DEF AttemptInv, ParOK
<1>7. \A p, k, ph, n : PrepOK(p, k, ph, n)' <=> PrepOK(p, k, ph, n)
  BY DEF PrepOK, Archives, Slices
<1>8. \A p, k, ph, n : ParOK(p, k, ph, n)' <=> ParOK(p, k, ph, n)
  BY DEF ParOK, Archives
<1>9. CASE retry /\ attempt < MaxAttempts
  <2>1. attempt' = attempt + 1 /\ phase' = "par2" /\ par' = [q EXCEPT ![attempt + 1].st = "run"] /\ prep' = prep /\ reason' = reason
    BY <1>5, <1>9 DEF Retried
  <2>2. attempt' \in Attempts /\ attempt \in Nat /\ attempt + 1 # attempt
    BY <1>3, <1>9, <2>1, AttemptNumbers
  <2>3. q[attempt + 1] = NoPAR2
    BY <1>4, <2>1, <2>2 DEF AttemptInv, ParOK
  <2>4. DOMAIN par' = Attempts /\ par'[attempt + 1] = [NoPAR2 EXCEPT !.st = "run"] /\ par'[attempt] = r
        /\ \A j \in Attempts : j # attempt /\ j # attempt + 1 => par'[j] = par[j]
    BY <1>4, <2>1, <2>2, <2>3
  <2>5. ASSUME NEW j \in Attempts PROVE ParOK(par'[j], j, phase', attempt')
    <3>1. CASE j = attempt
      <4>1. ParOK(par[j], j, "par2", attempt)
        BY DEF AttemptInv
      <4> QED
        BY <1>6, <2>1, <2>2, <2>4, <3>1, <4>1 DEF ParOK
    <3>2. CASE j = attempt + 1
      BY <2>1, <2>2, <2>4, <3>2, ParBegins, AttemptNumbers
    <3>3. CASE j # attempt /\ j # attempt + 1
      <4>1. ParOK(par[j], j, "par2", attempt) /\ j \in Nat
        BY AttemptNumbers DEF AttemptInv
      <4>2. par[j].st # "run"
        BY <3>3, <4>1 DEF ParOK
      <4> QED
        BY <2>1, <2>2, <2>4, <3>3, <4>1, <4>2 DEF ParOK
    <3> QED
      BY <3>1, <3>2, <3>3
  <2>6. ASSUME NEW j \in Attempts PROVE PrepOK(prep'[j], j, phase', attempt')
    <3>1. PrepOK(prep[j], j, "par2", attempt)
      BY DEF AttemptInv
    <3> QED
      BY <2>1, <3>1 DEF PrepOK
  <2>7. par'[attempt'].pc = "purge" /\ par'[attempt'].a = 1 /\ par'[attempt'].got = <<>>
    BY <2>1, <2>4 DEF NoPAR2
  <2> QED
    BY <1>1, <1>3, <1>7, <1>8, <2>1, <2>2, <2>4, <2>5, <2>6, <2>7 DEF AttemptInv
<1>10. CASE ~(retry /\ attempt < MaxAttempts)
  <2>1. attempt' = attempt /\ phase' = "failed" /\ par' = q /\ prep' = prep /\ reason' = why
    BY <1>5, <1>10 DEF Retried
  <2>2. ASSUME NEW j \in Attempts PROVE ParOK(par'[j], j, phase', attempt')
    <3>1. ParOK(par[j], j, "par2", attempt)
      BY DEF AttemptInv
    <3>2. CASE j = attempt
      BY <1>6, <1>4, <2>1, <3>1, <3>2 DEF ParOK
    <3>3. CASE j # attempt
      <4>1. par[j].st # "run"
        BY <3>1, <3>3 DEF ParOK
      <4> QED
        BY <1>4, <2>1, <3>1, <3>3, <4>1 DEF ParOK
    <3> QED
      BY <3>2, <3>3
  <2>3. ASSUME NEW j \in Attempts PROVE PrepOK(prep'[j], j, phase', attempt')
    <3>1. PrepOK(prep[j], j, "par2", attempt)
      BY DEF AttemptInv
    <3> QED
      BY <2>1, <3>1 DEF PrepOK
  <2> QED
    BY <1>1, <1>3, <1>4, <1>7, <1>8, <2>1, <2>2, <2>3 DEF AttemptInv
<1> QED
  BY <1>9, <1>10

\* One attempt moves on within its phase.
LEMMA PrepMoves ==
    ASSUME InputInv, AttemptInv, NEW k \in Attempts, prep[k].st # "none", NEW r, prep' = [prep EXCEPT ![k] = r],
           UNCHANGED <<input, par, phase, attempt>>,
           DOMAIN r = {"st", "a", "s", "pc"}, r.st = prep[k].st \/ (prep[k].st = "lost" /\ r.st = "over"),
           r.a \in Archives, r.s \in Slices(r.a), r.pc \in {"create", "write", "end"}
    PROVE  AttemptInv'
<1>1. DOMAIN prep' = Attempts /\ prep'[k] = r /\ \A j \in Attempts : j # k => prep'[j] = prep[j]
  BY PrepSet
<1>2. ASSUME NEW j \in Attempts PROVE PrepOK(prep'[j], j, phase, attempt)
  <2>1. PrepOK(prep[j], j, phase, attempt)
    BY DEF AttemptInv
  <2>2. CASE j = k
    BY <1>1, <2>1, <2>2 DEF PrepOK, NoPrepare
  <2>3. CASE j # k
    BY <1>1, <2>1, <2>3
  <2> QED
    BY <2>2, <2>3
<1>3. \A p, n, ph, m : PrepOK(p, n, ph, m)' <=> PrepOK(p, n, ph, m)
  BY DEF PrepOK, Archives, Slices
<1>4. \A p, n, ph, m : ParOK(p, n, ph, m)' <=> ParOK(p, n, ph, m)
  BY DEF ParOK, Archives
<1> QED
  BY <1>1, <1>2, <1>3, <1>4 DEF AttemptInv

LEMMA ParMoves ==
    ASSUME InputInv, AttemptInv, NEW k \in Attempts, par[k].st # "none", NEW r, par' = [par EXCEPT ![k] = r],
           UNCHANGED <<input, prep, phase, attempt>>,
           DOMAIN r = {"st", "a", "pc", "seen", "got"},
           r.st = par[k].st \/ (par[k].st = "lost" /\ r.st \in {"over", "stopped"}),
           r.a \in Archives, r.pc \in {"purge", "open", "compute", "measure", "end"}
    PROVE  AttemptInv'
<1>1. DOMAIN par' = Attempts /\ par'[k] = r /\ \A j \in Attempts : j # k => par'[j] = par[j]
  BY ParSet
<1>2. ASSUME NEW j \in Attempts PROVE ParOK(par'[j], j, phase, attempt)
  <2>1. ParOK(par[j], j, phase, attempt)
    BY DEF AttemptInv
  <2>2. CASE j = k
    BY <1>1, <2>1, <2>2 DEF ParOK, NoPAR2
  <2>3. CASE j # k
    BY <1>1, <2>1, <2>3
  <2> QED
    BY <2>2, <2>3
<1>3. \A p, n, ph, m : PrepOK(p, n, ph, m)' <=> PrepOK(p, n, ph, m)
  BY DEF PrepOK, Archives, Slices
<1>4. \A p, n, ph, m : ParOK(p, n, ph, m)' <=> ParOK(p, n, ph, m)
  BY DEF ParOK, Archives
<1> QED
  BY <1>1, <1>2, <1>3, <1>4 DEF AttemptInv

\* The attempts are as they were and the phase moves on past them.
LEMMA AttemptsPast ==
    ASSUME AttemptInv, UNCHANGED <<input, prep, par, attempt>>,
           phase' = phase \/ (phase \notin {"prepare", "par2"} /\ phase' \in {"verify", "write", "done", "failed"})
    PROVE  AttemptInv'
<1>1. ASSUME NEW j \in Attempts PROVE PrepOK(prep[j], j, phase', attempt) /\ ParOK(par[j], j, phase', attempt)
  <2>1. PrepOK(prep[j], j, phase, attempt) /\ ParOK(par[j], j, phase, attempt)
    BY DEF AttemptInv
  <2>2. CASE phase' = phase
    BY <2>1, <2>2
  <2>3. CASE phase' # phase
    <3>1. prep[j].st # "run" /\ par[j].st # "run"
      BY <2>1, <2>3 DEF PrepOK, ParOK
    <3> QED
      BY <2>1, <2>3, <3>1 DEF PrepOK, ParOK
  <2> QED
    BY <2>2, <2>3
<1>3. \A p, n, ph, m : PrepOK(p, n, ph, m)' <=> PrepOK(p, n, ph, m)
  BY DEF PrepOK, Archives, Slices
<1>4. \A p, n, ph, m : ParOK(p, n, ph, m)' <=> ParOK(p, n, ph, m)
  BY DEF ParOK, Archives
<1> QED
  BY <1>1, <1>3, <1>4 DEF AttemptInv

-----------------------------------------------------------------------------
(* The staged slices *)

LEMMA PlanTyped ==
    ASSUME InputInv, PhaseInv
    PROVE  /\ plan \in Seq(Seq(PlanItems(Archives)) \ {<<>>})
           /\ \A t \in DOMAIN plan : plan[t] \in Seq(PlanItems(Archives)) /\ Len(plan[t]) \in Nat \ {0} /\ DOMAIN plan[t] = 1..Len(plan[t])
           /\ \A t \in DOMAIN plan : \A n \in DOMAIN plan[t] : plan[t][n].index \in Archives
<1>1. PICK S : S = Seq(PlanItems(Archives)) \ {<<>>}
  OBVIOUS
<1>2. input.pack.tapes \in Seq(S)
  BY <1>1 DEF InputInv
<1>3. plan \in Seq(S)
  <2>1. CASE plan = <<>>
    BY <2>1
  <2>2. CASE plan = input.pack.tapes
    BY <1>2, <2>2
  <2> QED
    BY <2>1, <2>2 DEF PhaseInv
<1>4. ASSUME NEW t \in DOMAIN plan
      PROVE  /\ plan[t] \in Seq(PlanItems(Archives)) /\ Len(plan[t]) \in Nat \ {0} /\ DOMAIN plan[t] = 1..Len(plan[t])
             /\ \A n \in DOMAIN plan[t] : plan[t][n].index \in Archives
  <2>1. plan[t] \in S
    BY <1>3, <1>4
  <2>2. plan[t] \in Seq(PlanItems(Archives)) /\ plan[t] # <<>>
    BY <1>1, <2>1
  <2>3. \A x \in PlanItems(Archives) : x.index \in Archives
    BY DEF PlanItems
  <2>4. \A n \in DOMAIN plan[t] : plan[t][n] \in PlanItems(Archives)
    BY <2>2
  <2> QED
    BY <2>2, <2>3, <2>4
<1> QED
  BY <1>1, <1>3, <1>4

LEMMA OverFacts ==
    ASSUME NEW S, NEW f, IsOver(f, S)
    PROVE  DOMAIN f = S /\ \A g : IsOver(g, S) /\ (\A x \in S : f[x] = g[x]) => f = g
<1>1. DOMAIN f = S
  <2>1. DOMAIN [x \in S |-> f[x]] = S
    OBVIOUS
  <2> QED
    BY <2>1 DEF IsOver
<1>2. ASSUME NEW g, IsOver(g, S), \A x \in S : f[x] = g[x]
      PROVE  f = g
  <2>1. [x \in S |-> f[x]] = [x \in S |-> g[x]]
    BY <1>2
  <2> QED
    BY <1>2, <2>1 DEF IsOver
<1> QED
  BY <1>1, <1>2

LEMMA DiskWrite ==
    ASSUME InputInv, FilesInv, NEW a \in Archives, NEW s \in Slices(a), NEW c, disk' = [disk EXCEPT ![a][s] = c]
    PROVE  /\ DOMAIN disk' = Archives /\ \A b \in Archives : IsOver(disk'[b], Slices(b))
           /\ disk'[a][s] = c
           /\ \A b \in Archives : b # a => disk'[b] = disk[b]
           /\ \A n \in Slices(a) : n # s => disk'[a][n] = disk[a][n]
<1>1. PICK q : q = [disk[a] EXCEPT ![s] = c]
  OBVIOUS
<1>2. disk' = [disk EXCEPT ![a] = q]
  BY <1>1
<1>3. DOMAIN disk[a] = Slices(a) /\ DOMAIN disk = Archives
  BY OverFacts DEF FilesInv
<1>4. IsOver(q, Slices(a)) /\ q[s] = c /\ \A n \in Slices(a) : n # s => q[n] = disk[a][n]
  BY <1>1, <1>3 DEF IsOver
<1>5. DOMAIN disk' = Archives /\ disk'[a] = q /\ \A b \in Archives : b # a => disk'[b] = disk[b]
  BY <1>2, <1>3
<1> QED
  BY <1>4, <1>5 DEF FilesInv

\* Only the attempt that was reported could make a slice what Verify expects.
LEMMA GoodBefore ==
    ASSUME InputInv, FilesInv, NEW a \in Archives, NEW s \in Slices(a), NEW c, disk' = [disk EXCEPT ![a][s] = c],
           UNCHANGED <<input, staged>>, c # <<staged, "whole">> \/ c = disk[a][s]
    PROVE  \A b \in Archives : Good(b)' => Good(b) /\ disk'[b] = disk[b]
<1>1. /\ DOMAIN disk' = Archives /\ \A b \in Archives : IsOver(disk'[b], Slices(b))
      /\ disk'[a][s] = c
      /\ \A b \in Archives : b # a => disk'[b] = disk[b]
  BY DiskWrite
<1>2. \A b : Slices(b)' = Slices(b)
  BY DEF Slices
<1>3. ASSUME NEW b \in Archives, Good(b)' PROVE Good(b) /\ disk'[b] = disk[b]
  <2>1. CASE b # a
    BY <1>1, <1>2, <1>3, <2>1 DEF Good
  <2>2. CASE b = a
    <3>1. disk'[a][s] = <<staged, "whole">>
      BY <1>2, <1>3, <2>2 DEF Good
    <3>2. c = disk[a][s]
      BY <1>1, <3>1
    <3>3. disk'[a] = disk[a]
      <4>1. IsOver(disk[a], Slices(a)) /\ IsOver(disk'[a], Slices(a))
        BY <1>1 DEF FilesInv
      <4>2. \A n \in Slices(a) : disk'[a][n] = disk[a][n]
        BY <1>1, <3>2, DiskWrite
      <4> QED
        BY <4>1, <4>2, OverFacts
    <3> QED
      BY <1>2, <1>3, <2>2, <3>3 DEF Good
  <2> QED
    BY <2>1, <2>2
<1> QED
  BY <1>3

\* A step of the files of Prepare, which leaves the rest alone.
LEMMA DiskStep ==
    ASSUME StagingInv, AttemptInv', UNCHANGED <<input, phase, attempt, par, pdisk, staged, sets, plan, checked, tapes, reason>>,
           mishaps' \in 0..MaxMishaps,
           DOMAIN disk' = Archives, \A a \in Archives : IsOver(disk'[a], Slices(a)),
           phase \in {"pack"} \cup PastPack => prep'[staged].st = "over",
           phase \in PastPack => \A a \in Archives : Good(a)' => Good(a) /\ disk'[a] = disk[a],
           phase \in {"verify", "write", "done"} => phase = "verify" /\ checked = AtFirst
    PROVE  StagingInv'
<1> USE DEF StagingInv
<1>0. Archives' = Archives /\ Num' = Num /\ \A a : Slices(a)' = Slices(a)
  BY DEF Archives, Num, Slices
<1>1. InputInv'
  BY DEF InputInv, Archives, PlanItems
<1>2. PhaseInv'
  BY <1>0 DEF PhaseInv
<1>3. FilesInv'
  BY <1>0 DEF FilesInv
<1>4. \A a \in Archives : phase \in PastPack /\ Good(a)' => Good(a) /\ Of(a)' = Of(a) /\ disk'[a] = disk[a]
  BY DEF Of
<1>5. SetInv'
  <2>1. ASSUME NEW a \in Archives, phase = "par2", Good(a)'
        PROVE  FilesOK(a)' /\ \A k \in Attempts : WorkOK(par[k], a)'
    <3>1. Good(a) /\ Of(a)' = Of(a) /\ disk'[a] = disk[a]
      BY <1>4, <2>1 DEF PastPack
    <3>2. FilesOK(a) /\ \A k \in Attempts : WorkOK(par[k], a)
      BY <2>1, <3>1 DEF SetInv
    <3> QED
      BY <3>1, <3>2 DEF FilesOK, WorkOK, Parts
  <2>2. ASSUME NEW a \in Archives, phase \in {"verify", "write", "done"}
        PROVE  IsOver(sets[a], SetFiles) /\ (Good(a)' => \A f \in SetFiles : sets[a][f] \in Parts \cup Of(a)')
    <3>1. Good(a)' => Good(a) /\ Of(a)' = Of(a)
      BY <1>4, <2>2 DEF PastPack
    <3> QED
      BY <2>2, <3>1 DEF SetInv
  <2>3. Parts' = Parts
    BY DEF Parts
  <2>4. \A k \in Attempts : phase = "par2" => GotOK(par[k])'
    BY DEF SetInv, GotOK
  <2> QED
    BY <1>0, <2>1, <2>2, <2>3, <2>4 DEF SetInv
<1>6. PartInv'
  BY <1>0 DEF PartInv, PartOK, Purges
<1>7. VerifyInv'
  <2>1. CASE phase \in {"verify", "write", "done"}
    <3>1. phase = "verify" /\ checked = AtFirst
      BY <2>1
    <3>2. checked[1] = 1 /\ checked[2] = 0 /\ checked[1] \in 1..Len(plan) + 1
      BY <3>1 DEF AtFirst, VerifyInv
    <3>3. \A t \in DOMAIN plan : ~(t < checked[1])
      <4>1. plan \in Seq(Seq(PlanItems(Archives)) \ {<<>>})
        BY PlanTyped
      <4> QED
        BY <3>2, <4>1
    <3> QED
      BY <3>1, <3>2, <3>3 DEF VerifyInv, AtFirst
  <2>2. CASE phase \notin {"verify", "write", "done"}
    BY <2>2 DEF VerifyInv
  <2> QED
    BY <2>1, <2>2
<1>8. tapes = <<>>
  BY DEF PhaseInv
<1>9. TapeInv'
  BY <1>8 DEF TapeInv
<1>10. RetryInv'
  BY DEF RetryInv
<1> QED
  BY <1>1, <1>2, <1>3, <1>5, <1>6, <1>7, <1>9, <1>10

\* An attempt at work: not the one whose result the workflow has, and before
\* Verify has begun.
LEMMA AliveFacts ==
    ASSUME StagingInv, NEW k \in Attempts
    PROVE  /\ Alive(k, prep) =>
                /\ prep[k].st \in {"run", "lost"} /\ phase # "failed"
                /\ phase \in {"verify", "write", "done"} => phase = "verify" /\ checked = AtFirst
                /\ phase \in {"pack"} \cup PastPack => k # staged /\ prep[k].st = "lost"
           /\ Alive(k, par) =>
                /\ par[k].st \in {"run", "lost"} /\ phase \in {"par2", "verify"}
                /\ phase = "verify" => checked = AtFirst /\ par[k].st = "lost"
                /\ par[k].st = "run" <=> phase = "par2" /\ k = attempt
<1>1. PrepOK(prep[k], k, phase, attempt) /\ ParOK(par[k], k, phase, attempt)
  BY DEF StagingInv, AttemptInv
<1>2. ASSUME Alive(k, prep)
      PROVE  /\ prep[k].st \in {"run", "lost"} /\ phase # "failed"
             /\ phase \in {"verify", "write", "done"} => phase = "verify" /\ checked = AtFirst
             /\ phase \in {"pack"} \cup PastPack => k # staged /\ prep[k].st = "lost"
  <2>1. prep[k].st \in {"run", "lost"} /\ phase # "failed"
    BY <1>2 DEF Alive
  <2>2. phase \in {"verify", "write", "done"} => phase = "verify" /\ checked = AtFirst
    BY <1>2 DEF StagingInv, VerifyInv
  <2>3. phase \in {"pack"} \cup PastPack => k # staged /\ prep[k].st = "lost"
    BY <1>1, <2>1 DEF StagingInv, PhaseInv, PrepOK, PastPack
  <2> QED
    BY <2>1, <2>2, <2>3
<1>3. ASSUME Alive(k, par)
      PROVE  /\ par[k].st \in {"run", "lost"} /\ phase \in {"par2", "verify"}
             /\ phase = "verify" => checked = AtFirst /\ par[k].st = "lost"
             /\ par[k].st = "run" <=> phase = "par2" /\ k = attempt
  <2>1. par[k].st \in {"run", "lost"} /\ phase # "failed"
    BY <1>3 DEF Alive
  <2>2. phase \in {"verify", "write", "done"} => phase = "verify" /\ checked = AtFirst
    BY <1>3 DEF StagingInv, VerifyInv
  <2>3. phase \notin {"prepare", "pack"}
    BY <1>1, <2>1 DEF ParOK, NoPAR2
  <2>4. phase \in {"prepare", "pack", "failed", "par2", "verify", "write", "done"}
    BY DEF StagingInv, PhaseInv, PastPack
  <2>5. par[k].st = "run" <=> phase = "par2" /\ k = attempt
    BY <1>1 DEF ParOK
  <2> QED
    BY <2>1, <2>2, <2>3, <2>4, <2>5
<1> QED
  BY <1>2, <1>3

LEMMA SliceCreateStep ==
    ASSUME StagingInv, NEW k \in Attempts, SliceCreate(k)
    PROVE  StagingInv'
<1> USE DEF StagingInv
<1>1. PICK r : r = [prep[k] EXCEPT !.pc = "write"]
  OBVIOUS
<1>2. PrepOK(prep[k], k, phase, attempt)
  BY DEF AttemptInv
<1>3. prep[k].a \in Archives /\ prep[k].s \in Slices(prep[k].a)
  BY <1>2 DEF PrepOK
<1>4. Alive(k, prep) /\ disk' = [disk EXCEPT ![prep[k].a][prep[k].s] = <<k, "part">>] /\ prep' = [prep EXCEPT ![k] = r]
      /\ UNCHANGED <<input, phase, attempt, par, pdisk, staged, sets, plan, checked, tapes, reason, mishaps>>
  BY <1>1 DEF SliceCreate
<1>5. DOMAIN r = {"st", "a", "s", "pc"} /\ r.st = prep[k].st /\ r.a = prep[k].a /\ r.s = prep[k].s /\ r.pc = "write"
  BY <1>1, <1>2 DEF PrepOK
<1>6. prep[k].st # "none"
  BY <1>4, AliveFacts
<1>7. AttemptInv'
  BY <1>3, <1>4, <1>5, <1>6, PrepMoves
<1>8. DOMAIN disk' = Archives /\ \A a \in Archives : IsOver(disk'[a], Slices(a))
  BY <1>3, <1>4, DiskWrite
<1>9. <<k, "part">> # <<staged, "whole">>
  OBVIOUS
<1>10. \A b \in Archives : Good(b)' => Good(b) /\ disk'[b] = disk[b]
  BY <1>3, <1>4, <1>9, GoodBefore
<1>11. \A j \in Attempts : j # k => prep'[j] = prep[j]
  BY <1>4, PrepSet
<1>12. phase \in {"pack"} \cup PastPack => prep'[staged].st = "over"
  BY <1>4, <1>11, AliveFacts DEF PhaseInv
<1>13. phase \in {"verify", "write", "done"} => phase = "verify" /\ checked = AtFirst
  BY <1>4, AliveFacts
<1>14. mishaps' \in 0..MaxMishaps
  BY <1>4 DEF PhaseInv
<1> QED
  BY <1>4, <1>7, <1>8, <1>10, <1>12, <1>13, <1>14, DiskStep

LEMMA TornFacts ==
    ASSUME StagingInv, NEW k \in Attempts, Abandons(k), UNCHANGED <<input, staged>>
    PROVE  /\ DOMAIN disk' = Archives /\ \A a \in Archives : IsOver(disk'[a], Slices(a))
           /\ \A b \in Archives : Good(b)' => Good(b) /\ disk'[b] = disk[b]
<1> USE DEF StagingInv
<1>1. prep[k].a \in Archives /\ prep[k].s \in Slices(prep[k].a)
  BY DEF AttemptInv, PrepOK
<1>2. PICK c \in Torn(k) : disk' = [disk EXCEPT ![prep[k].a][prep[k].s] = c]
  BY DEF Abandons
<1>3. PICK d : d = disk[prep[k].a][prep[k].s]
  OBVIOUS
<1>4. c = d \/ c = <<d[1], "mixed">>
  BY <1>2, <1>3 DEF Torn
<1>5. <<d[1], "mixed">> # <<staged, "whole">>
  OBVIOUS
<1>6. DOMAIN disk' = Archives /\ \A a \in Archives : IsOver(disk'[a], Slices(a))
  BY <1>1, <1>2, DiskWrite
<1>7. c # <<staged, "whole">> \/ c = disk[prep[k].a][prep[k].s]
  BY <1>3, <1>4, <1>5
<1>8. \A b \in Archives : Good(b)' => Good(b) /\ disk'[b] = disk[b]
  BY <1>1, <1>2, <1>7, GoodBefore
<1> QED
  BY <1>6, <1>8

LEMMA LostPrepareStopsStep ==
    ASSUME StagingInv, NEW k \in Attempts, LostPrepareStops(k)
    PROVE  StagingInv'
<1> USE DEF StagingInv
<1>1. PICK r : r = [prep[k] EXCEPT !.st = "over"]
  OBVIOUS
<1>2. PrepOK(prep[k], k, phase, attempt)
  BY DEF AttemptInv
<1>3. prep[k].a \in Archives /\ prep[k].s \in Slices(prep[k].a) /\ prep[k].pc \in {"create", "write", "end"}
  BY <1>2 DEF PrepOK
<1>4. Alive(k, prep) /\ prep[k].st = "lost" /\ Abandons(k) /\ prep' = [prep EXCEPT ![k] = r]
      /\ UNCHANGED <<input, phase, attempt, par, pdisk, staged, sets, plan, checked, tapes, reason, mishaps>>
  BY <1>1 DEF LostPrepareStops
<1>5. DOMAIN r = {"st", "a", "s", "pc"} /\ r.st = "over" /\ r.a = prep[k].a /\ r.s = prep[k].s /\ r.pc = prep[k].pc
  BY <1>1, <1>2 DEF PrepOK
<1>7. AttemptInv'
  BY <1>3, <1>4, <1>5, PrepMoves
<1>8. /\ DOMAIN disk' = Archives /\ \A a \in Archives : IsOver(disk'[a], Slices(a))
      /\ \A b \in Archives : Good(b)' => Good(b) /\ disk'[b] = disk[b]
  BY <1>4, TornFacts
<1>11. \A j \in Attempts : j # k => prep'[j] = prep[j]
  BY <1>4, PrepSet
<1>12. phase \in {"pack"} \cup PastPack => prep'[staged].st = "over"
  BY <1>4, <1>11, AliveFacts DEF PhaseInv
<1>13. phase \in {"verify", "write", "done"} => phase = "verify" /\ checked = AtFirst
  BY <1>4, AliveFacts
<1>14. mishaps' \in 0..MaxMishaps
  BY <1>4 DEF PhaseInv
<1> QED
  BY <1>4, <1>7, <1>8, <1>12, <1>13, <1>14, DiskStep

\* A step of Prepare's own phase.
LEMMA EarlyStep ==
    ASSUME StagingInv, AttemptInv', phase = "prepare", phase' \in {"prepare", "pack", "failed"},
           UNCHANGED <<input, pdisk, sets, plan, checked, tapes>>,
           mishaps' \in 0..MaxMishaps, staged' \in 0..MaxAttempts,
           phase' = "pack" => staged' \in Attempts /\ prep'[staged'].st = "over",
           reason' = reason \/ (phase' = "failed" /\ reason' # "exists"),
           DOMAIN disk' = Archives, \A a \in Archives : IsOver(disk'[a], Slices(a))
    PROVE  StagingInv'
<1> USE DEF StagingInv
<1>0. Archives' = Archives /\ Num' = Num /\ \A a : Slices(a)' = Slices(a)
  BY DEF Archives, Num, Slices
<1>1. InputInv'
  BY DEF InputInv, Archives, PlanItems
<1>2. PhaseInv'
  BY <1>0 DEF PhaseInv, PastPack
<1>3. FilesInv'
  BY <1>0 DEF FilesInv
<1>5. SetInv'
  BY DEF SetInv
<1>6. PartInv'
  BY DEF PartInv, PastPack
<1>7. VerifyInv'
  BY DEF VerifyInv
<1>8. tapes = <<>>
  BY DEF PhaseInv
<1>9. TapeInv'
  BY <1>8 DEF TapeInv
<1>10. RetryInv'
  BY DEF RetryInv, PhaseInv
<1> QED
  BY <1>1, <1>2, <1>3, <1>5, <1>6, <1>7, <1>9, <1>10

LEMMA PrepareFailsStep ==
    ASSUME StagingInv, PrepareFails
    PROVE  StagingInv'
<1> USE DEF StagingInv
<1>1. phase = "prepare" /\ Abandons(attempt) /\ attempt \in Attempts
      /\ UNCHANGED <<input, pdisk, staged, sets, plan, checked, tapes>>
  BY DEF PrepareFails, AttemptInv
<1>2. PICK retry \in BOOLEAN : Retried([prep EXCEPT ![attempt].st = "over"], retry, "prepare")
  BY DEF PrepareFails
<1>3. AttemptInv'
  BY <1>1, <1>2, RetriedPrep
<1>4. phase' \in {"prepare", "failed"} /\ (reason' = reason \/ (phase' = "failed" /\ reason' # "exists"))
  BY <1>1, <1>2 DEF Retried
<1>5. DOMAIN disk' = Archives /\ \A a \in Archives : IsOver(disk'[a], Slices(a))
  BY <1>1, TornFacts
<1>6. mishaps' \in 0..MaxMishaps
  BY StagingAssumption DEF PrepareFails, Mishap, PhaseInv
<1>7. staged' \in 0..MaxAttempts
  BY <1>1 DEF PhaseInv
<1> QED
  BY <1>1, <1>3, <1>4, <1>5, <1>6, <1>7, EarlyStep

LEMMA NextSliceFacts ==
    ASSUME InputInv, NEW p, NEW k, NEW ph, NEW n, PrepOK(p, k, ph, n)
    PROVE  LET r == NextSlice(p) IN
           /\ DOMAIN r = {"st", "a", "s", "pc"} /\ r.a \in Archives /\ r.s \in Slices(r.a) /\ r.pc \in {"create", "write", "end"}
           /\ r.st = p.st \/ r.st = "over"
<1>1. Num \in Nat /\ Archives = 1..Num /\ \A a \in Archives : Len(input.slices[a]) \in Nat \ {0} /\ Slices(a) = 1..Len(input.slices[a])
  BY ArchiveFacts
<1>2. DOMAIN p = {"st", "a", "s", "pc"} /\ p.a \in Archives /\ p.s \in Slices(p.a)
  BY DEF PrepOK
<1>3. CASE p.s < Len(input.slices[p.a])
  <2>1. PICK r : r = [p EXCEPT !.s = p.s + 1, !.pc = "create"]
    OBVIOUS
  <2>2. DOMAIN r = {"st", "a", "s", "pc"} /\ r.a = p.a /\ r.s = p.s + 1 /\ r.pc = "create" /\ r.st = p.st
    BY <1>2, <2>1
  <2>3. NextSlice(p) = r
    BY <1>3, <2>1 DEF NextSlice
  <2>4. r.s \in Slices(r.a)
    BY <1>1, <1>2, <1>3, <2>2
  <2> QED
    BY <1>2, <2>2, <2>3, <2>4
<1>4. CASE ~(p.s < Len(input.slices[p.a])) /\ p.a < Num
  <2>1. PICK r : r = [p EXCEPT !.a = p.a + 1, !.s = 1, !.pc = "create"]
    OBVIOUS
  <2>2. DOMAIN r = {"st", "a", "s", "pc"} /\ r.a = p.a + 1 /\ r.s = 1 /\ r.pc = "create" /\ r.st = p.st
    BY <1>2, <2>1
  <2>3. NextSlice(p) = r
    BY <1>4, <2>1 DEF NextSlice, Num
  <2>4. r.a \in Archives
    BY <1>1, <1>2, <1>4, <2>2
  <2>5. r.s \in Slices(r.a)
    BY <1>1, <2>2, <2>4
  <2> QED
    BY <2>2, <2>3, <2>4, <2>5
<1>5. CASE ~(p.s < Len(input.slices[p.a])) /\ ~(p.a < Num)
  <2>1. PICK r : r = [p EXCEPT !.st = "over", !.pc = "end"]
    OBVIOUS
  <2>2. DOMAIN r = {"st", "a", "s", "pc"} /\ r.a = p.a /\ r.s = p.s /\ r.pc = "end" /\ r.st = "over"
    BY <1>2, <2>1
  <2>3. NextSlice(p) = r
    BY <1>5, <2>1 DEF NextSlice, Num
  <2> QED
    BY <1>2, <2>2, <2>3
<1> QED
  BY <1>3, <1>4, <1>5

LEMMA SliceDoneStep ==
    ASSUME StagingInv, NEW k \in Attempts, SliceDone(k)
    PROVE  StagingInv'
<1> USE DEF StagingInv
<1>1. PICK r : r = NextSlice(prep[k])
  OBVIOUS
<1>2. PrepOK(prep[k], k, phase, attempt)
  BY DEF AttemptInv
<1>3. prep[k].a \in Archives /\ prep[k].s \in Slices(prep[k].a)
  BY <1>2 DEF PrepOK
<1>4. PICK d : d = disk[prep[k].a][prep[k].s]
  OBVIOUS
<1>5. PICK c : c = IF d = <<k, "part">> THEN <<k, "whole">> ELSE <<d[1], "mixed">>
  OBVIOUS
<1>6. Alive(k, prep) /\ disk' = [disk EXCEPT ![prep[k].a][prep[k].s] = c] /\ prep' = [prep EXCEPT ![k] = r]
      /\ UNCHANGED <<input, attempt, par, pdisk, sets, plan, checked, tapes, reason, mishaps>>
      /\ (IF r.st = "over" /\ prep[k].st = "run" THEN phase' = "pack" /\ staged' = k ELSE UNCHANGED <<phase, staged>>)
  BY <1>1, <1>4, <1>5 DEF SliceDone
<1>7. /\ DOMAIN r = {"st", "a", "s", "pc"} /\ r.a \in Archives /\ r.s \in Slices(r.a) /\ r.pc \in {"create", "write", "end"}
      /\ r.st = prep[k].st \/ r.st = "over"
  BY <1>1, <1>2, NextSliceFacts
<1>8. DOMAIN disk' = Archives /\ \A a \in Archives : IsOver(disk'[a], Slices(a))
  BY <1>3, <1>6, DiskWrite
<1>9. DOMAIN prep' = Attempts /\ prep'[k] = r /\ \A j \in Attempts : j # k => prep'[j] = prep[j]
  BY <1>6, PrepSet
<1>10. mishaps' \in 0..MaxMishaps
  BY <1>6 DEF PhaseInv
<1>11. CASE r.st = "over" /\ prep[k].st = "run"
  <2>1. phase = "prepare" /\ k = attempt /\ phase' = "pack" /\ staged' = k
    BY <1>2, <1>6, <1>11 DEF PrepOK
  <2>2. AttemptInv'
    <3>1. \A p, m, ph, n : PrepOK(p, m, ph, n)' <=> PrepOK(p, m, ph, n)
      BY <1>6 DEF PrepOK, Archives, Slices
    <3>2. \A p, m, ph, n : ParOK(p, m, ph, n)' <=> ParOK(p, m, ph, n)
      BY <1>6 DEF ParOK, Archives
    <3>3. ASSUME NEW j \in Attempts PROVE PrepOK(prep'[j], j, phase', attempt')
      <4>1. PrepOK(prep[j], j, "prepare", attempt)
        BY <2>1 DEF AttemptInv
      <4>2. CASE j = k
        BY <1>6, <1>7, <1>9, <1>11, <2>1, <4>2 DEF PrepOK
      <4>3. CASE j # k
        BY <1>6, <1>9, <2>1, <4>1, <4>3 DEF PrepOK
      <4> QED
        BY <4>2, <4>3
    <3>4. ASSUME NEW j \in Attempts PROVE ParOK(par'[j], j, phase', attempt')
      <4>1. ParOK(par[j], j, "prepare", attempt)
        BY <2>1 DEF AttemptInv
      <4> QED
        BY <1>6, <2>1, <4>1 DEF ParOK, NoPAR2
    <3> QED
      BY <1>6, <1>9, <3>1, <3>2, <3>3, <3>4 DEF AttemptInv
  <2>3. staged' \in 0..MaxAttempts
    BY <2>1 DEF Attempts
  <2>4. phase' = "pack" => staged' \in Attempts /\ prep'[staged'].st = "over"
    BY <1>9, <1>11, <2>1
  <2> QED
    BY <1>6, <1>8, <1>10, <2>1, <2>2, <2>3, <2>4, EarlyStep
<1>12. CASE ~(r.st = "over" /\ prep[k].st = "run")
  <2>1. UNCHANGED <<phase, staged>>
    BY <1>6, <1>12
  <2>2. prep[k].st \in {"run", "lost"}
    BY <1>6, AliveFacts
  <2>3. AttemptInv'
    BY <1>6, <1>7, <1>12, <2>1, <2>2, PrepMoves
  <2>4. phase \in {"pack"} \cup PastPack => k # staged
    BY <1>6, AliveFacts
  <2>5. k # staged => c # <<staged, "whole">>
    BY <1>5
  <2>6. phase \in PastPack => \A b \in Archives : Good(b)' => Good(b) /\ disk'[b] = disk[b]
    BY <1>3, <1>6, <2>1, <2>4, <2>5, GoodBefore
  <2>7. phase \in {"pack"} \cup PastPack => prep'[staged].st = "over"
    BY <1>9, <2>4 DEF PhaseInv
  <2>8. phase \in {"verify", "write", "done"} => phase = "verify" /\ checked = AtFirst
    BY <1>6, AliveFacts
  <2> QED
    BY <1>6, <1>8, <1>10, <2>1, <2>3, <2>6, <2>7, <2>8, DiskStep
<1> QED
  BY <1>11, <1>12

-----------------------------------------------------------------------------
(* The recovery files *)

\* A step of attempt k of Generate PAR2, at the recovery files of archive b.
ParChange(k, r, b, q) ==
    /\ UNCHANGED <<input, phase, attempt, prep, disk, staged, sets, plan, checked, tapes, reason, mishaps>>
    /\ Alive(k, par) /\ par' = [par EXCEPT ![k] = r]
    /\ DOMAIN r = {"st", "a", "pc", "seen", "got"}
    /\ r.st = par[k].st \/ (par[k].st = "lost" /\ r.st \in {"over", "stopped"})
    /\ r.a \in Archives /\ r.pc \in {"purge", "open", "compute", "measure", "end"}
    /\ IsOver(q, SetFiles) /\ DOMAIN pdisk' = Archives /\ pdisk'[b] = q
    /\ \A a \in Archives : a # b => pdisk'[a] = pdisk[a]
    /\ phase = "par2" => /\ \A f, g \in SetFiles : q[f] = None => q[g] = None
                         /\ Good(b) => \A f \in SetFiles : q[f] \in {None} \cup Parts \cup Of(b)
                         /\ GotOK(r) /\ \A a \in Archives : Good(a) => WorkOK(r, a)
    /\ PartInv'
    /\ phase = "par2" => \E G \in SUBSET Attempts : Causes(par', pdisk', attempt, G)

LEMMA ParStep ==
    ASSUME StagingInv, NEW k \in Attempts, NEW r, NEW b \in Archives, NEW q, ParChange(k, r, b, q)
    PROVE  StagingInv'
<1> USE DEF StagingInv, ParChange
<1>0. Archives' = Archives /\ Num' = Num /\ \A a : Slices(a)' = Slices(a)
  BY DEF Archives, Num, Slices
<1>a. phase \in {"par2", "verify"} /\ (phase = "verify" => checked = AtFirst) /\ par[k].st # "none"
  BY AliveFacts
<1>1. InputInv'
  BY DEF InputInv, Archives, PlanItems
<1>2. AttemptInv'
  BY <1>a, ParMoves
<1>b. \A j \in Attempts : j # k => par'[j] = par[j]
  BY ParSet
<1>c. par'[k] = r
  BY ParSet
<1>3. PhaseInv'
  BY <1>0, <1>a DEF PhaseInv
<1>4. FilesInv'
  <2>1. ASSUME NEW a \in Archives
        PROVE  /\ IsOver(disk[a], Slices(a)) /\ IsOver(pdisk'[a], SetFiles)
               /\ phase = "par2" => \A f, g \in SetFiles : pdisk'[a][f] = None => pdisk'[a][g] = None
    <3>1. CASE a = b
      BY <3>1 DEF FilesInv
    <3>2. CASE a # b
      BY <3>2 DEF FilesInv
    <3> QED
      BY <3>1, <3>2
  <2> QED
    BY <1>0, <2>1 DEF FilesInv
<1>5. SetInv'
  <2>1. \A a : Good(a)' <=> Good(a)
    BY <1>0 DEF Good
  <2>2. \A p, a : WorkOK(p, a)' <=> WorkOK(p, a)
    BY DEF WorkOK, Parts, Of
  <2>3. \A p : GotOK(p)' <=> GotOK(p)
    BY DEF GotOK
  <2>4. ASSUME phase = "par2", NEW a \in Archives, Good(a)
        PROVE  FilesOK(a)' /\ \A j \in Attempts : WorkOK(par'[j], a)
    <3>1. FilesOK(a) /\ \A j \in Attempts : WorkOK(par[j], a)
      BY <2>4 DEF SetInv
    <3>2. \A f \in SetFiles : pdisk'[a][f] \in {None} \cup Parts \cup Of(a)
      <4>1. CASE a = b
        BY <2>4, <4>1
      <4>2. CASE a # b
        BY <3>1, <4>2 DEF FilesOK
      <4> QED
        BY <4>1, <4>2
    <3>3. ASSUME NEW j \in Attempts PROVE WorkOK(par'[j], a)
      <4>1. CASE j = k
        BY <1>c, <2>4, <4>1
      <4>2. CASE j # k
        BY <1>b, <3>1, <4>2
      <4> QED
        BY <4>1, <4>2
    <3> QED
      BY <3>2, <3>3 DEF FilesOK, Parts, Of
  <2>5. ASSUME phase = "par2", NEW j \in Attempts PROVE GotOK(par'[j])
    <3>1. CASE j = k
      BY <1>c, <2>5, <3>1
    <3>2. CASE j # k
      BY <1>b, <2>5, <3>2 DEF SetInv
    <3> QED
      BY <3>1, <3>2
  <2>6. ASSUME phase \in {"verify", "write", "done"}, NEW a \in Archives
        PROVE  IsOver(sets[a], SetFiles) /\ (Good(a) => \A f \in SetFiles : sets[a][f] \in Parts \cup Of(a))
    BY <2>6 DEF SetInv
  <2> QED
    BY <1>0, <2>1, <2>2, <2>3, <2>4, <2>5, <2>6 DEF SetInv, Parts, Of
<1>6. VerifyInv'
  <2>1. CASE phase = "verify"
    <3>1. checked = AtFirst
      BY <1>a, <2>1
    <3>2. checked[1] = 1 /\ checked[2] = 0 /\ checked[1] \in 1..Len(plan) + 1
      BY <3>1 DEF AtFirst, VerifyInv
    <3>3. \A t \in DOMAIN plan : ~(t < checked[1])
      <4>1. plan \in Seq(Seq(PlanItems(Archives)) \ {<<>>})
        BY PlanTyped
      <4> QED
        BY <3>2, <4>1
    <3> QED
      BY <2>1, <3>1, <3>2, <3>3 DEF VerifyInv, AtFirst
  <2>2. CASE phase = "par2"
    BY <2>2 DEF VerifyInv
  <2> QED
    BY <1>a, <2>1, <2>2
<1>7. tapes = <<>>
  BY <1>a DEF PhaseInv
<1>8. TapeInv'
  BY <1>7 DEF TapeInv
<1>9. reason # "exists"
  BY <1>a DEF PhaseInv
<1>10. RetryInv'
  BY <1>9 DEF RetryInv
<1> QED
  BY <1>1, <1>2, <1>3, <1>4, <1>5, <1>6, <1>8, <1>10

LEMMA ParFacts ==
    ASSUME StagingInv, NEW k \in Attempts
    PROVE  /\ ParOK(par[k], k, phase, attempt) /\ par[k].a \in Archives /\ DOMAIN par[k] = {"st", "a", "pc", "seen", "got"}
           /\ phase = "par2" => GotOK(par[k]) /\ \A a \in Archives : Good(a) => WorkOK(par[k], a)
           /\ DOMAIN pdisk = Archives /\ IsOver(pdisk[par[k].a], SetFiles) /\ attempt \in Attempts
           /\ \A a \in Archives : a \in Nat
<1>1. ParOK(par[k], k, phase, attempt) /\ attempt \in Attempts
  BY DEF StagingInv, AttemptInv
<1>2. par[k].a \in Archives /\ DOMAIN par[k] = {"st", "a", "pc", "seen", "got"}
  BY <1>1 DEF ParOK
<1>3. \A a \in Archives : a \in Nat
  BY ArchiveFacts DEF StagingInv
<1>4. DOMAIN pdisk = Archives /\ IsOver(pdisk[par[k].a], SetFiles)
  BY <1>2 DEF StagingInv, FilesInv
<1>5. phase = "par2" => GotOK(par[k]) /\ \A a \in Archives : Good(a) => WorkOK(par[k], a)
  BY DEF StagingInv, SetInv
<1> QED
  BY <1>1, <1>2, <1>3, <1>4, <1>5

\* An attempt that has read no further set.
LEMMA GotKept ==
    ASSUME NEW p, NEW r, r.a = p.a, r.got = p.got
    PROVE  /\ GotOK(p) => GotOK(r)
           /\ \A a : r.pc # "compute" \/ r.seen = disk[a] \/ r.a # a => (WorkOK(p, a) => WorkOK(r, a))
  BY DEF GotOK, WorkOK

LEMMA PdiskSet ==
    ASSUME StagingInv, NEW b \in Archives, NEW q, pdisk' = [pdisk EXCEPT ![b] = q]
    PROVE  DOMAIN pdisk' = Archives /\ pdisk'[b] = q /\ \A a \in Archives : a # b => pdisk'[a] = pdisk[a]
  BY DEF StagingInv, FilesInv

\* How the steps of attempt k keep the causes: its purge, its opening, a step that
\* leaves the files alone, and its end.
Purging(S, P, Q, D, E, F, k) ==
    /\ \A j \in F \cup {k} : P[j].a \in S
    /\ \A j \in F : j # k => Q[j] = P[j]
    /\ P[k].pc = "purge" /\ Q[k].pc = "open" /\ Q[k].a = P[k].a /\ Living(Q[k])
    /\ EmptyAt(E, P[k].a) /\ \A a \in S : a # P[k].a => (EmptyAt(E, a) <=> EmptyAt(D, a))
LEMMA CausesPurge ==
    ASSUME NEW S, NEW P, NEW Q, NEW D, NEW E, NEW n, NEW F, NEW k, Causes(P, D, n, F), Purging(S, P, Q, D, E, F, k)
    PROVE  Causes(Q, E, n, F \cup {k})
<1> USE DEF Purging
<1>1. PICK G : G = F \cup {k}
  OBVIOUS
<1>2. AtWork(Q[k])
  BY DEF AtWork, Living
<1>3. ASSUME NEW i \in G, Living(Q[i]), Q[i].pc = "open", ~EmptyAt(E, Q[i].a)
      PROVE  \E j \in G : j # i /\ AtWork(Q[j]) /\ MetBy(Q[j], Q[i])
  <2>1. i # k /\ i \in F /\ Q[i] = P[i] /\ P[i].a # P[k].a
    BY <1>1, <1>3
  <2>2. ~EmptyAt(D, P[i].a)
    BY <1>3, <2>1
  <2>3. PICK j \in F : j # i /\ AtWork(P[j]) /\ MetBy(P[j], P[i])
    BY <1>3, <2>1, <2>2 DEF Causes
  <2>4. CASE j = k
    BY <1>1, <1>2, <2>1, <2>3, <2>4 DEF MetBy
  <2>5. CASE j # k
    BY <1>1, <2>1, <2>3, <2>5
  <2> QED
    BY <2>4, <2>5
<1>4. ASSUME NEW i \in G, Living(Q[i]), Q[i].pc \in {"compute", "measure"}, EmptyAt(E, Q[i].a)
      PROVE  \E j \in G : j # i /\ AtWork(Q[j]) /\ PurgedBy(Q[j], Q[i])
  <2>1. i # k /\ i \in F /\ Q[i] = P[i]
    BY <1>1, <1>4
  <2>2. CASE P[i].a = P[k].a
    BY <1>1, <1>2, <2>1, <2>2 DEF PurgedBy
  <2>3. CASE P[i].a # P[k].a
    <3>1. EmptyAt(D, P[i].a)
      BY <1>4, <2>1, <2>3
    <3>2. PICK j \in F : j # i /\ AtWork(P[j]) /\ PurgedBy(P[j], P[i])
      BY <1>4, <2>1, <3>1 DEF Causes
    <3>3. CASE j = k
      BY <1>1, <1>2, <2>1, <2>3, <3>2, <3>3 DEF PurgedBy
    <3>4. CASE j # k
      BY <1>1, <2>1, <3>2, <3>4
    <3> QED
      BY <3>3, <3>4
  <2> QED
    BY <2>2, <2>3
<1> QED
  BY <1>1, <1>3, <1>4 DEF Causes

Opening(S, P, Q, D, E, F, k) ==
    /\ \A j \in F \cup {k} : P[j].a \in S
    /\ \A j \in F : j # k => Q[j] = P[j]
    /\ P[k].pc = "open" /\ Q[k].pc = "compute" /\ Q[k].a = P[k].a /\ Living(Q[k])
    /\ ~EmptyAt(E, P[k].a) /\ \A a \in S : a # P[k].a => (EmptyAt(E, a) <=> EmptyAt(D, a))
LEMMA CausesOpen ==
    ASSUME NEW S, NEW P, NEW Q, NEW D, NEW E, NEW n, NEW F, NEW k, Causes(P, D, n, F), Opening(S, P, Q, D, E, F, k)
    PROVE  Causes(Q, E, n, F \cup {k})
<1> USE DEF Opening
<1>1. PICK G : G = F \cup {k}
  OBVIOUS
<1>2. AtWork(Q[k])
  BY DEF AtWork, Living
<1>3. ASSUME NEW i \in G, Living(Q[i]), Q[i].pc = "open", ~EmptyAt(E, Q[i].a)
      PROVE  \E j \in G : j # i /\ AtWork(Q[j]) /\ MetBy(Q[j], Q[i])
  <2>1. i # k /\ i \in F /\ Q[i] = P[i]
    BY <1>1, <1>3
  <2>2. CASE P[i].a = P[k].a
    BY <1>1, <1>2, <2>1, <2>2 DEF MetBy
  <2>3. CASE P[i].a # P[k].a
    <3>1. ~EmptyAt(D, P[i].a)
      BY <1>3, <2>1, <2>3
    <3>2. PICK j \in F : j # i /\ AtWork(P[j]) /\ MetBy(P[j], P[i])
      BY <1>3, <2>1, <3>1 DEF Causes
    <3>3. CASE j = k
      BY <1>1, <1>2, <2>1, <3>2, <3>3 DEF MetBy
    <3>4. CASE j # k
      BY <1>1, <2>1, <3>2, <3>4
    <3> QED
      BY <3>3, <3>4
  <2> QED
    BY <2>2, <2>3
<1>4. ASSUME NEW i \in G, Living(Q[i]), Q[i].pc \in {"compute", "measure"}, EmptyAt(E, Q[i].a)
      PROVE  \E j \in G : j # i /\ AtWork(Q[j]) /\ PurgedBy(Q[j], Q[i])
  <2>1. i # k /\ i \in F /\ Q[i] = P[i] /\ P[i].a # P[k].a
    BY <1>1, <1>4
  <2>2. EmptyAt(D, P[i].a)
    BY <1>4, <2>1
  <2>3. PICK j \in F : j # i /\ AtWork(P[j]) /\ PurgedBy(P[j], P[i])
    BY <1>4, <2>1, <2>2 DEF Causes
  <2>4. CASE j = k
    BY <1>1, <1>2, <2>1, <2>3, <2>4 DEF PurgedBy
  <2>5. CASE j # k
    BY <1>1, <2>1, <2>3, <2>5
  <2> QED
    BY <2>4, <2>5
<1> QED
  BY <1>1, <1>3, <1>4 DEF Causes

Moving(S, P, Q, D, E, F, k) ==
    /\ \A j \in F : P[j].a \in S
    /\ \A j \in F : j # k => Q[j] = P[j]
    /\ \A a \in S : EmptyAt(E, a) <=> EmptyAt(D, a)
    /\ AtWork(Q[k])
    /\ \A i \in F : MetBy(P[k], P[i]) => MetBy(Q[k], P[i])
    /\ \A i \in F : PurgedBy(P[k], P[i]) => PurgedBy(Q[k], P[i])
    /\ \/ ~Living(Q[k]) \/ Q[k].pc = "purge"
       \/ Living(P[k]) /\ Q[k].a = P[k].a /\ P[k].pc = "compute" /\ Q[k].pc = "measure"
LEMMA CausesMove ==
    ASSUME NEW S, NEW P, NEW Q, NEW D, NEW E, NEW n, NEW F, NEW k, Causes(P, D, n, F), Moving(S, P, Q, D, E, F, k)
    PROVE  Causes(Q, E, n, F)
<1> USE DEF Moving
<1>1. ASSUME NEW i \in F, Living(Q[i]), Q[i].pc = "open", ~EmptyAt(E, Q[i].a)
      PROVE  \E j \in F : j # i /\ AtWork(Q[j]) /\ MetBy(Q[j], Q[i])
  <2>1. i # k /\ Q[i] = P[i]
    BY <1>1
  <2>2. ~EmptyAt(D, P[i].a)
    BY <1>1, <2>1
  <2>3. PICK j \in F : j # i /\ AtWork(P[j]) /\ MetBy(P[j], P[i])
    BY <1>1, <2>1, <2>2 DEF Causes
  <2>4. CASE j = k
    BY <2>1, <2>3, <2>4
  <2>5. CASE j # k
    BY <2>1, <2>3, <2>5
  <2> QED
    BY <2>4, <2>5
<1>2. ASSUME NEW i \in F, Living(Q[i]), Q[i].pc \in {"compute", "measure"}, EmptyAt(E, Q[i].a)
      PROVE  \E j \in F : j # i /\ AtWork(Q[j]) /\ PurgedBy(Q[j], Q[i])
  <2>1. Living(P[i]) /\ P[i].pc \in {"compute", "measure"} /\ Q[i].a = P[i].a
    <3>1. CASE i = k
      BY <1>2, <3>1
    <3>2. CASE i # k
      BY <1>2, <3>2
    <3> QED
      BY <3>1, <3>2
  <2>2. EmptyAt(D, P[i].a)
    BY <1>2, <2>1
  <2>3. PICK j \in F : j # i /\ AtWork(P[j]) /\ PurgedBy(P[j], P[i])
    BY <1>2, <2>1, <2>2 DEF Causes
  <2>4. PurgedBy(Q[j], P[i]) /\ AtWork(Q[j])
    <3>1. CASE j = k
      BY <2>3, <3>1
    <3>2. CASE j # k
      BY <2>3, <3>2
    <3> QED
      BY <3>1, <3>2
  <2>5. PurgedBy(Q[j], Q[i])
    BY <2>1, <2>4 DEF PurgedBy
  <2> QED
    BY <2>3, <2>4, <2>5
<1> QED
  BY <1>1, <1>2 DEF Causes

Ending(P, Q, D, F, k) ==
    /\ \A j \in F \cup {k} : P[j].a \in Int
    /\ \A j \in F : j # k => Q[j] = P[j]
    /\ Living(P[k]) /\ ~Living(Q[k])
    /\ \/ P[k].pc = "open" /\ ~EmptyAt(D, P[k].a)
       \/ P[k].pc = "measure" /\ EmptyAt(D, P[k].a)
LEMMA CausesEnd ==
    ASSUME NEW P, NEW Q, NEW D, NEW n, NEW F, NEW k, k # n, Causes(P, D, n, F), Ending(P, Q, D, F, k)
    PROVE  Causes(Q, D, n, F \ {k})
<1> USE DEF Ending
<1>1. PICK G : G = F \ {k}
  OBVIOUS
<1>2. ASSUME k \in F PROVE \E j \in G : AtWork(P[j]) /\ P[j].a >= P[k].a
  <2>1. CASE P[k].pc = "open" /\ ~EmptyAt(D, P[k].a)
    <3>1. PICK j \in F : j # k /\ AtWork(P[j]) /\ MetBy(P[j], P[k])
      BY <1>2, <2>1 DEF Causes
    <3> QED
      BY <1>1, <3>1 DEF MetBy
  <2>2. CASE P[k].pc = "measure" /\ EmptyAt(D, P[k].a)
    <3>1. PICK j \in F : j # k /\ AtWork(P[j]) /\ PurgedBy(P[j], P[k])
      BY <1>2, <2>2 DEF Causes
    <3> QED
      BY <1>1, <3>1 DEF PurgedBy
  <2> QED
    BY <2>1, <2>2
<1>3. ASSUME NEW i \in G, Living(Q[i]), Q[i].pc = "open", ~EmptyAt(D, Q[i].a)
      PROVE  \E j \in G : j # i /\ AtWork(Q[j]) /\ MetBy(Q[j], Q[i])
  <2>1. i # k /\ i \in F /\ Q[i] = P[i]
    BY <1>1
  <2>2. PICK j \in F : j # i /\ AtWork(P[j]) /\ MetBy(P[j], P[i])
    BY <1>3, <2>1 DEF Causes
  <2>3. CASE j = k
    <3>1. P[k].a > P[i].a
      BY <1>3, <2>1, <2>2, <2>3 DEF MetBy
    <3>2. PICK m \in G : AtWork(P[m]) /\ P[m].a >= P[k].a
      BY <1>2, <2>2, <2>3
    <3>3. P[m].a > P[i].a /\ m # i /\ m # k /\ m \in F
      BY <1>1, <2>1, <3>1, <3>2
    <3> QED
      BY <2>1, <3>2, <3>3 DEF MetBy
  <2>4. CASE j # k
    BY <1>1, <2>1, <2>2, <2>4
  <2> QED
    BY <2>3, <2>4
<1>4. ASSUME NEW i \in G, Living(Q[i]), Q[i].pc \in {"compute", "measure"}, EmptyAt(D, Q[i].a)
      PROVE  \E j \in G : j # i /\ AtWork(Q[j]) /\ PurgedBy(Q[j], Q[i])
  <2>1. i # k /\ i \in F /\ Q[i] = P[i]
    BY <1>1
  <2>2. PICK j \in F : j # i /\ AtWork(P[j]) /\ PurgedBy(P[j], P[i])
    BY <1>4, <2>1 DEF Causes
  <2>3. CASE j = k
    <3>1. P[k].a > P[i].a
      BY <1>4, <2>1, <2>2, <2>3 DEF PurgedBy
    <3>2. PICK m \in G : AtWork(P[m]) /\ P[m].a >= P[k].a
      BY <1>2, <2>2, <2>3
    <3>3. P[m].a > P[i].a /\ m # i /\ m # k /\ m \in F
      BY <1>1, <2>1, <3>1, <3>2
    <3> QED
      BY <2>1, <3>2, <3>3 DEF PurgedBy
  <2>4. CASE j # k
    BY <1>1, <2>1, <2>2, <2>4
  <2> QED
    BY <2>3, <2>4
<1> QED
  BY <1>1, <1>3, <1>4 DEF Causes

LEMMA PurgeStep ==
    ASSUME StagingInv, NEW k \in Attempts, Purge(k)
    PROVE  StagingInv'
<1>1. PICK r : r = [par[k] EXCEPT !.pc = "open"]
  OBVIOUS
<1>2. PICK b : b = par[k].a
  OBVIOUS
<1>3. PICK q : q = Purged(b)
  OBVIOUS
<1>4. /\ Alive(k, par) /\ par[k].pc = "purge" /\ pdisk' = [pdisk EXCEPT ![b] = q] /\ par' = [par EXCEPT ![k] = r]
      /\ UNCHANGED <<input, phase, attempt, prep, disk, staged, sets, plan, checked, tapes, reason, mishaps>>
  BY <1>1, <1>2, <1>3 DEF Purge
<1>5. /\ ParOK(par[k], k, phase, attempt) /\ b \in Archives /\ DOMAIN par[k] = {"st", "a", "pc", "seen", "got"}
      /\ phase = "par2" => GotOK(par[k]) /\ \A a \in Archives : Good(a) => WorkOK(par[k], a)
      /\ attempt \in Attempts /\ \A a \in Archives : a \in Nat
  BY <1>2, ParFacts
<1>6. DOMAIN r = {"st", "a", "pc", "seen", "got"} /\ r.st = par[k].st /\ r.a = b /\ r.pc = "open" /\ r.got = par[k].got
  BY <1>1, <1>2, <1>5
<1>7. IsOver(q, SetFiles) /\ \A f \in SetFiles : q[f] = None
  BY <1>3 DEF IsOver, Purged
<1>8. DOMAIN pdisk' = Archives /\ pdisk'[b] = q /\ \A a \in Archives : a # b => pdisk'[a] = pdisk[a]
  BY <1>4, <1>5, PdiskSet
<1>9. par'[k] = r /\ \A j \in Attempts : j # k => par'[j] = par[j]
  BY <1>4, ParSet DEF StagingInv
<1>10. phase = "par2" => GotOK(r) /\ \A a \in Archives : Good(a) => WorkOK(r, a)
  BY <1>2, <1>5, <1>6, GotKept
<1>11. par[k].st \in {"run", "lost"} /\ phase \in {"par2", "verify"}
  BY <1>4, AliveFacts
<1>12. PartInv'
  <2>1. ASSUME NEW a \in Archives, NEW f \in SetFiles, NEW j \in Attempts PROVE PartOK(a, f, j)'
    <3>1. PartOK(a, f, j)
      BY <1>11 DEF StagingInv, PartInv, PastPack
    <3>2. CASE a = b
      <4>1. pdisk'[a][f] = None
        BY <1>7, <1>8, <3>2
      <4>2. None # <<j, "part">>
        BY DEF None
      <4> QED
        BY <4>1, <4>2 DEF PartOK
    <3>3. CASE a # b
      <4>1. pdisk'[a][f] = pdisk[a][f]
        BY <1>8, <3>3
      <4>2. Purges(a) => Purges(a)'
        BY <1>2, <1>4, <1>5, <1>6, <1>9, <3>3 DEF Purges
      <4>3. CASE j = k
        BY <1>2, <1>4, <1>6, <1>9, <1>11, <3>1, <3>3, <4>1, <4>2, <4>3 DEF PartOK
      <4>4. CASE j # k
        BY <1>9, <3>1, <4>1, <4>2, <4>4 DEF PartOK
      <4> QED
        BY <4>3, <4>4
    <3> QED
      BY <3>2, <3>3
  <2>2. Archives' = Archives
    BY <1>4 DEF Archives
  <2> QED
    BY <2>1, <2>2 DEF PartInv
<1>13. ASSUME phase = "par2" PROVE \E G \in SUBSET Attempts : Causes(par', pdisk', attempt, G)
  <2>1. PICK F \in SUBSET Attempts : Causes(par, pdisk, attempt, F)
    BY <1>13 DEF StagingInv, RetryInv
  <2>2. /\ EmptyAt(pdisk', b)
        /\ \A a \in Archives : a # b => (EmptyAt(pdisk', a) <=> EmptyAt(pdisk, a))
    BY <1>7, <1>8 DEF EmptyAt
  <2>3. \A j \in Attempts : par[j].a \in Archives
    BY ParFacts
  <2>4. Causes(par', pdisk', attempt, F \cup {k})
    <3>1. Purging(Archives, par, par', pdisk, pdisk', F, k)
      BY <1>2, <1>4, <1>5, <1>6, <1>9, <1>11, <2>1, <2>2, <2>3 DEF Purging, Living
    <3> QED
      BY <2>1, <3>1, CausesPurge
  <2> QED
    BY <2>1, <2>4
<1>14. ParChange(k, r, b, q)
  BY <1>4, <1>5, <1>6, <1>7, <1>8, <1>10, <1>12, <1>13 DEF ParChange
<1> QED
  BY <1>5, <1>14, ParStep

LEMMA Par2OpenStep ==
    ASSUME StagingInv, NEW k \in Attempts, Par2Open(k)
    PROVE  StagingInv'
<1>1. PICK b : b = par[k].a
  OBVIOUS
<1>2. PICK r : r = [par[k] EXCEPT !.pc = "compute", !.seen = disk[b]]
  OBVIOUS
<1>3. PICK q : q = [f \in SetFiles |-> <<k, "part">>]
  OBVIOUS
<1>4. /\ Alive(k, par) /\ par[k].pc = "open" /\ pdisk' = [pdisk EXCEPT ![b] = q] /\ par' = [par EXCEPT ![k] = r]
      /\ UNCHANGED <<input, phase, attempt, prep, disk, staged, sets, plan, checked, tapes, reason, mishaps>>
  BY <1>1, <1>2, <1>3 DEF Par2Open
<1>5. /\ ParOK(par[k], k, phase, attempt) /\ b \in Archives /\ DOMAIN par[k] = {"st", "a", "pc", "seen", "got"}
      /\ phase = "par2" => GotOK(par[k]) /\ \A a \in Archives : Good(a) => WorkOK(par[k], a)
      /\ attempt \in Attempts /\ \A a \in Archives : a \in Nat
  BY <1>1, ParFacts
<1>6. DOMAIN r = {"st", "a", "pc", "seen", "got"} /\ r.st = par[k].st /\ r.a = b /\ r.pc = "compute" /\ r.got = par[k].got /\ r.seen = disk[b]
  BY <1>1, <1>2, <1>5
<1>7. IsOver(q, SetFiles) /\ \A f \in SetFiles : q[f] = <<k, "part">>
  BY <1>3 DEF IsOver
<1>8. DOMAIN pdisk' = Archives /\ pdisk'[b] = q /\ \A a \in Archives : a # b => pdisk'[a] = pdisk[a]
  BY <1>4, <1>5, PdiskSet
<1>9. par'[k] = r /\ \A j \in Attempts : j # k => par'[j] = par[j]
  BY <1>4, ParSet DEF StagingInv
<1>10. phase = "par2" => GotOK(r) /\ \A a \in Archives : Good(a) => WorkOK(r, a)
  BY <1>1, <1>5, <1>6, GotKept
<1>11. par[k].st \in {"run", "lost"} /\ phase \in {"par2", "verify"}
  BY <1>4, AliveFacts
<1>12. PartInv'
  <2>1. ASSUME NEW a \in Archives, NEW f \in SetFiles, NEW j \in Attempts PROVE PartOK(a, f, j)'
    <3>1. PartOK(a, f, j)
      BY <1>11 DEF StagingInv, PartInv, PastPack
    <3>2. CASE a = b
      <4>1. pdisk'[a][f] = <<k, "part">>
        BY <1>7, <1>8, <3>2
      <4> QED
        BY <1>6, <1>9, <1>11, <3>2, <4>1 DEF PartOK
    <3>3. CASE a # b
      <4>1. pdisk'[a][f] = pdisk[a][f]
        BY <1>8, <3>3
      <4>2. Purges(a) => Purges(a)'
        BY <1>1, <1>4, <1>5, <1>6, <1>9, <3>3 DEF Purges
      <4>3. CASE j = k
        BY <1>1, <1>4, <1>6, <1>9, <1>11, <3>1, <3>3, <4>1, <4>2, <4>3 DEF PartOK
      <4>4. CASE j # k
        BY <1>9, <3>1, <4>1, <4>2, <4>4 DEF PartOK
      <4> QED
        BY <4>3, <4>4
    <3> QED
      BY <3>2, <3>3
  <2>2. Archives' = Archives
    BY <1>4 DEF Archives
  <2> QED
    BY <2>1, <2>2 DEF PartInv
<1>13. <<k, "part">> # None /\ <<k, "part">> \in Parts
  BY DEF None, Parts
<1>14. ASSUME phase = "par2" PROVE \E G \in SUBSET Attempts : Causes(par', pdisk', attempt, G)
  <2>1. PICK F \in SUBSET Attempts : Causes(par, pdisk, attempt, F)
    BY <1>14 DEF StagingInv, RetryInv
  <2>2. /\ ~EmptyAt(pdisk', b)
        /\ \A a \in Archives : a # b => (EmptyAt(pdisk', a) <=> EmptyAt(pdisk, a))
    BY <1>7, <1>8, <1>13 DEF EmptyAt, SetFiles
  <2>3. \A j \in Attempts : par[j].a \in Archives
    BY ParFacts
  <2>4. Opening(Archives, par, par', pdisk, pdisk', F, k)
    BY <1>1, <1>4, <1>5, <1>6, <1>9, <1>11, <2>1, <2>2, <2>3 DEF Opening, Living
  <2>5. Causes(par', pdisk', attempt, F \cup {k})
    BY <2>1, <2>4, CausesOpen
  <2> QED
    BY <2>1, <2>5
<1>15. ParChange(k, r, b, q)
  BY <1>4, <1>5, <1>6, <1>7, <1>8, <1>10, <1>12, <1>13, <1>14 DEF ParChange
<1> QED
  BY <1>5, <1>15, ParStep

LEMMA Par2ComputeStep ==
    ASSUME StagingInv, NEW k \in Attempts, Par2Compute(k)
    PROVE  StagingInv'
<1>1. PICK b : b = par[k].a
  OBVIOUS
<1>2. PICK r : r = [par[k] EXCEPT !.pc = "measure"]
  OBVIOUS
<1>a. PICK made : made = IF par[k].seen = disk[b] THEN <<k, "set", par[k].seen>> ELSE <<k, "mixed">>
  OBVIOUS
<1>3. PICK q : q = [f \in SetFiles |-> IF pdisk[b][f] = <<k, "part">> THEN made ELSE pdisk[b][f]]
  OBVIOUS
<1>4. /\ Alive(k, par) /\ par[k].pc = "compute" /\ pdisk' = [pdisk EXCEPT ![b] = q] /\ par' = [par EXCEPT ![k] = r]
      /\ UNCHANGED <<input, phase, attempt, prep, disk, staged, sets, plan, checked, tapes, reason, mishaps>>
  BY <1>1, <1>2, <1>a, <1>3 DEF Par2Compute
<1>5. /\ ParOK(par[k], k, phase, attempt) /\ b \in Archives /\ DOMAIN par[k] = {"st", "a", "pc", "seen", "got"}
      /\ phase = "par2" => GotOK(par[k]) /\ \A a \in Archives : Good(a) => WorkOK(par[k], a)
      /\ attempt \in Attempts /\ \A a \in Archives : a \in Nat
  BY <1>1, ParFacts
<1>6. DOMAIN r = {"st", "a", "pc", "seen", "got"} /\ r.st = par[k].st /\ r.a = b /\ r.pc = "measure" /\ r.got = par[k].got
  BY <1>1, <1>2, <1>5
<1>7. IsOver(q, SetFiles) /\ \A f \in SetFiles : q[f] = IF pdisk[b][f] = <<k, "part">> THEN made ELSE pdisk[b][f]
  BY <1>3 DEF IsOver
<1>8. DOMAIN pdisk' = Archives /\ pdisk'[b] = q /\ \A a \in Archives : a # b => pdisk'[a] = pdisk[a]
  BY <1>4, <1>5, PdiskSet
<1>9. par'[k] = r /\ \A j \in Attempts : j # k => par'[j] = par[j]
  BY <1>4, ParSet DEF StagingInv
<1>10. phase = "par2" => GotOK(r) /\ \A a \in Archives : Good(a) => WorkOK(r, a)
  BY <1>1, <1>5, <1>6, GotKept
<1>11. par[k].st \in {"run", "lost"} /\ phase \in {"par2", "verify"}
  BY <1>4, AliveFacts
<1>12. made # None /\ \A j : made # <<j, "part">>
  <2>1. made[2] \in {"set", "mixed"}
    BY <1>a
  <2>2. None[2] = "absent" /\ \A j : <<j, "part">>[2] = "part"
    BY DEF None
  <2> QED
    BY <2>1, <2>2
<1>13. \A f \in SetFiles : q[f] = None <=> pdisk[b][f] = None
  <2>1. <<k, "part">> # None
    BY DEF None
  <2> QED
    BY <1>7, <1>12, <2>1
<1>14. PartInv'
  <2>1. ASSUME NEW a \in Archives, NEW f \in SetFiles, NEW j \in Attempts PROVE PartOK(a, f, j)'
    <3>1. PartOK(a, f, j)
      BY <1>11 DEF StagingInv, PartInv, PastPack
    <3>2. Purges(a) => Purges(a)'
      BY <1>1, <1>4, <1>5, <1>6, <1>9 DEF Purges
    <3>3. pdisk'[a][f] = <<j, "part">> => pdisk[a][f] = <<j, "part">> /\ (a = b => j # k)
      <4>1. CASE a = b
        BY <1>7, <1>8, <1>12, <4>1
      <4>2. CASE a # b
        BY <1>8, <4>2
      <4> QED
        BY <4>1, <4>2
    <3>4. CASE j = k
      BY <1>1, <1>4, <1>6, <1>9, <1>11, <3>1, <3>2, <3>3, <3>4 DEF PartOK
    <3>5. CASE j # k
      BY <1>9, <3>1, <3>2, <3>3, <3>5 DEF PartOK
    <3> QED
      BY <3>4, <3>5
  <2>2. Archives' = Archives
    BY <1>4 DEF Archives
  <2> QED
    BY <2>1, <2>2 DEF PartInv
<1>15. ASSUME phase = "par2", Good(b) PROVE \A f \in SetFiles : q[f] \in {None} \cup Parts \cup Of(b)
  <2>1. par[k].seen = disk[b]
    BY <1>1, <1>4, <1>5, <1>15 DEF WorkOK
  <2>2. made \in Of(b)
    BY <1>a, <2>1 DEF Of
  <2>3. FilesOK(b)
    BY <1>5, <1>15 DEF StagingInv, SetInv
  <2> QED
    BY <1>7, <2>2, <2>3 DEF FilesOK
<1>16. ASSUME phase = "par2" PROVE \E G \in SUBSET Attempts : Causes(par', pdisk', attempt, G)
  <2>1. PICK F \in SUBSET Attempts : Causes(par, pdisk, attempt, F)
    BY <1>16 DEF StagingInv, RetryInv
  <2>2. \A a \in Archives : EmptyAt(pdisk', a) <=> EmptyAt(pdisk, a)
    BY <1>8, <1>13 DEF EmptyAt
  <2>3. \A j \in Attempts : par[j].a \in Archives
    BY ParFacts
  <2>4. Moving(Archives, par, par', pdisk, pdisk', F, k)
    BY <1>1, <1>4, <1>5, <1>6, <1>9, <1>11, <2>1, <2>2, <2>3 DEF Moving, Living, AtWork, MetBy, PurgedBy
  <2>5. Causes(par', pdisk', attempt, F)
    BY <2>1, <2>4, CausesMove
  <2> QED
    BY <2>1, <2>5
<1>17. phase = "par2" => \A f, g \in SetFiles : q[f] = None => q[g] = None
  BY <1>5, <1>13 DEF StagingInv, FilesInv
<1>18. ParChange(k, r, b, q)
  BY <1>4, <1>5, <1>6, <1>7, <1>8, <1>10, <1>14, <1>15, <1>16, <1>17 DEF ParChange
<1> QED
  BY <1>5, <1>18, ParStep

\* A step of attempt k that leaves the files alone.
LEMMA FilesAlone ==
    ASSUME StagingInv, NEW k \in Attempts, Alive(k, par), UNCHANGED <<input, phase, attempt, pdisk>>,
           NEW r, par' = [par EXCEPT ![k] = r],
           phase = "par2" /\ k = attempt => par[k].pc # "purge" /\ (r.a = par[k].a \/ (r.a = par[k].a + 1 /\ r.pc = "purge")),
           par[k].pc # "compute" \/ r.st = "stopped"
    PROVE  PartInv'
<1>1. par[k].st \in {"run", "lost"} /\ phase \in {"par2", "verify"}
  BY AliveFacts
<1>2. par'[k] = r /\ \A j \in Attempts : j # k => par'[j] = par[j]
  BY ParSet DEF StagingInv
<1>3. Archives' = Archives
  BY DEF Archives
<1>4. par[k].a \in Nat /\ \A a \in Archives : a \in Nat
  BY ParFacts
<1>5. ASSUME NEW a \in Archives, NEW f \in SetFiles, NEW j \in Attempts PROVE PartOK(a, f, j)'
  <2>1. PartOK(a, f, j)
    BY <1>1 DEF StagingInv, PartInv, PastPack
  <2>2. Purges(a) => Purges(a)'
    <3>1. CASE k = attempt
      BY <1>2, <1>4, <3>1 DEF Purges
    <3>2. CASE k # attempt
      BY <1>2, <3>2, ParFacts DEF Purges
    <3> QED
      BY <3>1, <3>2
  <2>3. CASE j = k
    BY <1>1, <1>2, <2>1, <2>2, <2>3 DEF PartOK
  <2>4. CASE j # k
    BY <1>2, <2>1, <2>2, <2>4 DEF PartOK
  <2> QED
    BY <2>3, <2>4
<1> QED
  BY <1>3, <1>5 DEF PartInv

LEMMA LostPAR2StopsStep ==
    ASSUME StagingInv, NEW k \in Attempts, LostPAR2Stops(k)
    PROVE  StagingInv'
<1>1. PICK b : b = par[k].a
  OBVIOUS
<1>2. PICK r : r = [par[k] EXCEPT !.st = "stopped"]
  OBVIOUS
<1>3. PICK q : q = pdisk[b]
  OBVIOUS
<1>4. /\ Alive(k, par) /\ par[k].st = "lost" /\ par' = [par EXCEPT ![k] = r] /\ pdisk' = pdisk
      /\ UNCHANGED <<input, phase, attempt, prep, disk, staged, sets, plan, checked, tapes, reason, mishaps>>
  BY <1>2 DEF LostPAR2Stops
<1>5. /\ ParOK(par[k], k, phase, attempt) /\ b \in Archives /\ DOMAIN par[k] = {"st", "a", "pc", "seen", "got"}
      /\ phase = "par2" => GotOK(par[k]) /\ \A a \in Archives : Good(a) => WorkOK(par[k], a)
      /\ attempt \in Attempts /\ \A a \in Archives : a \in Nat
      /\ IsOver(q, SetFiles) /\ DOMAIN pdisk = Archives
  BY <1>1, <1>3, ParFacts
<1>6. /\ DOMAIN r = {"st", "a", "pc", "seen", "got"} /\ r.st = "stopped" /\ r.a = b /\ r.pc = par[k].pc /\ r.got = par[k].got
      /\ r.seen = par[k].seen
  BY <1>1, <1>2, <1>5
<1>7. r.pc \in {"purge", "open", "compute", "measure", "end"}
  BY <1>5, <1>6 DEF ParOK
<1>9. par'[k] = r /\ \A j \in Attempts : j # k => par'[j] = par[j]
  BY <1>4, ParSet DEF StagingInv
<1>10. phase = "par2" => GotOK(r) /\ \A a \in Archives : Good(a) => WorkOK(r, a)
  BY <1>1, <1>5, <1>6 DEF GotOK, WorkOK
<1>11. ~(phase = "par2" /\ k = attempt)
  BY <1>4, <1>5 DEF ParOK
<1>12. PartInv'
  BY <1>4, <1>6, <1>11, FilesAlone
<1>13. phase = "par2" => /\ \A f, g \in SetFiles : q[f] = None => q[g] = None
                         /\ Good(b) => \A f \in SetFiles : q[f] \in {None} \cup Parts \cup Of(b)
  BY <1>3, <1>5 DEF StagingInv, FilesInv, SetInv, FilesOK
<1>14. ASSUME phase = "par2" PROVE \E G \in SUBSET Attempts : Causes(par', pdisk', attempt, G)
  <2>1. PICK F \in SUBSET Attempts : Causes(par, pdisk, attempt, F)
    BY <1>14 DEF StagingInv, RetryInv
  <2>2. \A j \in Attempts : par[j].a \in Archives
    BY ParFacts
  <2>3. Moving(Archives, par, par', pdisk, pdisk', F, k)
    BY <1>1, <1>4, <1>6, <1>9, <2>1, <2>2 DEF Moving, Living, AtWork, MetBy, PurgedBy
  <2>4. Causes(par', pdisk', attempt, F)
    BY <2>1, <2>3, CausesMove
  <2> QED
    BY <2>1, <2>4
<1>15. ParChange(k, r, b, q)
  BY <1>3, <1>4, <1>5, <1>6, <1>7, <1>10, <1>12, <1>13, <1>14 DEF ParChange
<1> QED
  BY <1>5, <1>15, ParStep

\* A lost attempt that fails, where another has met its files or purged them.
LEMMA LostEnds ==
    ASSUME StagingInv, NEW k \in Attempts, Alive(k, par), par[k].st = "lost", par' = [par EXCEPT ![k].st = "over"],
           UNCHANGED <<input, phase, attempt, prep, disk, pdisk, staged, sets, plan, checked, tapes, reason, mishaps>>,
           \/ par[k].pc = "open" /\ ~EmptyAt(pdisk, par[k].a)
           \/ par[k].pc = "measure" /\ EmptyAt(pdisk, par[k].a)
    PROVE  StagingInv'
<1>1. PICK b : b = par[k].a
  OBVIOUS
<1>2. PICK r : r = [par[k] EXCEPT !.st = "over"]
  OBVIOUS
<1>3. PICK q : q = pdisk[b]
  OBVIOUS
<1>4. par' = [par EXCEPT ![k] = r]
  BY <1>2
<1>5. /\ ParOK(par[k], k, phase, attempt) /\ b \in Archives /\ DOMAIN par[k] = {"st", "a", "pc", "seen", "got"}
      /\ phase = "par2" => GotOK(par[k]) /\ \A a \in Archives : Good(a) => WorkOK(par[k], a)
      /\ attempt \in Attempts /\ \A a \in Archives : a \in Nat
      /\ IsOver(q, SetFiles) /\ DOMAIN pdisk = Archives
  BY <1>1, <1>3, ParFacts
<1>6. /\ DOMAIN r = {"st", "a", "pc", "seen", "got"} /\ r.st = "over" /\ r.a = b /\ r.pc = par[k].pc /\ r.got = par[k].got
      /\ r.seen = par[k].seen
  BY <1>1, <1>2, <1>5
<1>9. par'[k] = r /\ \A j \in Attempts : j # k => par'[j] = par[j]
  BY <1>4, ParSet DEF StagingInv
<1>10. phase = "par2" => GotOK(r) /\ \A a \in Archives : Good(a) => WorkOK(r, a)
  BY <1>1, <1>5, <1>6 DEF GotOK, WorkOK
<1>11. ~(phase = "par2" /\ k = attempt)
  BY <1>5 DEF ParOK
<1>12. PartInv'
  BY <1>4, <1>6, <1>11, FilesAlone
<1>13. phase = "par2" => /\ \A f, g \in SetFiles : q[f] = None => q[g] = None
                         /\ Good(b) => \A f \in SetFiles : q[f] \in {None} \cup Parts \cup Of(b)
  BY <1>3, <1>5 DEF StagingInv, FilesInv, SetInv, FilesOK
<1>14. ASSUME phase = "par2" PROVE \E G \in SUBSET Attempts : Causes(par', pdisk', attempt, G)
  <2>1. PICK F \in SUBSET Attempts : Causes(par, pdisk, attempt, F)
    BY <1>14 DEF StagingInv, RetryInv
  <2>2. \A j \in Attempts : par[j].a \in Int
    BY <1>5, ParFacts
  <2>3. Ending(par, par', pdisk, F, k)
    BY <1>6, <1>9, <2>1, <2>2 DEF Ending, Living
  <2>4. Causes(par', pdisk, attempt, F \ {k})
    BY <1>11, <1>14, <2>1, <2>3, CausesEnd
  <2> QED
    BY <2>1, <2>4
<1>15. ParChange(k, r, b, q)
  BY <1>3, <1>4, <1>5, <1>6, <1>10, <1>12, <1>13, <1>14 DEF ParChange
<1> QED
  BY <1>5, <1>15, ParStep

\* The attempt the server waits for is over or lost: the run has failed, or the
\* next attempt starts at the first archive.
Restarts ==
    /\ phase' \in {"par2", "failed"}
    /\ UNCHANGED <<input, disk, pdisk, staged, sets, plan, checked, tapes>>
    /\ AttemptInv' /\ prep'[staged].st = "over" /\ mishaps' \in 0..MaxMishaps
    /\ reason' = reason \/ phase' = "failed"
    /\ reason' = "exists" => \E k \in Attempts : par'[k].st \in {"lost", "stopped"} \/ par'[k].pc = "end"
    /\ phase' = "par2" =>
          /\ par'[attempt'].pc = "purge" /\ par'[attempt'].a = 1 /\ par'[attempt'].got = <<>>
          /\ \A j \in Attempts : j # attempt' => /\ par'[j].pc = par[j].pc /\ par'[j].a = par[j].a
                                                 /\ par'[j].seen = par[j].seen /\ par'[j].got = par[j].got

LEMMA RestartStep ==
    ASSUME StagingInv, phase = "par2", Restarts
    PROVE  StagingInv'
<1> USE DEF StagingInv, Restarts
<1>0. Archives' = Archives /\ Num' = Num /\ \A a : Slices(a)' = Slices(a)
  BY DEF Archives, Num, Slices
<1>1. InputInv'
  BY DEF InputInv, Archives, PlanItems
<1>2. PhaseInv'
  BY <1>0 DEF PhaseInv, PastPack
<1>3. FilesInv'
  BY <1>0 DEF FilesInv
<1>4. ASSUME phase' = "par2", NEW j \in Attempts
      PROVE  GotOK(par'[j]) /\ \A a \in Archives : Good(a) => WorkOK(par'[j], a)
  <2>1. CASE j = attempt'
    <3>1. GotOK(par'[j])
      <4>1. PICK p : p = par'[j]
        OBVIOUS
      <4>2. p.a = 1 /\ p.got = <<>>
        BY <1>4, <2>1, <4>1
      <4>3. <<>> \in Seq({}) /\ Len(<<>>) = 0
        OBVIOUS
      <4>4. Len(p.got) = p.a - 1 /\ (\E S : p.got \in Seq(S))
        BY <4>2, <4>3
      <4>5. \A a \in 1..p.a - 1 : FALSE
        BY <4>2
      <4>6. GotOK(p)
        BY <4>4, <4>5 DEF GotOK
      <4> QED
        BY <4>1, <4>6
    <3>2. \A a \in Archives : ~(a < 1)
      BY ArchiveFacts
    <3> QED
      BY <1>4, <2>1, <3>1, <3>2 DEF WorkOK
  <2>2. CASE j # attempt'
    <3>1. GotOK(par[j]) /\ \A a \in Archives : Good(a) => WorkOK(par[j], a)
      BY ParFacts
    <3> QED
      BY <1>4, <2>2, <3>1 DEF WorkOK, GotOK
  <2> QED
    BY <2>1, <2>2
<1>5. SetInv'
  <2>1. \A a : Good(a)' <=> Good(a)
    BY <1>0 DEF Good
  <2>2. \A p, a : WorkOK(p, a)' <=> WorkOK(p, a)
    BY DEF WorkOK, Parts, Of
  <2>3. \A p : GotOK(p)' <=> GotOK(p)
    BY DEF GotOK
  <2>4. \A a : FilesOK(a)' <=> FilesOK(a)
    BY DEF FilesOK, Parts, Of
  <2> QED
    BY <1>0, <1>4, <2>1, <2>2, <2>3, <2>4 DEF SetInv
<1>6. PartInv'
  <2>1. CASE phase' = "par2"
    <3>1. \A a \in Archives : 1 <= a
      BY ArchiveFacts
    <3>2. \A a \in Archives : Purges(a)'
      BY <2>1, <3>1, ArchiveFacts DEF Purges
    <3> QED
      BY <1>0, <3>2 DEF PartInv, PartOK
  <2>2. CASE phase' = "failed"
    BY <2>2 DEF PartInv, PastPack
  <2> QED
    BY <2>1, <2>2
<1>7. VerifyInv'
  BY DEF VerifyInv
<1>8. tapes = <<>>
  BY DEF PhaseInv
<1>9. TapeInv'
  BY <1>8 DEF TapeInv
<1>10. RetryInv'
  <2>1. ASSUME phase' = "par2" PROVE Causes(par', pdisk', attempt', {attempt'})
    BY <2>1 DEF Causes
  <2>2. attempt' \in Attempts
    BY DEF AttemptInv
  <2> QED
    BY <2>1, <2>2 DEF RetryInv
<1> QED
  BY <1>1, <1>2, <1>3, <1>5, <1>6, <1>7, <1>9, <1>10

\* The attempt the server waits for ends or is lost.
LEMMA RetriedParStep ==
    ASSUME StagingInv, phase = "par2", NEW st \in {"lost", "over"}, NEW why,
           Retried([par EXCEPT ![attempt].st = st], TRUE, why),
           UNCHANGED <<input, disk, pdisk, staged, sets, plan, checked, tapes>>, mishaps' \in 0..MaxMishaps,
           why = "exists" => \E k \in Attempts : k # attempt /\ AtWork(par[k])
    PROVE  StagingInv'
<1>1. PICK r : r = [par[attempt] EXCEPT !.st = st]
  OBVIOUS
<1>2. /\ AttemptInv' /\ prep' = prep /\ par'[attempt] = r
      /\ \/ phase' = "failed" /\ reason' = why /\ attempt' = attempt /\ \A j \in Attempts : j # attempt => par'[j] = par[j]
         \/ phase' = "par2" /\ reason' = reason /\ attempt' = attempt + 1 /\ par'[attempt'].pc = "purge" /\ par'[attempt'].a = 1
            /\ par'[attempt'].got = <<>> /\ \A j \in Attempts : j # attempt /\ j # attempt' => par'[j] = par[j]
  BY <1>1, RetriedPar DEF StagingInv
<1>3. attempt \in Attempts /\ DOMAIN par[attempt] = {"st", "a", "pc", "seen", "got"}
  BY ParFacts DEF StagingInv, AttemptInv
<1>4. r.st = st /\ r.pc = par[attempt].pc /\ r.a = par[attempt].a /\ r.seen = par[attempt].seen /\ r.got = par[attempt].got
  BY <1>1, <1>3
<1>5. prep'[staged].st = "over"
  BY <1>2 DEF StagingInv, PhaseInv, PastPack
<1>6. reason # "exists"
  BY DEF StagingInv, PhaseInv
<1>7. ASSUME reason' = "exists" PROVE \E k \in Attempts : par'[k].st \in {"lost", "stopped"} \/ par'[k].pc = "end"
  <2>1. why = "exists" /\ \A j \in Attempts : j # attempt => par'[j] = par[j]
    BY <1>2, <1>6, <1>7
  <2>2. PICK k \in Attempts : k # attempt /\ AtWork(par[k])
    BY <2>1
  <2>3. par[k].st # "run"
    BY <2>2 DEF StagingInv, AttemptInv, ParOK
  <2> QED
    BY <2>1, <2>2, <2>3 DEF AtWork
<1>8. Restarts
  <2>1. CASE phase' = "failed"
    BY <1>2, <1>5, <1>7, <2>1 DEF Restarts
  <2>2. CASE phase' = "par2"
    <3>1. \A j \in Attempts : j # attempt' => /\ par'[j].pc = par[j].pc /\ par'[j].a = par[j].a
                                              /\ par'[j].seen = par[j].seen /\ par'[j].got = par[j].got
      BY <1>2, <1>4, <2>2
    <3>2. reason' = reason
      BY <1>2, <2>2
    <3> QED
      BY <1>2, <1>5, <1>7, <2>2, <3>1, <3>2 DEF Restarts
  <2> QED
    BY <1>2, <2>1, <2>2
<1> QED
  BY <1>8, RestartStep

\* Attempt k of Generate PAR2 fails.
LEMMA PAR2EndsStep ==
    ASSUME StagingInv, NEW k \in Attempts, Alive(k, par), NEW why, PAR2Ends(k, why),
           UNCHANGED <<input, disk, pdisk, staged, sets, plan, checked, tapes, mishaps>>,
           \/ par[k].pc = "open" /\ ~EmptyAt(pdisk, par[k].a)
           \/ par[k].pc = "measure" /\ EmptyAt(pdisk, par[k].a) /\ why # "exists"
    PROVE  StagingInv'
<1>1. par[k].st \in {"run", "lost"} /\ (par[k].st = "run" <=> phase = "par2" /\ k = attempt)
  BY AliveFacts
<1>2. CASE par[k].st = "run"
  <2>1. phase = "par2" /\ k = attempt
    BY <1>1, <1>2
  <2>2. Retried([par EXCEPT ![attempt].st = "over"], TRUE, why)
    BY <1>2, <2>1 DEF PAR2Ends
  <2>3. ASSUME why = "exists" PROVE \E j \in Attempts : j # attempt /\ AtWork(par[j])
    <3>1. par[k].pc = "open" /\ ~EmptyAt(pdisk, par[k].a)
      BY <2>3
    <3>2. PICK G \in SUBSET Attempts : Causes(par, pdisk, attempt, G)
      BY <2>1 DEF StagingInv, RetryInv
    <3> QED
      BY <1>1, <2>1, <3>1, <3>2 DEF Causes, Living
  <2>4. mishaps' \in 0..MaxMishaps
    BY DEF StagingInv, PhaseInv
  <2> QED
    BY <2>1, <2>2, <2>3, <2>4, RetriedParStep
<1>3. CASE par[k].st = "lost"
  <2>1. par' = [par EXCEPT ![k].st = "over"] /\ UNCHANGED <<attempt, phase, reason, prep>>
    BY <1>3 DEF PAR2Ends
  <2> QED
    BY <1>3, <2>1, LostEnds
<1> QED
  BY <1>1, <1>2, <1>3

LEMMA Par2RefusesStep ==
    ASSUME StagingInv, NEW k \in Attempts, Par2Refuses(k)
    PROVE  StagingInv'
<1>1. Alive(k, par) /\ par[k].pc = "open" /\ ~EmptyAt(pdisk, par[k].a) /\ PAR2Ends(k, "exists")
      /\ UNCHANGED <<input, disk, pdisk, staged, sets, plan, checked, tapes, mishaps>>
  BY DEF Par2Refuses, EmptyAt
<1> QED
  BY <1>1, PAR2EndsStep

LEMMA Par2FailsStep ==
    ASSUME StagingInv, Par2Fails
    PROVE  StagingInv'
<1>1. phase = "par2" /\ par[attempt].st = "run" /\ UNCHANGED <<input, disk, pdisk, staged, sets, plan, checked, tapes>>
  BY DEF Par2Fails
<1>2. Retried([par EXCEPT ![attempt].st = "over"], TRUE, "par2")
  BY <1>1 DEF Par2Fails, PAR2Ends
<1>3. mishaps' \in 0..MaxMishaps
  BY StagingAssumption DEF Par2Fails, Mishap, StagingInv, PhaseInv
<1>4. PICK why : why = "par2"
  OBVIOUS
<1>5. Retried([par EXCEPT ![attempt].st = "over"], TRUE, why) /\ (why = "exists" => \E k \in Attempts : k # attempt /\ AtWork(par[k]))
  BY <1>2, <1>4
<1> QED
  BY <1>1, <1>3, <1>5, RetriedParStep

LEMMA AttemptLostStep ==
    ASSUME StagingInv, AttemptLost
    PROVE  StagingInv'
<1> USE DEF StagingInv
<1>1. phase \in {"prepare", "par2"} /\ UNCHANGED <<input, disk, pdisk, staged, sets, plan, checked, tapes>>
  BY DEF AttemptLost
<1>2. mishaps' \in 0..MaxMishaps
  BY StagingAssumption DEF AttemptLost, Mishap, PhaseInv
<1>3. CASE phase = "prepare"
  <2>1. Retried([prep EXCEPT ![attempt].st = "lost"], TRUE, "timeout")
    BY <1>3 DEF AttemptLost, Activity
  <2>2. AttemptInv'
    BY <1>1, <1>3, <2>1, RetriedPrep
  <2>3. phase' \in {"prepare", "failed"} /\ (reason' = reason \/ (phase' = "failed" /\ reason' # "exists"))
    BY <1>3, <2>1 DEF Retried
  <2>4. staged' \in 0..MaxAttempts /\ DOMAIN disk' = Archives /\ \A a \in Archives : IsOver(disk'[a], Slices(a))
    BY <1>1 DEF PhaseInv, FilesInv
  <2> QED
    BY <1>1, <1>2, <1>3, <2>2, <2>3, <2>4, EarlyStep
<1>4. CASE phase = "par2"
  <2>1. Retried([par EXCEPT ![attempt].st = "lost"], TRUE, "timeout")
    BY <1>4 DEF AttemptLost, Activity
  <2>2. PICK why : why = "timeout"
    OBVIOUS
  <2>3. Retried([par EXCEPT ![attempt].st = "lost"], TRUE, why) /\ (why = "exists" => \E k \in Attempts : k # attempt /\ AtWork(par[k]))
    BY <2>1, <2>2
  <2> QED
    BY <1>1, <1>2, <1>4, <2>3, RetriedParStep
<1> QED
  BY <1>1, <1>3, <1>4

-----------------------------------------------------------------------------
(* The sets are measured *)

LEMMA MeasuredFacts ==
    ASSUME StagingInv, NEW k \in Attempts
    PROVE  /\ DOMAIN Measured(k) = {} => EmptyAt(pdisk, par[k].a)
           /\ phase = "par2" /\ DOMAIN Measured(k) # {} =>
                 /\ IsOver(Measured(k), SetFiles)
                 /\ Good(par[k].a) => \A f \in SetFiles : Measured(k)[f] \in Parts \cup Of(par[k].a)
<1>1. PICK made : made = pdisk[par[k].a]
  OBVIOUS
<1>2. PICK F : F = {f \in SetFiles : made[f] # None}
  OBVIOUS
<1>3. Measured(k) = [f \in F |-> made[f]]
  BY <1>1, <1>2 DEF Measured
<1>4. DOMAIN Measured(k) = F
  BY <1>3
<1>5. F = {} => EmptyAt(pdisk, par[k].a)
  BY <1>1, <1>2 DEF EmptyAt
<1>6. ASSUME phase = "par2", F # {}
      PROVE  /\ IsOver(Measured(k), SetFiles)
             /\ Good(par[k].a) => \A f \in SetFiles : Measured(k)[f] \in Parts \cup Of(par[k].a)
  <2>1. par[k].a \in Archives
    BY ParFacts
  <2>2. \A f, g \in SetFiles : made[f] = None => made[g] = None
    BY <1>1, <1>6, <2>1 DEF StagingInv, FilesInv
  <2>3. F = SetFiles
    BY <1>2, <1>6, <2>2
  <2>4. IsOver(Measured(k), SetFiles) /\ \A f \in SetFiles : Measured(k)[f] = made[f] /\ made[f] # None
    BY <1>2, <1>3, <2>3 DEF IsOver
  <2>5. Good(par[k].a) => \A f \in SetFiles : made[f] \in {None} \cup Parts \cup Of(par[k].a)
    BY <1>1, <1>6, <2>1 DEF StagingInv, SetInv, FilesOK
  <2> QED
    BY <2>4, <2>5
<1> QED
  BY <1>4, <1>5, <1>6

\* The sets read so far, with the one of the archive the attempt is at.
ReadsMore(p, made, all) == GotOK(p) /\ p.a \in Nat /\ IsOver(made, SetFiles) /\ all = Append(p.got, made)

LEMMA GotMore ==
    ASSUME NEW p, NEW made, NEW all, ReadsMore(p, made, all)
    PROVE  /\ Len(all) = p.a /\ (\E S : all \in Seq(S)) /\ all[p.a] = made
           /\ \A a \in 1..p.a : IsOver(all[a], SetFiles)
           /\ \A a \in 1..p.a - 1 : all[a] = p.got[a]
<1> USE DEF ReadsMore
<1>1. PICK S : p.got \in Seq(S)
  BY DEF GotOK
<1>2. PICK T : T = S \cup {made}
  OBVIOUS
<1>3. p.got \in Seq(T) /\ made \in T
  BY <1>1, <1>2
<1>4. Len(p.got) = p.a - 1
  BY DEF GotOK
<1>5. all \in Seq(T) /\ Len(all) = p.a /\ all[p.a] = made /\ \A a \in 1..p.a - 1 : all[a] = p.got[a]
  BY <1>3, <1>4
<1>6. ASSUME NEW a \in 1..p.a PROVE IsOver(all[a], SetFiles)
  <2>1. CASE a = p.a
    BY <1>5, <2>1
  <2>2. CASE a \in 1..p.a - 1
    <3>1. IsOver(p.got[a], SetFiles)
      BY <2>2 DEF GotOK
    <3> QED
      BY <1>5, <2>2, <3>1
  <2>3. PICK n \in Nat : n = p.a
    OBVIOUS
  <2>4. a = n \/ a \in 1..n - 1
    BY <2>3
  <2> QED
    BY <2>1, <2>2, <2>3, <2>4
<1> QED
  BY <1>5, <1>6

LEMMA MeasureNext ==
    ASSUME StagingInv, NEW k \in Attempts, PAR2Measure(k), DOMAIN Measured(k) # {}, par[k].a < Len(input.slices)
    PROVE  StagingInv'
<1>1. PICK b : b = par[k].a
  OBVIOUS
<1>2. PICK all : all = Append(par[k].got, Measured(k))
  OBVIOUS
<1>3. PICK r : r = [par[k] EXCEPT !.a = b + 1, !.pc = "purge", !.seen = <<>>, !.got = all]
  OBVIOUS
<1>a. PICK q : q = pdisk[b]
  OBVIOUS
<1>4. /\ Alive(k, par) /\ par[k].pc = "measure" /\ par' = [par EXCEPT ![k] = r] /\ pdisk' = pdisk
      /\ UNCHANGED <<input, phase, attempt, prep, disk, staged, sets, plan, checked, tapes, reason, mishaps>>
  BY <1>1, <1>2, <1>3 DEF PAR2Measure
<1>5. /\ ParOK(par[k], k, phase, attempt) /\ b \in Archives /\ DOMAIN par[k] = {"st", "a", "pc", "seen", "got"}
      /\ phase = "par2" => GotOK(par[k]) /\ \A a \in Archives : Good(a) => WorkOK(par[k], a)
      /\ attempt \in Attempts /\ \A a \in Archives : a \in Nat
      /\ IsOver(q, SetFiles) /\ DOMAIN pdisk = Archives
  BY <1>1, <1>a, ParFacts
<1>6. /\ DOMAIN r = {"st", "a", "pc", "seen", "got"} /\ r.st = par[k].st /\ r.a = b + 1 /\ r.pc = "purge" /\ r.got = all
  BY <1>3, <1>5
<1>7. r.a \in Archives /\ Archives = 1..Num
  BY <1>1, <1>5, <1>6, ArchiveFacts DEF StagingInv, Num
<1>8. par'[k] = r /\ \A j \in Attempts : j # k => par'[j] = par[j]
  BY <1>4, ParSet DEF StagingInv
<1>9. ASSUME phase = "par2" PROVE GotOK(r) /\ \A a \in Archives : Good(a) => WorkOK(r, a)
  <2>1. IsOver(Measured(k), SetFiles) /\ (Good(b) => \A f \in SetFiles : Measured(k)[f] \in Parts \cup Of(b))
    BY <1>1, <1>9, MeasuredFacts
  <2>2. /\ Len(all) = b /\ (\E S : all \in Seq(S)) /\ all[b] = Measured(k)
        /\ \A a \in 1..b : IsOver(all[a], SetFiles)
        /\ \A a \in 1..b - 1 : all[a] = par[k].got[a]
    <3>1. PICK p : p = par[k]
      OBVIOUS
    <3>2. PICK made : made = Measured(k)
      OBVIOUS
    <3>3. ReadsMore(p, made, all) /\ p.a = b
      BY <1>1, <1>2, <1>5, <1>9, <2>1, <3>1, <3>2 DEF ReadsMore
    <3>4. /\ Len(all) = p.a /\ (\E S : all \in Seq(S)) /\ all[p.a] = made
          /\ \A a \in 1..p.a : IsOver(all[a], SetFiles)
          /\ \A a \in 1..p.a - 1 : all[a] = p.got[a]
      BY <3>3, GotMore
    <3> QED
      BY <3>1, <3>2, <3>3, <3>4
  <2>3. GotOK(r)
    BY <1>5, <1>6, <2>2 DEF GotOK
  <2>4. ASSUME NEW a \in Archives, Good(a) PROVE WorkOK(r, a)
    <3>1. WorkOK(par[k], a)
      BY <1>5, <1>9, <2>4
    <3>2. CASE a = b
      BY <1>6, <2>1, <2>2, <2>4, <3>2 DEF WorkOK
    <3>3. CASE a < b
      <4>1. a \in 1..b - 1
        BY <1>5, <1>7, <3>3
      <4> QED
        BY <1>1, <1>6, <2>2, <3>1, <3>3, <4>1 DEF WorkOK
    <3>4. CASE a > b
      BY <1>5, <1>6, <3>4 DEF WorkOK
    <3> QED
      BY <1>5, <3>2, <3>3, <3>4
  <2> QED
    BY <2>3, <2>4
<1>10. PartInv'
  BY <1>1, <1>4, <1>6, FilesAlone
<1>11. phase = "par2" => /\ \A f, g \in SetFiles : q[f] = None => q[g] = None
                         /\ Good(b) => \A f \in SetFiles : q[f] \in {None} \cup Parts \cup Of(b)
  BY <1>a, <1>5 DEF StagingInv, FilesInv, SetInv, FilesOK
<1>12. ASSUME phase = "par2" PROVE \E G \in SUBSET Attempts : Causes(par', pdisk', attempt, G)
  <2>1. PICK F \in SUBSET Attempts : Causes(par, pdisk, attempt, F)
    BY <1>12 DEF StagingInv, RetryInv
  <2>2. \A j \in Attempts : par[j].a \in Archives
    BY ParFacts
  <2>3. par[k].st \in {"run", "lost"}
    BY <1>4, AliveFacts
  <2>4. Moving(Archives, par, par', pdisk, pdisk', F, k)
    BY <1>1, <1>4, <1>5, <1>6, <1>8, <2>1, <2>2, <2>3 DEF Moving, Living, AtWork, MetBy, PurgedBy
  <2>5. Causes(par', pdisk', attempt, F)
    BY <2>1, <2>4, CausesMove
  <2> QED
    BY <2>1, <2>5
<1>13. ParChange(k, r, b, q)
  BY <1>a, <1>4, <1>5, <1>6, <1>7, <1>9, <1>10, <1>11, <1>12 DEF ParChange
<1> QED
  BY <1>5, <1>13, ParStep

LEMMA MeasureLostLast ==
    ASSUME StagingInv, NEW k \in Attempts, PAR2Measure(k), DOMAIN Measured(k) # {}, ~(par[k].a < Len(input.slices)), par[k].st = "lost"
    PROVE  StagingInv'
<1>1. PICK b : b = par[k].a
  OBVIOUS
<1>3. PICK r : r = [par[k] EXCEPT !.st = "over", !.pc = "end"]
  OBVIOUS
<1>a. PICK q : q = pdisk[b]
  OBVIOUS
<1>4. /\ Alive(k, par) /\ par[k].pc = "measure" /\ par' = [par EXCEPT ![k] = r] /\ pdisk' = pdisk
      /\ UNCHANGED <<input, phase, attempt, prep, disk, staged, sets, plan, checked, tapes, reason, mishaps>>
  BY <1>3 DEF PAR2Measure
<1>5. /\ ParOK(par[k], k, phase, attempt) /\ b \in Archives /\ DOMAIN par[k] = {"st", "a", "pc", "seen", "got"}
      /\ phase = "par2" => GotOK(par[k]) /\ \A a \in Archives : Good(a) => WorkOK(par[k], a)
      /\ attempt \in Attempts /\ \A a \in Archives : a \in Nat
      /\ IsOver(q, SetFiles) /\ DOMAIN pdisk = Archives
  BY <1>1, <1>a, ParFacts
<1>6. /\ DOMAIN r = {"st", "a", "pc", "seen", "got"} /\ r.st = "over" /\ r.a = b /\ r.pc = "end" /\ r.got = par[k].got
  BY <1>1, <1>3, <1>5
<1>8. par'[k] = r /\ \A j \in Attempts : j # k => par'[j] = par[j]
  BY <1>4, ParSet DEF StagingInv
<1>9. phase = "par2" => GotOK(r) /\ \A a \in Archives : Good(a) => WorkOK(r, a)
  BY <1>1, <1>5, <1>6, GotKept
<1>10. PartInv'
  BY <1>1, <1>4, <1>6, FilesAlone
<1>11. phase = "par2" => /\ \A f, g \in SetFiles : q[f] = None => q[g] = None
                         /\ Good(b) => \A f \in SetFiles : q[f] \in {None} \cup Parts \cup Of(b)
  BY <1>a, <1>5 DEF StagingInv, FilesInv, SetInv, FilesOK
<1>12. ASSUME phase = "par2" PROVE \E G \in SUBSET Attempts : Causes(par', pdisk', attempt, G)
  <2>1. PICK F \in SUBSET Attempts : Causes(par, pdisk, attempt, F)
    BY <1>12 DEF StagingInv, RetryInv
  <2>2. \A j \in Attempts : par[j].a \in Archives
    BY ParFacts
  <2>4. Moving(Archives, par, par', pdisk, pdisk', F, k)
    BY <1>1, <1>4, <1>5, <1>6, <1>8, <2>1, <2>2 DEF Moving, Living, AtWork, MetBy, PurgedBy
  <2>5. Causes(par', pdisk', attempt, F)
    BY <2>1, <2>4, CausesMove
  <2> QED
    BY <2>1, <2>5
<1>13. ParChange(k, r, b, q)
  BY <1>a, <1>4, <1>5, <1>6, <1>9, <1>10, <1>11, <1>12 DEF ParChange
<1> QED
  BY <1>5, <1>13, ParStep

LEMMA NothingVerified ==
    ASSUME StagingInv, checked = AtFirst
    PROVE  /\ checked[1] = 1 /\ checked[2] = 0 /\ \A t \in DOMAIN plan : ~(t < checked[1])
           /\ \A n \in 1..checked[2] : FALSE
<1>1. checked[1] = 1 /\ checked[2] = 0
  BY DEF AtFirst
<1>2. plan \in Seq(Seq(PlanItems(Archives)) \ {<<>>})
  BY PlanTyped DEF StagingInv
<1> QED
  BY <1>1, <1>2

LEMMA MeasureLast ==
    ASSUME StagingInv, NEW k \in Attempts, PAR2Measure(k), DOMAIN Measured(k) # {}, ~(par[k].a < Len(input.slices)), par[k].st = "run"
    PROVE  StagingInv'
<1>1. PICK b : b = par[k].a
  OBVIOUS
<1>2. PICK all : all = Append(par[k].got, Measured(k))
  OBVIOUS
<1>3. PICK r : r = [par[k] EXCEPT !.st = "over", !.pc = "end"]
  OBVIOUS
<1>4. /\ Alive(k, par) /\ par[k].pc = "measure" /\ par' = [par EXCEPT ![k] = r] /\ phase' = "verify" /\ sets' = all
      /\ UNCHANGED <<input, attempt, prep, disk, pdisk, staged, plan, checked, tapes, reason, mishaps>>
  BY <1>2, <1>3 DEF PAR2Measure
<1>5. phase = "par2" /\ k = attempt
  BY <1>4, AliveFacts
<1>6. /\ b \in Archives /\ DOMAIN par[k] = {"st", "a", "pc", "seen", "got"}
      /\ GotOK(par[k]) /\ (\A a \in Archives : Good(a) => WorkOK(par[k], a)) /\ \A a \in Archives : a \in Nat
  BY <1>1, <1>5, ParFacts
<1>7. DOMAIN r = {"st", "a", "pc", "seen", "got"} /\ r.st = "over" /\ r.a = b /\ r.pc = "end"
  BY <1>1, <1>3, <1>6
<1>8. DOMAIN par' = Attempts /\ par'[k] = r /\ \A j \in Attempts : j # k => par'[j] = par[j]
  BY <1>4, ParSet DEF StagingInv
<1>9. Num \in Nat /\ Archives = 1..Num /\ b = Num
  <2>1. Num \in Nat /\ Archives = 1..Num
    BY ArchiveFacts DEF StagingInv
  <2> QED
    BY <1>1, <1>6, <2>1 DEF Num
<1>10. /\ IsOver(Measured(k), SetFiles)
       /\ Good(b) => \A f \in SetFiles : Measured(k)[f] \in Parts \cup Of(b)
  BY <1>1, <1>5, MeasuredFacts
<1>11. /\ Len(all) = b /\ all[b] = Measured(k)
       /\ \A a \in 1..b : IsOver(all[a], SetFiles)
       /\ \A a \in 1..b - 1 : all[a] = par[k].got[a]
  <2>1. PICK p : p = par[k]
    OBVIOUS
  <2>2. PICK made : made = Measured(k)
    OBVIOUS
  <2>3. ReadsMore(p, made, all) /\ p.a = b
    BY <1>1, <1>2, <1>6, <1>10, <2>1, <2>2 DEF ReadsMore
  <2>4. /\ Len(all) = p.a /\ all[p.a] = made
        /\ \A a \in 1..p.a : IsOver(all[a], SetFiles)
        /\ \A a \in 1..p.a - 1 : all[a] = p.got[a]
    BY <2>3, GotMore
  <2> QED
    BY <2>1, <2>2, <2>3, <2>4
<1> USE DEF StagingInv
<1>12. Archives' = Archives /\ Num' = Num /\ \A a : Slices(a)' = Slices(a)
  BY <1>4 DEF Archives, Num, Slices
<1>13. InputInv'
  BY <1>4 DEF InputInv, Archives, PlanItems
<1>14. AttemptInv'
  <2>1. \A p, m, ph, n : PrepOK(p, m, ph, n)' <=> PrepOK(p, m, ph, n)
    BY <1>4 DEF PrepOK, Archives, Slices
  <2>2. \A p, m, ph, n : ParOK(p, m, ph, n)' <=> ParOK(p, m, ph, n)
    BY <1>4 DEF ParOK, Archives
  <2>3. ASSUME NEW j \in Attempts PROVE PrepOK(prep[j], j, "verify", attempt)
    <3>1. PrepOK(prep[j], j, "par2", attempt)
      BY <1>5 DEF AttemptInv
    <3> QED
      BY <3>1 DEF PrepOK
  <2>4. ASSUME NEW j \in Attempts PROVE ParOK(par'[j], j, "verify", attempt)
    <3>1. ParOK(par[j], j, "par2", attempt)
      BY <1>5 DEF AttemptInv
    <3>2. CASE j = k
      BY <1>6, <1>7, <1>8, <3>2 DEF ParOK
    <3>3. CASE j # k
      BY <1>5, <1>8, <3>1, <3>3 DEF ParOK
    <3> QED
      BY <3>2, <3>3
  <2> QED
    BY <1>4, <1>8, <2>1, <2>2, <2>3, <2>4 DEF AttemptInv
<1>15. PhaseInv'
  BY <1>4, <1>5, <1>9, <1>11, <1>12 DEF PhaseInv, PastPack
<1>16. FilesInv'
  BY <1>4, <1>12 DEF FilesInv
<1>17. SetInv'
  <2>1. \A a : (Good(a)' <=> Good(a)) /\ Of(a)' = Of(a) /\ Parts' = Parts
    BY <1>4, <1>12 DEF Good, Of, Parts
  <2>2. ASSUME NEW a \in Archives
        PROVE  IsOver(all[a], SetFiles) /\ (Good(a) => \A f \in SetFiles : all[a][f] \in Parts \cup Of(a))
    <3>1. IsOver(all[a], SetFiles)
      BY <1>9, <1>11
    <3>2. CASE a = b
      BY <1>10, <1>11, <3>1, <3>2
    <3>3. CASE a # b
      <4>1. a \in 1..b - 1 /\ a < par[k].a
        BY <1>1, <1>9, <3>3
      <4>2. Good(a) => \A f \in SetFiles : par[k].got[a][f] \in Parts \cup Of(a)
        BY <1>6, <4>1 DEF WorkOK
      <4> QED
        BY <1>11, <3>1, <4>1, <4>2
    <3> QED
      BY <3>2, <3>3
  <2> QED
    BY <1>4, <1>12, <2>1, <2>2 DEF SetInv
<1>18. PartInv'
  <2>1. ASSUME NEW a \in Archives, NEW f \in SetFiles, NEW j \in Attempts PROVE PartOK(a, f, j)'
    <3>1. PartOK(a, f, j)
      BY <1>5 DEF PartInv, PastPack
    <3>2. ~Purges(a)
      BY <1>1, <1>4, <1>5, <1>9 DEF Purges
    <3>3. CASE j = k
      BY <1>4, <1>5, <3>1, <3>2, <3>3 DEF PartOK
    <3>4. CASE j # k
      BY <1>4, <1>8, <3>1, <3>2, <3>4 DEF PartOK
    <3> QED
      BY <3>3, <3>4
  <2> QED
    BY <1>12, <2>1 DEF PartInv
<1>19. VerifyInv'
  <2>1. checked = AtFirst
    BY <1>5 DEF VerifyInv
  <2>2. checked[1] = 1 /\ checked[2] = 0 /\ (\A t \in DOMAIN plan : ~(t < checked[1])) /\ \A n \in 1..checked[2] : FALSE
    BY <2>1, NothingVerified
  <2> QED
    BY <1>4, <2>1, <2>2 DEF VerifyInv, AtFirst
<1>20. tapes = <<>>
  BY <1>5 DEF PhaseInv
<1>21. TapeInv'
  BY <1>4, <1>20 DEF TapeInv
<1>22. reason # "exists"
  BY <1>5 DEF PhaseInv
<1>23. RetryInv'
  BY <1>4, <1>22 DEF RetryInv
<1> QED
  BY <1>13, <1>14, <1>15, <1>16, <1>17, <1>18, <1>19, <1>21, <1>23

LEMMA PAR2MeasureStep ==
    ASSUME StagingInv, NEW k \in Attempts, PAR2Measure(k)
    PROVE  StagingInv'
<1>1. Alive(k, par) /\ par[k].pc = "measure"
  BY DEF PAR2Measure
<1>2. par[k].st \in {"run", "lost"}
  BY <1>1, AliveFacts
<1>3. CASE DOMAIN Measured(k) = {}
  <2>1. PICK why : why = "no files"
    OBVIOUS
  <2>2. PAR2Ends(k, why) /\ UNCHANGED <<input, disk, pdisk, staged, sets, plan, checked, tapes, mishaps>>
    BY <1>3, <2>1 DEF PAR2Measure
  <2>3. EmptyAt(pdisk, par[k].a) /\ why # "exists"
    BY <1>3, <2>1, MeasuredFacts
  <2> QED
    BY <1>1, <2>2, <2>3, PAR2EndsStep
<1>4. CASE DOMAIN Measured(k) # {} /\ par[k].a < Len(input.slices)
  BY <1>4, MeasureNext
<1>5. CASE DOMAIN Measured(k) # {} /\ ~(par[k].a < Len(input.slices))
  BY <1>2, <1>5, MeasureLast, MeasureLostLast
<1> QED
  BY <1>3, <1>4, <1>5

-----------------------------------------------------------------------------
(* Pack, Verify and Write *)

LEMMA FileDamagedStep ==
    ASSUME StagingInv, FileDamaged
    PROVE  StagingInv'
<1> USE DEF StagingInv
<1>1. phase \in {"pack", "par2", "verify"} /\ checked = AtFirst
      /\ UNCHANGED <<input, phase, attempt, prep, par, staged, sets, plan, checked, tapes, reason>>
  BY DEF FileDamaged
<1>2. mishaps' \in 0..MaxMishaps
  BY StagingAssumption DEF FileDamaged, Mishap, PhaseInv
<1>3. AttemptInv'
  BY <1>1, AttemptsPast
<1>4. PICK c : c = <<0, "damaged">>
  OBVIOUS
<1>5. c # <<staged, "whole">> /\ \A k : c # <<k, "part">>
  BY <1>4
<1>6. ASSUME NEW a \in Archives, NEW s \in Slices(a), disk' = [disk EXCEPT ![a][s] = c], pdisk' = pdisk
      PROVE  StagingInv'
  <2>1. DOMAIN disk' = Archives /\ \A b \in Archives : IsOver(disk'[b], Slices(b))
    BY <1>6, DiskWrite
  <2>2. \A b \in Archives : Good(b)' => Good(b) /\ disk'[b] = disk[b]
    BY <1>1, <1>5, <1>6, GoodBefore
  <2>3. phase \in {"pack"} \cup PastPack => prep'[staged].st = "over"
    BY <1>1 DEF PhaseInv
  <2> QED
    BY <1>1, <1>2, <1>3, <1>6, <2>1, <2>2, <2>3, DiskStep
<1>7. ASSUME NEW a \in Archives, NEW f \in SetFiles, phase = "verify", pdisk' = [pdisk EXCEPT ![a][f] = c], disk' = disk
      PROVE  StagingInv'
  <2>1. PICK q : q = [pdisk[a] EXCEPT ![f] = c]
    OBVIOUS
  <2>2. DOMAIN pdisk' = Archives /\ pdisk'[a] = q /\ \A b \in Archives : b # a => pdisk'[b] = pdisk[b]
    BY <1>7, <2>1, PdiskSet
  <2>3. IsOver(pdisk[a], SetFiles)
    BY DEF FilesInv
  <2>4. IsOver(q, SetFiles) /\ \A g \in SetFiles : q[g] = IF g = f THEN c ELSE pdisk[a][g]
    BY <2>1, <2>3, OverFacts DEF IsOver
  <2>5. Archives' = Archives /\ Num' = Num /\ \A b : Slices(b)' = Slices(b)
    BY <1>1 DEF Archives, Num, Slices
  <2>6. InputInv'
    BY <1>1 DEF InputInv, Archives, PlanItems
  <2>7. PhaseInv'
    BY <1>1, <1>2, <1>7, <2>5 DEF PhaseInv
  <2>8. FilesInv'
    BY <1>1, <1>7, <2>2, <2>4, <2>5 DEF FilesInv
  <2>9. SetInv'
    <3>1. \A b : (Good(b)' <=> Good(b)) /\ Of(b)' = Of(b) /\ Parts' = Parts
      BY <1>1, <1>7, <2>5 DEF Good, Of, Parts
    <3> QED
      BY <1>1, <1>7, <2>5, <3>1 DEF SetInv
  <2>10. PartInv'
    <3>1. ASSUME NEW b \in Archives, NEW g \in SetFiles, NEW j \in Attempts PROVE PartOK(b, g, j)'
      <4>1. PartOK(b, g, j)
        BY <1>7 DEF PartInv, PastPack
      <4>2. pdisk'[b][g] = <<j, "part">> => pdisk[b][g] = <<j, "part">>
        BY <1>5, <2>2, <2>4
      <4> QED
        BY <1>1, <4>1, <4>2 DEF PartOK, Purges
    <3> QED
      BY <2>5, <3>1 DEF PartInv
  <2>11. VerifyInv'
    <3>1. checked[1] = 1 /\ checked[2] = 0 /\ (\A t \in DOMAIN plan : ~(t < checked[1])) /\ \A n \in 1..checked[2] : FALSE
      BY <1>1, NothingVerified
    <3> QED
      BY <1>1, <1>7, <3>1 DEF VerifyInv
  <2>12. tapes = <<>>
    BY <1>7 DEF PhaseInv
  <2>13. TapeInv'
    BY <1>1, <2>12 DEF TapeInv
  <2>14. RetryInv'
    BY <1>1, <1>7 DEF RetryInv
  <2> QED
    BY <1>3, <2>6, <2>7, <2>8, <2>9, <2>10, <2>11, <2>13, <2>14
<1> QED
  BY <1>4, <1>6, <1>7 DEF FileDamaged

\* A step of the workflow past Generate PAR2, which leaves the staged files alone.
LEMMA LateStep ==
    ASSUME StagingInv, UNCHANGED <<input, attempt, prep, par, disk, pdisk, staged, sets, plan>>, mishaps' \in 0..MaxMishaps,
           phase \in {"verify", "write"}, phase' \in {"verify", "write", "done", "failed"}, VerifyInv', TapeInv',
           tapes' # <<>> => phase' \in {"write", "done"}, reason' # "none" => phase' = "failed", reason' # "exists"
    PROVE  StagingInv'
<1> USE DEF StagingInv
<1>0. Archives' = Archives /\ Num' = Num /\ \A b : Slices(b)' = Slices(b)
  BY DEF Archives, Num, Slices
<1>1. InputInv'
  BY DEF InputInv, Archives, PlanItems
<1>2. AttemptInv'
  BY AttemptsPast
<1>3. PhaseInv'
  BY <1>0 DEF PhaseInv, PastPack
<1>4. FilesInv'
  BY <1>0 DEF FilesInv
<1>5. SetInv'
  <2>1. \A b : (Good(b)' <=> Good(b)) /\ Of(b)' = Of(b) /\ Parts' = Parts
    BY <1>0 DEF Good, Of, Parts
  <2> QED
    BY <1>0, <2>1 DEF SetInv
<1>6. PartInv'
  <2>1. ASSUME NEW b \in Archives, NEW g \in SetFiles, NEW j \in Attempts PROVE PartOK(b, g, j)'
    <3>1. PartOK(b, g, j) /\ ~Purges(b)
      BY DEF PartInv, PastPack, Purges
    <3> QED
      BY <3>1 DEF PartOK
  <2> QED
    BY <1>0, <2>1 DEF PartInv
<1>7. RetryInv'
  BY DEF RetryInv
<1> QED
  BY <1>1, <1>2, <1>3, <1>4, <1>5, <1>6, <1>7

LEMMA VerifyArchiveStep ==
    ASSUME StagingInv, VerifyArchive
    PROVE  StagingInv'
<1> USE DEF StagingInv
<1>1. PICK t : t = checked[1]
  OBVIOUS
<1>2. PICK n : n = checked[2] + 1
  OBVIOUS
<1>3. /\ phase = "verify" /\ t <= Len(plan) /\ (\A k \in Attempts : ~Alive(k, prep) /\ ~Alive(k, par))
      /\ UNCHANGED <<input, attempt, prep, par, disk, pdisk, staged, sets, plan, tapes, mishaps>>
  BY <1>1 DEF VerifyArchive
<1>4. /\ plan \in Seq(Seq(PlanItems(Archives)) \ {<<>>})
      /\ \A u \in DOMAIN plan : Len(plan[u]) \in Nat \ {0} /\ DOMAIN plan[u] = 1..Len(plan[u])
  BY PlanTyped
<1>5. Len(plan) \in Nat /\ DOMAIN plan = 1..Len(plan)
  BY <1>4
<1>6. t \in DOMAIN plan /\ t \in Nat /\ checked[2] \in Nat /\ checked[2] < Len(plan[t]) /\ n \in DOMAIN plan[t] /\ n \in Nat
  <2>1. t \in DOMAIN plan /\ t \in Nat /\ checked[2] \in Nat /\ checked[2] < Len(plan[t])
    BY <1>1, <1>3, <1>5 DEF VerifyInv
  <2> QED
    BY <1>2, <1>4, <2>1
<1>7. tapes = <<>> /\ reason = "none" /\ mishaps \in 0..MaxMishaps
  BY <1>3 DEF PhaseInv
<1>8. TapeInv'
  BY <1>3, <1>7 DEF TapeInv
<1>9. /\ \A u \in DOMAIN plan : u < t => \A m \in DOMAIN plan[u] : Verified(u, m)
      /\ \A m \in 1..checked[2] : Verified(t, m)
  BY <1>1, <1>3, <1>6 DEF VerifyInv
<1>10. \A u, m : Verified(u, m)' <=> Verified(u, m)
  BY <1>3 DEF Verified, Matches, Slices
<1>11. CASE phase' = "failed" /\ reason' \in {"checksum", "overflow"} /\ UNCHANGED checked
  <2>1. VerifyInv'
    BY <1>3, <1>11 DEF VerifyInv
  <2> QED
    BY <1>3, <1>7, <1>8, <1>11, <2>1, LateStep
<1>12. CASE /\ Verified(t, n) /\ n < Len(plan[t]) /\ checked' = <<t, n>> /\ UNCHANGED <<phase, reason>>
  <2>1. checked'[1] = t /\ checked'[2] = n
    BY <1>12
  <2>2. \A m \in 1..n : Verified(t, m)
    <3>1. ASSUME NEW m \in 1..n PROVE Verified(t, m)
      <4>1. CASE m = n
        BY <1>12, <4>1
      <4>2. CASE m # n
        <5>1. m \in 1..checked[2]
          BY <1>2, <1>6, <4>2
        <5> QED
          BY <1>9, <5>1
      <4> QED
        BY <4>1, <4>2
    <3> QED
      BY <3>1
  <2>3. \A k \in Attempts : ~Alive(k, prep)' /\ ~Alive(k, par)'
    BY <1>3, <1>12 DEF Alive
  <2>4. /\ checked' = <<checked'[1], checked'[2]>> /\ checked'[1] \in 1..Len(plan) + 1 /\ checked'[2] \in Nat
    BY <1>5, <1>6, <1>12
  <2>5. VerifyInv'
    BY <1>3, <1>6, <1>9, <1>10, <1>12, <2>1, <2>2, <2>3, <2>4 DEF VerifyInv
  <2> QED
    BY <1>3, <1>7, <1>8, <1>12, <2>5, LateStep
<1>13. CASE /\ Verified(t, n) /\ ~(n < Len(plan[t])) /\ checked' = <<t + 1, 0>> /\ UNCHANGED reason
            /\ phase' = IF t = Len(plan) THEN "write" ELSE phase
  <2>1. checked'[1] = t + 1 /\ checked'[2] = 0
    BY <1>13
  <2>2. \A m \in DOMAIN plan[t] : Verified(t, m)
    <3>1. ASSUME NEW m \in DOMAIN plan[t] PROVE Verified(t, m)
      <4>1. CASE m = n
        BY <1>13, <4>1
      <4>2. CASE m # n
        <5>1. m \in 1..checked[2]
          <6>1. DOMAIN plan[t] = 1..Len(plan[t]) /\ Len(plan[t]) \in Nat
            BY <1>4, <1>6
          <6> QED
            BY <1>2, <1>6, <1>13, <4>2, <6>1
        <5> QED
          BY <1>9, <5>1
      <4> QED
        BY <4>1, <4>2
    <3> QED
      BY <3>1
  <2>3. \A u \in DOMAIN plan : u < t + 1 => \A m \in DOMAIN plan[u] : Verified(u, m)
    <3>1. ASSUME NEW u \in DOMAIN plan, u < t + 1 PROVE u < t \/ u = t
      BY <1>5, <1>6, <3>1
    <3> QED
      BY <1>9, <2>2, <3>1
  <2>4. phase' \in {"verify", "write"} /\ (phase' = "write" => t = Len(plan))
    BY <1>3, <1>13
  <2>5. \A k \in Attempts : ~Alive(k, prep)' /\ ~Alive(k, par)'
    BY <1>3, <2>4 DEF Alive
  <2>6. /\ checked' = <<checked'[1], checked'[2]>> /\ checked'[1] \in 1..Len(plan) + 1 /\ checked'[2] \in Nat
    BY <1>5, <1>6, <1>13
  <2>7. t + 1 \in DOMAIN plan => 0 < Len(plan[t + 1])
    BY <1>4
  <2>8. \A m \in 1..0 : FALSE
    OBVIOUS
  <2>9. VerifyInv'
    BY <1>3, <1>10, <2>1, <2>3, <2>4, <2>5, <2>6, <2>7, <2>8 DEF VerifyInv
  <2> QED
    BY <1>3, <1>7, <1>8, <1>13, <2>4, <2>9, LateStep
<1> QED
  BY <1>1, <1>2, <1>11, <1>12, <1>13 DEF VerifyArchive, Verified

LEMMA WriteTapeStep ==
    ASSUME StagingInv, WriteTape
    PROVE  StagingInv'
<1> USE DEF StagingInv
<1>1. PICK t : t = Len(tapes) + 1
  OBVIOUS
<1>2. PICK e : e = [i \in DOMAIN plan[t] |->
         [index |-> plan[t][i].index, slices |-> disk[plan[t][i].index], par2 |-> pdisk[plan[t][i].index],
          manifest |-> [by |-> staged, par2 |-> sets[plan[t][i].index]]]]
  OBVIOUS
<1>3. DOMAIN ArchivesForTape(t) = DOMAIN plan[t] /\ \A i \in DOMAIN plan[t] : ArchivesForTape(t)[i] = plan[t][i].index
  BY DEF ArchivesForTape
<1>4. /\ phase = "write" /\ t <= Len(plan) /\ tapes' = Append(tapes, e) /\ phase' = (IF t = Len(plan) THEN "done" ELSE phase)
      /\ UNCHANGED <<input, attempt, prep, par, disk, pdisk, staged, sets, plan, checked, reason, mishaps>>
  BY <1>1, <1>2, <1>3 DEF WriteTape
<1>5. PICK S : tapes \in Seq(S)
  BY DEF TapeInv
<1>6. PICK T : T = S \cup {e}
  OBVIOUS
<1>7. tapes \in Seq(T) /\ e \in T
  BY <1>5, <1>6
<1>8. tapes' \in Seq(T) /\ Len(tapes') = t /\ tapes'[t] = e /\ \A u \in 1..t - 1 : tapes'[u] = tapes[u]
  BY <1>1, <1>4, <1>7
<1>9. DOMAIN tapes = 1..t - 1 /\ DOMAIN tapes' = 1..t /\ t \in Nat
  BY <1>1, <1>7, <1>8
<1>10. TapeInv'
  <2>1. ASSUME NEW u \in DOMAIN tapes'
        PROVE  tapes'[u] = [i \in DOMAIN plan[u] |->
                  [index |-> plan[u][i].index, slices |-> disk[plan[u][i].index], par2 |-> pdisk[plan[u][i].index],
                   manifest |-> [by |-> staged, par2 |-> sets[plan[u][i].index]]]]
    <3>1. CASE u = t
      BY <1>2, <1>8, <3>1
    <3>2. CASE u \in 1..t - 1
      BY <1>8, <1>9, <3>2 DEF TapeInv
    <3> QED
      BY <1>9, <3>1, <3>2
  <2>2. \E X : tapes' \in Seq(X)
    BY <1>8
  <2> QED
    BY <1>4, <1>8, <2>1, <2>2 DEF TapeInv
<1>11. VerifyInv'
  <2>1. \A u, m : Verified(u, m)' <=> Verified(u, m)
    BY <1>4 DEF Verified, Matches, Slices
  <2>2. phase' \in {"write", "done"}
    BY <1>4
  <2>3. \A k \in Attempts : ~Alive(k, prep) /\ ~Alive(k, par)
    BY <1>4 DEF VerifyInv
  <2>4. \A k \in Attempts : ~Alive(k, prep)' /\ ~Alive(k, par)'
    BY <1>4, <2>2, <2>3 DEF Alive
  <2> QED
    BY <1>4, <2>1, <2>2, <2>4 DEF VerifyInv
<1>12. reason = "none" /\ mishaps' \in 0..MaxMishaps /\ phase' \in {"write", "done"}
  BY <1>4 DEF PhaseInv
<1> QED
  BY <1>4, <1>10, <1>11, <1>12, LateStep

LEMMA NoPAR2Facts ==
    ASSUME InputInv, NEW p, p.a = 1, p.pc = "purge", p.got = <<>>
    PROVE  GotOK(p) /\ \A a \in Archives : WorkOK(p, a)
<1>1. <<>> \in Seq({}) /\ Len(<<>>) = 0
  OBVIOUS
<1>2. Len(p.got) = p.a - 1 /\ (\E S : p.got \in Seq(S))
  BY <1>1
<1>3. \A a \in 1..p.a - 1 : FALSE
  OBVIOUS
<1>4. \A a \in Archives : ~(a < 1)
  BY ArchiveFacts
<1> QED
  BY <1>2, <1>3, <1>4 DEF GotOK, WorkOK

LEMMA PackPhaseStep ==
    ASSUME StagingInv, PackPhase
    PROVE  StagingInv'
<1> USE DEF StagingInv
<1>1. phase = "pack" /\ UNCHANGED <<input, prep, disk, pdisk, staged, sets, checked, tapes, mishaps>>
  BY DEF PackPhase
<1>2. Archives' = Archives /\ Num' = Num /\ \A b : Slices(b)' = Slices(b)
  BY <1>1 DEF Archives, Num, Slices
<1>3. InputInv'
  BY <1>1 DEF InputInv, Archives, PlanItems
<1>4. FilesInv'
  <2>1. pdisk = [a \in Archives |-> [f \in SetFiles |-> None]]
    BY <1>1 DEF PhaseInv
  <2> QED
    BY <1>1, <1>2, <2>1 DEF FilesInv
<1>5. tapes = <<>> /\ reason = "none" /\ checked = AtFirst
  BY <1>1 DEF PhaseInv, VerifyInv
<1>6. TapeInv'
  <2>1. Len(plan') \in Nat
    BY <1>1 DEF PackPhase, InputInv, PhaseInv
  <2>2. \E S : tapes \in Seq(S)
    BY DEF TapeInv
  <2>3. Len(tapes) = 0 /\ \A t \in DOMAIN tapes : FALSE
    BY <1>5
  <2> QED
    BY <1>1, <1>2, <2>1, <2>2, <2>3 DEF TapeInv
<1>7. CASE input.pack.fits
  <2>1. plan' = input.pack.tapes /\ phase' = "par2" /\ attempt' = 1 /\ reason' = reason /\ par' = [par EXCEPT ![1].st = "run"]
    BY <1>7 DEF PackPhase
  <2>2. \A k \in Attempts : par[k] = NoPAR2
    BY <1>1 DEF AttemptInv, ParOK
  <2>3. 1 \in Attempts /\ DOMAIN par = Attempts /\ \A k \in Attempts : k \in Nat
    BY AttemptNumbers DEF AttemptInv
  <2>4. PICK r : r = [NoPAR2 EXCEPT !.st = "run"]
    OBVIOUS
  <2>5. DOMAIN par' = Attempts /\ par'[1] = r /\ \A k \in Attempts : k # 1 => par'[k] = NoPAR2
    BY <2>1, <2>2, <2>3, <2>4
  <2>6. DOMAIN r = {"st", "a", "pc", "seen", "got"} /\ r.st = "run" /\ r.a = 1 /\ r.pc = "purge" /\ r.got = <<>>
    BY <2>4 DEF NoPAR2
  <2>7. AttemptInv'
    <3>1. \A p, m, ph, n : PrepOK(p, m, ph, n)' <=> PrepOK(p, m, ph, n)
      BY <1>1 DEF PrepOK, Archives, Slices
    <3>2. \A p, m, ph, n : ParOK(p, m, ph, n)' <=> ParOK(p, m, ph, n)
      BY <1>1 DEF ParOK, Archives
    <3>3. ASSUME NEW j \in Attempts PROVE PrepOK(prep[j], j, "par2", 1)
      <4>1. PrepOK(prep[j], j, "pack", attempt)
        BY <1>1 DEF AttemptInv
      <4> QED
        BY <4>1 DEF PrepOK
    <3>4. ASSUME NEW j \in Attempts PROVE ParOK(par'[j], j, "par2", 1)
      <4>1. 1 \in Archives
        BY ArchiveFacts
      <4>2. CASE j = 1
        BY <2>3, <2>5, <2>6, <4>1, <4>2 DEF ParOK
      <4>3. CASE j # 1
        BY <2>3, <2>5, <4>1, <4>3 DEF ParOK, NoPAR2
      <4> QED
        BY <4>2, <4>3
    <3> QED
      BY <1>1, <2>1, <2>3, <2>5, <3>1, <3>2, <3>3, <3>4 DEF AttemptInv
  <2>8. PhaseInv'
    BY <1>1, <1>2, <1>5, <2>1 DEF PhaseInv, PastPack
  <2>9. pdisk = [a \in Archives |-> [f \in SetFiles |-> None]]
    BY <1>1 DEF PhaseInv
  <2>10. SetInv'
    <3>1. \A p, a : WorkOK(p, a)' <=> WorkOK(p, a)
      BY <1>1 DEF WorkOK, Parts, Of
    <3>2. \A p : GotOK(p)' <=> GotOK(p)
      BY DEF GotOK
    <3>3. \A a \in Archives : FilesOK(a)'
      BY <1>1, <2>9 DEF FilesOK
    <3>4. ASSUME NEW j \in Attempts PROVE GotOK(par'[j]) /\ \A a \in Archives : WorkOK(par'[j], a)
      <4>1. PICK p : p = par'[j]
        OBVIOUS
      <4>2. p.a = 1 /\ p.pc = "purge" /\ p.got = <<>>
        BY <2>5, <2>6, <4>1 DEF NoPAR2
      <4> QED
        BY <4>1, <4>2, NoPAR2Facts
    <3> QED
      BY <1>2, <2>1, <3>1, <3>2, <3>3, <3>4 DEF SetInv
  <2>11. PartInv'
    <3>1. \A a \in Archives : \A f \in SetFiles : pdisk'[a][f] = None
      BY <1>1, <2>9
    <3>2. \A k : None # <<k, "part">>
      BY DEF None
    <3>3. ASSUME NEW a \in Archives, NEW f \in SetFiles, NEW k \in Attempts PROVE PartOK(a, f, k)'
      <4>1. pdisk'[a][f] # <<k, "part">>
        BY <3>1, <3>2
      <4> QED
        BY <4>1 DEF PartOK
    <3> QED
      BY <1>2, <3>3 DEF PartInv
  <2>12. VerifyInv'
    <3>1. checked' = <<1, 0>> /\ checked'[1] = 1 /\ checked'[2] = 0
      BY <1>1, <1>5 DEF AtFirst
    <3>2. plan' \in Seq(Seq(PlanItems(Archives)) \ {<<>>})
      BY <2>1 DEF InputInv
    <3>3. \A t \in DOMAIN plan' : Len(plan'[t]) \in Nat \ {0}
      <4>1. \A x \in Seq(PlanItems(Archives)) \ {<<>>} : Len(x) \in Nat \ {0}
        OBVIOUS
      <4>2. \A t \in DOMAIN plan' : plan'[t] \in Seq(PlanItems(Archives)) \ {<<>>}
        BY <3>2
      <4> QED
        BY <4>1, <4>2
    <3>4. Len(plan') \in Nat /\ 1 \in 1..Len(plan') + 1
      BY <3>2
    <3> QED
      BY <2>1, <3>1, <3>3, <3>4 DEF VerifyInv, AtFirst
  <2>13. RetryInv'
    <3>1. Causes(par', pdisk', 1, {1})
      BY <2>5, <2>6 DEF Causes
    <3> QED
      BY <1>5, <2>1, <2>3, <3>1 DEF RetryInv
  <2> QED
    BY <1>3, <1>4, <1>6, <2>7, <2>8, <2>10, <2>11, <2>12, <2>13
<1>8. CASE ~input.pack.fits
  <2>1. phase' = "failed" /\ reason' = "capacity" /\ UNCHANGED <<plan, attempt, par>>
    BY <1>8 DEF PackPhase
  <2>2. AttemptInv'
    BY <1>1, <2>1, AttemptsPast
  <2>3. PhaseInv'
    BY <1>1, <1>2, <1>5, <2>1 DEF PhaseInv, PastPack
  <2>4. SetInv' /\ PartInv'
    BY <2>1 DEF SetInv, PartInv, PastPack
  <2>5. VerifyInv'
    BY <1>1, <2>1 DEF VerifyInv
  <2>6. RetryInv'
    BY <2>1 DEF RetryInv
  <2> QED
    BY <1>3, <1>4, <1>6, <2>2, <2>3, <2>4, <2>5, <2>6
<1> QED
  BY <1>7, <1>8

-----------------------------------------------------------------------------
(* The worker dies *)

\* What is left of attempt p when the worker that runs it dies.
Dead(p) == IF p.st \in {"run", "lost"} THEN [p EXCEPT !.st = "over"] ELSE p

LEMMA DeadPrep ==
    ASSUME NEW p, NEW k, NEW ph, NEW n, PrepOK(p, k, ph, n)
    PROVE  /\ DOMAIN Dead(p) = {"st", "a", "s", "pc"} /\ Dead(p).st \in {"none", "over"}
           /\ Dead(p).a = p.a /\ Dead(p).s = p.s /\ Dead(p).pc = p.pc
           /\ p.st = "over" => Dead(p).st = "over"
           /\ p = NoPrepare => Dead(p) = NoPrepare
<1>1. CASE p.st \in {"run", "lost"}
  <2>1. PICK q : q = [p EXCEPT !.st = "over"]
    OBVIOUS
  <2>2. DOMAIN q = {"st", "a", "s", "pc"} /\ q.st = "over" /\ q.a = p.a /\ q.s = p.s /\ q.pc = p.pc
    BY <2>1 DEF PrepOK
  <2>3. Dead(p) = q /\ p # NoPrepare
    BY <1>1, <2>1 DEF Dead, NoPrepare
  <2> QED
    BY <2>2, <2>3
<1>2. CASE p.st \notin {"run", "lost"}
  BY <1>2 DEF Dead, PrepOK
<1> QED
  BY <1>1, <1>2

LEMMA DeadPar ==
    ASSUME NEW p, NEW k, NEW ph, NEW n, ParOK(p, k, ph, n)
    PROVE  /\ DOMAIN Dead(p) = {"st", "a", "pc", "seen", "got"} /\ Dead(p).st \in {"none", "stopped", "over"}
           /\ Dead(p).a = p.a /\ Dead(p).pc = p.pc /\ Dead(p).seen = p.seen /\ Dead(p).got = p.got
           /\ p = NoPAR2 => Dead(p) = NoPAR2
<1>1. CASE p.st \in {"run", "lost"}
  <2>1. PICK q : q = [p EXCEPT !.st = "over"]
    OBVIOUS
  <2>2. DOMAIN q = {"st", "a", "pc", "seen", "got"} /\ q.st = "over" /\ q.a = p.a /\ q.pc = p.pc /\ q.seen = p.seen /\ q.got = p.got
    BY <2>1 DEF ParOK
  <2>3. Dead(p) = q /\ p # NoPAR2
    BY <1>1, <2>1 DEF Dead, NoPAR2
  <2> QED
    BY <2>2, <2>3
<1>2. CASE p.st \notin {"run", "lost"}
  BY <1>2 DEF Dead, ParOK
<1> QED
  BY <1>1, <1>2

\* Prepare's worker dies: the next attempt begins, or the run fails.
LEMMA CrashInPrepare ==
    ASSUME StagingInv, WorkerCrashes, phase = "prepare"
    PROVE  StagingInv'
<1> USE DEF StagingInv
<1>1. PICK P : P = [k \in Attempts |-> Dead(prep[k])]
  OBVIOUS
<1>2. PICK R : R = [k \in Attempts |-> Dead(par[k])]
  OBVIOUS
<1>3. /\ UNCHANGED <<input, disk, pdisk, staged, sets, plan, tapes, checked>>
      /\ IF attempt < MaxAttempts
         THEN attempt' = attempt + 1 /\ UNCHANGED <<phase, reason>> /\ prep' = [P EXCEPT ![attempt + 1].st = "run"] /\ par' = par
         ELSE phase' = "failed" /\ reason' = "timeout" /\ UNCHANGED attempt /\ prep' = P /\ par' = R
  BY <1>1, <1>2 DEF WorkerCrashes, Alive, Dead
<1>4. mishaps' \in 0..MaxMishaps
  BY StagingAssumption DEF WorkerCrashes, Mishap, PhaseInv
<1>5. attempt \in Attempts /\ DOMAIN prep = Attempts /\ DOMAIN par = Attempts
  BY DEF AttemptInv
<1>6. \A p, k, ph, n : PrepOK(p, k, ph, n)' <=> PrepOK(p, k, ph, n)
  BY <1>3 DEF PrepOK, Archives, Slices
<1>7. \A p, k, ph, n : ParOK(p, k, ph, n)' <=> ParOK(p, k, ph, n)
  BY <1>3 DEF ParOK, Archives
<1>8. ASSUME NEW j \in Attempts
      PROVE  /\ PrepOK(prep[j], j, "prepare", attempt) /\ par[j] = NoPAR2 /\ R[j] = NoPAR2 /\ P[j] = Dead(prep[j])
             /\ DOMAIN P[j] = {"st", "a", "s", "pc"} /\ P[j].st \in {"none", "over"}
             /\ P[j].a \in Archives /\ P[j].s \in Slices(P[j].a) /\ P[j].pc \in {"create", "write", "end"}
             /\ prep[j] = NoPrepare => P[j] = NoPrepare
  <2>1. PrepOK(prep[j], j, "prepare", attempt) /\ ParOK(par[j], j, "prepare", attempt)
    BY DEF AttemptInv
  <2>2. par[j] = NoPAR2
    BY <2>1 DEF ParOK
  <2>3. P[j] = Dead(prep[j]) /\ R[j] = Dead(par[j])
    BY <1>1, <1>2
  <2>4. R[j] = NoPAR2
    BY <2>1, <2>2, <2>3, DeadPar
  <2>5. /\ DOMAIN P[j] = {"st", "a", "s", "pc"} /\ P[j].st \in {"none", "over"}
        /\ P[j].a = prep[j].a /\ P[j].s = prep[j].s /\ P[j].pc = prep[j].pc
        /\ prep[j] = NoPrepare => P[j] = NoPrepare
    BY <2>1, <2>3, DeadPrep
  <2> QED
    BY <2>1, <2>2, <2>3, <2>4, <2>5 DEF PrepOK
<1>9. ASSUME NEW j \in Attempts PROVE ParOK(NoPAR2, j, "prepare", attempt) /\ \A ph \in {"prepare", "failed"} : \A n : ParOK(NoPAR2, j, ph, n)
  <2>1. ParOK(NoPAR2, j, "prepare", attempt)
    BY <1>8 DEF AttemptInv
  <2> QED
    BY <2>1 DEF ParOK, NoPAR2
<1>10. AttemptInv' /\ phase' \in {"prepare", "failed"} /\ (reason' = reason \/ (phase' = "failed" /\ reason' # "exists"))
  <2>1. CASE attempt < MaxAttempts
    <3>1. attempt' = attempt + 1 /\ phase' = "prepare" /\ reason' = reason /\ prep' = [P EXCEPT ![attempt + 1].st = "run"] /\ par' = par
      BY <1>3, <2>1
    <3>2. attempt' \in Attempts /\ attempt \in Nat /\ \A j \in Attempts : j \in Nat
      BY <1>5, <2>1, <3>1, AttemptNumbers
    <3>3. P[attempt + 1] = NoPrepare
      <4>1. attempt + 1 \in Attempts /\ attempt + 1 > attempt
        BY <3>1, <3>2
      <4>2. prep[attempt + 1] = NoPrepare
        BY <1>8, <4>1 DEF PrepOK
      <4> QED
        BY <1>8, <4>1, <4>2
    <3>4. PICK r : r = [NoPrepare EXCEPT !.st = "run"]
      OBVIOUS
    <3>5. DOMAIN prep' = Attempts /\ prep'[attempt + 1] = r /\ \A j \in Attempts : j # attempt + 1 => prep'[j] = P[j]
      BY <1>1, <3>1, <3>2, <3>3, <3>4
    <3>6. ASSUME NEW j \in Attempts PROVE PrepOK(prep'[j], j, "prepare", attempt + 1)
      <4>1. CASE j = attempt + 1
        BY <3>2, <3>4, <3>5, <4>1, PrepBegins
      <4>2. CASE j # attempt + 1
        <5>1. j > attempt + 1 => prep[j] = NoPrepare
          BY <1>8, <3>2 DEF PrepOK
        <5> QED
          BY <1>8, <3>5, <4>2, <5>1 DEF PrepOK
      <4> QED
        BY <4>1, <4>2
    <3> QED
      BY <1>5, <1>6, <1>7, <1>8, <1>9, <3>1, <3>2, <3>5, <3>6 DEF AttemptInv
  <2>2. CASE ~(attempt < MaxAttempts)
    <3>1. phase' = "failed" /\ reason' = "timeout" /\ attempt' = attempt /\ prep' = P /\ par' = R
      BY <1>3, <2>2
    <3>2. ASSUME NEW j \in Attempts PROVE PrepOK(P[j], j, "failed", attempt)
      BY <1>8 DEF PrepOK
    <3>3. ASSUME NEW j \in Attempts PROVE ParOK(R[j], j, "failed", attempt)
      BY <1>8, <1>9
    <3> QED
      BY <1>1, <1>2, <1>5, <1>6, <1>7, <3>1, <3>2, <3>3 DEF AttemptInv
  <2> QED
    BY <2>1, <2>2
<1>11. staged' \in 0..MaxAttempts /\ DOMAIN disk' = Archives /\ \A a \in Archives : IsOver(disk'[a], Slices(a))
  BY <1>3 DEF PhaseInv, FilesInv
<1> QED
  BY <1>3, <1>4, <1>10, <1>11, EarlyStep

LEMMA CrashInPAR2 ==
    ASSUME StagingInv, WorkerCrashes, phase = "par2"
    PROVE  StagingInv'
<1> USE DEF StagingInv
<1>1. PICK P : P = [k \in Attempts |-> Dead(prep[k])]
  OBVIOUS
<1>2. PICK R : R = [k \in Attempts |-> Dead(par[k])]
  OBVIOUS
<1>3. /\ UNCHANGED <<input, disk, pdisk, staged, sets, plan, tapes, checked>> /\ prep' = P
      /\ IF attempt < MaxAttempts
         THEN attempt' = attempt + 1 /\ UNCHANGED <<phase, reason>> /\ par' = [R EXCEPT ![attempt + 1].st = "run"]
         ELSE phase' = "failed" /\ reason' = "timeout" /\ UNCHANGED attempt /\ par' = R
  BY <1>1, <1>2 DEF WorkerCrashes, Alive, Dead
<1>4. mishaps' \in 0..MaxMishaps
  BY StagingAssumption DEF WorkerCrashes, Mishap, PhaseInv
<1>5. attempt \in Attempts /\ DOMAIN prep = Attempts /\ DOMAIN par = Attempts
  BY DEF AttemptInv
<1>6. \A p, k, ph, n : PrepOK(p, k, ph, n)' <=> PrepOK(p, k, ph, n)
  BY <1>3 DEF PrepOK, Archives, Slices
<1>7. \A p, k, ph, n : ParOK(p, k, ph, n)' <=> ParOK(p, k, ph, n)
  BY <1>3 DEF ParOK, Archives
<1>8. ASSUME NEW j \in Attempts PROVE \A ph \in {"par2", "failed"} : \A n : PrepOK(P[j], j, ph, n)
  <2>1. PrepOK(prep[j], j, "par2", attempt)
    BY DEF AttemptInv
  <2>2. P[j] = Dead(prep[j])
    BY <1>1
  <2>3. /\ DOMAIN P[j] = {"st", "a", "s", "pc"} /\ P[j].st \in {"none", "over"}
        /\ P[j].a = prep[j].a /\ P[j].s = prep[j].s /\ P[j].pc = prep[j].pc
    BY <2>1, <2>2, DeadPrep
  <2> QED
    BY <2>1, <2>3 DEF PrepOK
<1>9. prep'[staged].st = "over"
  <2>1. staged \in Attempts /\ prep[staged].st = "over"
    BY DEF PhaseInv, PastPack
  <2>2. P[staged] = Dead(prep[staged])
    BY <1>1, <2>1
  <2> QED
    BY <1>3, <2>1, <2>2 DEF Dead
<1>10. ASSUME NEW j \in Attempts
       PROVE  /\ ParOK(par[j], j, "par2", attempt)
              /\ DOMAIN R[j] = {"st", "a", "pc", "seen", "got"} /\ R[j].st \in {"none", "stopped", "over"}
              /\ R[j].a = par[j].a /\ R[j].pc = par[j].pc /\ R[j].seen = par[j].seen /\ R[j].got = par[j].got
              /\ par[j] = NoPAR2 => R[j] = NoPAR2
  <2>1. ParOK(par[j], j, "par2", attempt)
    BY DEF AttemptInv
  <2>2. R[j] = Dead(par[j])
    BY <1>2
  <2> QED
    BY <2>1, <2>2, DeadPar
<1>11. reason # "exists"
  BY DEF PhaseInv
<1>12. CASE attempt < MaxAttempts
  <2>1. attempt' = attempt + 1 /\ phase' = "par2" /\ reason' = reason /\ par' = [R EXCEPT ![attempt + 1].st = "run"]
    BY <1>3, <1>12
  <2>2. attempt' \in Attempts /\ attempt \in Nat /\ \A j \in Attempts : j \in Nat
    BY <1>5, <1>12, <2>1, AttemptNumbers
  <2>3. R[attempt + 1] = NoPAR2
    <3>1. attempt + 1 \in Attempts /\ attempt + 1 > attempt
      BY <2>1, <2>2
    <3>2. par[attempt + 1] = NoPAR2
      BY <1>10, <3>1 DEF ParOK
    <3> QED
      BY <1>10, <3>1, <3>2
  <2>4. PICK r : r = [NoPAR2 EXCEPT !.st = "run"]
    OBVIOUS
  <2>5. DOMAIN par' = Attempts /\ par'[attempt + 1] = r /\ \A j \in Attempts : j # attempt + 1 => par'[j] = R[j]
    BY <1>2, <2>1, <2>2, <2>3, <2>4
  <2>6. r.pc = "purge" /\ r.a = 1 /\ r.got = <<>>
    BY <2>4 DEF NoPAR2
  <2>7. ASSUME NEW j \in Attempts PROVE ParOK(par'[j], j, "par2", attempt + 1)
    <3>1. CASE j = attempt + 1
      BY <2>2, <2>4, <2>5, <3>1, ParBegins
    <3>2. CASE j # attempt + 1
      <4>1. j > attempt + 1 => par[j] = NoPAR2
        BY <1>10, <2>2 DEF ParOK
      <4> QED
        BY <1>10, <2>5, <3>2, <4>1 DEF ParOK
    <3> QED
      BY <3>1, <3>2
  <2>8. AttemptInv'
    BY <1>1, <1>3, <1>6, <1>7, <1>8, <2>1, <2>2, <2>5, <2>7 DEF AttemptInv
  <2>9. \A j \in Attempts : j # attempt' => /\ par'[j].pc = par[j].pc /\ par'[j].a = par[j].a
                                            /\ par'[j].seen = par[j].seen /\ par'[j].got = par[j].got
    BY <1>10, <2>1, <2>5
  <2>10. Restarts
    BY <1>3, <1>4, <1>9, <1>11, <2>1, <2>5, <2>6, <2>8, <2>9 DEF Restarts
  <2> QED
    BY <2>10, RestartStep
<1>13. CASE ~(attempt < MaxAttempts)
  <2>1. phase' = "failed" /\ reason' = "timeout" /\ attempt' = attempt /\ par' = R
    BY <1>3, <1>13
  <2>2. ASSUME NEW j \in Attempts PROVE ParOK(R[j], j, "failed", attempt)
    BY <1>10 DEF ParOK
  <2>3. AttemptInv'
    BY <1>1, <1>2, <1>3, <1>5, <1>6, <1>7, <1>8, <2>1, <2>2 DEF AttemptInv
  <2>4. Restarts
    BY <1>3, <1>4, <1>9, <2>1, <2>3 DEF Restarts
  <2> QED
    BY <2>4, RestartStep
<1> QED
  BY <1>12, <1>13

LEMMA WorkerCrashesStep ==
    ASSUME StagingInv, WorkerCrashes
    PROVE  StagingInv'
<1> USE DEF StagingInv
<1>1. CASE phase = "verify"
  <2>1. checked' = AtFirst /\ UNCHANGED <<input, phase, attempt, prep, par, disk, pdisk, staged, sets, plan, tapes, reason>>
    BY <1>1 DEF WorkerCrashes
  <2>2. mishaps' \in 0..MaxMishaps
    BY StagingAssumption DEF WorkerCrashes, Mishap, PhaseInv
  <2>3. /\ plan \in Seq(Seq(PlanItems(Archives)) \ {<<>>})
        /\ \A u \in DOMAIN plan : Len(plan[u]) \in Nat \ {0} /\ DOMAIN plan[u] = 1..Len(plan[u])
    BY PlanTyped
  <2>4. checked' = <<1, 0>> /\ checked'[1] = 1 /\ checked'[2] = 0
    BY <2>1 DEF AtFirst
  <2>5. Len(plan) \in Nat /\ DOMAIN plan = 1..Len(plan)
    BY <2>3
  <2>6. (\A t \in DOMAIN plan : ~(t < 1)) /\ (\A n \in 1..0 : FALSE) /\ 1 \in 1..Len(plan) + 1
    BY <2>5
  <2>7. VerifyInv'
    BY <1>1, <2>1, <2>3, <2>4, <2>6 DEF VerifyInv, AtFirst
  <2>8. tapes = <<>> /\ reason = "none"
    BY <1>1 DEF PhaseInv
  <2>9. TapeInv'
    BY <2>1, <2>8 DEF TapeInv
  <2> QED
    BY <1>1, <2>1, <2>2, <2>7, <2>8, <2>9, LateStep
<1>2. CASE phase = "prepare"
  BY <1>2, CrashInPrepare
<1>3. CASE phase = "par2"
  BY <1>3, CrashInPAR2
<1> QED
  BY <1>1, <1>2, <1>3 DEF WorkerCrashes

LEMMA StagingStep ==
    ASSUME StagingInv, [StagingNext]_stagingVars
    PROVE  StagingInv'
<1>1. CASE UNCHANGED stagingVars
  <2>1. UNCHANGED <<input, phase, attempt, prep, par, disk, pdisk, staged, sets, plan, checked, tapes, reason, mishaps>>
    BY <1>1 DEF stagingVars
  <2>2. Archives' = Archives /\ Num' = Num /\ \A a : Slices(a)' = Slices(a)
    BY <2>1 DEF Archives, Num, Slices
  <2>3. InputInv'
    BY <2>1 DEF StagingInv, InputInv, Archives, PlanItems
  <2>4. AttemptInv'
    BY <2>1, AttemptsPast DEF StagingInv
  <2>5. PhaseInv' /\ FilesInv'
    BY <2>1, <2>2 DEF StagingInv, PhaseInv, FilesInv
  <2>6. SetInv'
    <3>1. \A a : (Good(a)' <=> Good(a)) /\ Of(a)' = Of(a) /\ Parts' = Parts
      BY <2>1, <2>2 DEF Good, Of, Parts
    <3>2. \A a : FilesOK(a)' <=> FilesOK(a)
      BY <2>1 DEF FilesOK, Of, Parts
    <3>3. \A p, a : WorkOK(p, a)' <=> WorkOK(p, a)
      BY <2>1 DEF WorkOK, Of, Parts
    <3>4. \A p : GotOK(p)' <=> GotOK(p)
      BY DEF GotOK
    <3> QED
      BY <2>1, <2>2, <3>1, <3>2, <3>3, <3>4 DEF StagingInv, SetInv
  <2>7. PartInv'
    BY <2>1, <2>2 DEF StagingInv, PartInv, PartOK, Purges
  <2>8. VerifyInv'
    <3>1. \A t, n : Verified(t, n)' <=> Verified(t, n)
      BY <2>1, <2>2 DEF Verified, Matches
    <3>2. \A k : (Alive(k, prep)' <=> Alive(k, prep)) /\ (Alive(k, par)' <=> Alive(k, par))
      BY <2>1 DEF Alive
    <3> QED
      BY <2>1, <3>1, <3>2 DEF StagingInv, VerifyInv
  <2>9. TapeInv' /\ RetryInv'
    BY <2>1 DEF StagingInv, TapeInv, RetryInv
  <2> QED
    BY <2>3, <2>4, <2>5, <2>6, <2>7, <2>8, <2>9 DEF StagingInv
<1>2. CASE StagingNext /\ ~(UNCHANGED stagingVars)
  <2>1. \/ \E k \in Attempts : SliceCreate(k) \/ SliceDone(k) \/ Purge(k) \/ Par2Open(k) \/ Par2Refuses(k) \/ Par2Compute(k) \/ PAR2Measure(k)
        \/ PackPhase \/ VerifyArchive \/ WriteTape \/ PrepareFails \/ AttemptLost \/ WorkerCrashes \/ FileDamaged \/ Par2Fails
        \/ \E k \in Attempts : LostPrepareStops(k) \/ LostPAR2Stops(k)
    BY <1>2 DEF StagingNext, Works, Stops
  <2>2. CASE \E k \in Attempts : SliceCreate(k) \/ SliceDone(k) \/ Purge(k) \/ Par2Open(k) \/ Par2Refuses(k) \/ Par2Compute(k) \/ PAR2Measure(k)
    BY <2>2, SliceCreateStep, SliceDoneStep, PurgeStep, Par2OpenStep, Par2RefusesStep, Par2ComputeStep, PAR2MeasureStep
  <2>3. CASE \E k \in Attempts : LostPrepareStops(k) \/ LostPAR2Stops(k)
    BY <2>3, LostPrepareStopsStep, LostPAR2StopsStep
  <2>4. CASE PackPhase \/ VerifyArchive \/ WriteTape
    BY <2>4, PackPhaseStep, VerifyArchiveStep, WriteTapeStep
  <2>5. CASE PrepareFails \/ AttemptLost \/ WorkerCrashes \/ FileDamaged \/ Par2Fails
    BY <2>5, PrepareFailsStep, AttemptLostStep, WorkerCrashesStep, FileDamagedStep, Par2FailsStep
  <2> QED
    BY <2>1, <2>2, <2>3, <2>4, <2>5
<1> QED
  BY <1>1, <1>2

-----------------------------------------------------------------------------
(* What the invariant says of the tapes *)

LEMMA OnlyOneRuns ==
    ASSUME AttemptInv
    PROVE  Cardinality({k \in Attempts : prep[k].st = "run" \/ par[k].st = "run"}) <= 1
<1>1. PICK R : R = {k \in Attempts : prep[k].st = "run" \/ par[k].st = "run"}
  OBVIOUS
<1>2. R \subseteq {attempt}
  BY <1>1 DEF AttemptInv, PrepOK, ParOK
<1>3. IsFiniteSet({attempt}) /\ Cardinality({attempt}) = 1
  BY FS_Singleton
<1>4. Cardinality(R) <= Cardinality({attempt})
  BY <1>2, <1>3, FS_Subset
<1> QED
  BY <1>1, <1>3, <1>4

LEMMA TypesHold ==
    ASSUME StagingInv
    PROVE  StagingTypeOK
<1> USE DEF StagingInv
<1>1. phase \in {"prepare", "pack", "par2", "verify", "write", "done", "failed"} /\ staged \in 0..MaxAttempts /\ mishaps \in 0..MaxMishaps
  BY DEF PhaseInv, PastPack
<1>2. attempt \in Attempts
  BY DEF AttemptInv
<1>3. checked[1] \in 1..Len(plan) + 1
  BY DEF VerifyInv
<1>4. checked[2] \in 0..(IF checked[1] \in DOMAIN plan THEN Len(plan[checked[1]]) - 1 ELSE 0)
  <2>1. checked[2] \in Nat
    BY DEF VerifyInv
  <2>2. CASE checked[1] \in DOMAIN plan
    <3>1. checked[2] < Len(plan[checked[1]])
      BY <2>2 DEF VerifyInv
    <3>2. Len(plan[checked[1]]) \in Nat
      BY <2>2, PlanTyped
    <3> QED
      BY <2>1, <2>2, <3>1, <3>2
  <2>3. CASE checked[1] \notin DOMAIN plan
    BY <2>3 DEF VerifyInv
  <2> QED
    BY <2>2, <2>3
<1>5. ASSUME NEW k \in Attempts
      PROVE  /\ {prep[k].st, par[k].st} \subseteq {"none", "run", "lost", "stopped", "over"}
             /\ {prep[k].a, par[k].a} \subseteq Archives /\ prep[k].s \in Slices(prep[k].a)
  BY DEF AttemptInv, PrepOK, ParOK
<1>6. ASSUME NEW a \in Archives PROVE DOMAIN disk[a] = Slices(a) /\ DOMAIN pdisk[a] = SetFiles
  BY OverFacts DEF FilesInv
<1>7. Len(sets) \in {0, Len(input.slices)}
  BY DEF PhaseInv, Num
<1>8. Cardinality({k \in Attempts : prep[k].st = "run" \/ par[k].st = "run"}) <= 1
  BY OnlyOneRuns
<1> QED
  BY <1>1, <1>2, <1>3, <1>4, <1>5, <1>6, <1>7, <1>8 DEF StagingTypeOK

\* An entry of a written tape: its archive's files were verified and are there yet.
LEMMA WrittenFacts ==
    ASSUME StagingInv, NEW t \in DOMAIN tapes
    PROVE  /\ phase \in {"write", "done"} /\ t \in DOMAIN plan /\ DOMAIN tapes[t] = DOMAIN plan[t]
           /\ \A i \in DOMAIN plan[t] :
                 /\ plan[t][i].index \in Archives /\ Matches(plan[t][i].index)
                 /\ tapes[t][i].index = plan[t][i].index /\ tapes[t][i].slices = disk[plan[t][i].index]
                 /\ tapes[t][i].par2 = pdisk[plan[t][i].index]
                 /\ tapes[t][i].manifest.by = staged /\ tapes[t][i].manifest.par2 = sets[plan[t][i].index]
<1> USE DEF StagingInv
<1>1. phase \in {"write", "done"}
  <2>1. tapes # <<>>
    OBVIOUS
  <2> QED
    BY <2>1 DEF PhaseInv
<1>2. plan \in Seq(Seq(PlanItems(Archives)) \ {<<>>}) /\ \A n \in DOMAIN plan : \A i \in DOMAIN plan[n] : plan[n][i].index \in Archives
  BY PlanTyped
<1>3. t \in DOMAIN plan /\ t < Len(plan) + 1
  <2>1. PICK S : tapes \in Seq(S)
    BY DEF TapeInv
  <2>2. Len(tapes) <= Len(plan) /\ t \in 1..Len(tapes) /\ Len(tapes) \in Nat /\ Len(plan) \in Nat /\ DOMAIN plan = 1..Len(plan)
    BY <1>2, <2>1 DEF TapeInv
  <2> QED
    BY <2>2
<1>4. \A i \in DOMAIN plan[t] : Matches(plan[t][i].index)
  BY <1>1, <1>3 DEF VerifyInv, Verified
<1>5. tapes[t] = [i \in DOMAIN plan[t] |->
            [index |-> plan[t][i].index, slices |-> disk[plan[t][i].index], par2 |-> pdisk[plan[t][i].index],
             manifest |-> [by |-> staged, par2 |-> sets[plan[t][i].index]]]]
  BY DEF TapeInv
<1> QED
  BY <1>1, <1>2, <1>3, <1>4, <1>5

LEMMA ManifestsHold ==
    ASSUME StagingInv
    PROVE  TapesMatchManifest
<1> USE DEF StagingInv
<1>1. ASSUME NEW t \in DOMAIN tapes
      PROVE  /\ [i \in DOMAIN tapes[t] |-> tapes[t][i].index] = [i \in DOMAIN plan[t] |-> plan[t][i].index]
             /\ \A i \in DOMAIN tapes[t] :
                   /\ \A s \in DOMAIN tapes[t][i].slices : tapes[t][i].slices[s] = <<tapes[t][i].manifest.by, "whole">>
                   /\ tapes[t][i].par2 = tapes[t][i].manifest.par2
  <2>1. phase \in {"write", "done"} /\ t \in DOMAIN plan /\ DOMAIN tapes[t] = DOMAIN plan[t]
        /\ \A i \in DOMAIN plan[t] : tapes[t][i].index = plan[t][i].index
    BY WrittenFacts
  <2>2. ASSUME NEW i \in DOMAIN tapes[t], NEW a, a = plan[t][i].index
        PROVE  /\ \A s \in DOMAIN tapes[t][i].slices : tapes[t][i].slices[s] = <<tapes[t][i].manifest.by, "whole">>
               /\ tapes[t][i].par2 = tapes[t][i].manifest.par2
    <3>1. /\ a \in Archives /\ Matches(a) /\ tapes[t][i].slices = disk[a] /\ tapes[t][i].par2 = pdisk[a]
          /\ tapes[t][i].manifest.by = staged /\ tapes[t][i].manifest.par2 = sets[a]
      BY <2>1, <2>2, WrittenFacts
    <3>2. IsOver(disk[a], Slices(a)) /\ IsOver(pdisk[a], SetFiles)
      BY <3>1 DEF FilesInv
    <3>3. IsOver(sets[a], SetFiles)
      BY <2>1, <3>1 DEF SetInv
    <3>4. DOMAIN disk[a] = Slices(a) /\ DOMAIN sets[a] = SetFiles
      BY <3>2, <3>3, OverFacts
    <3>5. sets[a] = pdisk[a]
      BY <3>1, <3>2, <3>3, <3>4, OverFacts DEF Matches
    <3> QED
      BY <3>1, <3>4, <3>5 DEF Matches
  <2> QED
    BY <2>1, <2>2
<1> QED
  BY <1>1 DEF TapesMatchManifest

LEMMA ParityHolds ==
    ASSUME StagingInv
    PROVE  RecoverySetProtects
<1> USE DEF StagingInv
<1>1. SUFFICES ASSUME \A k \in Attempts : par[k].st # "stopped", NEW t \in DOMAIN tapes, NEW i \in DOMAIN tapes[t], NEW f \in SetFiles
               PROVE  \E k \in Attempts : tapes[t][i].par2[f] = <<k, "set", tapes[t][i].slices>>
  BY DEF RecoverySetProtects
<1>2. PICK a : a = plan[t][i].index
  OBVIOUS
<1>3. phase \in {"write", "done"} /\ a \in Archives /\ Matches(a) /\ tapes[t][i].slices = disk[a] /\ tapes[t][i].par2 = pdisk[a]
  BY <1>2, WrittenFacts
<1>4. Good(a) /\ IsOver(sets[a], SetFiles)
  BY <1>3 DEF Matches, Good, SetInv
<1>5. sets[a][f] \in Parts \cup Of(a) /\ sets[a][f] = pdisk[a][f]
  <2>1. DOMAIN sets[a] = SetFiles
    BY <1>4, OverFacts
  <2> QED
    BY <1>3, <1>4, <2>1 DEF SetInv, Matches
<1>6. pdisk[a][f] \notin Parts
  <2>1. ASSUME NEW k \in Attempts, pdisk[a][f] = <<k, "part">> PROVE FALSE
    <3>1. PartOK(a, f, k)
      BY <1>3 DEF PartInv, PastPack
    <3>2. ~Alive(k, par)
      BY <1>3 DEF VerifyInv
    <3> QED
      BY <1>1, <1>3, <2>1, <3>1, <3>2 DEF PartOK, Purges, Alive
  <2> QED
    BY <2>1 DEF Parts
<1> QED
  BY <1>3, <1>5, <1>6 DEF Of

LEMMA TapesHold ==
    ASSUME StagingInv
    PROVE  TapesSound
<1>1. RetriesStartClean
  BY DEF StagingInv, RetryInv, RetriesStartClean
<1> QED
  BY <1>1, TypesHold, ManifestsHold, ParityHolds DEF TapesSound

-----------------------------------------------------------------------------
(* Pack *)

\* The sum of numbers.
LEMMA TotalRecursion ==
    ASSUME NEW s, Len(s) \in Nat
    PROVE  \E t : t = [i \in 0..Len(s) |-> IF i = 0 THEN 0 ELSE t[i - 1] + s[i]] /\ Total(s) = t[Len(s)]
<1>1. PICK N : N = Len(s)
  OBVIOUS
<1>2. PICK S : S = {n \in Nat : \E g : g = [i \in 0..n |-> IF i = 0 THEN 0 ELSE g[i - 1] + s[i]]}
  OBVIOUS
<1>3. 0 \in S
  <2>1. PICK g : g = [i \in 0..0 |-> 0]
    OBVIOUS
  <2>2. g = [i \in 0..0 |-> IF i = 0 THEN 0 ELSE g[i - 1] + s[i]]
    BY <2>1
  <2> QED
    BY <1>2, <2>2
<1>4. ASSUME NEW j \in 0..N - 1, j \in S PROVE j + 1 \in S
  <2>1. PICK g : g = [i \in 0..j |-> IF i = 0 THEN 0 ELSE g[i - 1] + s[i]]
    BY <1>2, <1>4
  <2>2. PICK h : h = [i \in 0..j + 1 |-> IF i = j + 1 THEN g[j] + s[j + 1] ELSE g[i]]
    OBVIOUS
  <2>3. j \in Nat
    BY <1>1, <1>4
  <2>4. \A i \in 0..j : h[i] = g[i]
    BY <2>2, <2>3
  <2>5. ASSUME NEW i \in 0..j + 1 PROVE h[i] = IF i = 0 THEN 0 ELSE h[i - 1] + s[i]
    <3>1. CASE i = j + 1
      BY <2>2, <2>3, <2>4, <3>1
    <3>2. CASE i # j + 1
      <4>1. i \in 0..j /\ (i # 0 => i - 1 \in 0..j)
        BY <2>3, <3>2
      <4> QED
        BY <2>1, <2>4, <4>1
    <3> QED
      BY <3>1, <3>2
  <2>6. h = [i \in 0..j + 1 |-> IF i = 0 THEN 0 ELSE h[i - 1] + s[i]]
    BY <2>2, <2>5
  <2> QED
    BY <1>2, <2>3, <2>6
<1>5. N \in S
  <2>1. N \in Nat /\ N \in 0..N
    BY <1>1
  <2>2. \A j \in 0..N - 1 : j \in S => j + 1 \in S
    BY <1>4
  <2>3. \A j \in 0..N : j \in S
    BY <1>3, <2>1, <2>2, UpTo
  <2> QED
    BY <2>1, <2>3
<1>6. \E g : g = [i \in 0..Len(s) |-> IF i = 0 THEN 0 ELSE g[i - 1] + s[i]]
  BY <1>1, <1>2, <1>5
<1> QED
  BY <1>6 DEF Total

LEMMA TotalNat ==
    ASSUME NEW s \in Seq(Nat)
    PROVE  Total(s) \in Nat
<1>1. Len(s) \in Nat /\ \A i \in 1..Len(s) : s[i] \in Nat
  OBVIOUS
<1>2. PICK t : t = [i \in 0..Len(s) |-> IF i = 0 THEN 0 ELSE t[i - 1] + s[i]] /\ Total(s) = t[Len(s)]
  BY <1>1, TotalRecursion
<1>3. PICK S : S = {i \in 0..Len(s) : t[i] \in Nat}
  OBVIOUS
<1>4. 0 \in S
  BY <1>1, <1>2, <1>3
<1>5. ASSUME NEW j \in 0..Len(s) - 1, j \in S PROVE j + 1 \in S
  <2>1. j + 1 \in 0..Len(s) /\ j + 1 # 0 /\ (j + 1) - 1 = j /\ t[j] \in Nat /\ s[j + 1] \in Nat
    BY <1>1, <1>3, <1>5
  <2>2. t[j + 1] = t[j] + s[j + 1]
    BY <1>2, <2>1
  <2> QED
    BY <1>3, <2>1, <2>2
<1>6. Len(s) \in S
  <2>1. PICK N \in Nat : N = Len(s)
    BY <1>1
  <2>2. \A j \in 0..N - 1 : j \in S => j + 1 \in S
    BY <1>5, <2>1
  <2>3. \A j \in 0..N : j \in S
    BY <1>4, <2>2, UpTo
  <2> QED
    BY <2>1, <2>3
<1> QED
  BY <1>2, <1>3, <1>6

\* The sizes are whole numbers, whatever they are.
LEMMA CeilDivInt ==
    ASSUME NEW n \in Int, NEW d \in Int, d > 0
    PROVE  CeilDiv(n, d) \in Int
  BY DEF CeilDiv

LEMMA LargestInt ==
    ASSUME NEW a \in Int, NEW b \in Int
    PROVE  Largest(a, b) \in Int /\ Largest(a, b) >= a /\ Largest(a, b) >= b
  BY DEF Largest

LEMMA BlockSizeInt ==
    ASSUME NEW total \in Int, NEW files \in Int, files > 0
    PROVE  ComputeBlockSize(total, files) \in Int /\ ComputeBlockSize(total, files) > 0
<1>1. /\ TargetBlocks \in Int /\ MaxBlocks \in Int /\ Multiple \in Int /\ Multiple > 0
      /\ TargetBlocks > 3 /\ TargetBlocks <= MaxBlocks
  BY MediaMathAssumption
<1>2. PICK least : least = CeilDiv(total, Largest(1, MaxBlocks - files))
  OBVIOUS
<1>3. least \in Int
  BY <1>1, <1>2, CeilDivInt, LargestInt
<1>4. PICK wanted : wanted = IF files < TargetBlocks \div 2 THEN CeilDiv(total, TargetBlocks - files)
                             ELSE CeilDiv(total, files - 1)
  OBVIOUS
<1>5. wanted \in Int
  <2>1. CASE files < TargetBlocks \div 2
    <3>1. TargetBlocks - files \in Int /\ TargetBlocks - files > 0
      BY <1>1, <2>1
    <3> QED
      BY <1>4, <2>1, <3>1, CeilDivInt
  <2>2. CASE ~(files < TargetBlocks \div 2)
    <3>1. files - 1 \in Int /\ files - 1 > 0
      BY <1>1, <2>2
    <3> QED
      BY <1>4, <2>2, <3>1, CeilDivInt
  <2> QED
    BY <2>1, <2>2
<1>6. Largest(wanted, least) \in Int
  BY <1>3, <1>5, LargestInt
<1>7. CeilDiv(Largest(wanted, least), Multiple) * Multiple \in Int
  BY <1>1, <1>6, CeilDivInt
<1>8. ComputeBlockSize(total, files) = Largest(Multiple, CeilDiv(Largest(wanted, least), Multiple) * Multiple)
  BY <1>2, <1>4 DEF ComputeBlockSize
<1>9. PICK rounded \in Int : rounded = CeilDiv(Largest(wanted, least), Multiple) * Multiple
  BY <1>7
<1>10. Largest(Multiple, rounded) \in Int /\ Largest(Multiple, rounded) >= Multiple
  BY <1>1, LargestInt
<1> QED
  BY <1>1, <1>8, <1>9, <1>10

LEMMA BitLenNat ==
    ASSUME NEW n \in Int
    PROVE  BitLen(n) \in Nat
<1>1. PICK B : B = {b \in 0..30 : 2^b <= n}
  OBVIOUS
<1>2. IsFiniteSet(0..30)
  <2>1. PICK most \in Int : most = 30
    OBVIOUS
  <2>2. 0 \in Int
    OBVIOUS
  <2>3. IsFiniteSet(0..most)
    BY <2>1, <2>2, FS_Interval
  <2> QED
    BY <2>1, <2>3
<1>3. B \in SUBSET (0..30)
  BY <1>1
<1>4. IsFiniteSet(B)
  BY <1>2, <1>3, FS_Subset
<1> QED
  BY <1>1, <1>4, FS_CardinalityType DEF BitLen

LEMMA OutputInt ==
    ASSUME NEW data \in Int, NEW files \in Int, NEW percent \in Int
    PROVE  MaxOutputBytes(data, files, percent) \in Int
<1>1. {PacketHeader, PerBlock, PerFile, Fixed} \subseteq Nat
  BY MediaMathAssumption
<1>2. PICK n : n = Largest(1, files)
  OBVIOUS
<1>3. n \in Int /\ n > 0
  BY <1>2, LargestInt
<1>4. PICK block : block = ComputeBlockSize(data, n)
  OBVIOUS
<1>5. block \in Int /\ block > 0
  BY <1>3, <1>4, BlockSizeInt
<1>6. PICK blocks : blocks = Largest(1, CeilDiv(data, block) + n - 1)
  OBVIOUS
<1>7. blocks \in Int
  BY <1>3, <1>5, <1>6, CeilDivInt, LargestInt
<1>8. PICK recovery : recovery = CeilDiv(blocks * percent, 100) + 1
  OBVIOUS
<1>9. recovery \in Int
  BY <1>7, <1>8, CeilDivInt
<1>10. PICK bits : bits = BitLen(recovery)
  OBVIOUS
<1>11. bits \in Nat
  BY <1>9, <1>10, BitLenNat
<1>12. MaxOutputBytes(data, files, percent) =
         recovery * (block + PacketHeader) + (PerBlock * blocks + PerFile * n + Fixed) * (bits + 2) * (bits + 1)
  BY <1>2, <1>4, <1>6, <1>8, <1>10 DEF MaxOutputBytes
<1>13. PacketHeader \in Int /\ PerBlock \in Int /\ PerFile \in Int /\ Fixed \in Int /\ bits \in Int
  BY <1>1, <1>11
<1> QED
  BY <1>3, <1>5, <1>7, <1>9, <1>12, <1>13

LEMMA ReserveInt ==
    ASSUME NEW r, r.tenths \in Nat
    PROVE  PAR2ReservePercent(r) \in Int
  BY DEF PAR2ReservePercent, ClampPercent, CeilDiv, Largest, Smallest, MinPercent, MaxPercent

\* before orders S: of two members, one comes first.
Orders(before, S) ==
    /\ \A x \in S : <<x, x>> \notin before
    /\ \A x, y \in S : x # y => <<x, y>> \in before \/ <<y, x>> \in before
    /\ \A x, y, z \in S : <<x, y>> \in before /\ <<y, z>> \in before => <<x, z>> \in before

\* A finite set that is ordered is put in order, each member once.
LEMMA InOrderFacts ==
    ASSUME NEW S, IsFiniteSet(S), NEW before, Orders(before, S)
    PROVE  /\ InOrder(S, before) \in Seq(S) /\ Len(InOrder(S, before)) = Cardinality(S)
           /\ \A x \in S : \E n \in 1..Cardinality(S) : InOrder(S, before)[n] = x
           /\ \A m, n \in 1..Cardinality(S) : InOrder(S, before)[m] = InOrder(S, before)[n] => m = n
<1>1. PICK N \in Nat : N = Cardinality(S)
  BY FS_CardinalityType
<1>2. PICK below : below = [x \in S |-> {y \in S : <<y, x>> \in before}]
  OBVIOUS
<1>3. ASSUME NEW x \in S PROVE IsFiniteSet(below[x]) /\ Cardinality(below[x]) \in 0..N - 1
  <2>1. below[x] \in SUBSET (S \ {x})
    BY <1>2 DEF Orders
  <2>2. IsFiniteSet(S \ {x}) /\ Cardinality(S \ {x}) = N - 1
    BY <1>1, FS_RemoveElement
  <2>3. IsFiniteSet(below[x]) /\ Cardinality(below[x]) <= N - 1
    BY <2>1, <2>2, FS_Subset
  <2>4. Cardinality(below[x]) \in Nat
    BY <2>3, FS_CardinalityType
  <2> QED
    BY <2>3, <2>4
<1>4. ASSUME NEW x \in S, NEW y \in S, <<x, y>> \in before
      PROVE  Cardinality(below[x]) < Cardinality(below[y])
  <2>1. below[x] \in SUBSET (below[y] \ {x}) /\ x \in below[y]
    BY <1>2, <1>4 DEF Orders
  <2>2. /\ IsFiniteSet(below[y] \ {x}) /\ Cardinality(below[y] \ {x}) = Cardinality(below[y]) - 1
    BY <1>3, <2>1, FS_RemoveElement
  <2>3. Cardinality(below[x]) <= Cardinality(below[y]) - 1
    BY <2>1, <2>2, FS_Subset
  <2> QED
    BY <1>3, <2>3
<1>5. PICK rank : rank = [x \in S |-> Cardinality(below[x]) + 1]
  OBVIOUS
<1>6. rank \in Injection(S, 1..N)
  <2>1. ASSUME NEW x \in S PROVE rank[x] \in 1..N
    BY <1>1, <1>3, <1>5
  <2>2. ASSUME NEW x \in S, NEW y \in S, rank[x] = rank[y] PROVE x = y
    <3>1. SUFFICES ASSUME x # y PROVE FALSE
      OBVIOUS
    <3>2. Cardinality(below[x]) = Cardinality(below[y]) /\ Cardinality(below[x]) \in Int
      BY <1>3, <1>5, <2>2
    <3>3. <<x, y>> \in before \/ <<y, x>> \in before
      BY <3>1 DEF Orders
    <3> QED
      BY <1>3, <1>4, <3>2, <3>3
  <2>3. rank \in [S -> 1..N] /\ DOMAIN rank = S
    BY <1>5, <2>1
  <2> QED
    BY <2>2, <2>3 DEF Injection, IsInjective
<1>7. rank \in Surjection(S, 1..N)
  <2>1. IsFiniteSet(1..N) /\ Cardinality(1..N) = N
    BY FS_Interval
  <2> QED
    BY <1>1, <1>6, <2>1, FS_Injection
<1>8. \A n \in 1..N : \E x \in S : rank[x] = n
  BY <1>7 DEF Surjection
<1>9. PICK o : o = InOrder(S, before)
  OBVIOUS
<1>10. o = [n \in 1..N |-> CHOOSE x \in S : Cardinality({y \in S : <<y, x>> \in before}) = n - 1]
  BY <1>1, <1>9 DEF InOrder
<1>11. ASSUME NEW n \in 1..N PROVE o[n] \in S /\ rank[o[n]] = n
  <2>1. PICK x \in S : rank[x] = n
    BY <1>8
  <2>2. below[x] = {y \in S : <<y, x>> \in before}
    BY <1>2
  <2>3. Cardinality(below[x]) = n - 1
    BY <1>3, <1>5, <2>1
  <2>4. o[n] \in S /\ Cardinality({y \in S : <<y, o[n]>> \in before}) = n - 1
    BY <1>10, <2>2, <2>3
  <2>5. below[o[n]] = {y \in S : <<y, o[n]>> \in before}
    BY <1>2, <2>4
  <2>6. Cardinality(below[o[n]]) = n - 1
    BY <2>4, <2>5
  <2> QED
    BY <1>5, <2>4, <2>6
<1>12. o \in Seq(S) /\ Len(o) = N
  <2>1. o \in [1..N -> S]
    BY <1>10, <1>11
  <2> QED
    BY <1>1, <2>1
<1>13. ASSUME NEW x \in S PROVE \E n \in 1..N : o[n] = x
  <2>1. rank[x] \in 1..N
    BY <1>6 DEF Injection
  <2>2. rank[o[rank[x]]] = rank[x] /\ o[rank[x]] \in S
    BY <1>11, <2>1
  <2>3. o[rank[x]] = x
    BY <1>6, <2>2 DEF Injection, IsInjective
  <2> QED
    BY <2>1, <2>3
<1>14. ASSUME NEW m \in 1..N, NEW n \in 1..N, o[m] = o[n] PROVE m = n
  BY <1>11, <1>14
<1> QED
  BY <1>1, <1>9, <1>12, <1>13, <1>14

\* What is put on a tape.
LEMMA ItemsFacts ==
    ASSUME NEW lists \in Seq(Seq(Nat)), NEW r, r.tenths \in Nat
    PROVE  Items(lists, r) \in Seq(PlanItems(DOMAIN lists)) /\ Len(Items(lists, r)) = Len(lists)
           /\ \A i \in DOMAIN lists : Items(lists, r)[i].index = i
<1>1. PICK I : I = Items(lists, r)
  OBVIOUS
<1>2. DOMAIN lists = 1..Len(lists) /\ Len(lists) \in Nat
  OBVIOUS
<1>3. ASSUME NEW i \in DOMAIN lists PROVE I[i] \in PlanItems(DOMAIN lists) /\ I[i].index = i
  <2>1. lists[i] \in Seq(Nat) /\ Len(lists[i]) \in Nat
    BY <1>2
  <2>2. Total(lists[i]) \in Nat /\ Total(lists[i]) \in Int /\ Len(lists[i]) \in Int
    BY <2>1, TotalNat
  <2>3. MaxOutputBytes(Total(lists[i]), Len(lists[i]), PAR2ReservePercent(r)) \in Int
    BY <2>2, OutputInt, ReserveInt
  <2> QED
    BY <1>1, <2>1, <2>2, <2>3 DEF Items, PlanItems
<1>4. I = [i \in 1..Len(lists) |-> I[i]]
  BY <1>1, <1>2 DEF Items
<1>5. I \in Seq(PlanItems(DOMAIN lists)) /\ Len(I) = Len(lists)
  BY <1>2, <1>3, <1>4
<1> QED
  BY <1>1, <1>3, <1>5

Earlier(x, y) == Footprint(x) > Footprint(y) \/ (Footprint(x) = Footprint(y) /\ x.index < y.index)

\* The orders Pack puts items in are orders.
LEMMA BySizeFacts ==
    ASSUME NEW A \in SUBSET Nat, NEW items \in SUBSET PlanItems(A), IsFiniteSet(items),
           \A x, y \in items : x.index = y.index => x = y
    PROVE  BySize(items) \in Seq(items)
<1>1. PICK before : before =
         {p \in items \X items : \/ Footprint(p[1]) > Footprint(p[2])
                                 \/ Footprint(p[1]) = Footprint(p[2]) /\ p[1].index < p[2].index}
  OBVIOUS
<1>2. \A x \in items : Footprint(x) \in Int /\ x.index \in Nat
  <2>1. SUFFICES ASSUME NEW x \in items PROVE Footprint(x) \in Int /\ x.index \in Nat
    OBVIOUS
  <2>2. x \in PlanItems(A)
    OBVIOUS
  <2>3. x.data \in Nat /\ x.reserved \in Int /\ x.index \in A
    BY <2>2 DEF PlanItems
  <2>4. x.data + x.reserved \in Int
    BY <2>3
  <2>5. x.index \in Nat
    BY <2>3
  <2> QED
    BY <2>4, <2>5 DEF Footprint
<1>3. \A x, y \in items : <<x, y>> \in before <=> Earlier(x, y)
  <2>1. SUFFICES ASSUME NEW x \in items, NEW y \in items
                 PROVE  <<x, y>> \in before <=> Earlier(x, y)
    OBVIOUS
  <2>2. PICK q : q = <<x, y>>
    OBVIOUS
  <2>3. q \in items \X items /\ q[1] = x /\ q[2] = y
    BY <2>2
  <2>4. q \in before <=> Earlier(q[1], q[2])
    BY <1>1, <2>3 DEF Earlier
  <2> QED
    BY <2>2, <2>3, <2>4
<1>4. \A x \in items : <<x, x>> \notin before
  BY <1>2, <1>3 DEF Earlier
<1>5. \A x, y \in items : x # y => <<x, y>> \in before \/ <<y, x>> \in before
  <2>1. SUFFICES ASSUME NEW x \in items, NEW y \in items, x # y PROVE <<x, y>> \in before \/ <<y, x>> \in before
    OBVIOUS
  <2>2. x.index # y.index
    BY <2>1
  <2>3. x.index \in Nat /\ y.index \in Nat /\ Footprint(x) \in Int /\ Footprint(y) \in Int
    BY <1>2
  <2> QED
    BY <1>3, <2>2, <2>3 DEF Earlier
<1>6. \A x, y, z \in items : <<x, y>> \in before /\ <<y, z>> \in before => <<x, z>> \in before
  BY <1>2, <1>3 DEF Earlier
<1>7. Orders(before, items)
  BY <1>4, <1>5, <1>6 DEF Orders
<1>8. BySize(items) = InOrder(items, before)
  BY <1>1 DEF BySize
<1>9. InOrder(items, before) \in Seq(items)
  BY <1>7, InOrderFacts
<1> QED
  BY <1>8, <1>9

LEMMA InSourceOrderFacts ==
    ASSUME NEW A \in SUBSET Nat, NEW items \in SUBSET PlanItems(A), IsFiniteSet(items), items # {},
           \A x, y \in items : x.index = y.index => x = y
    PROVE  InSourceOrder(items) \in Seq(items) \ {<<>>}
<1>1. PICK before : before = {p \in items \X items : p[1].index < p[2].index}
  OBVIOUS
<1>2. \A x \in items : x.index \in Nat
  BY DEF PlanItems
<1>3. \A x, y \in items : <<x, y>> \in before <=> x.index < y.index
  BY <1>1
<1>4. \A x \in items : <<x, x>> \notin before
  BY <1>2, <1>3
<1>5. \A x, y \in items : x # y => <<x, y>> \in before \/ <<y, x>> \in before
  BY <1>2, <1>3
<1>6. \A x, y, z \in items : <<x, y>> \in before /\ <<y, z>> \in before => <<x, z>> \in before
  BY <1>2, <1>3
<1>7. Orders(before, items)
  BY <1>4, <1>5, <1>6 DEF Orders
<1>8. PICK s : s = InSourceOrder(items)
  OBVIOUS
<1>9. s \in Seq(items) /\ \A x \in items : \E n \in 1..Cardinality(items) : s[n] = x
  <2>1. s = InOrder(items, before)
    BY <1>1, <1>8 DEF InSourceOrder
  <2> QED
    BY <1>7, <2>1, InOrderFacts
<1>10. Len(s) = Cardinality(items) /\ Cardinality(items) # 0
  <2>1. s = InOrder(items, before)
    BY <1>1, <1>8 DEF InSourceOrder
  <2>2. Len(s) = Cardinality(items)
    BY <1>7, <2>1, InOrderFacts
  <2> QED
    BY <2>2, FS_EmptySet
<1> QED
  BY <1>8, <1>9, <1>10

\* First fit keeps the tapes filled, and puts on them what it was given.
LEMMA PlaceFacts ==
    ASSUME NEW X, NEW ts \in Seq(Seq(X) \ {<<>>}), NEW item \in X, NEW usable
    PROVE  Place(ts, item, usable) \in Seq(Seq(X) \ {<<>>})
<1>1. PICK room : room = {t \in DOMAIN ts : PlannedBytes(ts[t]) + Footprint(item) <= usable}
  OBVIOUS
<1>2. PICK T : T = Seq(X) \ {<<>>}
  OBVIOUS
<1>3. ts \in Seq(T) /\ DOMAIN ts = 1..Len(ts) /\ Len(ts) \in Nat
  BY <1>2
<1>4. CASE room # {}
  <2>1. room \in SUBSET Nat
    BY <1>1, <1>3
  <2>2. PICK least \in room : \A j \in room : least <= j
    BY <1>4, <2>1, LeastOf
  <2>3. Min(room) \in room
    BY <2>2 DEF Min
  <2>4. PICK m : m = Min(room)
    OBVIOUS
  <2>5. m \in DOMAIN ts
    BY <1>1, <2>3, <2>4
  <2>6. ts[m] \in T
    BY <1>3, <2>5
  <2>7. Append(ts[m], item) \in T
    <3>1. ts[m] \in Seq(X)
      BY <1>2, <2>6
    <3>2. Append(ts[m], item) \in Seq(X) /\ Len(Append(ts[m], item)) = Len(ts[m]) + 1 /\ Len(ts[m]) \in Nat
      BY <3>1
    <3>3. Append(ts[m], item) # <<>>
      BY <3>2
    <3> QED
      BY <1>2, <3>2, <3>3
  <2>8. Place(ts, item, usable) = [ts EXCEPT ![m] = Append(ts[m], item)]
    BY <1>1, <1>4, <2>4 DEF Place
  <2> QED
    BY <1>2, <1>3, <2>5, <2>7, <2>8
<1>5. CASE room = {}
  <2>1. <<item>> \in T
    BY <1>2
  <2>2. Place(ts, item, usable) = Append(ts, <<item>>)
    BY <1>1, <1>5 DEF Place
  <2> QED
    BY <1>2, <1>3, <2>1, <2>2
<1> QED
  BY <1>4, <1>5

\* What first fit has placed after each item, up to the nth.
Fills(g, n, items, usable) ==
    g = [i \in 0..n |-> IF i = 0 THEN <<>> ELSE Place(g[i - 1], items[i], usable)]

LEMMA FirstFitRecursion ==
    ASSUME NEW items, Len(items) \in Nat, NEW usable
    PROVE  \E g : Fills(g, Len(items), items, usable) /\ FirstFit(items, usable) = g[Len(items)]
<1>1. PICK N : N = Len(items)
  OBVIOUS
<1>2. PICK S : S = {n \in Nat : \E g : Fills(g, n, items, usable)}
  OBVIOUS
<1>3. 0 \in S
  <2>1. PICK g : g = [i \in 0..0 |-> <<>>]
    OBVIOUS
  <2>2. Fills(g, 0, items, usable)
    BY <2>1 DEF Fills
  <2> QED
    BY <1>2, <2>2
<1>4. ASSUME NEW j \in 0..N - 1, j \in S PROVE j + 1 \in S
  <2>1. PICK g : Fills(g, j, items, usable)
    BY <1>2, <1>4
  <2>2. PICK h : h = [i \in 0..j + 1 |-> IF i = j + 1 THEN Place(g[j], items[j + 1], usable) ELSE g[i]]
    OBVIOUS
  <2>3. j \in Nat
    BY <1>1, <1>4
  <2>4. \A i \in 0..j : h[i] = g[i]
    BY <2>2, <2>3
  <2>5. ASSUME NEW i \in 0..j + 1 PROVE h[i] = IF i = 0 THEN <<>> ELSE Place(h[i - 1], items[i], usable)
    <3>1. CASE i = j + 1
      BY <2>2, <2>3, <2>4, <3>1
    <3>2. CASE i # j + 1
      <4>1. i \in 0..j /\ (i # 0 => i - 1 \in 0..j)
        BY <2>3, <3>2
      <4> QED
        BY <2>1, <2>4, <4>1 DEF Fills
    <3> QED
      BY <3>1, <3>2
  <2>6. Fills(h, j + 1, items, usable)
    BY <2>2, <2>5 DEF Fills
  <2> QED
    BY <1>2, <2>3, <2>6
<1>5. N \in S
  <2>1. N \in Nat /\ N \in 0..N
    BY <1>1
  <2>2. \A j \in 0..N - 1 : j \in S => j + 1 \in S
    BY <1>4
  <2>3. \A j \in 0..N : j \in S
    BY <1>3, <2>1, <2>2, UpTo
  <2> QED
    BY <2>1, <2>3
<1>6. \E g : Fills(g, Len(items), items, usable)
  BY <1>1, <1>2, <1>5
<1> QED
  BY <1>6 DEF FirstFit, Fills

LEMMA FirstFitFacts ==
    ASSUME NEW X, NEW items \in Seq(X), NEW usable
    PROVE  FirstFit(items, usable) \in Seq(Seq(X) \ {<<>>})
<1>1. Len(items) \in Nat /\ \A i \in 1..Len(items) : items[i] \in X
  OBVIOUS
<1>2. PICK g : Fills(g, Len(items), items, usable) /\ FirstFit(items, usable) = g[Len(items)]
  BY <1>1, FirstFitRecursion
<1>3. PICK S : S = {i \in 0..Len(items) : g[i] \in Seq(Seq(X) \ {<<>>})}
  OBVIOUS
<1>4. 0 \in S
  <2>1. g[0] = <<>>
    BY <1>1, <1>2 DEF Fills
  <2>2. <<>> \in Seq(Seq(X) \ {<<>>})
    OBVIOUS
  <2>3. 0 \in 0..Len(items)
    BY <1>1
  <2> QED
    BY <1>3, <2>1, <2>2, <2>3
<1>5. ASSUME NEW j \in 0..Len(items) - 1, j \in S PROVE j + 1 \in S
  <2>1. j + 1 \in 0..Len(items) /\ j + 1 # 0 /\ (j + 1) - 1 = j /\ items[j + 1] \in X
    BY <1>1, <1>3, <1>5
  <2>2. g[j + 1] = Place(g[j], items[j + 1], usable)
    BY <1>2, <2>1 DEF Fills
  <2>3. g[j] \in Seq(Seq(X) \ {<<>>})
    BY <1>3, <1>5
  <2>4. g[j + 1] \in Seq(Seq(X) \ {<<>>})
    BY <2>1, <2>2, <2>3, PlaceFacts
  <2> QED
    BY <1>3, <2>1, <2>4
<1>6. Len(items) \in S
  <2>1. PICK N \in Nat : N = Len(items)
    BY <1>1
  <2>2. \A j \in 0..N - 1 : j \in S => j + 1 \in S
    BY <1>5, <2>1
  <2>3. \A j \in 0..N : j \in S
    BY <1>4, <2>2, UpTo
  <2> QED
    BY <2>1, <2>3
<1> QED
  BY <1>2, <1>3, <1>6

\* A plan puts archives of its own on its tapes, and something on each.
LEMMA PackFacts ==
    ASSUME NEW lists \in Seq(Seq(Nat)), NEW r, r.tenths \in Nat, NEW native
    PROVE  Pack(lists, r, native).tapes \in Seq(Seq(PlanItems(DOMAIN lists)) \ {<<>>})
<1>1. PICK A : A = DOMAIN lists
  OBVIOUS
<1>2. A \in SUBSET Nat /\ A = 1..Len(lists) /\ Len(lists) \in Nat
  BY <1>1
<1>3. PICK I : I = Items(lists, r)
  OBVIOUS
<1>4. I \in Seq(PlanItems(A)) /\ Len(I) = Len(lists) /\ \A i \in A : I[i].index = i
  BY <1>1, <1>3, ItemsFacts
<1>5. PICK X : X = Range(I)
  OBVIOUS
<1>6. DOMAIN I = A /\ \A i \in A : I[i] \in PlanItems(A)
  BY <1>2, <1>4
<1>7. X \in SUBSET PlanItems(A) /\ \A x \in X : \E i \in A : x = I[i]
  BY <1>5, <1>6 DEF Range
<1>8. \A x, y \in X : x.index = y.index => x = y
  <2>1. SUFFICES ASSUME NEW x \in X, NEW y \in X, x.index = y.index PROVE x = y
    OBVIOUS
  <2>2. PICK i \in A : x = I[i]
    BY <1>7
  <2>3. PICK j \in A : y = I[j]
    BY <1>7
  <2>4. x.index = i /\ y.index = j
    BY <1>4, <2>2, <2>3
  <2> QED
    BY <2>1, <2>2, <2>3, <2>4
<1>9. IsFiniteSet(X)
  <2>1. IsFiniteSet(A)
    BY <1>2, FS_Interval
  <2>2. I \in [A -> X]
    BY <1>2, <1>4, <1>5, <1>6 DEF Range
  <2>3. I \in Surjection(A, X)
    BY <1>7, <2>2 DEF Surjection
  <2> QED
    BY <2>1, <2>3, FS_Surjection
<1>10. PICK usable : usable = UsableCapacity(native)
  OBVIOUS
<1>11. BySize(X) \in Seq(X)
  BY <1>2, <1>7, <1>8, <1>9, BySizeFacts
<1>12. PICK ts : ts = FirstFit(BySize(X), usable)
  OBVIOUS
<1>13. ts \in Seq(Seq(X) \ {<<>>})
  BY <1>11, <1>12, FirstFitFacts
<1>14. DOMAIN ts = 1..Len(ts) /\ Len(ts) \in Nat /\ \A t \in 1..Len(ts) : ts[t] \in Seq(X) \ {<<>>}
  BY <1>13
<1>15. ASSUME NEW t \in 1..Len(ts) PROVE InSourceOrder(Range(ts[t])) \in Seq(PlanItems(A)) \ {<<>>}
  <2>1. PICK tape : tape = ts[t]
    OBVIOUS
  <2>2. tape \in Seq(X) /\ tape # <<>>
    BY <1>14, <2>1
  <2>3. DOMAIN tape = 1..Len(tape) /\ Len(tape) \in Nat /\ Len(tape) # 0 /\ \A n \in 1..Len(tape) : tape[n] \in X
    BY <2>2
  <2>4. PICK Y : Y = Range(tape)
    OBVIOUS
  <2>5. Y \in SUBSET X /\ tape[1] \in Y
    <3>1. 1 \in DOMAIN tape
      BY <2>3
    <3>2. tape[1] \in Y
      BY <2>4, <3>1 DEF Range
    <3>3. Y \in SUBSET X
      BY <2>3, <2>4 DEF Range
    <3> QED
      BY <3>2, <3>3
  <2>6. IsFiniteSet(Y) /\ Y # {} /\ Y \in SUBSET PlanItems(A)
    BY <1>7, <1>9, <2>5, FS_Subset
  <2>7. \A x, y \in Y : x.index = y.index => x = y
    BY <1>8, <2>5
  <2>8. InSourceOrder(Y) \in Seq(Y) \ {<<>>}
    BY <1>2, <2>6, <2>7, InSourceOrderFacts
  <2>9. InSourceOrder(Y) \in Seq(PlanItems(A)) \ {<<>>}
    BY <2>6, <2>8
  <2> QED
    BY <2>1, <2>4, <2>9
<1>16. PICK T : T = Seq(PlanItems(A)) \ {<<>>}
  OBVIOUS
<1>17. [t \in DOMAIN ts |-> InSourceOrder(Range(ts[t]))] \in Seq(T)
  <2>1. \A t \in 1..Len(ts) : InSourceOrder(Range(ts[t])) \in T
    BY <1>15, <1>16
  <2> QED
    BY <1>14, <2>1
<1>18. <<>> \in Seq(T)
  OBVIOUS
<1>19. \/ Pack(lists, r, native).tapes = <<>>
       \/ Pack(lists, r, native).tapes = [t \in DOMAIN ts |-> InSourceOrder(Range(ts[t]))]
  BY <1>3, <1>5, <1>10, <1>12 DEF Pack
<1> QED
  BY <1>1, <1>16, <1>17, <1>18, <1>19

-----------------------------------------------------------------------------
(* The theorem *)

LEMMA StartsRight ==
    ASSUME StagingInit
    PROVE  StagingInv
<1>1. PICK i \in Inputs : input = WorkedOut(i)
  BY DEF StagingInit
<1>2. /\ i.slices \in Seq(Seq(Nat) \ {<<>>}) /\ i.slices # <<>> /\ i.redundancy.tenths \in 0..10 * MaxPercent
      /\ MaxAttempts \in Nat \ {0} /\ MaxMishaps \in Nat
  BY <1>1, StagingAssumption
<1>3. input.slices = i.slices /\ input.pack = Pack(i.slices, i.redundancy, i.native)
  BY <1>1 DEF WorkedOut
<1>4. InputInv
  <2>1. PICK lists : lists = i.slices
    OBVIOUS
  <2>2. PICK r : r = i.redundancy
    OBVIOUS
  <2>3. PICK native : native = i.native
    OBVIOUS
  <2>4. lists \in Seq(Seq(Nat))
    BY <1>2, <2>1
  <2>5. r.tenths \in Nat
    <3>1. PICK most : most = 10 * MaxPercent
      OBVIOUS
    <3>2. most = 1000
      BY <3>1 DEF MaxPercent
    <3> QED
      BY <1>2, <2>2, <3>1, <3>2
  <2>6. Pack(lists, r, native).tapes \in Seq(Seq(PlanItems(DOMAIN lists)) \ {<<>>})
    BY <2>4, <2>5, PackFacts
  <2>7. input.pack.tapes \in Seq(Seq(PlanItems(Archives)) \ {<<>>})
    BY <1>3, <2>1, <2>2, <2>3, <2>6 DEF Archives
  <2> QED
    BY <1>2, <1>3, <2>7 DEF InputInv
<1>5. /\ phase = "prepare" /\ attempt = 1 /\ staged = 0 /\ sets = <<>> /\ plan = <<>> /\ checked = AtFirst
      /\ tapes = <<>> /\ reason = "none" /\ mishaps = 0 /\ par = [k \in Attempts |-> NoPAR2]
      /\ pdisk = [a \in Archives |-> [f \in SetFiles |-> None]]
  BY DEF StagingInit
<1>6. 1 \in Attempts /\ \A k \in Attempts : k \in Nat
  BY <1>2 DEF Attempts
<1>7. PICK q : q = [NoPrepare EXCEPT !.st = "run"]
  OBVIOUS
<1>8. DOMAIN prep = Attempts /\ prep[1] = q /\ \A k \in Attempts : k # 1 => prep[k] = NoPrepare
  BY <1>6, <1>7 DEF StagingInit
<1>9. AttemptInv
  <2>1. 1 \in Archives /\ 1 \in Slices(1)
    BY <1>4, ArchiveFacts
  <2>2. ASSUME NEW k \in Attempts PROVE PrepOK(prep[k], k, "prepare", 1)
    <3>1. CASE k = 1
      <4>1. DOMAIN q = {"st", "a", "s", "pc"} /\ q.st = "run" /\ q.a = 1 /\ q.s = 1 /\ q.pc = "create"
        BY <1>7 DEF NoPrepare
      <4> QED
        BY <1>6, <1>8, <2>1, <3>1, <4>1 DEF PrepOK
    <3>2. CASE k # 1
      BY <1>6, <1>8, <2>1, <3>2 DEF PrepOK, NoPrepare
    <3> QED
      BY <3>1, <3>2
  <2>3. ASSUME NEW k \in Attempts PROVE ParOK(par[k], k, "prepare", 1)
    <3>1. par[k] = NoPAR2
      BY <1>5
    <3> QED
      BY <2>1, <3>1 DEF ParOK, NoPAR2
  <2> QED
    BY <1>5, <1>6, <1>8, <2>2, <2>3 DEF AttemptInv
<1>10. PhaseInv
  BY <1>2, <1>5 DEF PhaseInv, PastPack
<1>11. FilesInv
  <2>1. DOMAIN disk = Archives /\ \A a \in Archives : disk[a] = [s \in Slices(a) |-> None]
    BY DEF StagingInit
  <2>2. ASSUME NEW a \in Archives PROVE IsOver(disk[a], Slices(a)) /\ IsOver(pdisk[a], SetFiles)
    BY <1>5, <2>1 DEF IsOver
  <2> QED
    BY <1>5, <2>1, <2>2 DEF FilesInv
<1>12. SetInv /\ PartInv
  BY <1>5 DEF SetInv, PartInv, PastPack
<1>13. VerifyInv
  <2>1. checked = <<1, 0>> /\ checked[1] = 1 /\ checked[2] = 0 /\ checked = <<checked[1], checked[2]>>
    BY <1>5 DEF AtFirst
  <2>2. Len(plan) = 0 /\ DOMAIN plan = {}
    BY <1>5
  <2> QED
    BY <1>5, <2>1, <2>2 DEF VerifyInv, AtFirst
<1>14. TapeInv
  <2>1. <<>> \in Seq({}) /\ Len(<<>>) = 0 /\ DOMAIN <<>> = {}
    OBVIOUS
  <2> QED
    BY <1>5, <2>1 DEF TapeInv
<1>15. RetryInv
  BY <1>5 DEF RetryInv
<1> QED
  BY <1>4, <1>9, <1>10, <1>11, <1>12, <1>13, <1>14, <1>15 DEF StagingInv

\* Every tape holds what was planned, verified and recorded for it, with parity
\* made of the very slices beside it, whatever attempts of Prepare and of Generate
\* PAR2 took part, were lost or crashed (stageArchive, generateArchivePAR2, verify,
\* buildManifest).
THEOREM TapesAreSound == StagingSpec => []TapesSound
<1>1. StagingInit => StagingInv
  BY StartsRight
<1>2. StagingInv /\ [StagingNext]_stagingVars => StagingInv'
  BY StagingStep
<1>3. StagingInv => TapesSound
  BY TapesHold
<1> QED
  BY <1>1, <1>2, <1>3, PTL DEF StagingSpec
=============================================================================

---------------------------- MODULE PhaseProofs ----------------------------
(***************************************************************************)
(* Proofs about the first phase and the last: BurnPath, for any number of  *)
(* burners, copies and discs, any faults and any resumes; and Resolve, for *)
(* any sources, pool and cluster and any changes of them.                  *)
(***************************************************************************)
EXTENDS BurnPath, Resolve, FiniteSetTheorems, WellFoundedInduction, TLAPS

-----------------------------------------------------------------------------
(* BurnPath *)

\* What the position of a burner's coroutine says about the workflow, and what
\* the types of the results and of erased rest on.
BurnType ==
    /\ TypeOK
    /\ \A x \in Discs : medium[x] = "used" => x \in Used
    /\ \A d \in Burners : step[d] # "idle" => wf \in {"burning", "cancelled"}
    /\ \A d \in Burners : step[d] \in {"blank", "write", "verify", "ok"} => tray[d] \in Discs

\* A disc is in one burner, and a coroutine knows what it needs of its own:
\* whether the burner made a verified copy, and that the disc in it is blank
\* when it is written and an image when it is verified.
BurnerInv ==
    /\ \A c, d \in Burners : tray[c] = tray[d] /\ tray[c] # NoDisc => c = d
    /\ \A d \in Burners : step[d] # "idle" => (guard[d] <=> \E r \in burned : r.device = d)
    /\ \A d \in Burners : step[d] = "blank" => AllowNonBlank /\ ~guard[d] /\ tray[d] \in Rewritable
    /\ \A d \in Burners : step[d] = "write" => medium[tray[d]] = "blank"
    /\ \A d \in Burners : step[d] = "ok" => medium[tray[d]] = "image"

\* Discs that do not cross stay with the burner that made them.
StaysPut ==
    ~Crosses =>
      /\ \A d \in Burners : tray[d] # NoDisc => from[tray[d]] = d
      /\ \A r \in burned : from[r.disc] = r.device

\* No burner is at work on a disc on record, and every one on record is intact.
DiscInv ==
    /\ CopiesIntact
    /\ \A d \in Burners : step[d] \in {"verify", "ok"} => \A r \in burned : r.disc # tray[d]

\* The copies handed out so far are on record or pending, each once.
CopyInv ==
    /\ \A a, b \in pending : a.device = b.device \/ a.copy = b.copy => a = b
    /\ \A a \in pending, r \in burned : a.copy # r.copy
    /\ {r.copy : r \in burned} \cup {a.copy : a \in pending} = 0..base - 1
    /\ wf \in {"set", "swapPause", "report", "ok"} => pending = {}
    /\ wf \in {"report", "ok"} => base = Copies

BurnInv == BurnType /\ BurnerInv /\ StaysPut /\ CopyInv /\ DiscInv

-----------------------------------------------------------------------------
(* The sets of planBurnSets and what a command does to a disc *)

\* The next set: copies base to base + size - 1, one per burner, and no more
\* than are left.
LEMMA NextSet ==
    ASSUME TypeOK
    PROVE  \E size \in 0..NumBurners :
              /\ NextBurnSet = {[device |-> n, copy |-> base + n - 1] : n \in 1..size}
              /\ Cardinality(NextBurnSet) = size
              /\ base + size <= Copies
<1> DEFINE size == IF Copies - base < NumBurners THEN Copies - base ELSE NumBurners
           rec(n) == [device |-> n, copy |-> base + n - 1]
           f == [n \in 1..size |-> rec(n)]
<1>1. size \in 0..NumBurners /\ size \in Nat /\ base + size <= Copies
  BY BurnAssumption DEF TypeOK
<1>2. NextBurnSet = {rec(n) : n \in 1..size}
  BY DEF NextBurnSet
<1>3. f \in Bijection(1..size, NextBurnSet)
  <2> HIDE DEF size
  <2>1. f \in [1..size -> NextBurnSet]
    BY <1>2
  <2>2. \A m, n \in 1..size : f[m] = f[n] => m = n
    OBVIOUS
  <2>3. \A a \in NextBurnSet : \E n \in 1..size : f[n] = a
    BY <1>2
  <2> HIDE DEF f
  <2>4. f \in Injection(1..size, NextBurnSet) /\ f \in Surjection(1..size, NextBurnSet)
    BY <2>1, <2>2, <2>3 DEF Injection, IsInjective, Surjection
  <2> QED
    BY <2>4 DEF Bijection
<1>4. ExistsBijection(1..size, NextBurnSet)
  BY <1>3 DEF ExistsBijection
<1>5. Cardinality(NextBurnSet) = size
  <2> HIDE DEF size, f
  <2> QED
    BY <1>1, <1>4, FS_CountingElements
<1> HIDE DEF size
<1> QED
  BY <1>1, <1>2, <1>5

\* A command changes the disc in its own burner and no other.
LEMMA BecomesChanges ==
    ASSUME BurnType, NEW x \in Discs, NEW content \in {medium[x], "blank", "image", "bad"},
           Becomes(x, content)
    PROVE  /\ medium' \in [Discs -> {"blank", "used", "image", "bad"}]
           /\ medium'[x] = content
           /\ \A y \in Discs : y # x => medium'[y] = medium[y]
           /\ erased' \subseteq Used
           /\ \A y \in Discs : medium'[y] = "used" => y \in Used
           /\ \A y \in erased' \ erased : y = x /\ medium[x] = "used"
           /\ tray' = tray /\ from' = from
BY DEF BurnType, TypeOK, Becomes

-----------------------------------------------------------------------------
(* Types *)

LEMMA StartsType ==
    ASSUME BurnType, NEW set \in SUBSET Assignment, Starts(set), base' \in 0..Copies,
           UNCHANGED <<burned, disc, faults>>, resumes' \in 0..MaxResumes
    PROVE  BurnType'
<1>1. guard' \in [Burners -> BOOLEAN] /\ over' \in [Burners -> BOOLEAN]
  BY DEF Starts, DeviceHasVerifiedCopy
<1>2. step' \in [Burners -> Busy \cup {"idle", "ok", "err"}]
  BY DEF Starts, Busy
<1>3. \A d \in Burners : step'[d] \in {"state", "idle"}
  BY DEF Starts
<1>4. wf' = "burning" /\ pending' \subseteq Assignment
  BY DEF Starts
<1> QED
  BY <1>1, <1>2, <1>3, <1>4 DEF BurnType, TypeOK, disc

LEMMA BurnTypePreserved ==
    ASSUME BurnType, [Next]_vars
    PROVE  BurnType'
<1> USE BurnAssumption
<1>s. base + Cardinality(NextBurnSet) \in 0..Copies /\ NextBurnSet \subseteq Assignment
  BY NextSet DEF Assignment, Burners, BurnType, TypeOK
<1>1. CASE RunBurnPath
  <2>1. CASE base = 0 /\ Starts(NextBurnSet) /\ base' = base + Cardinality(NextBurnSet)
    BY <1>1, <2>1, <1>s, StartsType DEF RunBurnPath, BurnType, TypeOK
  <2>2. CASE wf' \in {"swapPause", "report"} /\ UNCHANGED <<base, pending, job>>
    BY <1>1, <2>2 DEF RunBurnPath, BurnType, TypeOK, job, disc, Pauses
  <2> QED
    BY <1>1, <2>1, <2>2 DEF RunBurnPath
<1>2. CASE SetDone
  <2>1. burned' \subseteq BurnResult
    <3> DEFINE new == {[device |-> a.device, copy |-> a.copy, disc |-> tray[a.device],
                        overwrote |-> over[a.device]] : a \in {b \in pending : step[b.device] = "ok"}}
    <3>1. burned' = burned \cup new
      BY <1>2 DEF SetDone
    <3>2. \A a \in pending : step[a.device] = "ok" =>
            /\ a.device \in Burners /\ a.copy \in 0..Copies - 1
            /\ tray[a.device] \in Discs /\ over[a.device] \in BOOLEAN
      BY DEF BurnType, TypeOK, Assignment
    <3>3. new \subseteq BurnResult
      BY <3>2 DEF BurnResult
    <3> QED
      BY <3>1, <3>3 DEF BurnType, TypeOK
  <2>2. pending' \subseteq Assignment
    BY <1>2 DEF SetDone, RetryBurnSet, BurnType, TypeOK
  <2>3. step' \in [Burners -> Busy \cup {"idle", "ok", "err"}] /\ \A d \in Burners : step'[d] = "idle"
    BY <1>2 DEF SetDone
  <2>4. wf' \in {"set", "failPause"}
    BY <1>2 DEF SetDone
  <2> QED
    BY <1>2, <2>1, <2>2, <2>3, <2>4 DEF SetDone, BurnType, TypeOK, disc, Pauses
<1>3. CASE Resume
  BY <1>3, <1>s, StartsType DEF Resume, BurnType, TypeOK
<1>4. CASE PauseEnds \/ Cancel
  BY <1>4 DEF PauseEnds, Cancel, BurnType, TypeOK, job, disc, Terminal, Pauses
<1>5. CASE RebuildDeliveredReport
  BY <1>5 DEF RebuildDeliveredReport, BurnType, TypeOK, job, disc, Terminal
<1>6. ASSUME NEW d \in Burners, Unload(d)
      PROVE  BurnType'
  <2>1. \A c \in Burners : step[c] = "idle"
    BY <1>6 DEF Unload, Pauses, BurnType
  <2> QED
    BY <1>6, <2>1 DEF Unload, BurnType, TypeOK, flow, job
<1>7. ASSUME NEW d \in Burners, NEW x \in Discs, Insert(d, x)
      PROVE  BurnType'
  <2>1. \A c \in Burners : step[c] = "idle"
    BY <1>7 DEF Insert, Pauses, BurnType
  <2> QED
    BY <1>7, <2>1 DEF Insert, BurnType, TypeOK, flow, job
<1>8. ASSUME NEW d \in Burners, NEW s \in {"blank", "write", "verify", "ok", "err"}, Goes(d, s), step[d] # "idle",
             s # "err" => tray[d] \in Discs, UNCHANGED flow
      PROVE  /\ step' \in [Burners -> Busy \cup {"idle", "ok", "err"}]
             /\ \A c \in Burners : step'[c] # "idle" => wf' \in {"burning", "cancelled"}
             /\ \A c \in Burners : step'[c] \in {"blank", "write", "verify", "ok"} => tray[c] \in Discs
  BY <1>8 DEF Goes, BurnType, TypeOK, Busy, flow
<1>9. Fault => faults' \in 0..MaxFaults
  BY DEF Fault, BurnType, TypeOK
<1>10. ASSUME NEW d \in Burners, ReadState(d)
       PROVE  BurnType'
  <2>1. PICK s \in {"blank", "write", "verify", "ok", "err"} : Goes(d, s) /\ (s # "err" => tray[d] \in Discs)
    BY <1>10 DEF ReadState, DecideBurn, BurnType, TypeOK
  <2>2. faults' \in 0..MaxFaults
    BY <1>9, <1>10 DEF ReadState, BurnType, TypeOK
  <2> QED
    BY <1>8, <1>10, <2>1, <2>2 DEF ReadState, BurnType, TypeOK, flow, disc
<1>11. ASSUME NEW d \in Burners, VerifyDisc(d)
       PROVE  BurnType'
  <2>1. PICK s \in {"ok", "err"} : Goes(d, s) /\ tray[d] \in Discs
    BY <1>11 DEF VerifyDisc, BurnType, TypeOK
  <2>2. faults' \in 0..MaxFaults
    BY <1>9, <1>11 DEF VerifyDisc, BurnType, TypeOK
  <2> QED
    BY <1>8, <1>11, <2>1, <2>2 DEF VerifyDisc, BurnType, TypeOK, flow, disc
<1>12. ASSUME NEW d \in Burners, Blank(d)
       PROVE  BurnType'
  <2>0. tray[d] \in Discs /\ step[d] # "idle" /\ UNCHANGED <<flow, guard, resumes>>
    BY <1>12 DEF Blank, BurnType
  <2>1. PICK s \in {"write", "err"} : Goes(d, s)
    BY <1>12 DEF Blank
  <2>2. faults' \in 0..MaxFaults
    BY <1>9, <1>12 DEF Blank, BurnType, TypeOK
  <2>3. over' \in [Burners -> BOOLEAN]
    BY <1>12 DEF Blank, BurnType, TypeOK
  <2>4. PICK content \in {medium[tray[d]], "blank", "image", "bad"} : Becomes(tray[d], content)
    BY <1>12 DEF Blank
  <2> QED
    BY <1>8, <2>0, <2>1, <2>2, <2>3, <2>4, BecomesChanges DEF BurnType, TypeOK, flow
<1>13. ASSUME NEW d \in Burners, WriteImage(d)
       PROVE  BurnType'
  <2>0. tray[d] \in Discs /\ step[d] # "idle" /\ UNCHANGED <<flow, guard, over, resumes>>
    BY <1>13 DEF WriteImage, BurnType
  <2>1. PICK s \in {"verify", "err"} : Goes(d, s)
    BY <1>13 DEF WriteImage
  <2>2. faults' \in 0..MaxFaults
    BY <1>9, <1>13 DEF WriteImage, BurnType, TypeOK
  <2>3. \/ UNCHANGED disc
        \/ \E content \in {medium[tray[d]], "blank", "image", "bad"} : Becomes(tray[d], content)
    BY <1>13 DEF WriteImage
  <2>4. CASE UNCHANGED disc
    BY <1>8, <2>0, <2>1, <2>2, <2>4 DEF BurnType, TypeOK, flow, disc
  <2>5. CASE ~ UNCHANGED disc
    <3>1. PICK content \in {medium[tray[d]], "blank", "image", "bad"} : Becomes(tray[d], content)
      BY <2>3, <2>5
    <3> QED
      BY <1>8, <2>0, <2>1, <2>2, <3>1, BecomesChanges DEF BurnType, TypeOK, flow
  <2> QED
    BY <2>4, <2>5
<1>14. CASE Ended \/ UNCHANGED vars
  BY <1>14 DEF Ended, vars, BurnType, TypeOK, flow, job, disc
<1> QED
  BY <1>1, <1>2, <1>3, <1>4, <1>5, <1>6, <1>7, <1>10, <1>11, <1>12, <1>13, <1>14
     DEF Next, Workflow, Operator, DiscNext

-----------------------------------------------------------------------------
(* The burners *)

\* A command of one burner leaves the discs in the others as they are.
LEMMA OthersKept ==
    ASSUME BurnType, BurnerInv, NEW d \in Burners, tray[d] \in Discs,
           NEW content \in {medium[tray[d]], "blank", "image", "bad"}, Becomes(tray[d], content)
    PROVE  \A c \in Burners : c # d /\ tray[c] \in Discs => medium'[tray[c]] = medium[tray[c]]
<1>1. \A c \in Burners : c # d /\ tray[c] \in Discs => tray[c] # tray[d]
  BY BurnAssumption DEF BurnerInv
<1> QED
  BY <1>1, BecomesChanges

LEMMA BurnerPreserved ==
    ASSUME BurnType, BurnerInv, [Next]_vars
    PROVE  BurnerInv'
<1> USE BurnAssumption
<1>t. BurnType'
  BY BurnTypePreserved
<1>s. ASSUME NEW set, Starts(set), UNCHANGED <<burned, disc>>
      PROVE  BurnerInv'
  <2>1. \A d \in Burners : step'[d] \in {"state", "idle"}
    BY <1>s DEF Starts
  <2>2. \A d \in Burners : guard'[d] <=> \E r \in burned' : r.device = d
    BY <1>s DEF Starts, DeviceHasVerifiedCopy
  <2> QED
    BY <1>s, <2>1, <2>2 DEF BurnerInv, disc
<1>1. CASE RunBurnPath
  <2>1. CASE \E set : Starts(set)
    BY <1>1, <1>s, <2>1 DEF RunBurnPath
  <2>2. CASE UNCHANGED job
    BY <1>1, <2>2 DEF RunBurnPath, BurnerInv, job, disc
  <2> QED
    BY <1>1, <2>1, <2>2 DEF RunBurnPath
<1>2. CASE SetDone
  BY <1>2 DEF SetDone, BurnerInv, disc
<1>3. CASE Resume
  BY <1>3, <1>s DEF Resume
<1>4. CASE PauseEnds \/ Cancel \/ RebuildDeliveredReport \/ Ended \/ UNCHANGED vars
  BY <1>4 DEF PauseEnds, Cancel, RebuildDeliveredReport, Ended, vars, BurnerInv, flow, job, disc
<1>5. ASSUME NEW d \in Burners, Unload(d) \/ \E x \in Discs : Insert(d, x)
      PROVE  BurnerInv'
  <2>1. \A c \in Burners : step'[c] = "idle"
    BY <1>5 DEF Unload, Insert, Pauses, BurnType, job
  <2>2. \A b, c \in Burners : tray'[b] = tray'[c] /\ tray'[b] # NoDisc => b = c
    BY <1>5 DEF Unload, Insert, BurnerInv, BurnType, TypeOK
  <2> QED
    BY <2>1, <2>2 DEF BurnerInv
<1>6. ASSUME NEW d \in Burners, NEW s, Goes(d, s), step[d] # "idle",
             UNCHANGED <<flow, guard, tray>>,
             s = "blank" => AllowNonBlank /\ ~guard[d] /\ tray[d] \in Rewritable,
             s = "write" => medium'[tray[d]] = "blank",
             s = "ok" => medium'[tray[d]] = "image",
             \A c \in Burners : c # d /\ tray[c] \in Discs => medium'[tray[c]] = medium[tray[c]]
      PROVE  BurnerInv'
  <2>1. step'[d] = s /\ \A c \in Burners : c # d => step'[c] = step[c]
    BY <1>6 DEF Goes, BurnType, TypeOK
  <2>2. \A c \in Burners : step[c] \in {"write", "ok"} => tray[c] \in Discs
    BY DEF BurnType
  <2> QED
    BY <1>6, <2>1, <2>2 DEF BurnerInv, flow
<1>7. ASSUME NEW d \in Burners, ReadState(d)
      PROVE  BurnerInv'
  <2>1. PICK s : /\ Goes(d, s)
                 /\ s = "blank" => AllowNonBlank /\ ~guard[d] /\ tray[d] \in Rewritable
                 /\ s = "write" => medium[tray[d]] = "blank"
                 /\ s # "ok"
    BY <1>7 DEF ReadState, DecideBurn, DiscStates
  <2> QED
    BY <1>6, <1>7, <2>1 DEF ReadState, disc
<1>8. ASSUME NEW d \in Burners, VerifyDisc(d)
      PROVE  BurnerInv'
  <2>1. PICK s \in {"ok", "err"} : Goes(d, s) /\ (s = "ok" => medium[tray[d]] = "image")
    BY <1>8 DEF VerifyDisc
  <2> QED
    BY <1>6, <1>8, <2>1 DEF VerifyDisc, disc
<1>9. ASSUME NEW d \in Burners, Blank(d)
      PROVE  BurnerInv'
  <2>1. PICK s \in {"write", "err"}, content \in {medium[tray[d]], "blank", "image", "bad"} :
          Goes(d, s) /\ Becomes(tray[d], content) /\ (s = "write" => content = "blank")
    BY <1>9 DEF Blank
  <2>2. tray[d] \in Discs
    BY <1>9 DEF Blank, BurnType
  <2>3. medium'[tray[d]] = content /\ tray' = tray
    BY <2>1, <2>2, BecomesChanges
  <2>4. \A c \in Burners : c # d /\ tray[c] \in Discs => medium'[tray[c]] = medium[tray[c]]
    BY <2>1, <2>2, OthersKept
  <2> QED
    BY <1>6, <1>9, <2>1, <2>3, <2>4 DEF Blank
<1>10. ASSUME NEW d \in Burners, WriteImage(d)
       PROVE  BurnerInv'
  <2>1. PICK s \in {"verify", "err"} : Goes(d, s)
    BY <1>10 DEF WriteImage
  <2>2. \/ UNCHANGED disc
        \/ \E content \in {medium[tray[d]], "blank", "image", "bad"} : Becomes(tray[d], content)
    BY <1>10 DEF WriteImage
  <2>3. tray[d] \in Discs
    BY <1>10 DEF WriteImage, BurnType
  <2>4. /\ tray' = tray
        /\ \A c \in Burners : c # d /\ tray[c] \in Discs => medium'[tray[c]] = medium[tray[c]]
    BY <2>2, <2>3, OthersKept, BecomesChanges DEF disc
  <2> QED
    BY <1>6, <1>10, <2>1, <2>4 DEF WriteImage
<1> QED
  BY <1>1, <1>2, <1>3, <1>4, <1>5, <1>7, <1>8, <1>9, <1>10 DEF Next, Workflow, Operator, DiscNext

-----------------------------------------------------------------------------
(* The copies handed out *)

LEMMA CopyPreserved ==
    ASSUME BurnType, CopyInv, [Next]_vars
    PROVE  CopyInv'
<1> USE BurnAssumption
<1>s. ASSUME Starts(NextBurnSet), base' = base + Cardinality(NextBurnSet), pending = {}, burned' = burned
      PROVE  CopyInv'
  <2>1. PICK size \in 0..NumBurners :
           /\ NextBurnSet = {[device |-> n, copy |-> base + n - 1] : n \in 1..size}
           /\ Cardinality(NextBurnSet) = size
    BY NextSet DEF BurnType
  <2>2. wf' = "burning" /\ pending' = {[device |-> n, copy |-> base + n - 1] : n \in 1..size}
    BY <1>s, <2>1 DEF Starts
  <2>3. base \in Nat /\ base' = base + size /\ base' - 1 = base + size - 1
    BY <1>s, <2>1 DEF BurnType, TypeOK
  <2>4. {a.copy : a \in pending'} = base..base' - 1
    <3>1. \A a \in pending' : a.copy \in base..base' - 1
      BY <2>2, <2>3
    <3>2. ASSUME NEW k \in base..base' - 1
          PROVE  \E a \in pending' : a.copy = k
      <4>1. k - base + 1 \in 1..size /\ base + (k - base + 1) - 1 = k
        BY <2>3
      <4>2. [device |-> k - base + 1, copy |-> base + (k - base + 1) - 1] \in pending'
        BY <2>2, <4>1
      <4> QED
        BY <4>1, <4>2
    <3> QED
      BY <3>1, <3>2
  <2>5. {r.copy : r \in burned} = 0..base - 1
    BY <1>s DEF CopyInv
  <2>6. {r.copy : r \in burned'} \cup {a.copy : a \in pending'} = 0..base' - 1
    BY <1>s, <2>3, <2>4, <2>5
  <2>7. \A a, b \in pending' : a.device = b.device \/ a.copy = b.copy => a = b
    BY <2>2, <2>3
  <2>8. \A a \in pending', r \in burned' : a.copy # r.copy
    <3>1. \A a \in pending' : a.copy \in base..base' - 1
      BY <2>4
    <3>2. \A r \in burned' : r.copy \in 0..base - 1
      BY <1>s, <2>5
    <3> QED
      BY <2>3, <3>1, <3>2
  <2> QED
    BY <2>2, <2>6, <2>7, <2>8 DEF CopyInv
<1>1. CASE RunBurnPath
  <2>1. CASE base = 0 /\ Starts(NextBurnSet) /\ base' = base + Cardinality(NextBurnSet)
    BY <1>1, <1>s, <2>1 DEF RunBurnPath, CopyInv
  <2>2. CASE UNCHANGED <<base, pending, job>>
    BY <1>1, <2>2 DEF RunBurnPath, CopyInv, Starts
  <2> QED
    BY <1>1, <2>1, <2>2 DEF RunBurnPath
<1>2. CASE SetDone
  <2> DEFINE rec(a) == [device |-> a.device, copy |-> a.copy, disc |-> tray[a.device],
                        overwrote |-> over[a.device]]
             done == {b \in pending : step[b.device] = "ok"}
             left == {b \in pending : step[b.device] = "err"}
  <2>1. burned' = burned \cup {rec(a) : a \in done} /\ pending' = left /\ base' = base
    BY <1>2 DEF SetDone, RetryBurnSet
  <2>2. pending = done \cup left
    BY <1>2 DEF SetDone
  <2>3. wf' \in {"set", "failPause"} /\ (wf' = "set" => pending' = {})
    BY <1>2 DEF SetDone
  <2>4. {r.copy : r \in burned'} = {r.copy : r \in burned} \cup {a.copy : a \in done}
    <3>1. \A a \in done : rec(a).copy = a.copy /\ rec(a) \in burned'
      BY <2>1
    <3>2. \A r \in burned' : r \in burned \/ \E a \in done : r.copy = a.copy
      BY <2>1
    <3>3. burned \subseteq burned'
      BY <2>1
    <3> HIDE DEF rec, done
    <3> QED
      BY <3>1, <3>2, <3>3
  <2>5. {a.copy : a \in pending} = {a.copy : a \in done} \cup {a.copy : a \in left}
    BY <2>2
  <2>6. {r.copy : r \in burned'} \cup {a.copy : a \in pending'} = 0..base' - 1
    BY <2>1, <2>4, <2>5 DEF CopyInv
  <2>7. \A a, b \in pending' : a.device = b.device \/ a.copy = b.copy => a = b
    BY <2>1, <2>2 DEF CopyInv
  <2>8. \A a \in pending', r \in burned' : a.copy # r.copy
    <3>1. \A a \in left, b \in done : a.copy # b.copy
      BY <2>2 DEF CopyInv
    <3>2. \A r \in burned' : r \in burned \/ \E b \in done : r.copy = b.copy
      BY <2>1
    <3> QED
      BY <2>1, <3>1, <3>2 DEF CopyInv
  <2> QED
    BY <2>3, <2>6, <2>7, <2>8 DEF CopyInv
<1>3. CASE Resume
  <2>1. CASE wf = "swapPause" /\ Starts(NextBurnSet) /\ base' = base + Cardinality(NextBurnSet)
    BY <1>3, <1>s, <2>1 DEF Resume, CopyInv
  <2>2. CASE wf = "failPause" /\ Starts(pending) /\ UNCHANGED base
    BY <1>3, <2>2 DEF Resume, CopyInv, Starts
  <2> QED
    BY <1>3, <2>1, <2>2 DEF Resume
<1>4. CASE PauseEnds \/ Cancel \/ RebuildDeliveredReport
  BY <1>4 DEF PauseEnds, Cancel, RebuildDeliveredReport, CopyInv
<1>5. CASE UNCHANGED flow
  BY <1>5 DEF flow, CopyInv
<1> QED
  BY <1>1, <1>2, <1>3, <1>4, <1>5 DEF Next, Workflow, Operator, DiscNext, Ended, vars, Unload, Insert,
     ReadState, VerifyDisc, Blank, WriteImage

-----------------------------------------------------------------------------
(* The discs on record *)

LEMMA StaysPutPreserved ==
    ASSUME BurnType, StaysPut, [Next]_vars
    PROVE  StaysPut'
<1> SUFFICES ASSUME ~Crosses
             PROVE  /\ \A d \in Burners : tray'[d] # NoDisc => from'[tray'[d]] = d
                    /\ \A r \in burned' : from'[r.disc] = r.device
  BY DEF StaysPut
<1>0. /\ \A d \in Burners : tray[d] # NoDisc => from[tray[d]] = d
      /\ \A r \in burned : from[r.disc] = r.device /\ r.disc \in Discs /\ r.device \in Burners
      /\ \A d \in Burners : d # 0
  BY DEF StaysPut, BurnType, TypeOK, BurnResult, Burners
<1>1. CASE SetDone
  <2>1. \A r \in burned' : r \in burned \/ \E a \in pending :
           r.device = a.device /\ r.disc = tray[a.device] /\ step[a.device] = "ok"
    BY <1>1 DEF SetDone
  <2>2. \A a \in pending : step[a.device] = "ok" => a.device \in Burners /\ tray[a.device] # NoDisc
    BY BurnAssumption DEF BurnType, TypeOK, Assignment
  <2> QED
    BY <1>0, <1>1, <2>1, <2>2 DEF SetDone, disc
<1>2. ASSUME NEW d \in Burners, Unload(d)
      PROVE  StaysPut'
  BY <1>0, <1>2 DEF Unload, flow, BurnType, TypeOK, StaysPut
<1>3. ASSUME NEW d \in Burners, NEW x \in Discs, Insert(d, x)
      PROVE  StaysPut'
  <2>1. /\ from[x] \in {0, d} /\ tray' = [tray EXCEPT ![d] = x] /\ from' = [from EXCEPT ![x] = d]
        /\ burned' = burned /\ \A c \in Burners : tray[c] # x
    BY <1>3 DEF Insert, flow
  <2>2. \A r \in burned : from'[r.disc] = r.device
    BY <1>0, <2>1 DEF BurnType, TypeOK
  <2>3. \A c \in Burners : tray'[c] # NoDisc => from'[tray'[c]] = c
    BY <1>0, <2>1 DEF BurnType, TypeOK
  <2> QED
    BY <2>1, <2>2, <2>3 DEF StaysPut
<1>4. CASE UNCHANGED <<burned, tray, from>>
  BY <1>0, <1>4
<1> QED
  BY <1>1, <1>2, <1>3, <1>4 DEF Next, Workflow, Operator, DiscNext, Ended, vars, StaysPut, RunBurnPath, Resume,
     PauseEnds, Cancel, RebuildDeliveredReport, ReadState, VerifyDisc, Blank, WriteImage, Becomes, flow, disc

LEMMA DiscPreserved ==
    ASSUME ~Crosses \/ ~AllowNonBlank, BurnInv, [Next]_vars
    PROVE  DiscInv'
<1> USE BurnAssumption
<1>0. /\ BurnType /\ BurnerInv /\ StaysPut /\ CopyInv /\ DiscInv
      /\ \A r \in burned : r.disc \in Discs /\ r.device \in Burners
  BY DEF BurnInv, BurnType, TypeOK, BurnResult
<1>1. ASSUME UNCHANGED <<burned, medium>>, \A d \in Burners : step'[d] \notin {"verify", "ok"}
      PROVE  DiscInv'
  BY <1>0, <1>1 DEF DiscInv, CopiesIntact
<1>2. ASSUME NEW set, Starts(set), UNCHANGED <<burned, disc>>
      PROVE  DiscInv'
  BY <1>1, <1>2 DEF Starts, disc
<1>3. CASE SetDone
  <2> DEFINE rec(a) == [device |-> a.device, copy |-> a.copy, disc |-> tray[a.device],
                        overwrote |-> over[a.device]]
             done == {b \in pending : step[b.device] = "ok"}
  <2>1. /\ burned' = burned \cup {rec(a) : a \in done} /\ medium' = medium
        /\ \A d \in Burners : step'[d] = "idle"
    BY <1>3 DEF SetDone, disc
  <2>2. \A a \in done :
          /\ a.device \in Burners /\ tray[a.device] \in Discs /\ medium[tray[a.device]] = "image"
          /\ \A r \in burned : r.disc # tray[a.device] /\ r.copy # a.copy
    BY <1>0 DEF BurnType, TypeOK, Assignment, BurnerInv, CopyInv, DiscInv
  <2>3. \A a, b \in done : a # b => tray[a.device] # tray[b.device] /\ a.copy # b.copy
    BY <1>0, <2>2 DEF BurnerInv, CopyInv
  <2>4. \A r \in burned' : r \in burned \/ \E a \in done : r = rec(a)
    BY <2>1
  <2>5. \A a \in done : rec(a).disc = tray[a.device] /\ rec(a).copy = a.copy
    OBVIOUS
  <2> HIDE DEF rec, done
  <2>6. \A r \in burned' : medium[r.disc] = "image"
    BY <1>0, <2>2, <2>4, <2>5 DEF DiscInv, CopiesIntact
  <2>7. ASSUME NEW q \in burned', NEW r \in burned', q # r
        PROVE  q.disc # r.disc /\ q.copy # r.copy
    <3>1. CASE q \in burned /\ r \in burned
      BY <1>0, <2>7, <3>1 DEF DiscInv, CopiesIntact
    <3>2. CASE q \in burned /\ \E a \in done : r = rec(a)
      BY <2>2, <2>5, <3>2
    <3>3. CASE r \in burned /\ \E a \in done : q = rec(a)
      BY <2>2, <2>5, <3>3
    <3>4. CASE \E a, b \in done : q = rec(a) /\ r = rec(b)
      BY <2>3, <2>5, <2>7, <3>4
    <3> QED
      BY <2>4, <3>1, <3>2, <3>3, <3>4
  <2> QED
    BY <2>1, <2>6, <2>7 DEF DiscInv, CopiesIntact
<1>4. ASSUME NEW d \in Burners, Unload(d) \/ \E x \in Discs : Insert(d, x)
      PROVE  DiscInv'
  BY <1>0, <1>1, <1>4 DEF Unload, Insert, Pauses, BurnType, flow, job
<1>5. ASSUME NEW d \in Burners, NEW s, Goes(d, s), UNCHANGED <<flow, tray>>,
             s \in {"verify", "ok"} => \A r \in burned : r.disc # tray[d],
             \A r \in burned : medium'[r.disc] = medium[r.disc]
      PROVE  DiscInv'
  <2>1. step'[d] = s /\ \A c \in Burners : c # d => step'[c] = step[c]
    BY <1>0, <1>5 DEF Goes, BurnType, TypeOK
  <2>2. CopiesIntact'
    BY <1>0, <1>5 DEF DiscInv, CopiesIntact, flow
  <2> QED
    BY <1>0, <1>5, <2>1, <2>2 DEF DiscInv, flow
<1>6. ASSUME NEW d \in Burners, ReadState(d)
      PROVE  DiscInv'
  <2>1. PICK s : Goes(d, s) /\ s \notin {"verify", "ok"}
    BY <1>6 DEF ReadState, DecideBurn
  <2> QED
    BY <1>5, <1>6, <2>1 DEF ReadState, disc
<1>7. ASSUME NEW d \in Burners, VerifyDisc(d)
      PROVE  DiscInv'
  <2>1. (\E s : Goes(d, s)) /\ \A r \in burned : r.disc # tray[d]
    BY <1>0, <1>7 DEF VerifyDisc, DiscInv
  <2> QED
    BY <1>5, <1>7, <2>1 DEF VerifyDisc, disc
<1>8. ASSUME NEW d \in Burners, Blank(d)
      PROVE  DiscInv'
  <2>1. PICK s \in {"write", "err"}, content \in {medium[tray[d]], "blank", "image", "bad"} :
          Goes(d, s) /\ Becomes(tray[d], content)
    BY <1>8 DEF Blank
  <2>2. tray[d] \in Discs /\ AllowNonBlank /\ \A r \in burned : r.device # d
    BY <1>0, <1>8 DEF Blank, BurnType, BurnerInv
  <2>3. \A r \in burned : r.disc # tray[d]
    BY <1>0, <2>2 DEF StaysPut
  <2>4. tray' = tray /\ \A r \in burned : medium'[r.disc] = medium[r.disc]
    BY <1>0, <2>1, <2>2, <2>3, BecomesChanges
  <2> QED
    BY <1>5, <1>8, <2>1, <2>4 DEF Blank
<1>9. ASSUME NEW d \in Burners, WriteImage(d)
      PROVE  DiscInv'
  <2>1. PICK s \in {"verify", "err"} : Goes(d, s)
    BY <1>9 DEF WriteImage
  <2>2. \/ UNCHANGED disc
        \/ \E content \in {medium[tray[d]], "blank", "image", "bad"} : Becomes(tray[d], content)
    BY <1>9 DEF WriteImage
  <2>3. tray[d] \in Discs /\ \A r \in burned : r.disc # tray[d]
    BY <1>0, <1>9 DEF WriteImage, BurnType, BurnerInv, DiscInv, CopiesIntact
  <2>4. tray' = tray /\ \A r \in burned : medium'[r.disc] = medium[r.disc]
    BY <1>0, <2>2, <2>3, BecomesChanges DEF disc
  <2> QED
    BY <1>5, <1>9, <2>1, <2>3, <2>4 DEF WriteImage
<1>10. CASE UNCHANGED <<burned, step, disc>>
  BY <1>0, <1>10 DEF DiscInv, CopiesIntact, disc
<1> QED
  BY <1>2, <1>3, <1>4, <1>6, <1>7, <1>8, <1>9, <1>10
     DEF Next, Workflow, Operator, DiscNext, Ended, vars, RunBurnPath, Resume, PauseEnds, Cancel,
         RebuildDeliveredReport, flow, job

-----------------------------------------------------------------------------
(* Theorems *)

LEMMA BurnInit ==
    ASSUME Init
    PROVE  BurnInv
<1> USE BurnAssumption
<1>1. \A x \in Discs : from[x] \in Burners \cup {0}
  BY DEF Init
<1>2. \A d \in Burners : tray[d] # NoDisc => from[tray[d]] = d
  <2> SUFFICES ASSUME NEW d \in Burners, tray[d] # NoDisc
               PROVE  from[tray[d]] = d
    OBVIOUS
  <2>1. from[tray[d]] = CHOOSE c \in Burners : tray[c] = tray[d]
    BY DEF Init
  <2>2. from[tray[d]] \in Burners /\ tray[from[tray[d]]] = tray[d]
    BY <2>1
  <2> QED
    BY <2>2 DEF Init
<1>3. BurnType
  BY <1>1 DEF Init, BurnType, TypeOK
<1>4. BurnerInv /\ StaysPut
  BY <1>2 DEF Init, BurnerInv, StaysPut
<1>5. CopyInv /\ DiscInv
  BY DEF Init, CopyInv, DiscInv, CopiesIntact
<1> QED
  BY <1>3, <1>4, <1>5 DEF BurnInv

(***************************************************************************)
(* As long as discs stay with their burner, or the run may not overwrite,  *)
(* the copies burnDiscSet has on record are on discs of their own that     *)
(* still carry the image, and a Burn phase that ends well has them all.    *)
(***************************************************************************)
THEOREM BurnedCopiesAreSound ==
    ASSUME ~Crosses \/ ~AllowNonBlank
    PROVE  Spec => []BurnSound
<1>1. Init => BurnInv
  BY BurnInit
<1>2. BurnInv /\ [Next]_vars => BurnInv'
  BY BurnTypePreserved, BurnerPreserved, StaysPutPreserved, CopyPreserved, DiscPreserved DEF BurnInv
<1>3. BurnInv => BurnSound
  BY DEF BurnInv, BurnSound, BurnComplete, BurnType, CopyInv, DiscInv
<1> QED
  BY <1>1, <1>2, <1>3, PTL DEF Spec

(***************************************************************************)
(* Wherever the operator puts discs, decideBurn's guards let the run       *)
(* destroy old data only with the opt-in, on a rewritable disc, and in a   *)
(* burner that has no verified copy.                                       *)
(***************************************************************************)
THEOREM OldDiscsAreKept == Spec => OldDiscsKept
<1> DEFINE Kept ==
      \A x \in erased' \ erased :
         /\ AllowNonBlank /\ x \in Rewritable
         /\ \A d \in Burners : tray[d] = x => \A r \in burned : r.device # d
<1>1. Init => BurnType /\ BurnerInv
  BY BurnInit DEF BurnInv
<1>2. BurnType /\ BurnerInv /\ [Next]_vars => BurnType' /\ BurnerInv'
  BY BurnTypePreserved, BurnerPreserved
<1>3. BurnType /\ BurnerInv /\ [Next]_vars => [Kept]_vars
  <2> SUFFICES ASSUME BurnType, BurnerInv, [Next]_vars, NEW x \in erased' \ erased
               PROVE  /\ AllowNonBlank /\ x \in Rewritable
                      /\ \A d \in Burners : tray[d] = x => \A r \in burned : r.device # d
    OBVIOUS
  <2> USE BurnAssumption
  <2>1. PICK d \in Burners : Blank(d) \/ WriteImage(d)
    BY DEF Next, Workflow, Operator, DiscNext, Ended, vars, RunBurnPath, SetDone, Resume, PauseEnds, Cancel,
           RebuildDeliveredReport, ReadState, VerifyDisc, Unload, Insert, disc
  <2>2. tray[d] \in Discs
    BY <2>1 DEF Blank, WriteImage, BurnType
  <2>3. PICK content \in {medium[tray[d]], "blank", "image", "bad"} : Becomes(tray[d], content)
    BY <2>1 DEF Blank, WriteImage, disc
  <2>4. x = tray[d] /\ medium[tray[d]] = "used"
    BY <2>2, <2>3, BecomesChanges
  <2>5. step[d] = "blank"
    BY <2>1, <2>4 DEF Blank, WriteImage, BurnerInv
  <2>6. AllowNonBlank /\ x \in Rewritable /\ \A r \in burned : r.device # d
    BY <2>4, <2>5 DEF BurnerInv
  <2>7. \A c \in Burners : tray[c] = x => c = d
    BY <2>2, <2>4 DEF BurnerInv
  <2> QED
    BY <2>6, <2>7
<1> QED
  BY <1>1, <1>2, <1>3, PTL DEF Spec, OldDiscsKept

-----------------------------------------------------------------------------
(* Counting up to a number *)

\* A set of numbers that is not empty has a least one.
LEMMA LeastOf ==
    ASSUME NEW S \in SUBSET Nat, S # {}
    PROVE  \E i \in S : \A j \in S : i <= j
<1>1. PICK R : R = OpToRel(<, Nat)
  OBVIOUS
<1>2. PICK i \in S : \A j \in S : ~(<<j, i>> \in R)
  BY <1>1, NatLessThanWellFounded, WFMin
<1>3. \A j \in S : ~(j < i)
  BY <1>1, <1>2 DEF OpToRel
<1> QED
  BY <1>3

\* What holds of a and of every next number up to b holds up to b.
LEMMA UpTo ==
    ASSUME NEW a \in Nat, NEW b \in Nat, NEW S, a \in S, \A j \in a..b - 1 : j \in S => j + 1 \in S
    PROVE  \A j \in a..b : j \in S
<1>1. SUFFICES ASSUME {j \in a..b : j \notin S} # {} PROVE FALSE
  OBVIOUS
<1>2. PICK B : B = {j \in a..b : j \notin S}
  OBVIOUS
<1>3. B \in SUBSET Nat
  BY <1>2
<1>4. PICK i \in B : \A j \in B : i <= j
  BY <1>1, <1>2, <1>3, LeastOf
<1>5. i # a /\ i \in a..b
  BY <1>2
<1>6. i - 1 \in a..b - 1 /\ i - 1 \notin B
  BY <1>4, <1>5
<1> QED
  BY <1>2, <1>4, <1>5, <1>6

-----------------------------------------------------------------------------
(* Lists of lists *)

\* The places of the first n lists, as Places collects them.
Collects(g, n, each) ==
    g = [i \in 0..n |-> IF i = 0 THEN <<>> ELSE g[i - 1] \o PlacesIn(each, i)]

\* Places collects the places one list after the other.
LEMMA PlacesRecursion ==
    ASSUME NEW each, Len(each) \in Nat
    PROVE  \E g : Collects(g, Len(each), each) /\ Places(each) = g[Len(each)]
<1>1. PICK N : N = Len(each)
  OBVIOUS
<1>2. PICK S : S = {n \in Nat : \E g : Collects(g, n, each)}
  OBVIOUS
<1>3. 0 \in S
  <2>1. PICK g : g = [i \in 0..0 |-> <<>>]
    OBVIOUS
  <2>2. Collects(g, 0, each)
    BY <2>1 DEF Collects
  <2> QED
    BY <1>2, <2>2
<1>4. ASSUME NEW j \in 0..N - 1, j \in S PROVE j + 1 \in S
  <2>1. PICK g : Collects(g, j, each)
    BY <1>2, <1>4
  <2>2. PICK h : h = [i \in 0..j + 1 |-> IF i = j + 1 THEN g[j] \o PlacesIn(each, j + 1) ELSE g[i]]
    OBVIOUS
  <2>3. j \in Nat
    BY <1>1, <1>4
  <2>4. \A i \in 0..j : h[i] = g[i]
    BY <2>2, <2>3
  <2>5. ASSUME NEW i \in 0..j + 1
        PROVE  h[i] = IF i = 0 THEN <<>> ELSE h[i - 1] \o PlacesIn(each, i)
    <3>1. CASE i = j + 1
      <4>1. i # 0 /\ i - 1 = j /\ j \in 0..j /\ i \in 0..j + 1
        BY <2>3, <3>1
      <4>2. h[i] = g[j] \o PlacesIn(each, i)
        BY <2>2, <3>1, <4>1
      <4>3. h[i - 1] = g[j]
        BY <2>4, <4>1
      <4> QED
        BY <4>1, <4>2, <4>3
    <3>2. CASE i # j + 1
      <4>1. i \in 0..j /\ (i # 0 => i - 1 \in 0..j)
        BY <2>3, <3>2
      <4> QED
        BY <2>1, <2>4, <4>1 DEF Collects
    <3> QED
      BY <3>1, <3>2
  <2>6. Collects(h, j + 1, each)
    BY <2>2, <2>5 DEF Collects
  <2> QED
    BY <1>2, <2>3, <2>6
<1>5. N \in S
  <2>1. N \in Nat /\ N \in 0..N
    BY <1>1
  <2>2. \A j \in 0..N - 1 : j \in S => j + 1 \in S
    BY <1>4
  <2>3. \A j \in 0..N : j \in S
    BY <1>3, <2>1, <2>2, UpTo
  <2> QED
    BY <2>1, <2>3
<1>6. \E g : Collects(g, Len(each), each)
  BY <1>1, <1>2, <1>5
<1> QED
  BY <1>6 DEF Places, Collects

\* The places p of the first n lists are all of them, and nothing else.
PlacesOf(p, n, each) ==
    /\ p \in Seq(Nat \X Nat)
    /\ \A k \in DOMAIN p : p[k][1] \in 1..n /\ p[k][2] \in DOMAIN each[p[k][1]]
    /\ \A i \in 1..n : \A j \in DOMAIN each[i] : \E k \in DOMAIN p : p[k] = <<i, j>>

\* Every match has a place, and every place a match.
LEMMA PlacesFacts ==
    ASSUME NEW T, NEW each \in Seq(Seq(T))
    PROVE  PlacesOf(Places(each), Len(each), each)
<1>1. PICK N \in Nat : N = Len(each)
  OBVIOUS
<1>2. PICK g : Collects(g, N, each) /\ Places(each) = g[N]
  BY <1>1, PlacesRecursion
<1>3. PICK S : S = {n \in 0..N : PlacesOf(g[n], n, each)}
  OBVIOUS
<1>4. 0 \in S
  <2>1. g[0] = <<>>
    BY <1>2 DEF Collects
  <2>2. PlacesOf(<<>>, 0, each)
    BY DEF PlacesOf
  <2> QED
    BY <1>3, <2>1, <2>2
<1>5. ASSUME NEW n \in 0..N - 1, n \in S PROVE n + 1 \in S
  <2>1. n + 1 \in 0..N /\ n + 1 # 0 /\ (n + 1) - 1 = n /\ n \in Nat /\ n + 1 \in 1..Len(each)
    BY <1>1, <1>5
  <2>2. PICK p : p = g[n]
    OBVIOUS
  <2>3. PICK q : q = PlacesIn(each, n + 1)
    OBVIOUS
  <2>4. g[n + 1] = p \o q
    BY <1>2, <2>1, <2>2, <2>3 DEF Collects
  <2>5. PlacesOf(p, n, each)
    BY <1>3, <1>5, <2>2
  <2>6. p \in Seq(Nat \X Nat)
    BY <2>5 DEF PlacesOf
  <2>7. each[n + 1] \in Seq(T)
    BY <2>1
  <2>8. PICK M \in Nat : M = Len(each[n + 1])
    BY <2>7
  <2>9. DOMAIN each[n + 1] = 1..M
    BY <2>7, <2>8
  <2>10. q = [j \in 1..M |-> <<n + 1, j>>]
    BY <2>3, <2>9 DEF PlacesIn
  <2>11. q \in Seq(Nat \X Nat) /\ Len(q) = M
    BY <2>1, <2>10
  <2>12. /\ p \o q \in Seq(Nat \X Nat) /\ Len(p \o q) = Len(p) + M /\ Len(p) \in Nat
         /\ \A k \in 1..Len(p) : (p \o q)[k] = p[k]
         /\ \A k \in 1..M : (p \o q)[Len(p) + k] = q[k]
    <3>1. PICK P : P = Nat \X Nat
      OBVIOUS
    <3>2. p \in Seq(P) /\ q \in Seq(P)
      BY <2>6, <2>11, <3>1
    <3>3. p \o q \in Seq(P) /\ Len(p \o q) = Len(p) + Len(q) /\ Len(p) \in Nat
      BY <3>2
    <3>4. \A k \in 1..Len(p) : (p \o q)[k] = p[k]
      BY <3>2
    <3>5. \A k \in 1..Len(q) : (p \o q)[Len(p) + k] = q[k]
      BY <3>2
    <3> QED
      BY <2>11, <3>1, <3>3, <3>4, <3>5
  <2>13. PICK r : r = p \o q
    OBVIOUS
  <2>14. DOMAIN r = 1..Len(p) + M /\ DOMAIN p = 1..Len(p)
    BY <2>6, <2>12, <2>13
  <2>15. ASSUME NEW k \in DOMAIN r PROVE r[k][1] \in 1..n + 1 /\ r[k][2] \in DOMAIN each[r[k][1]]
    <3>1. CASE k <= Len(p)
      <4>1. k \in DOMAIN p /\ r[k] = p[k]
        BY <2>12, <2>13, <2>14, <2>15, <3>1
      <4> QED
        BY <2>1, <2>5, <4>1 DEF PlacesOf
    <3>2. CASE ~(k <= Len(p))
      <4>1. PICK j \in 1..M : k = Len(p) + j
        <5>1. k - Len(p) \in 1..M /\ k = Len(p) + (k - Len(p))
          BY <2>12, <2>14, <2>15, <3>2
        <5> QED
          BY <5>1
      <4>2. r[k] = <<n + 1, j>>
        BY <2>10, <2>12, <2>13, <4>1
      <4> QED
        BY <2>1, <2>9, <4>1, <4>2
    <3> QED
      BY <3>1, <3>2
  <2>16. ASSUME NEW i \in 1..n + 1, NEW j \in DOMAIN each[i] PROVE \E k \in DOMAIN r : r[k] = <<i, j>>
    <3>1. CASE i = n + 1
      <4>1. j \in 1..M /\ Len(p) + j \in DOMAIN r
        <5>1. j \in 1..M
          BY <2>9, <2>16, <3>1
        <5>2. Len(p) \in Nat
          BY <2>12
        <5> QED
          BY <2>14, <5>1, <5>2
      <4>2. r[Len(p) + j] = <<i, j>>
        BY <2>10, <2>12, <2>13, <3>1, <4>1
      <4> QED
        BY <4>1, <4>2
    <3>2. CASE i # n + 1
      <4>1. i \in 1..n
        BY <2>1, <2>16, <3>2
      <4>2. PICK k \in DOMAIN p : p[k] = <<i, j>>
        BY <2>5, <2>16, <4>1 DEF PlacesOf
      <4>3. k \in DOMAIN r /\ r[k] = p[k]
        BY <2>12, <2>13, <2>14, <4>2
      <4> QED
        BY <4>2, <4>3
    <3> QED
      BY <3>1, <3>2
  <2>17. PlacesOf(r, n + 1, each)
    BY <2>12, <2>13, <2>15, <2>16 DEF PlacesOf
  <2> QED
    BY <1>3, <2>1, <2>4, <2>13, <2>17
<1>6. N \in S
  <2>1. \A j \in 0..N - 1 : j \in S => j + 1 \in S
    BY <1>5
  <2>2. \A j \in 0..N : j \in S
    BY <1>4, <2>1, UpTo
  <2> QED
    BY <2>2
<1> QED
  BY <1>1, <1>2, <1>3, <1>6

\* What a list expands to, and where each source of it comes from.
Expands(e, o, each, T, C) ==
    /\ e \in Seq(T) /\ o \in Seq(C) /\ Len(o) = Len(e)
    /\ \A k \in DOMAIN e : \E i \in DOMAIN each : \E j \in DOMAIN each[i] : e[k] = each[i][j] /\ o[k] = origin[i]
    /\ \A i \in DOMAIN each : \A j \in DOMAIN each[i] : \E k \in DOMAIN e : e[k] = each[i][j] /\ o[k] = origin[i]

\* An expanded list holds the matches of each source, and the origin of each is
\* the origin of that source.
LEMMA ExpandedFacts ==
    ASSUME NEW T, NEW C, NEW each \in Seq(Seq(T)), origin \in Seq(C), Len(origin) = Len(each)
    PROVE  Expands(Expanded(each), Origins(each), each, T, C)
<1>1. PICK p : p = Places(each)
  OBVIOUS
<1>2. PlacesOf(p, Len(each), each)
  BY <1>1, PlacesFacts
<1>3. PICK L \in Nat : L = Len(p) /\ p \in Seq(Nat \X Nat) /\ DOMAIN p = 1..L
  <2>1. p \in Seq(Nat \X Nat)
    BY <1>2 DEF PlacesOf
  <2>2. PICK P : P = Nat \X Nat
    OBVIOUS
  <2>3. Len(p) \in Nat /\ DOMAIN p = 1..Len(p)
    BY <2>1, <2>2
  <2> QED
    BY <2>1, <2>3
<1>4. DOMAIN each = 1..Len(each) /\ Len(each) \in Nat /\ \A i \in 1..Len(each) : each[i] \in Seq(T) /\ origin[i] \in C
  OBVIOUS
<1>5. \A k \in DOMAIN p : p[k][1] \in DOMAIN each /\ p[k][2] \in DOMAIN each[p[k][1]]
  BY <1>2, <1>4 DEF PlacesOf
<1>6. \A i \in DOMAIN each : \A x \in DOMAIN each[i] : each[i][x] \in T
  BY <1>4
<1>7. PICK e : e = [k \in 1..L |-> each[p[k][1]][p[k][2]]]
  OBVIOUS
<1>8. PICK o : o = [k \in 1..L |-> origin[p[k][1]]]
  OBVIOUS
<1>9. e \in [1..L -> T]
  BY <1>3, <1>5, <1>6, <1>7
<1>10. o \in [1..L -> C]
  BY <1>3, <1>4, <1>5, <1>8
<1>11. e \in Seq(T) /\ Len(e) = L /\ DOMAIN e = 1..L
  <2>1. \A k \in 1..L : e[k] \in T
    BY <1>9
  <2> QED
    BY <1>7, <2>1
<1>12. o \in Seq(C) /\ Len(o) = L
  <2>1. \A k \in 1..L : o[k] \in C
    BY <1>10
  <2> QED
    BY <1>8, <2>1
<1>13. ASSUME NEW k \in DOMAIN e
       PROVE  \E i \in DOMAIN each : \E j \in DOMAIN each[i] : e[k] = each[i][j] /\ o[k] = origin[i]
  BY <1>3, <1>5, <1>7, <1>8, <1>11
<1>14. ASSUME NEW i \in DOMAIN each, NEW j \in DOMAIN each[i]
       PROVE  \E k \in DOMAIN e : e[k] = each[i][j] /\ o[k] = origin[i]
  <2>1. PICK k \in DOMAIN p : p[k] = <<i, j>>
    BY <1>2, <1>4, <1>14 DEF PlacesOf
  <2>2. e[k] = each[i][j] /\ o[k] = origin[i] /\ k \in DOMAIN e
    BY <1>3, <1>7, <1>8, <1>11, <2>1
  <2> QED
    BY <2>2
<1>15. Expanded(each) = e /\ Origins(each) = o
  BY <1>1, <1>3, <1>7, <1>8 DEF Expanded, Origins
<1> QED
  BY <1>11, <1>12, <1>13, <1>14, <1>15 DEF Expands

-----------------------------------------------------------------------------
(* Sums and slices *)

\* Division rounds down.
LEMMA DivFacts ==
    ASSUME NEW a \in Nat, NEW d \in Nat \ {0}
    PROVE  a \div d \in Nat /\ d * (a \div d) <= a /\ a < d * (a \div d) + d
<1>1. a = d * (a \div d) + (a % d)
  OBVIOUS
<1>2. a \div d \in Int /\ a % d \in 0..d - 1
  OBVIOUS
<1>3. a \div d \in Nat
  OBVIOUS
<1> QED
  BY <1>1, <1>2, <1>3

\* CeilDiv rounds up.
LEMMA CeilFacts ==
    ASSUME NEW n \in Nat, NEW d \in Nat \ {0}
    PROVE  CeilDiv(n, d) \in Nat /\ n <= d * CeilDiv(n, d) /\ d * CeilDiv(n, d) <= n + (d - 1)
<1>1. PICK a \in Nat : a = n + d - 1
  OBVIOUS
<1>2. a \div d \in Nat /\ d * (a \div d) <= a /\ a < d * (a \div d) + d
  BY DivFacts
<1>3. CeilDiv(n, d) = a \div d
  BY <1>1 DEF CeilDiv
<1>4. PICK p \in Int : p = d * (a \div d)
  BY <1>2
<1>5. n <= p /\ p <= n + (d - 1)
  BY <1>1, <1>2, <1>4
<1> QED
  BY <1>2, <1>3, <1>4, <1>5

\* Products of numbers keep their order.
LEMMA Products ==
    ASSUME NEW a \in Nat, NEW b \in Nat, NEW c \in Nat
    PROVE  /\ a * b \in Nat /\ a * b = b * a /\ a * (b + c) = a * b + a * c
           /\ (b <= c => a * b <= a * c) /\ (b < c /\ a # 0 => a * b < a * c)
<1>1. a * b \in Nat /\ a * c \in Nat /\ a * b = b * a
  OBVIOUS
<1>2. a * (b + c) = a * b + a * c
  OBVIOUS
<1>3. ASSUME b <= c PROVE a * b <= a * c
  <2>1. PICK e \in Nat : c = b + e
    <3>1. c - b \in Nat /\ c = b + (c - b)
      BY <1>3
    <3> QED
      BY <3>1
  <2>2. a * (b + e) = a * b + a * e /\ a * e \in Nat
    OBVIOUS
  <2> QED
    BY <1>1, <2>1, <2>2
<1>4. ASSUME b < c, a # 0 PROVE a * b < a * c
  <2>1. PICK e \in Nat : c = b + 1 + e
    <3>1. c - b - 1 \in Nat /\ c = b + 1 + (c - b - 1)
      BY <1>4
    <3> QED
      BY <3>1
  <2>2. a * (b + 1 + e) = a * b + a + a * e /\ a * e \in Nat
    OBVIOUS
  <2> QED
    BY <1>1, <1>4, <2>1, <2>2
<1> QED
  BY <1>1, <1>2, <1>3, <1>4

\* An archive no larger than t slices of size b has at most t slices.
LEMMA CeilBound ==
    ASSUME NEW n \in Nat, NEW b \in Nat \ {0}, NEW t \in Nat, n <= b * t
    PROVE  CeilDiv(n, b) <= t
<1>1. PICK c \in Nat : c = CeilDiv(n, b) /\ b * c <= n + (b - 1)
  BY CeilFacts
<1>2. SUFFICES ASSUME t + 1 <= c PROVE FALSE
  BY <1>1
<1>3. b * (t + 1) <= b * c
  BY <1>2, Products
<1>4. b * (t + 1) = b * t + b * 1 /\ b * t \in Nat /\ b * 1 = b
  BY Products
<1>5. PICK p \in Nat : p = b * t
  BY <1>4
<1>6. PICK q \in Nat : q = b * c
  BY <1>1, Products
<1> QED
  BY <1>1, <1>3, <1>4, <1>5, <1>6

\* The sums of the first n numbers, as Sum adds them up.
Sums(g, n, s) == g = [i \in 0..n |-> IF i = 0 THEN 0 ELSE g[i - 1] + s[i]]

\* Sum adds one number after the other.
LEMMA SumRecursion ==
    ASSUME NEW s, Len(s) \in Nat
    PROVE  \E g : Sums(g, Len(s), s) /\ Sum(s) = g[Len(s)]
<1>1. PICK N : N = Len(s)
  OBVIOUS
<1>2. PICK S : S = {n \in Nat : \E g : Sums(g, n, s)}
  OBVIOUS
<1>3. 0 \in S
  <2>1. PICK g : g = [i \in 0..0 |-> 0]
    OBVIOUS
  <2>2. Sums(g, 0, s)
    BY <2>1 DEF Sums
  <2> QED
    BY <1>2, <2>2
<1>4. ASSUME NEW j \in 0..N - 1, j \in S PROVE j + 1 \in S
  <2>1. PICK g : Sums(g, j, s)
    BY <1>2, <1>4
  <2>2. PICK h : h = [i \in 0..j + 1 |-> IF i = j + 1 THEN g[j] + s[j + 1] ELSE g[i]]
    OBVIOUS
  <2>3. j \in Nat
    BY <1>1, <1>4
  <2>4. \A i \in 0..j : h[i] = g[i]
    BY <2>2, <2>3
  <2>5. ASSUME NEW i \in 0..j + 1 PROVE h[i] = IF i = 0 THEN 0 ELSE h[i - 1] + s[i]
    <3>1. CASE i = j + 1
      BY <2>2, <2>3, <2>4, <3>1
    <3>2. CASE i # j + 1
      <4>1. i \in 0..j /\ (i # 0 => i - 1 \in 0..j)
        BY <2>3, <3>2
      <4> QED
        BY <2>1, <2>4, <4>1 DEF Sums
    <3> QED
      BY <3>1, <3>2
  <2>6. Sums(h, j + 1, s)
    BY <2>2, <2>5 DEF Sums
  <2> QED
    BY <1>2, <2>3, <2>6
<1>5. N \in S
  <2>1. N \in Nat /\ N \in 0..N
    BY <1>1
  <2>2. \A j \in 0..N - 1 : j \in S => j + 1 \in S
    BY <1>4
  <2>3. \A j \in 0..N : j \in S
    BY <1>3, <2>1, <2>2, UpTo
  <2> QED
    BY <2>1, <2>3
<1>6. \E g : Sums(g, Len(s), s)
  BY <1>1, <1>2, <1>5
<1> QED
  BY <1>6 DEF Sum, Sums

\* The sum of numbers is a number, and the rounding of n numbers up to whole
\* slices of size b adds less than n slices.
LEMMA SumFacts ==
    ASSUME NEW s \in Seq(Nat), NEW c \in Seq(Nat), NEW b \in Nat \ {0}, Len(c) = Len(s),
           \A i \in DOMAIN s : b * c[i] <= s[i] + (b - 1)
    PROVE  Sum(s) \in Nat /\ Sum(c) \in Nat /\ b * Sum(c) <= Sum(s) + Len(s) * (b - 1)
<1>1. PICK N \in Nat : N = Len(s) /\ N = Len(c) /\ DOMAIN s = 1..N /\ DOMAIN c = 1..N
  OBVIOUS
<1>2. \A i \in 1..N : s[i] \in Nat /\ c[i] \in Nat
  BY <1>1
<1>3. PICK g : Sums(g, N, s) /\ Sum(s) = g[N]
  BY <1>1, SumRecursion
<1>4. PICK h : Sums(h, N, c) /\ Sum(c) = h[N]
  BY <1>1, SumRecursion
<1>5. PICK S : S = {n \in 0..N : g[n] \in Nat /\ h[n] \in Nat /\ b * h[n] <= g[n] + n * (b - 1)}
  OBVIOUS
<1>6. 0 \in S
  <2>1. g[0] = 0 /\ h[0] = 0
    BY <1>3, <1>4 DEF Sums
  <2>2. b * 0 = 0 /\ 0 * (b - 1) = 0
    OBVIOUS
  <2> QED
    BY <1>5, <2>1, <2>2
<1>7. ASSUME NEW n \in 0..N - 1, n \in S PROVE n + 1 \in S
  <2>1. n \in Nat /\ n + 1 \in 0..N /\ n + 1 # 0 /\ (n + 1) - 1 = n /\ n + 1 \in 1..N
    BY <1>7
  <2>2. g[n + 1] = g[n] + s[n + 1] /\ h[n + 1] = h[n] + c[n + 1]
    BY <1>3, <1>4, <2>1 DEF Sums
  <2>3. PICK x \in Nat : x = g[n]
    BY <1>5, <1>7
  <2>4. PICK y \in Nat : y = h[n]
    BY <1>5, <1>7
  <2>5. PICK u \in Nat : u = s[n + 1]
    BY <1>2, <2>1
  <2>6. PICK v \in Nat : v = c[n + 1]
    BY <1>2, <2>1
  <2>7. b * y <= x + n * (b - 1) /\ b * v <= u + (b - 1)
    BY <1>1, <1>5, <1>7, <2>1, <2>3, <2>4, <2>5, <2>6
  <2>8. b * (y + v) = b * y + b * v /\ b * y \in Nat /\ b * v \in Nat
    BY Products
  <2>9. (n + 1) * (b - 1) = n * (b - 1) + (b - 1) /\ n * (b - 1) \in Nat
    <3>1. PICK e \in Nat : e = b - 1
      OBVIOUS
    <3>2. e * (n + 1) = e * n + e * 1 /\ e * n \in Nat /\ e * n = n * e /\ e * (n + 1) = (n + 1) * e /\ e * 1 = e
      BY <2>1, Products
    <3> QED
      BY <3>1, <3>2
  <2>10. PICK p \in Nat : p = b * y
    BY <2>8
  <2>11. PICK q \in Nat : q = b * v
    BY <2>8
  <2>12. PICK m \in Nat : m = n * (b - 1)
    BY <2>9
  <2>13. p + q <= (x + u) + (m + (b - 1))
    BY <2>7, <2>10, <2>11, <2>12
  <2>14. b * (y + v) <= (x + u) + (n + 1) * (b - 1)
    BY <2>8, <2>9, <2>10, <2>11, <2>12, <2>13
  <2>15. g[n + 1] = x + u /\ h[n + 1] = y + v
    BY <2>2, <2>3, <2>4, <2>5, <2>6
  <2>16. g[n + 1] \in Nat /\ h[n + 1] \in Nat /\ b * h[n + 1] <= g[n + 1] + (n + 1) * (b - 1)
    BY <2>14, <2>15
  <2> QED
    BY <1>5, <2>1, <2>16
<1>8. N \in S
  <2>1. \A j \in 0..N - 1 : j \in S => j + 1 \in S
    BY <1>7
  <2>2. \A j \in 0..N : j \in S
    BY <1>6, <2>1, UpTo
  <2> QED
    BY <2>2
<1> QED
  BY <1>1, <1>3, <1>4, <1>5, <1>8

\* The sum of numbers is a number.
LEMMA SumNat ==
    ASSUME NEW s \in Seq(Nat)
    PROVE  Sum(s) \in Nat
<1>1. \A i \in DOMAIN s : 1 * s[i] <= s[i] + (1 - 1)
  OBVIOUS
<1> QED
  BY <1>1, SumFacts

\* The largest of a sequence of numbers, 0 when there is none.
LEMMA MaxOfFacts ==
    ASSUME NEW s \in Seq(Nat)
    PROVE  MaxOf(s) \in Nat /\ \A i \in DOMAIN s : s[i] <= MaxOf(s)
<1>1. PICK N \in Nat : N = Len(s) /\ DOMAIN s = 1..N
  OBVIOUS
<1>2. PICK R : R = Range(s) /\ R \in SUBSET Nat /\ (\A i \in 1..N : s[i] \in R) /\ \A m \in R : \E i \in 1..N : m = s[i]
  <2>1. Range(s) = {s[i] : i \in 1..N}
    BY <1>1 DEF Range
  <2>2. \A i \in 1..N : s[i] \in Nat
    BY <1>1
  <2> QED
    BY <2>1, <2>2
<1>3. PICK S : S = {n \in 0..N : \E m \in R \cup {0} : \A i \in 1..n : s[i] <= m}
  OBVIOUS
<1>4. 0 \in S
  BY <1>3
<1>5. ASSUME NEW n \in 0..N - 1, n \in S PROVE n + 1 \in S
  <2>1. PICK m \in R \cup {0} : \A i \in 1..n : s[i] <= m
    BY <1>3, <1>5
  <2>2. n + 1 \in 1..N /\ s[n + 1] \in R /\ s[n + 1] \in Nat /\ m \in Nat /\ n + 1 \in 0..N /\ n \in Nat
    BY <1>2, <1>5
  <2>3. \A i \in 1..n + 1 : i = n + 1 \/ i \in 1..n
    BY <2>2
  <2>4. \A i \in 1..N : s[i] \in Nat
    BY <1>2
  <2>5. CASE s[n + 1] <= m
    BY <1>3, <2>1, <2>2, <2>3, <2>5
  <2>6. CASE m <= s[n + 1]
    <3>1. \A i \in 1..n + 1 : s[i] <= s[n + 1]
      <4>1. \A i \in 1..n : s[i] <= s[n + 1]
        BY <2>1, <2>2, <2>4, <2>6
      <4> QED
        BY <2>2, <2>3, <4>1
    <3> QED
      BY <1>3, <2>2, <3>1
  <2> QED
    BY <2>2, <2>5, <2>6
<1>6. N \in S
  <2>1. \A j \in 0..N - 1 : j \in S => j + 1 \in S
    BY <1>5
  <2>2. \A j \in 0..N : j \in S
    BY <1>4, <2>1, UpTo
  <2> QED
    BY <2>2
<1>7. \E m \in R \cup {0} : \A k \in R : k <= m
  BY <1>2, <1>3, <1>6
<1>8. MaxOf(s) \in R \cup {0} /\ \A k \in R : k <= MaxOf(s)
  BY <1>2, <1>7 DEF MaxOf
<1> QED
  BY <1>1, <1>2, <1>8

\* The slice size is enough for the largest archive and for all of them.
LEMMA SliceFacts ==
    ASSUME NEW s \in Seq(Nat)
    PROVE  LET b == DeriveSliceSize(s) IN
           /\ b \in Nat \ {0} /\ Sum(s) <= b * RunTarget
           /\ \A i \in DOMAIN s : s[i] <= b * ArchiveTarget
<1>1. RunTarget \in Nat \ {0} /\ ArchiveTarget \in Nat \ {0} /\ SliceUnit \in Nat \ {0}
  BY ResolveAssumption
<1>2. PICK t \in Nat : t = Sum(s)
  BY SumNat
<1>3. PICK m \in Nat : m = MaxOf(s) /\ \A i \in DOMAIN s : s[i] <= m
  BY MaxOfFacts
<1>4. PICK run \in Nat : run = CeilDiv(t, RunTarget) /\ t <= RunTarget * run
  BY <1>1, CeilFacts
<1>5. PICK one \in Nat : one = CeilDiv(m, ArchiveTarget) /\ m <= ArchiveTarget * one
  BY <1>1, CeilFacts
<1>6. PICK raw \in Nat : raw = (IF one > run THEN one ELSE run) /\ one <= raw /\ run <= raw
  OBVIOUS
<1>7. PICK b : b = DeriveSliceSize(s)
  OBVIOUS
<1>8. b = IF raw <= SliceUnit THEN SliceUnit ELSE CeilDiv(raw, SliceUnit) * SliceUnit
  BY <1>2, <1>3, <1>4, <1>5, <1>6, <1>7 DEF DeriveSliceSize
<1>9. PICK u \in Nat : u = CeilDiv(raw, SliceUnit) /\ raw <= SliceUnit * u
  BY <1>1, CeilFacts
<1>10. SliceUnit * u = u * SliceUnit /\ SliceUnit * u \in Nat
  BY <1>1, Products
<1>11. b \in Nat \ {0} /\ raw <= b
  BY <1>1, <1>8, <1>9, <1>10
<1>12. t <= b * RunTarget
  <2>1. RunTarget * run <= RunTarget * b
    BY <1>1, <1>6, <1>11, Products
  <2>2. RunTarget * b = b * RunTarget /\ RunTarget * run \in Nat /\ RunTarget * b \in Nat
    BY <1>1, <1>11, Products
  <2> QED
    BY <1>4, <2>1, <2>2
<1>13. m <= b * ArchiveTarget
  <2>1. ArchiveTarget * one <= ArchiveTarget * b
    BY <1>1, <1>6, <1>11, Products
  <2>2. ArchiveTarget * b = b * ArchiveTarget /\ ArchiveTarget * one \in Nat /\ ArchiveTarget * b \in Nat
    BY <1>1, <1>11, Products
  <2> QED
    BY <1>5, <2>1, <2>2
<1>14. ASSUME NEW i \in DOMAIN s PROVE s[i] <= b * ArchiveTarget
  <2>1. s[i] \in Nat /\ s[i] <= m
    BY <1>3
  <2>2. b * ArchiveTarget \in Nat
    BY <1>1, <1>11, Products
  <2> QED
    BY <1>13, <2>1, <2>2
<1> QED
  BY <1>2, <1>7, <1>11, <1>12, <1>14

\* No archive has more slices than its target, and a plan that does not fit the
\* payload has more archives than the headroom.
LEMMA SlicesFacts ==
    ASSUME NEW s \in Seq(Nat)
    PROVE  /\ \A i \in DOMAIN s : CeilDiv(s[i], DeriveSliceSize(s)) <= ArchiveTarget
           /\ ~PayloadFits(s) => Len(s) > SliceBudget - RunTarget
<1>1. PICK b \in Nat \ {0} : b = DeriveSliceSize(s) /\ Sum(s) <= b * RunTarget /\ \A i \in DOMAIN s : s[i] <= b * ArchiveTarget
  BY SliceFacts
<1>2. RunTarget \in Nat \ {0} /\ ArchiveTarget \in Nat \ {0} /\ SliceBudget \in Nat
  BY ResolveAssumption
<1>3. PICK N \in Nat : N = Len(s) /\ DOMAIN s = 1..N
  OBVIOUS
<1>4. \A i \in 1..N : s[i] \in Nat
  BY <1>3
<1>5. ASSUME NEW i \in DOMAIN s PROVE CeilDiv(s[i], b) <= ArchiveTarget
  BY <1>1, <1>2, <1>3, <1>4, CeilBound
<1>6. ASSUME ~PayloadFits(s) PROVE N > SliceBudget - RunTarget
  <2>1. PICK c : c = [i \in 1..N |-> CeilDiv(s[i], b)]
    OBVIOUS
  <2>2. \A i \in 1..N : c[i] \in Nat /\ b * c[i] <= s[i] + (b - 1)
    BY <1>4, <2>1, CeilFacts
  <2>3. c \in Seq(Nat) /\ Len(c) = N
    BY <2>1, <2>2
  <2>4. Sum(s) \in Nat /\ Sum(c) \in Nat /\ b * Sum(c) <= Sum(s) + N * (b - 1)
    BY <1>3, <2>2, <2>3, SumFacts
  <2>5. PICK C \in Nat : C = Sum(c)
    BY <2>4
  <2>6. PICK T \in Nat : T = Sum(s)
    BY <2>4
  <2>7. C > SliceBudget
    <3>1. [i \in DOMAIN s |-> CeilDiv(s[i], DeriveSliceSize(s))] = c
      BY <1>1, <1>3, <2>1
    <3>2. ~(Sum(c) <= SliceBudget)
      BY <1>6, <3>1 DEF PayloadFits
    <3> QED
      BY <1>2, <2>5, <3>2
  <2>8. SUFFICES ASSUME N + RunTarget <= SliceBudget PROVE FALSE
    BY <1>2
  <2>9. PICK e \in Nat : C = (N + RunTarget) + 1 + e
    <3>1. C - (N + RunTarget) - 1 \in Nat
      BY <1>2, <2>7, <2>8
    <3> QED
      BY <1>2, <3>1
  <2>10. PICK p \in Nat : p = b * N
    BY Products
  <2>11. PICK r \in Nat : r = b * RunTarget
    BY <1>2, Products
  <2>12. b * C = b * (N + RunTarget) + b * (1 + e) /\ b * (N + RunTarget) = p + r /\ b * (1 + e) = b * 1 + b * e /\ b * 1 = b
    <3>1. (N + RunTarget) + 1 + e = (N + RunTarget) + (1 + e) /\ N + RunTarget \in Nat /\ 1 + e \in Nat
      BY <1>2
    <3>2. b * ((N + RunTarget) + (1 + e)) = b * (N + RunTarget) + b * (1 + e)
      BY <3>1, Products
    <3>3. b * (N + RunTarget) = b * N + b * RunTarget /\ b * (1 + e) = b * 1 + b * e
      BY <1>2, Products
    <3> QED
      BY <2>9, <2>10, <2>11, <3>1, <3>2, <3>3
  <2>13. PICK q \in Nat : q = b * e
    BY Products
  <2>14. b * C = p + r + b + q
    BY <2>12, <2>13
  <2>15. N * (b - 1) <= p /\ N * (b - 1) \in Nat
    <3>1. PICK d \in Nat : d = b - 1
      OBVIOUS
    <3>2. N * d <= N * b /\ N * b = b * N /\ N * d \in Nat
      BY <3>1, Products
    <3> QED
      BY <2>10, <3>1, <3>2
  <2>16. PICK z \in Nat : z = N * (b - 1)
    BY <2>15
  <2>17. p + r + b + q <= T + z /\ T <= r /\ z <= p
    BY <1>1, <2>4, <2>5, <2>6, <2>11, <2>14, <2>15, <2>16
  <2> QED
    BY <2>17
<1> QED
  BY <1>1, <1>3, <1>5, <1>6

-----------------------------------------------------------------------------
(* Finite sets *)

\* The image of a finite set is finite.
LEMMA ImageFinite ==
    ASSUME NEW f, NEW S, IsFiniteSet(S), DOMAIN f = S
    PROVE  IsFiniteSet({f[x] : x \in S})
<1>1. PICK T : T = {f[x] : x \in S}
  OBVIOUS
<1>2. PICK g : g = [x \in S |-> f[x]]
  OBVIOUS
<1>3. g \in Surjection(S, T)
  BY <1>1, <1>2 DEF Surjection
<1> QED
  BY <1>1, <1>3, FS_Surjection

\* A set that a map tells apart has as many images as members.
LEMMA ImageCardinality ==
    ASSUME NEW f, NEW S, IsFiniteSet(S), DOMAIN f = S, \A x, y \in S : f[x] = f[y] => x = y
    PROVE  Cardinality({f[x] : x \in S}) = Cardinality(S)
<1>1. PICK T : T = {f[x] : x \in S}
  OBVIOUS
<1>2. PICK g : g = [x \in S |-> f[x]]
  OBVIOUS
<1>3. g \in [S -> T] /\ \A x, y \in S : g[x] = g[y] => x = y
  BY <1>1, <1>2
<1>4. g \in Surjection(S, T) /\ g \in Injection(S, T)
  BY <1>1, <1>2, <1>3 DEF Surjection, Injection, IsInjective
<1> QED
  BY <1>1, <1>4, FS_Surjection

\* Snapshots of datasets that exist add up to a size.
LEMMA EstimateNat ==
    ASSUME NEW found, IsFiniteSet(found), \A x \in found : x.ds \in DOMAIN LogicalOf
    PROVE  Estimate(found) \in Nat
<1>1. PICK N \in Nat : N = Cardinality(found) /\ ExistsBijection(1..N, found)
  BY FS_CardinalityType
<1>2. PICK q : q = SetToSeq(found)
  OBVIOUS
<1>3. \E f \in [1..N -> found] : IsInjective(f)
  BY <1>1 DEF ExistsBijection, Bijection, Injection
<1>4. q \in [1..N -> found]
  BY <1>1, <1>2, <1>3 DEF SetToSeq
<1>5. DOMAIN q = 1..N /\ \A i \in 1..N : q[i] \in found
  BY <1>4
<1>6. PICK s : s = [i \in 1..N |-> LogicalOf[q[i].ds]]
  OBVIOUS
<1>7. \A i \in 1..N : s[i] \in Nat
  BY <1>5, <1>6, ResolveAssumption
<1>8. s \in Seq(Nat)
  BY <1>6, <1>7
<1>9. Estimate(found) = Sum(s)
  BY <1>2, <1>5, <1>6 DEF Estimate
<1> QED
  BY <1>8, <1>9, SumNat

\* A ready VolumeSnapshot is not left out: its claim has a newest ready one.
LEMMA NewestExists ==
    ASSUME IsFiniteSet(vsnaps), \A w \in vsnaps : w.name \in Nat /\ w.time \in Nat,
           NEW v \in vsnaps, v.ready
    PROVE  \E u \in NewestPerPVC(vsnaps) : u.ns = v.ns /\ u.pvc = v.pvc /\ u.time >= v.time
<1>1. PICK G : G = {w \in vsnaps : w.ready /\ w.ns = v.ns /\ w.pvc = v.pvc /\ w.time >= v.time}
  OBVIOUS
<1>2. G \in SUBSET vsnaps /\ v \in G /\ IsFiniteSet(G)
  <2>1. G \in SUBSET vsnaps /\ v \in G
    BY <1>1
  <2> QED
    BY <2>1, FS_Subset
<1>3. PICK newer : newer = [w \in G |-> {u \in G : IsNewer(u, w)}]
  OBVIOUS
<1>4. ASSUME NEW w \in G PROVE IsFiniteSet(newer[w]) /\ Cardinality(newer[w]) \in Nat
  <2>1. newer[w] \in SUBSET G
    BY <1>3
  <2>2. IsFiniteSet(newer[w])
    BY <1>2, <2>1, FS_Subset
  <2> QED
    BY <2>2, FS_CardinalityType
<1>5. PICK S : S = {Cardinality(newer[w]) : w \in G}
  OBVIOUS
<1>6. S \in SUBSET Nat /\ S # {}
  BY <1>2, <1>4, <1>5
<1>7. PICK n \in S : \A m \in S : n <= m
  BY <1>6, LeastOf
<1>8. PICK w \in G : n = Cardinality(newer[w])
  BY <1>5, <1>7
<1>9. ASSUME NEW u \in vsnaps, u.ready, u.ns = w.ns, u.pvc = w.pvc, IsNewer(u, w) PROVE FALSE
  <2>1. u.name \in Nat /\ u.time \in Nat /\ w.name \in Nat /\ w.time \in Nat /\ v.time \in Nat
    BY <1>2, <1>8
  <2>2. u.time >= v.time
    BY <1>1, <1>8, <1>9, <2>1 DEF IsNewer
  <2>3. u \in G
    BY <1>1, <1>8, <1>9, <2>2
  <2>4. ASSUME NEW x \in G, IsNewer(x, u) PROVE IsNewer(x, w)
    <3>1. x.name \in Nat /\ x.time \in Nat
      BY <1>2
    <3> QED
      BY <1>9, <2>1, <2>4, <3>1 DEF IsNewer
  <2>5. newer[u] \in SUBSET newer[w]
    BY <1>3, <1>8, <2>3, <2>4
  <2>6. u \in newer[w] /\ u \notin newer[u]
    <3>1. ~IsNewer(u, u)
      BY <2>1 DEF IsNewer
    <3> QED
      BY <1>3, <1>8, <1>9, <2>3, <3>1
  <2>7. Cardinality(newer[u]) <= Cardinality(newer[w]) /\ Cardinality(newer[u]) # Cardinality(newer[w])
    BY <1>4, <1>8, <2>5, <2>6, FS_Subset
  <2>8. Cardinality(newer[u]) \in S /\ Cardinality(newer[u]) \in Nat
    BY <1>4, <1>5, <2>3
  <2> QED
    BY <1>4, <1>7, <1>8, <2>7, <2>8
<1>10. w \in vsnaps /\ w.ready /\ w.ns = v.ns /\ w.pvc = v.pvc /\ w.time >= v.time
  BY <1>1, <1>8
<1>11. w \in NewestPerPVC(vsnaps)
  BY <1>9, <1>10 DEF NewestPerPVC
<1> QED
  BY <1>10, <1>11

-----------------------------------------------------------------------------
(* The inductive invariant of the Resolve phase *)

\* The environment: what is there always is there now, what is there now was
\* there at some time.
EnvInv ==
    /\ alwaysLocal \subseteq local /\ local \subseteq everLocal
    /\ alwaysSnaps \subseteq snaps /\ snaps \subseteq EverySnapshot /\ IsFiniteSet(snaps)
    /\ IsFiniteSet(claims) /\ IsFiniteSet(vsnaps)
    /\ \A v \in alwaysReady : v \in vsnaps /\ v.ready

\* A claim keeps its name whatever becomes of it, and a VolumeSnapshot that gets
\* ready is still the one that was there at the start.
ClusterInv ==
    /\ \A c \in claims :
          DOMAIN c = {"ns", "name", "ds", "bound", "picked"} /\ c.ns \in Nat /\ c.name \in Nat \ {NoPVC}
    /\ \A v \in vsnaps :
          /\ DOMAIN v = {"ns", "name", "pvc", "ds", "snap", "ready", "time"}
          /\ v.ns \in Nat /\ v.name \in Nat \ {0} /\ v.time \in Nat
          /\ \E w \in EveryVolumeSnapshot : w.ns = v.ns /\ w.name = v.name /\ w.time = v.time

\* A source of the list s was made of the configured source o.
Derives(s, o) ==
    \/ s = o
    \/ /\ o.kind = "property" /\ s.kind = "path" /\ s.snap = Live
       /\ IsPrefix(o.under, s.ds) /\ NotStaged(s.ds) /\ s.ds \in everLocal
    \/ o.kind = "claimSelector" /\ s.kind = "claim"
    \/ o.kind = "claim" /\ s.kind = "claim" /\ s.ns = o.ns /\ s.name = o.name

\* Every configured source is there, and nothing but what it was expanded to.
ListInv ==
    /\ configured \in Seq(Source) /\ sources \in Seq(Source)
    /\ origin \in Seq(DOMAIN configured) /\ Len(origin) = Len(sources)
    /\ \A c \in DOMAIN configured : \E i \in DOMAIN sources : origin[i] = c
    /\ \A i \in DOMAIN sources : Derives(sources[i], configured[origin[i]])

\* The source i came from a claim the operator did not label.
Unlabelled(i) ==
    /\ sources[i].kind = "claim"
    /\ \/ configured[origin[i]].kind = "claimSelector"
       \/ configured[origin[i]].kind = "claim" /\ configured[origin[i]].label = <<>>

\* Datasets selected all the time that a property source should find.
Selects(s, d) == IsPrefix(s.under, d) /\ NotStaged(d)

\* How far the list is expanded.
StageInv ==
    /\ pc \in {"property", "confirm"} => sources = configured /\ \A i \in DOMAIN origin : origin[i] = i
    /\ pc \in {"claims", "k8s", "data", "done"} =>
          /\ \A i \in DOMAIN sources : sources[i].kind # "property"
          /\ \A c \in DOMAIN configured : configured[c].kind = "property" =>
                \A d \in alwaysLocal : Selects(configured[c], d) =>
                   \E i \in DOMAIN sources : origin[i] = c /\ sources[i].kind = "path" /\ sources[i].ds = d
    /\ pc = "claims" => \A i \in DOMAIN sources : sources[i].kind = "claim" => sources[i] = configured[origin[i]]
    /\ pc \in {"k8s", "data", "done"} =>
          /\ \A i \in DOMAIN sources : sources[i].kind # "claimSelector"
          /\ \A i, j \in DOMAIN sources :
                /\ Unlabelled(i) /\ Unlabelled(j)
                /\ ~(sources[i].ns = sources[j].ns /\ sources[i].name = sources[j].name)
                => SourceLabel(sources[i]) # SourceLabel(sources[j])

\* What ResolvePropertySources has found, and what it has still to confirm.
MatchInv ==
    pc \in {"property", "confirm"} =>
       /\ at <= Len(sources)
       /\ matches \in Seq(Seq(DOMAIN LogicalOf))
       /\ Len(matches) = IF pc = "confirm" THEN at ELSE at - 1
       /\ pc = "confirm" =>
             /\ sources[at].kind = "property"
             /\ \A d \in records : IsPrefix(sources[at].under, d) /\ NotStaged(d)
       /\ \A i \in DOMAIN matches : sources[i].kind = "property" =>
             /\ \A j \in DOMAIN matches[i] :
                   /\ IsPrefix(sources[i].under, matches[i][j]) /\ NotStaged(matches[i][j])
                   /\ matches[i][j] \in everLocal
             /\ i < at => matches[i] # <<>>
             /\ \A d \in alwaysLocal : Selects(sources[i], d) =>
                   \/ \E j \in DOMAIN matches[i] : matches[i][j] = d
                   \/ pc = "confirm" /\ i = at /\ d \in records

IsMember(x) == x = [ds |-> x.ds, snap |-> x.snap, ns |-> x.ns, pvc |-> x.pvc, vs |-> x.vs]

\* A snapshot of the source's dataset with its prefix, and none that was there
\* all the time is later.
IsNewest(x, s) ==
    /\ x.ds = s.ds /\ x.snap \notin {Live, RunSnapshot} /\ IsPrefix(s.prefix, x.snap)
    /\ \E z \in EverySnapshot :
          /\ z.ds = x.ds /\ z.name = x.snap
          /\ \A y \in alwaysSnaps : y.ds = s.ds /\ IsPrefix(s.prefix, y.name) => ~LaterThan(y, z)

\* The members of a group by newest snapshot leave out no claim.
NoneLeftOut(found) ==
    \A v \in alwaysReady : \E x \in found :
       /\ x.ns = v.ns /\ x.pvc = v.pvc
       /\ \E w \in EveryVolumeSnapshot : w.ns = x.ns /\ w.name = x.vs /\ w.time >= v.time

\* The snapshots found are what the source s asks for.
Answers(s, found) ==
    /\ found # {} /\ IsFiniteSet(found) /\ \A x \in found : IsMember(x)
    /\ s.kind = "path" => \A x \in found : x.ds = s.ds /\ (s.snap = Live \/ x.snap = s.snap)
    /\ s.kind = "newest" => \A x \in found : IsNewest(x, s)
    /\ s.kind = "claim" => \A x \in found : x.ns = s.ns /\ x.pvc = s.name
    /\ s.kind = "snapshot" => \A x \in found : x.ns = s.ns /\ x.vs = s.name
    /\ s.kind = "group" =>
          /\ \A x \in found : x.vs # 0 /\ MemberName(x) \notin TooLong
          /\ \A x, y \in found : MemberName(x) = MemberName(y) => x = y
          /\ s.newest => NoneLeftOut(found)

IsSeq(s) == s \in Seq(Range(s))

\* What has been resolved so far is what the sources ask for.
K8sAnswers ==
    \A i \in DOMAIN k8s : k8s[i].index \in DOMAIN sources /\ Answers(sources[k8s[i].index], k8s[i].snaps)
DataAnswers ==
    \A i \in DOMAIN resolved :
       /\ i \in DOMAIN sources /\ resolved[i].size \in Nat
       /\ resolved[i] = [index |-> i, label |-> SourceLabel(sources[i]), snaps |-> resolved[i].snaps,
                         size |-> resolved[i].size]
       /\ Answers(sources[i], resolved[i].snaps)

AnswerInv ==
    /\ IsSeq(k8s) /\ IsSeq(resolved)
    /\ pc \in {"property", "confirm", "claims"} => k8s = <<>>
    /\ pc \in {"property", "confirm", "claims", "k8s"} => resolved = <<>>
    /\ pc = "data" => Len(resolved) = at - 1
    /\ pc = "done" => Len(resolved) = Len(sources)
    /\ K8sAnswers /\ DataAnswers
    /\ pc = "done" => \A i \in DOMAIN resolved : \A x \in resolved[i].snaps : x.snap # Live

\* The counters, and that a reason is given only for a phase that failed.
CountInv ==
    /\ pc \in {"property", "confirm", "claims", "k8s", "data", "done", "failed"}
    /\ at \in 1..Len(sources) + 1 /\ tries \in 1..MaxAttempts
    /\ changes \in 0..MaxChanges /\ errors \in 0..MaxErrors
    /\ records \subseteq forged \cup everLocal
    /\ reason # "none" => pc = "failed"
    /\ reason = "payload" => Len(sources) > SliceBudget - RunTarget

ResolveInv == EnvInv /\ ClusterInv /\ ListInv /\ StageInv /\ MatchInv /\ AnswerInv /\ CountInv

-----------------------------------------------------------------------------
(* Changes of the pool and the cluster *)

\* What the run has found out is not undone by a change: what was selected at
\* some time still was, and less was there all the time.
Ages ==
    /\ UNCHANGED <<work, forged, errors>>
    /\ everLocal \subseteq everLocal' /\ alwaysLocal' \subseteq alwaysLocal
    /\ alwaysSnaps' \subseteq alwaysSnaps /\ alwaysReady' \subseteq alwaysReady

\* What answered a source still does when less was there all the time.
LEMMA AnswersAge ==
    ASSUME alwaysSnaps' \subseteq alwaysSnaps, alwaysReady' \subseteq alwaysReady,
           NEW s, NEW found, Answers(s, found)
    PROVE  Answers(s, found)'
<1>1. ASSUME NEW x, IsNewest(x, s) PROVE IsNewest(x, s)'
  BY <1>1 DEF IsNewest, LaterThan
<1>2. NoneLeftOut(found) => NoneLeftOut(found)'
  BY DEF NoneLeftOut
<1>3. /\ found # {} /\ IsFiniteSet(found) /\ \A x \in found : IsMember(x)
      /\ s.kind = "path" => \A x \in found : x.ds = s.ds /\ (s.snap = Live \/ x.snap = s.snap)
      /\ s.kind = "claim" => \A x \in found : x.ns = s.ns /\ x.pvc = s.name
      /\ s.kind = "snapshot" => \A x \in found : x.ns = s.ns /\ x.vs = s.name
  BY DEF Answers
<1>4. s.kind = "newest" => \A x \in found : IsNewest(x, s)'
  BY <1>1 DEF Answers
<1>5. s.kind = "group" =>
        /\ \A x \in found : x.vs # 0 /\ MemberName(x) \notin TooLong
        /\ \A x, y \in found : MemberName(x) = MemberName(y) => x = y
  BY DEF Answers
<1>6. s.kind = "group" /\ s.newest => NoneLeftOut(found)'
  BY <1>2 DEF Answers
<1> QED
  BY <1>3, <1>4, <1>5, <1>6 DEF Answers

\* The same of all that ResolveK8sSources has resolved.
LEMMA K8sAge ==
    ASSUME alwaysSnaps' \subseteq alwaysSnaps, alwaysReady' \subseteq alwaysReady,
           UNCHANGED <<sources, k8s>>, K8sAnswers
    PROVE  K8sAnswers'
<1> SUFFICES ASSUME NEW i \in DOMAIN k8s
             PROVE  k8s[i].index \in DOMAIN sources /\ Answers(sources[k8s[i].index], k8s[i].snaps)'
  BY DEF K8sAnswers
<1>1. PICK s : s = sources[k8s[i].index]
  OBVIOUS
<1>2. PICK found : found = k8s[i].snaps
  OBVIOUS
<1>3. k8s[i].index \in DOMAIN sources /\ Answers(s, found)
  BY <1>1, <1>2 DEF K8sAnswers
<1>4. Answers(s, found)'
  BY <1>3, AnswersAge
<1> QED
  BY <1>1, <1>2, <1>3, <1>4

\* The same of the work list.
LEMMA DataAge ==
    ASSUME alwaysSnaps' \subseteq alwaysSnaps, alwaysReady' \subseteq alwaysReady,
           UNCHANGED <<sources, resolved>>, DataAnswers
    PROVE  DataAnswers'
<1>1. ASSUME NEW i \in DOMAIN resolved PROVE Answers(sources[i], resolved[i].snaps)'
  <2>1. PICK s : s = sources[i]
    OBVIOUS
  <2>2. PICK found : found = resolved[i].snaps
    OBVIOUS
  <2>3. Answers(s, found)
    BY <2>1, <2>2 DEF DataAnswers
  <2>4. Answers(s, found)'
    BY <2>3, AnswersAge
  <2> QED
    BY <2>1, <2>2, <2>4
<1> QED
  BY <1>1 DEF DataAnswers

\* A change of the pool or the cluster leaves alone what the workflow knows.
LEMMA AgesStep ==
    ASSUME ListInv, StageInv, MatchInv, AnswerInv, Ages
    PROVE  ListInv' /\ StageInv' /\ MatchInv' /\ AnswerInv'
<1>1. /\ configured' = configured /\ sources' = sources /\ origin' = origin /\ pc' = pc /\ at' = at
      /\ records' = records /\ matches' = matches /\ k8s' = k8s /\ resolved' = resolved
      /\ everLocal \subseteq everLocal' /\ alwaysLocal' \subseteq alwaysLocal
  BY DEF Ages, work
<1>2. ListInv'
  BY <1>1 DEF ListInv, Derives
<1>3. StageInv'
  <2>1. \A i : Unlabelled(i)' = Unlabelled(i)
    BY <1>1 DEF Unlabelled
  <2> QED
    BY <1>1, <2>1 DEF StageInv
<1>4. MatchInv'
  BY <1>1 DEF MatchInv
<1>5. AnswerInv'
  <2>1. K8sAnswers' /\ DataAnswers'
    BY <1>1, K8sAge, DataAge DEF Ages, AnswerInv
  <2> QED
    BY <1>1, <2>1 DEF AnswerInv
<1> QED
  BY <1>2, <1>3, <1>4, <1>5

Changes ==
    \/ \E d \in DOMAIN LogicalOf : SetProperty(d)
    \/ \E x \in snaps : Prune(x)
    \/ \E x \in Later : Take(x)
    \/ \E v \in vsnaps : VolumeSnapshotChanges(v)
    \/ \E c \in claims : ClaimChanges(c)

\* Every change is such a change.
LEMMA ChangesAge ==
    ASSUME EnvInv, Changes
    PROVE  Ages
<1>1. CASE \E d \in DOMAIN LogicalOf : SetProperty(d)
  BY <1>1 DEF SetProperty, Ages
<1>2. CASE \E x \in snaps : Prune(x)
  BY <1>2 DEF Prune, Ages
<1>3. CASE \E x \in Later : Take(x)
  BY <1>3 DEF Take, Ages, history
<1>4. CASE \E v \in vsnaps : VolumeSnapshotChanges(v)
  BY <1>4 DEF VolumeSnapshotChanges, Ages
<1>5. CASE \E c \in claims : ClaimChanges(c)
  BY <1>5 DEF ClaimChanges, Ages, history
<1> QED
  BY <1>1, <1>2, <1>3, <1>4, <1>5 DEF Changes

\* Changes are counted.
LEMMA ChangesCount ==
    ASSUME CountInv, EnvInv, Changes
    PROVE  CountInv'
<1>1. pc \notin {"done", "failed"} /\ changes < MaxChanges /\ changes' = changes + 1
  BY DEF Changes, SetProperty, Prune, Take, VolumeSnapshotChanges, ClaimChanges, Change
<1>2. /\ pc' = pc /\ sources' = sources /\ at' = at /\ tries' = tries /\ records' = records /\ reason' = reason
      /\ forged' = forged /\ errors' = errors /\ everLocal \subseteq everLocal'
  BY ChangesAge DEF Ages, work
<1>3. MaxChanges \in Nat
  BY ResolveAssumption
<1>4. changes' \in 0..MaxChanges
  BY <1>1, <1>3 DEF CountInv
<1> QED
  BY <1>2, <1>4 DEF CountInv

\* The pool and the cluster stay finite, and what is there keeps its names.
LEMMA ChangesEnv ==
    ASSUME EnvInv, ClusterInv, Changes
    PROVE  EnvInv' /\ ClusterInv'
<1>1. ASSUME NEW d \in DOMAIN LogicalOf, SetProperty(d) PROVE EnvInv' /\ ClusterInv'
  BY <1>1 DEF SetProperty, EnvInv, ClusterInv
<1>2. ASSUME NEW x \in snaps, Prune(x) PROVE EnvInv' /\ ClusterInv'
  <2>1. snaps' = snaps \ {x} /\ alwaysSnaps' = alwaysSnaps \ {x}
        /\ UNCHANGED <<local, claims, vsnaps, everLocal, alwaysLocal, alwaysReady>>
    BY <1>2 DEF Prune
  <2>2. IsFiniteSet(snaps')
    BY <2>1, FS_RemoveElement DEF EnvInv
  <2> QED
    BY <2>1, <2>2 DEF EnvInv, ClusterInv
<1>3. ASSUME NEW x \in Later, Take(x) PROVE EnvInv' /\ ClusterInv'
  <2>1. snaps' = snaps \cup {x} /\ UNCHANGED <<local, claims, vsnaps, alwaysSnaps, everLocal, alwaysLocal, alwaysReady>>
    BY <1>3 DEF Take, history
  <2>2. IsFiniteSet(snaps')
    BY <2>1, FS_AddElement DEF EnvInv
  <2>3. x \in EverySnapshot
    BY DEF EverySnapshot
  <2> QED
    BY <2>1, <2>2, <2>3 DEF EnvInv, ClusterInv
<1>4. ASSUME NEW v \in vsnaps, VolumeSnapshotChanges(v) PROVE EnvInv' /\ ClusterInv'
  <2>1. UNCHANGED <<local, claims, everLocal, alwaysLocal>>
    BY <1>4 DEF VolumeSnapshotChanges
  <2>2. CASE ~v.ready /\ vsnaps' = (vsnaps \ {v}) \cup {[v EXCEPT !.ready = TRUE]} /\ UNCHANGED <<snaps, alwaysReady, alwaysSnaps>>
    <3>1. PICK w : w = [v EXCEPT !.ready = TRUE]
      OBVIOUS
    <3>2. DOMAIN v = {"ns", "name", "pvc", "ds", "snap", "ready", "time"}
      BY DEF ClusterInv
    <3>3. DOMAIN w = DOMAIN v /\ w.ns = v.ns /\ w.name = v.name /\ w.time = v.time
      BY <3>1, <3>2
    <3>4. vsnaps' = (vsnaps \ {v}) \cup {w}
      BY <2>2, <3>1
    <3>5. IsFiniteSet(vsnaps \ {v})
      BY FS_RemoveElement DEF EnvInv
    <3>6. IsFiniteSet(vsnaps')
      BY <3>4, <3>5, FS_AddElement
    <3>7. \A x \in alwaysReady : x \in vsnaps' /\ x.ready
      BY <2>2, <3>4 DEF EnvInv
    <3>8. EnvInv'
      BY <2>1, <2>2, <3>6, <3>7 DEF EnvInv
    <3>9. ClusterInv'
      BY <2>1, <3>3, <3>4 DEF ClusterInv
    <3> QED
      BY <3>8, <3>9
  <2>3. CASE /\ vsnaps' = vsnaps \ {v} /\ alwaysReady' = alwaysReady \ {v}
             /\ snaps' = {x \in snaps : <<x.ds, x.name>> # <<v.ds, v.snap>>}
             /\ alwaysSnaps' = alwaysSnaps \cap snaps'
    <3>1. IsFiniteSet(vsnaps')
      BY <2>3, FS_RemoveElement DEF EnvInv
    <3>2. snaps' \in SUBSET snaps
      BY <2>3
    <3>3. IsFiniteSet(snaps')
      BY <3>2, FS_Subset DEF EnvInv
    <3>4. \A x \in alwaysReady' : x \in vsnaps' /\ x.ready
      BY <2>3 DEF EnvInv
    <3>5. EnvInv'
      BY <2>1, <2>3, <3>1, <3>2, <3>3, <3>4 DEF EnvInv
    <3>6. ClusterInv'
      BY <2>1, <2>3 DEF ClusterInv
    <3> QED
      BY <3>5, <3>6
  <2> QED
    BY <1>4, <2>2, <2>3 DEF VolumeSnapshotChanges
<1>5. ASSUME NEW c \in claims, ClaimChanges(c) PROVE EnvInv' /\ ClusterInv'
  <2>1. UNCHANGED <<local, snaps, vsnaps, alwaysSnaps, everLocal, alwaysLocal, alwaysReady>>
    BY <1>5 DEF ClaimChanges, history
  <2>2. CASE claims' = claims \ {c}
    <3>1. IsFiniteSet(claims')
      BY <2>2, FS_RemoveElement DEF EnvInv
    <3> QED
      BY <2>1, <2>2, <3>1 DEF EnvInv, ClusterInv
  <2>3. CASE claims' = (claims \ {c}) \cup {[c EXCEPT !.bound = ~c.bound]}
    <3>1. PICK w : w = [c EXCEPT !.bound = ~c.bound]
      OBVIOUS
    <3>2. DOMAIN c = {"ns", "name", "ds", "bound", "picked"}
      BY DEF ClusterInv
    <3>3. DOMAIN w = DOMAIN c /\ w.ns = c.ns /\ w.name = c.name
      BY <3>1, <3>2
    <3>4. claims' = (claims \ {c}) \cup {w}
      BY <2>3, <3>1
    <3>5. IsFiniteSet(claims \ {c})
      BY FS_RemoveElement DEF EnvInv
    <3>6. IsFiniteSet(claims')
      BY <3>4, <3>5, FS_AddElement
    <3>7. ClusterInv'
      BY <2>1, <3>3, <3>4 DEF ClusterInv
    <3> QED
      BY <2>1, <3>6, <3>7 DEF EnvInv
  <2> QED
    BY <1>5, <2>2, <2>3 DEF ClaimChanges
<1> QED
  BY <1>1, <1>2, <1>3, <1>4, <1>5 DEF Changes

-----------------------------------------------------------------------------
(* An attempt that fails *)

\* The workflow reads the cluster and the pool and changes neither.
Reads == UNCHANGED <<configured, env, history, changes>> /\ errors' \in 0..MaxErrors

\* Reading keeps the invariants of the pool and the cluster.
LEMMA ReadsEnv ==
    ASSUME EnvInv, ClusterInv, Reads
    PROVE  EnvInv' /\ ClusterInv'
  BY DEF EnvInv, ClusterInv, Reads, env, history

\* A step that leaves the list alone keeps its invariant.
LEMMA ListSame ==
    ASSUME ListInv, Reads, UNCHANGED <<sources, origin>>
    PROVE  ListInv'
  BY DEF ListInv, Derives, Reads, history

\* A step that leaves the list alone keeps how far it is expanded, if the phase
\* goes no further than the list is.
LEMMA StageSame ==
    ASSUME StageInv, Reads, UNCHANGED <<sources, origin>>, pc' \in {pc, "failed"}
           \/ (pc = "confirm" /\ pc' = "property") \/ (pc = "property" /\ pc' = "confirm")
           \/ (pc = "k8s" /\ pc' = "data") \/ (pc = "data" /\ pc' = "done")
    PROVE  StageInv'
<1>1. configured' = configured /\ sources' = sources /\ origin' = origin /\ alwaysLocal' = alwaysLocal
  BY DEF Reads, history
<1>2. \A i : Unlabelled(i)' = Unlabelled(i)
  BY <1>1 DEF Unlabelled
<1> QED
  BY <1>1, <1>2 DEF StageInv

\* An error starts the activity over, with nothing of what it had collected.
LEMMA AttemptFailsStep ==
    ASSUME ListInv, StageInv, MatchInv, AnswerInv, CountInv, Reads, pc \notin {"done", "failed"},
           NEW why, why # "none", why = "payload" => Len(sources) > SliceBudget - RunTarget, AttemptFails(why)
    PROVE  ListInv' /\ StageInv' /\ MatchInv' /\ AnswerInv' /\ CountInv'
<1>1. /\ sources' = sources /\ origin' = origin /\ matches' = <<>> /\ resolved' = <<>> /\ k8s' \in {k8s, <<>>}
      /\ pc = "k8s" => k8s' = <<>>
      /\ \/ /\ tries < MaxAttempts /\ tries' = tries + 1 /\ at' = 1 /\ records' = {} /\ reason' = reason
            /\ pc' = IF pc = "confirm" THEN "property" ELSE pc
         \/ pc' = "failed" /\ reason' = why /\ at' = at /\ tries' = tries /\ records' = records
  BY DEF AttemptFails, Fails
<1>2. /\ Len(sources) \in Nat /\ at \in 1..Len(sources) + 1 /\ tries \in 1..MaxAttempts /\ MaxAttempts \in Nat
      /\ forged' = forged /\ everLocal' = everLocal /\ changes' = changes
  BY ResolveAssumption DEF ListInv, CountInv, Reads, env, history
<1>3. ListInv'
  BY <1>1, ListSame
<1>4. StageInv'
  BY <1>1, StageSame
<1>5. MatchInv'
  <2>1. pc' \in {"property", "confirm"} => pc' = "property" /\ at' = 1 /\ at <= Len(sources)
    BY <1>1 DEF MatchInv
  <2>2. pc' \in {"property", "confirm"} => 1 <= Len(sources)
    BY <1>2, <2>1
  <2>3. <<>> \in Seq(Seq(DOMAIN LogicalOf)) /\ Len(<<>>) = 0 /\ DOMAIN <<>> = {}
    OBVIOUS
  <2> QED
    BY <1>1, <2>1, <2>2, <2>3 DEF MatchInv
<1>6. AnswerInv'
  <2>1. IsSeq(<<>>) /\ Len(<<>>) = 0 /\ DOMAIN <<>> = {}
    BY DEF IsSeq
  <2>2. K8sAnswers'
    <3>1. CASE k8s' = k8s
      BY <1>1, <3>1, K8sAge DEF AnswerInv, Reads, history
    <3>2. CASE k8s' = <<>>
      BY <3>2, <2>1 DEF K8sAnswers
    <3> QED
      BY <1>1, <3>1, <3>2
  <2>3. DataAnswers'
    BY <1>1, <2>1 DEF DataAnswers
  <2>4. IsSeq(k8s)' /\ IsSeq(resolved)'
    <3>1. IsSeq(k8s)
      BY DEF AnswerInv
    <3> QED
      BY <1>1, <2>1, <3>1
  <2>5. pc' \in {"property", "confirm", "claims"} => pc \in {"property", "confirm", "claims"}
    BY <1>1
  <2>6. pc' = "data" => Len(resolved') = at' - 1
    BY <1>1, <2>1
  <2>7. pc' # "done"
    BY <1>1
  <2> QED
    BY <1>1, <2>2, <2>3, <2>4, <2>5, <2>6, <2>7 DEF AnswerInv
<1>7. CountInv'
  <2>1. tries' \in 1..MaxAttempts /\ at' \in 1..Len(sources') + 1
    BY <1>1, <1>2
  <2>2. pc' \in {"property", "confirm", "claims", "k8s", "data", "done", "failed"}
    BY <1>1 DEF CountInv
  <2>3. records' \subseteq forged' \cup everLocal'
    BY <1>1, <1>2 DEF CountInv
  <2>4. changes' \in 0..MaxChanges /\ errors' \in 0..MaxErrors
    BY <1>2 DEF CountInv, Reads
  <2>5. reason' # "none" => pc' = "failed"
    BY <1>1 DEF CountInv
  <2>6. reason' = "payload" => Len(sources') > SliceBudget - RunTarget
    BY <1>1 DEF CountInv
  <2> QED
    BY <2>1, <2>2, <2>3, <2>4, <2>5, <2>6 DEF CountInv
<1> QED
  BY <1>3, <1>4, <1>5, <1>6, <1>7

\* A failure that is not retried.
LEMMA FailsStep ==
    ASSUME ListInv, StageInv, AnswerInv, CountInv, Reads, UNCHANGED <<sources, origin, k8s, resolved>>,
           NEW why, why \notin {"none", "payload"}, Fails(why)
    PROVE  ListInv' /\ StageInv' /\ MatchInv' /\ AnswerInv' /\ CountInv'
<1>1. pc' = "failed" /\ reason' = why /\ at' = at /\ tries' = tries /\ records' = records
  BY DEF Fails
<1>2. ListInv' /\ StageInv'
  BY <1>1, ListSame, StageSame
<1>3. MatchInv'
  BY <1>1 DEF MatchInv
<1>4. AnswerInv'
  <2>1. K8sAnswers' /\ DataAnswers'
    BY K8sAge, DataAge DEF AnswerInv, Reads, history
  <2> QED
    BY <1>1, <2>1 DEF AnswerInv
<1>5. CountInv'
  BY <1>1 DEF CountInv, Reads, env, history
<1> QED
  BY <1>2, <1>3, <1>4, <1>5

-----------------------------------------------------------------------------
(* ResolvePropertySources *)

\* The list, what is resolved and most counters are as they were.
LEMMA SearchFrame ==
    ASSUME ListInv, StageInv, AnswerInv, CountInv, Reads, pc \in {"property", "confirm"},
           UNCHANGED <<sources, origin, k8s, resolved, tries, reason>>, pc' \in {"property", "confirm"},
           records' \subseteq forged \cup everLocal, at' \in 1..Len(sources) + 1
    PROVE  ListInv' /\ StageInv' /\ AnswerInv' /\ CountInv'
<1>1. ListInv'
  BY ListSame
<1>2. StageInv'
  BY StageSame
<1>3. K8sAnswers' /\ DataAnswers'
  BY K8sAge, DataAge DEF AnswerInv, Reads, history
<1>4. AnswerInv'
  BY <1>3 DEF AnswerInv
<1>5. CountInv'
  BY DEF CountInv, Reads, env, history
<1> QED
  BY <1>1, <1>2, <1>4, <1>5

\* Append adds an element at the end.
LEMMA AppendFacts ==
    ASSUME NEW T, NEW q \in Seq(T), NEW e \in T
    PROVE  /\ Append(q, e) \in Seq(T) /\ Len(Append(q, e)) = Len(q) + 1 /\ Len(q) \in Nat
           /\ DOMAIN Append(q, e) = 1..Len(q) + 1 /\ DOMAIN q = 1..Len(q)
           /\ Append(q, e)[Len(q) + 1] = e /\ \A i \in 1..Len(q) : Append(q, e)[i] = q[i]
  OBVIOUS

\* LocalProperty lists every dataset that has been selected all the time.
LEMMA ListRecordsStep ==
    ASSUME EnvInv, ListInv, StageInv, MatchInv, AnswerInv, CountInv, ListRecords
    PROVE  ListInv' /\ StageInv' /\ MatchInv' /\ AnswerInv' /\ CountInv' /\ Reads
<1>1. PICK s : s = sources[at]
  OBVIOUS
<1>2. /\ pc = "property" /\ s.kind = "property" /\ pc' = "confirm"
      /\ records' = {d \in local \cup forged : IsPrefix(s.under, d) /\ NotStaged(d)}
      /\ matches' = Append(matches, <<>>)
      /\ UNCHANGED <<sources, origin, at, k8s, resolved, tries, reason, configured, env, history, changes, errors>>
  BY <1>1 DEF ListRecords, DatasetWithin
<1>3. Reads
  BY <1>2 DEF Reads, CountInv
<1>4. records' \subseteq forged \cup everLocal /\ at' \in 1..Len(sources) + 1
  BY <1>2 DEF EnvInv, CountInv
<1>5. ListInv' /\ StageInv' /\ AnswerInv' /\ CountInv'
  BY <1>2, <1>3, <1>4, SearchFrame
<1>6. PICK T : T = Seq(DOMAIN LogicalOf)
  OBVIOUS
<1>7. matches \in Seq(T) /\ Len(matches) = at - 1 /\ at <= Len(sources) /\ <<>> \in T
  BY <1>2, <1>6 DEF MatchInv
<1>8. /\ matches' \in Seq(T) /\ Len(matches') = at /\ DOMAIN matches' = 1..at /\ at \in Nat
      /\ matches'[at] = <<>> /\ \A i \in 1..at - 1 : matches'[i] = matches[i] /\ i \in DOMAIN matches
  BY <1>2, <1>7, AppendFacts DEF CountInv
<1>9. ASSUME NEW i \in DOMAIN matches', sources[i].kind = "property"
      PROVE  /\ \A j \in DOMAIN matches'[i] :
                   /\ IsPrefix(sources[i].under, matches'[i][j]) /\ NotStaged(matches'[i][j])
                   /\ matches'[i][j] \in everLocal
             /\ i < at => matches'[i] # <<>>
             /\ \A d \in alwaysLocal : Selects(sources[i], d) =>
                   \/ \E j \in DOMAIN matches'[i] : matches'[i][j] = d
                   \/ i = at /\ d \in records'
  <2>1. CASE i = at
    <3>1. ASSUME NEW d \in alwaysLocal, Selects(sources[i], d) PROVE d \in records'
      BY <1>1, <1>2, <2>1, <3>1 DEF Selects, EnvInv
    <3>2. DOMAIN matches'[i] = {}
      BY <1>8, <2>1
    <3> QED
      BY <1>8, <2>1, <3>1, <3>2
  <2>2. CASE i # at
    <3>1. i \in 1..at - 1 /\ i < at /\ matches'[i] = matches[i] /\ i \in DOMAIN matches
      BY <1>8, <1>9, <2>2
    <3> QED
      BY <1>2, <1>9, <3>1 DEF MatchInv
  <2> QED
    BY <2>1, <2>2
<1>10. MatchInv'
  <2>1. \A d \in records' : IsPrefix(sources[at].under, d) /\ NotStaged(d)
    BY <1>1, <1>2
  <2>2. everLocal' = everLocal /\ alwaysLocal' = alwaysLocal
    BY <1>2 DEF history
  <2> QED
    BY <1>1, <1>2, <1>6, <1>7, <1>8, <1>9, <2>1, <2>2 DEF MatchInv
<1> QED
  BY <1>3, <1>5, <1>10

\* A listed record becomes a match only when it was selected, and no other is
\* dropped.
LEMMA ConfirmStep ==
    ASSUME EnvInv, ListInv, StageInv, MatchInv, AnswerInv, CountInv, Confirm
    PROVE  ListInv' /\ StageInv' /\ MatchInv' /\ AnswerInv' /\ CountInv' /\ Reads
<1>1. PICK d : d = CHOOSE x \in records : TRUE
  OBVIOUS
<1>2. pc = "confirm" /\ d \in records /\ UNCHANGED <<configured, env, history, changes, errors>>
  BY <1>1 DEF Confirm
<1>3. Reads
  BY <1>2 DEF Reads, CountInv
<1>4. CASE AttemptFails("no such dataset")
  BY <1>2, <1>3, <1>4, AttemptFailsStep
<1>5. CASE /\ d \in DOMAIN LogicalOf /\ records' = records \ {d}
           /\ matches' = IF Confirmed(d) THEN [matches EXCEPT ![at] = Append(matches[at], d)] ELSE matches
           /\ UNCHANGED <<pc, sources, origin, at, k8s, resolved, tries, reason>>
  <2>1. records' \subseteq forged \cup everLocal /\ at' \in 1..Len(sources) + 1
    BY <1>5 DEF CountInv
  <2>2. ListInv' /\ StageInv' /\ AnswerInv' /\ CountInv'
    BY <1>2, <1>3, <1>5, <2>1, SearchFrame
  <2>3. PICK T : T = DOMAIN LogicalOf
    OBVIOUS
  <2>4. /\ matches \in Seq(Seq(T)) /\ Len(matches) = at /\ at <= Len(sources) /\ at \in Nat
        /\ sources[at].kind = "property" /\ \A e \in records : IsPrefix(sources[at].under, e) /\ NotStaged(e)
    BY <1>2, <2>3 DEF MatchInv, CountInv
  <2>5. DOMAIN matches = 1..at /\ at \in 1..at /\ \A i \in 1..at : matches[i] \in Seq(T)
    BY <2>4 DEF CountInv
  <2>6. PICK m : m = matches[at]
    OBVIOUS
  <2>7. m \in Seq(T) /\ d \in T
    BY <1>5, <2>3, <2>5, <2>6
  <2>8. /\ Append(m, d) \in Seq(T) /\ Len(m) \in Nat
        /\ DOMAIN Append(m, d) = 1..Len(m) + 1 /\ DOMAIN m = 1..Len(m)
        /\ Append(m, d)[Len(m) + 1] = d /\ \A j \in 1..Len(m) : Append(m, d)[j] = m[j]
    BY <2>7, AppendFacts
  <2>9. /\ matches' \in Seq(Seq(T)) /\ Len(matches') = at /\ DOMAIN matches' = 1..at
        /\ \A i \in 1..at - 1 : matches'[i] = matches[i]
        /\ matches'[at] = IF Confirmed(d) THEN Append(m, d) ELSE m
    <3>1. CASE Confirmed(d)
      <4>1. PICK n : n = Append(m, d)
        OBVIOUS
      <4>2. matches' = [matches EXCEPT ![at] = n]
        BY <1>5, <2>6, <3>1, <4>1
      <4>3. PICK V : V = Seq(T)
        OBVIOUS
      <4>4. matches \in Seq(V) /\ n \in V /\ at \in 1..Len(matches)
        BY <2>4, <2>5, <2>8, <4>1, <4>3
      <4>5. matches' \in Seq(V) /\ Len(matches') = Len(matches)
        BY <4>2, <4>4
      <4>6. matches'[at] = n /\ \A i \in 1..at - 1 : matches'[i] = matches[i]
        BY <2>5, <4>2
      <4>7. DOMAIN matches' = 1..at
        BY <2>5, <4>2
      <4> QED
        BY <2>4, <3>1, <4>1, <4>3, <4>5, <4>6, <4>7
    <3>2. CASE ~Confirmed(d)
      BY <1>5, <2>4, <2>5, <2>6, <3>2
    <3> QED
      BY <3>1, <3>2
  <2>10. ASSUME NEW i \in DOMAIN matches', sources[i].kind = "property"
         PROVE  /\ \A j \in DOMAIN matches'[i] :
                      /\ IsPrefix(sources[i].under, matches'[i][j]) /\ NotStaged(matches'[i][j])
                      /\ matches'[i][j] \in everLocal
                /\ i < at => matches'[i] # <<>>
                /\ \A e \in alwaysLocal : Selects(sources[i], e) =>
                      \/ \E j \in DOMAIN matches'[i] : matches'[i][j] = e
                      \/ i = at /\ e \in records'
    <3>1. i \in DOMAIN matches
      BY <2>5, <2>9, <2>10
    <3>2. /\ \A j \in DOMAIN matches[i] :
                /\ IsPrefix(sources[i].under, matches[i][j]) /\ NotStaged(matches[i][j])
                /\ matches[i][j] \in everLocal
          /\ i < at => matches[i] # <<>>
          /\ \A e \in alwaysLocal : Selects(sources[i], e) =>
                \/ \E j \in DOMAIN matches[i] : matches[i][j] = e
                \/ i = at /\ e \in records
      BY <1>2, <2>10, <3>1 DEF MatchInv
    <3>3. CASE i # at
      <4>1. i \in 1..at - 1 /\ matches'[i] = matches[i]
        BY <2>4, <2>9, <2>10, <3>3
      <4> QED
        BY <3>2, <3>3, <4>1
    <3>4. CASE i = at /\ Confirmed(d)
      <4>1. matches'[i] = Append(m, d) /\ d \in everLocal
        BY <2>9, <3>4 DEF Confirmed, EnvInv
      <4>2. ASSUME NEW j \in DOMAIN matches'[i]
            PROVE  IsPrefix(sources[i].under, matches'[i][j]) /\ NotStaged(matches'[i][j]) /\ matches'[i][j] \in everLocal
        <5>1. CASE j = Len(m) + 1
          BY <1>2, <2>4, <2>8, <3>4, <4>1, <5>1
        <5>2. CASE j # Len(m) + 1
          <6>1. j \in DOMAIN m /\ matches'[i][j] = m[j]
            BY <2>8, <4>1, <4>2, <5>2
          <6> QED
            BY <2>6, <3>2, <3>4, <6>1
        <5> QED
          BY <5>1, <5>2
      <4>3. ASSUME NEW e \in alwaysLocal, Selects(sources[i], e)
            PROVE  (\E j \in DOMAIN matches'[i] : matches'[i][j] = e) \/ e \in records'
        <5>1. CASE e = d
          <6>1. Len(m) + 1 \in DOMAIN matches'[i] /\ matches'[i][Len(m) + 1] = d
            BY <2>8, <4>1
          <6> QED
            BY <5>1, <6>1
        <5>2. CASE e # d /\ e \in records
          BY <1>5, <5>2
        <5>3. CASE e \notin records
          <6>1. PICK j \in DOMAIN m : m[j] = e
            BY <2>6, <3>2, <3>4, <4>3, <5>3
          <6>2. j \in DOMAIN matches'[i] /\ matches'[i][j] = e
            BY <2>8, <4>1, <6>1
          <6> QED
            BY <6>2
        <5> QED
          BY <5>1, <5>2, <5>3
      <4> QED
        BY <2>4, <3>4, <4>2, <4>3
    <3>5. CASE i = at /\ ~Confirmed(d)
      <4>1. matches'[i] = matches[i] /\ d \notin alwaysLocal
        BY <2>6, <2>9, <3>5 DEF Confirmed, EnvInv
      <4> QED
        BY <1>5, <3>2, <3>5, <4>1
    <3> QED
      BY <3>3, <3>4, <3>5
  <2>11. MatchInv'
    <3>1. everLocal' = everLocal /\ alwaysLocal' = alwaysLocal
      BY <1>2 DEF history
    <3>2. pc' = "confirm" /\ sources' = sources /\ at' = at
      BY <1>2, <1>5
    <3>3. \A e \in records' : IsPrefix(sources[at].under, e) /\ NotStaged(e)
      BY <1>5, <2>4
    <3>4. matches' \in Seq(Seq(DOMAIN LogicalOf)) /\ Len(matches') = at
      BY <2>3, <2>9
    <3> QED
      BY <2>4, <2>10, <3>1, <3>2, <3>3, <3>4 DEF MatchInv
  <2> QED
    BY <1>3, <2>2, <2>11
<1> QED
  BY <1>1, <1>4, <1>5 DEF Confirm

\* What the property sources are replaced by.
Replaced(m) ==
    [i \in DOMAIN sources |-> IF sources[i].kind = "property" THEN Paths(m[i]) ELSE <<sources[i]>>]

\* The path sources of a source's matches.
LEMMA PathsFacts ==
    ASSUME NEW m \in Seq(DOMAIN LogicalOf)
    PROVE  /\ Paths(m) \in Seq(Source) /\ DOMAIN Paths(m) = DOMAIN m
           /\ \A j \in DOMAIN m : /\ Paths(m)[j].kind = "path" /\ Paths(m)[j].ds = m[j]
                                  /\ Paths(m)[j].snap = Live
<1>1. PICK N \in Nat : N = Len(m) /\ DOMAIN m = 1..N
  OBVIOUS
<1>2. \A j \in 1..N : m[j] \in Names
  BY <1>1, ResolveAssumption
<1>3. Live \in Names
  BY DEF Live, Names
<1>4. \A j \in 1..N : [kind |-> "path", ds |-> m[j], snap |-> Live] \in Source
  BY <1>2, <1>3 DEF Source
<1>5. PICK q : q = [j \in 1..N |-> [kind |-> "path", ds |-> m[j], snap |-> Live]]
  OBVIOUS
<1>6. \A j \in 1..N : q[j] \in Source
  BY <1>4, <1>5
<1>7. q \in Seq(Source) /\ DOMAIN q = 1..N
  BY <1>5, <1>6
<1>8. Paths(m) = q
  BY <1>1, <1>5 DEF Paths
<1> QED
  BY <1>1, <1>5, <1>7, <1>8

\* Every property source has matches when the last source is done.
Searched ==
    \A i \in DOMAIN sources : sources[i].kind = "property" =>
       /\ i \in DOMAIN matches /\ matches[i] \in Seq(DOMAIN LogicalOf) /\ matches[i] # <<>>
       /\ \A j \in DOMAIN matches[i] :
             /\ IsPrefix(sources[i].under, matches[i][j]) /\ NotStaged(matches[i][j])
             /\ matches[i][j] \in everLocal
       /\ \A d \in alwaysLocal : Selects(sources[i], d) => \E j \in DOMAIN matches[i] : matches[i][j] = d

\* expandPropertySources leaves no property source in the list, has a path for
\* every dataset selected all the time and keeps the other sources.
LEMMA ExpandPropertySources ==
    ASSUME ListInv, Searched, sources = configured, \A i \in DOMAIN origin : origin[i] = i, Reads,
           sources' = Expanded(Replaced(matches)), origin' = Origins(Replaced(matches)), pc' = AfterProperty(sources')
    PROVE  ListInv' /\ StageInv' /\ pc' \in {"claims", "k8s"}
<1>1. PICK N \in Nat : N = Len(sources) /\ DOMAIN sources = 1..N /\ \A i \in 1..N : sources[i] \in Source
  BY DEF ListInv
<1>2. PICK each : each = Replaced(matches)
  OBVIOUS
<1>3. each = [i \in 1..N |-> IF sources[i].kind = "property" THEN Paths(matches[i]) ELSE <<sources[i]>>]
  BY <1>1, <1>2 DEF Replaced
<1>4. ASSUME NEW i \in 1..N PROVE each[i] \in Seq(Source) /\ each[i] # <<>>
  <2>1. CASE sources[i].kind = "property"
    <3>1. matches[i] \in Seq(DOMAIN LogicalOf) /\ matches[i] # <<>>
      BY <1>1, <2>1 DEF Searched
    <3>2. Paths(matches[i]) \in Seq(Source) /\ DOMAIN Paths(matches[i]) = DOMAIN matches[i]
      BY <3>1, PathsFacts
    <3>3. PICK m : m = matches[i]
      OBVIOUS
    <3>4. Paths(matches[i]) # <<>>
      <4>1. m \in Seq(DOMAIN LogicalOf) /\ m # <<>>
        BY <3>1, <3>3
      <4>2. 1 \in DOMAIN m
        BY <4>1
      <4> QED
        BY <3>2, <3>3, <4>2
    <3> QED
      BY <1>3, <2>1, <3>2, <3>4
  <2>2. CASE sources[i].kind # "property"
    <3>1. each[i] = <<sources[i]>>
      BY <1>3, <2>2
    <3> QED
      BY <1>1, <3>1
  <2> QED
    BY <2>1, <2>2
<1>5. each \in Seq(Seq(Source)) /\ Len(each) = N /\ DOMAIN each = 1..N
  <2>1. PICK V : V = Seq(Source)
    OBVIOUS
  <2>2. \A i \in 1..N : each[i] \in V
    BY <1>4, <2>1
  <2>3. each \in Seq(V) /\ Len(each) = N /\ DOMAIN each = 1..N
    BY <1>3, <2>2
  <2> QED
    BY <2>1, <2>3
<1>6. origin \in Seq(DOMAIN configured) /\ Len(origin) = N /\ configured \in Seq(Source) /\ DOMAIN origin = 1..N
  BY <1>1 DEF ListInv
<1>7. PICK e : e = Expanded(each)
  OBVIOUS
<1>8. PICK o : o = Origins(each)
  OBVIOUS
<1>9. /\ e \in Seq(Source) /\ o \in Seq(DOMAIN configured) /\ Len(o) = Len(e)
      /\ \A k \in DOMAIN e : \E i \in DOMAIN each : \E j \in DOMAIN each[i] : e[k] = each[i][j] /\ o[k] = origin[i]
      /\ \A i \in DOMAIN each : \A j \in DOMAIN each[i] : \E k \in DOMAIN e : e[k] = each[i][j] /\ o[k] = origin[i]
  <2>1. PICK C : C = DOMAIN configured
    OBVIOUS
  <2>2. origin \in Seq(C) /\ Len(origin) = Len(each)
    BY <1>5, <1>6, <2>1
  <2>3. Expands(Expanded(each), Origins(each), each, Source, C)
    BY <1>5, <2>2, ExpandedFacts
  <2> QED
    BY <1>7, <1>8, <2>1, <2>3 DEF Expands
<1>10. sources' = e /\ origin' = o /\ configured' = configured /\ everLocal' = everLocal /\ alwaysLocal' = alwaysLocal
  BY <1>2, <1>7, <1>8 DEF Reads, history
<1>11. ASSUME NEW k \in DOMAIN e
       PROVE  \E i \in 1..N :
                /\ o[k] = i
                /\ \/ sources[i].kind # "property" /\ e[k] = sources[i]
                   \/ /\ sources[i].kind = "property" /\ e[k].kind = "path" /\ e[k].snap = Live
                      /\ IsPrefix(sources[i].under, e[k].ds) /\ NotStaged(e[k].ds) /\ e[k].ds \in everLocal
  <2>1. PICK i \in 1..N : \E j \in DOMAIN each[i] : e[k] = each[i][j] /\ o[k] = origin[i]
    BY <1>5, <1>9, <1>11
  <2>2. PICK j \in DOMAIN each[i] : e[k] = each[i][j] /\ o[k] = origin[i]
    BY <2>1
  <2>3. o[k] = i
    BY <1>6, <2>2
  <2>4. CASE sources[i].kind # "property"
    <3>1. each[i] = <<sources[i]>>
      BY <1>3, <2>4
    <3>2. e[k] = sources[i]
      BY <2>2, <3>1
    <3> QED
      BY <2>3, <2>4, <3>2
  <2>5. CASE sources[i].kind = "property"
    <3>1. each[i] = Paths(matches[i]) /\ matches[i] \in Seq(DOMAIN LogicalOf)
      BY <1>1, <1>3, <2>5 DEF Searched
    <3>2. PICK m : m = matches[i]
      OBVIOUS
    <3>3. j \in DOMAIN m /\ Paths(m)[j].kind = "path" /\ Paths(m)[j].ds = m[j] /\ Paths(m)[j].snap = Live
      BY <2>2, <3>1, <3>2, PathsFacts
    <3>4. IsPrefix(sources[i].under, m[j]) /\ NotStaged(m[j]) /\ m[j] \in everLocal
      BY <1>1, <2>5, <3>2, <3>3 DEF Searched
    <3>5. e[k] = Paths(m)[j]
      BY <2>2, <3>1, <3>2
    <3> QED
      BY <2>3, <2>5, <3>3, <3>4, <3>5
  <2> QED
    BY <2>4, <2>5
<1>12. ASSUME NEW i \in 1..N PROVE \E k \in DOMAIN e : o[k] = i
  <2>1. 1 \in DOMAIN each[i]
    BY <1>4
  <2>2. PICK k \in DOMAIN e : o[k] = origin[i]
    BY <1>5, <1>9, <2>1
  <2> QED
    BY <1>6, <2>2
<1>13. ASSUME NEW i \in 1..N, sources[i].kind = "property", NEW d \in alwaysLocal, Selects(sources[i], d)
       PROVE  \E k \in DOMAIN e : o[k] = i /\ e[k].kind = "path" /\ e[k].ds = d
  <2>1. PICK m : m = matches[i]
    OBVIOUS
  <2>2. m \in Seq(DOMAIN LogicalOf) /\ \E j \in DOMAIN m : m[j] = d
    BY <1>1, <1>13, <2>1 DEF Searched
  <2>3. PICK j \in DOMAIN m : m[j] = d
    BY <2>2
  <2>4. DOMAIN Paths(m) = DOMAIN m /\ Paths(m)[j].kind = "path" /\ Paths(m)[j].ds = d
    BY <2>2, <2>3, PathsFacts
  <2>5. each[i] = Paths(m)
    BY <1>3, <1>13, <2>1
  <2>6. PICK k \in DOMAIN e : e[k] = each[i][j] /\ o[k] = origin[i]
    BY <1>5, <1>9, <2>3, <2>4, <2>5
  <2> QED
    BY <1>6, <2>4, <2>5, <2>6
<1>14. DOMAIN configured = 1..N /\ DOMAIN e = 1..Len(e) /\ DOMAIN o = 1..Len(e)
  BY <1>1, <1>9
<1>15. ListInv'
  <2>1. \A k \in DOMAIN e : Derives(e[k], configured[o[k]])'
    <3> TAKE k \in DOMAIN e
    <3>1. PICK i \in 1..N :
                /\ o[k] = i
                /\ \/ sources[i].kind # "property" /\ e[k] = sources[i]
                   \/ /\ sources[i].kind = "property" /\ e[k].kind = "path" /\ e[k].snap = Live
                      /\ IsPrefix(sources[i].under, e[k].ds) /\ NotStaged(e[k].ds) /\ e[k].ds \in everLocal
      BY <1>11
    <3> QED
      BY <1>10, <3>1 DEF Derives
  <2>2. \A c \in DOMAIN configured : \E k \in DOMAIN e : o[k] = c
    BY <1>12, <1>14
  <2> QED
    BY <1>6, <1>9, <1>10, <2>1, <2>2 DEF ListInv
<1>16. pc' \in {"claims", "k8s"} /\ (pc' = "k8s" => \A k \in DOMAIN e : ~IsClaim(e[k]))
  BY <1>10 DEF AfterProperty
<1>17. \A k \in DOMAIN e : e[k].kind # "property"
  BY <1>11
<1>18. \A k \in DOMAIN e : e[k].kind = "claim" => e[k] = configured[o[k]]
  BY <1>11
<1>19. StageInv'
  <2>1. pc' = "k8s" => \A k \in DOMAIN e : e[k].kind \notin {"claim", "claimSelector"}
    BY <1>16 DEF IsClaim
  <2>2. pc' = "k8s" => \A k \in DOMAIN e : ~Unlabelled(k)'
    BY <1>10, <2>1 DEF Unlabelled
  <2>3. \A c \in DOMAIN configured : configured[c].kind = "property" =>
          \A d \in alwaysLocal : Selects(configured[c], d) =>
             \E k \in DOMAIN e : o[k] = c /\ e[k].kind = "path" /\ e[k].ds = d
    BY <1>13, <1>14
  <2> QED
    BY <1>10, <1>16, <1>17, <1>18, <2>1, <2>2, <2>3 DEF StageInv
<1> QED
  BY <1>15, <1>16, <1>19

\* The next source, or the claims when there is none.
LEMMA PropertyNextStep ==
    ASSUME EnvInv, ListInv, StageInv, MatchInv, AnswerInv, CountInv, PropertyNext
    PROVE  ListInv' /\ StageInv' /\ MatchInv' /\ AnswerInv' /\ CountInv' /\ Reads
<1>1. /\ pc \in {"property", "confirm"} /\ (pc = "confirm" => records = {})
      /\ pc = "property" => sources[at].kind # "property"
      /\ UNCHANGED <<configured, k8s, resolved, env, history, changes, errors>>
  BY DEF PropertyNext
<1>2. Reads
  BY <1>1 DEF Reads, CountInv
<1>3. PICK N \in Nat : N = Len(sources) /\ DOMAIN sources = 1..N
  BY DEF ListInv
<1>4. PICK T : T = Seq(DOMAIN LogicalOf)
  OBVIOUS
<1>5. /\ at \in 1..N /\ matches \in Seq(T) /\ Len(matches) = IF pc = "confirm" THEN at ELSE at - 1
      /\ pc = "confirm" => sources[at].kind = "property"
  BY <1>1, <1>3, <1>4 DEF MatchInv, CountInv
<1>6. DOMAIN matches = 1..Len(matches) /\ Len(matches) \in {at - 1, at} /\ \A i \in DOMAIN matches : matches[i] \in T
  BY <1>5
<1>7. CASE sources[at].kind = "property" /\ matches[at] = <<>>
  <2>1. Fails("no match") /\ UNCHANGED <<sources, origin, k8s, resolved>>
    BY <1>1, <1>7 DEF PropertyNext
  <2>2. ListInv' /\ StageInv' /\ MatchInv' /\ AnswerInv' /\ CountInv'
    BY <1>2, <2>1, FailsStep
  <2> QED
    BY <1>2, <2>2
<1>8. CASE ~(sources[at].kind = "property" /\ matches[at] = <<>>) /\ at # N
  <2>1. /\ at' = at + 1 /\ pc' = "property" /\ matches' = (IF pc = "confirm" THEN matches ELSE Append(matches, <<>>))
        /\ UNCHANGED <<sources, origin, tries, reason, records>>
    BY <1>3, <1>8 DEF PropertyNext
  <2>2. records' \subseteq forged \cup everLocal /\ at' \in 1..Len(sources) + 1
    BY <1>3, <1>5, <2>1 DEF CountInv
  <2>3. ListInv' /\ StageInv' /\ AnswerInv' /\ CountInv'
    BY <1>1, <1>2, <2>1, <2>2, SearchFrame
  <2>4. /\ matches' \in Seq(T) /\ Len(matches') = at /\ DOMAIN matches' = 1..at
        /\ \A i \in 1..at : sources[i].kind = "property" => i \in DOMAIN matches /\ matches'[i] = matches[i]
    <3>1. CASE pc = "confirm"
      BY <1>5, <1>6, <2>1, <3>1
    <3>2. CASE pc = "property"
      <4>1. <<>> \in T
        BY <1>4
      <4>2. matches' = Append(matches, <<>>) /\ Len(matches) = at - 1
        BY <1>5, <2>1, <3>2
      <4>3. /\ matches' \in Seq(T) /\ Len(matches') = (at - 1) + 1 /\ DOMAIN matches' = 1..(at - 1) + 1
            /\ \A i \in 1..at - 1 : matches'[i] = matches[i] /\ i \in DOMAIN matches
        BY <1>5, <1>6, <4>1, <4>2, AppendFacts
      <4>4. \A i \in 1..at : i = at \/ i \in 1..at - 1
        BY <1>5
      <4> QED
        BY <1>1, <1>5, <3>2, <4>3, <4>4
    <3> QED
      BY <1>1, <3>1, <3>2
  <2>5. ASSUME NEW i \in DOMAIN matches', sources[i].kind = "property"
        PROVE  /\ \A j \in DOMAIN matches'[i] :
                     /\ IsPrefix(sources[i].under, matches'[i][j]) /\ NotStaged(matches'[i][j])
                     /\ matches'[i][j] \in everLocal
               /\ matches'[i] # <<>>
               /\ \A d \in alwaysLocal : Selects(sources[i], d) => \E j \in DOMAIN matches'[i] : matches'[i][j] = d
    <3>1. i \in DOMAIN matches /\ matches'[i] = matches[i] /\ i \in 1..at
      BY <2>4, <2>5
    <3>2. matches[i] # <<>>
      <4>1. CASE i = at
        BY <1>8, <2>5, <4>1
      <4>2. CASE i # at
        <5>1. i < at
          BY <1>5, <3>1, <4>2
        <5> QED
          BY <1>1, <2>5, <3>1, <5>1 DEF MatchInv
      <4> QED
        BY <4>1, <4>2
    <3> QED
      BY <1>1, <2>5, <3>1, <3>2 DEF MatchInv
  <2>6. MatchInv'
    <3>1. everLocal' = everLocal /\ alwaysLocal' = alwaysLocal
      BY <1>1 DEF history
    <3>2. at' <= Len(sources') /\ Len(matches') = at' - 1 /\ matches' \in Seq(Seq(DOMAIN LogicalOf))
      BY <1>3, <1>4, <1>5, <1>8, <2>1, <2>4
    <3> QED
      BY <2>1, <2>5, <3>1, <3>2 DEF MatchInv
  <2> QED
    BY <1>2, <2>3, <2>6
<1>9. CASE ~(sources[at].kind = "property" /\ matches[at] = <<>>) /\ at = N
  <2>1. /\ sources' = Expanded(Replaced(matches)) /\ origin' = Origins(Replaced(matches)) /\ matches' = <<>>
        /\ Begins(AfterProperty(sources'))
    BY <1>3, <1>9 DEF PropertyNext, Replaced
  <2>2. Searched
    <3> SUFFICES ASSUME NEW i \in 1..N, sources[i].kind = "property"
                 PROVE  /\ i \in DOMAIN matches /\ matches[i] \in T /\ matches[i] # <<>>
                        /\ \A j \in DOMAIN matches[i] :
                              /\ IsPrefix(sources[i].under, matches[i][j]) /\ NotStaged(matches[i][j])
                              /\ matches[i][j] \in everLocal
                        /\ \A d \in alwaysLocal : Selects(sources[i], d) => \E j \in DOMAIN matches[i] : matches[i][j] = d
      BY <1>3, <1>4 DEF Searched
    <3>1. i \in DOMAIN matches
      <4>1. CASE pc = "confirm"
        BY <1>5, <1>6, <1>9, <4>1
      <4>2. CASE pc = "property"
        <5>1. i # at /\ Len(matches) = at - 1
          BY <1>1, <1>5, <4>2
        <5> QED
          BY <1>5, <1>6, <1>9, <5>1
      <4> QED
        BY <1>1, <4>1, <4>2
    <3>2. matches[i] # <<>>
      <4>1. CASE i = at
        BY <1>9, <4>1
      <4>2. CASE i # at
        <5>1. i < at
          BY <1>5, <1>9, <4>2
        <5> QED
          BY <1>1, <3>1, <5>1 DEF MatchInv
      <4> QED
        BY <4>1, <4>2
    <3> QED
      BY <1>1, <1>6, <3>1, <3>2 DEF MatchInv
  <2>3. pc' = AfterProperty(sources') /\ at' = 1 /\ tries' = 1 /\ records' = {} /\ reason' = reason
    BY <2>1 DEF Begins
  <2>4. sources = configured /\ \A i \in DOMAIN origin : origin[i] = i
    BY <1>1 DEF StageInv
  <2>5. ListInv' /\ StageInv' /\ pc' \in {"claims", "k8s"}
    BY <1>2, <2>1, <2>2, <2>3, <2>4, ExpandPropertySources
  <2>6. MatchInv'
    BY <2>5 DEF MatchInv
  <2>7. AnswerInv'
    <3>1. k8s' = <<>> /\ resolved' = <<>>
      BY <1>1 DEF AnswerInv
    <3>2. IsSeq(<<>>) /\ DOMAIN <<>> = {}
      BY DEF IsSeq
    <3>3. K8sAnswers' /\ DataAnswers'
      BY <3>1, <3>2 DEF K8sAnswers, DataAnswers
    <3> QED
      BY <2>5, <3>1, <3>2, <3>3 DEF AnswerInv
  <2>8. CountInv'
    <3>1. Len(sources') \in Nat /\ MaxAttempts \in Nat \ {0}
      BY <2>5, ResolveAssumption DEF ListInv
    <3>2. at' \in 1..Len(sources') + 1 /\ tries' \in 1..MaxAttempts
      BY <2>3, <3>1
    <3>3. reason' = "none"
      BY <1>1, <2>3 DEF CountInv
    <3> QED
      BY <1>1, <2>3, <2>5, <3>2, <3>3 DEF CountInv
  <2> QED
    BY <1>2, <2>5, <2>6, <2>7, <2>8
<1> QED
  BY <1>7, <1>8, <1>9

-----------------------------------------------------------------------------
(* The claims *)

\* Claims are labelled, and nothing else about a source changes.
LEMMA LabelledFacts ==
    ASSUME NEW ss \in Seq(Source), \A i \in DOMAIN ss : ss[i].kind # "claimSelector"
    PROVE  /\ Labelled(ss) \in Seq(Source) /\ Len(Labelled(ss)) = Len(ss) /\ DOMAIN Labelled(ss) = DOMAIN ss
           /\ \A i \in DOMAIN ss : Labelled(ss)[i].kind = ss[i].kind
           /\ \A i \in DOMAIN ss : ss[i].kind # "claim" => Labelled(ss)[i] = ss[i]
           /\ \A i \in DOMAIN ss : ss[i].kind = "claim" =>
                 Labelled(ss)[i].ns = ss[i].ns /\ Labelled(ss)[i].name = ss[i].name
<1>1. PICK N \in Nat : N = Len(ss) /\ DOMAIN ss = 1..N
  OBVIOUS
<1>2. PICK L : L = Labelled(ss)
  OBVIOUS
<1>3. DOMAIN L = 1..N
  BY <1>1, <1>2 DEF Labelled
<1>4. ASSUME NEW i \in 1..N
      PROVE  /\ L[i] \in Source /\ L[i].kind = ss[i].kind
             /\ ss[i].kind # "claim" => L[i] = ss[i]
             /\ ss[i].kind = "claim" => L[i].ns = ss[i].ns /\ L[i].name = ss[i].name
  <2>1. PICK s \in Source : s = ss[i]
    BY <1>1
  <2>2. L[i] = s \/ (s.kind = "claim" /\ L[i] = [s EXCEPT !.label = <<s.ns, s.name>>])
    BY <1>1, <1>2, <2>1 DEF Labelled, IsClaim
  <2>3. CASE L[i] = s
    BY <2>1, <2>3
  <2>4. CASE s.kind = "claim" /\ L[i] = [s EXCEPT !.label = <<s.ns, s.name>>]
    <3>1. s \in [kind : {"claim"}, ns : Nat, name : Nat \ {NoPVC}, label : Names]
      BY <2>1, <2>4 DEF Source
    <3>2. <<s.ns, s.name>> \in Names
      BY <3>1 DEF Names
    <3>3. L[i] \in [kind : {"claim"}, ns : Nat, name : Nat \ {NoPVC}, label : Names]
      BY <2>4, <3>1, <3>2
    <3>4. L[i].kind = s.kind /\ L[i].ns = s.ns /\ L[i].name = s.name
      BY <2>4, <3>1
    <3>5. L[i] \in Source
      BY <3>3 DEF Source
    <3> QED
      BY <2>1, <2>4, <3>4, <3>5
  <2> QED
    BY <2>2, <2>3, <2>4
<1>5. L \in Seq(Source) /\ Len(L) = N
  <2>1. PICK V : V = Source
    OBVIOUS
  <2>2. \A i \in 1..N : L[i] \in V
    BY <1>4, <2>1
  <2>3. L = [i \in 1..N |-> L[i]]
    BY <1>1, <1>2, <1>3 DEF Labelled
  <2>4. L \in Seq(V) /\ Len(L) = N
    BY <2>2, <2>3
  <2> QED
    BY <2>1, <2>4
<1> QED
  BY <1>1, <1>2, <1>3, <1>4, <1>5

\* A selector becomes the claims listed.
LEMMA ClaimsOfFacts ==
    ASSUME EnvInv, ClusterInv, NEW listed \in Listed
    PROVE  /\ ClaimsOf(listed) \in Seq(Source) /\ (Picked # {} => ClaimsOf(listed) # <<>>)
           /\ \A j \in DOMAIN ClaimsOf(listed) : ClaimsOf(listed)[j].kind = "claim" /\ ClaimsOf(listed)[j].label = <<>>
<1>1. Picked \in SUBSET claims
  BY DEF Picked
<1>2. IsFiniteSet(Picked)
  BY <1>1, FS_Subset DEF EnvInv
<1>3. PICK N \in Nat : N = Cardinality(Picked) /\ (N = 0 => Picked = {})
  BY <1>2, FS_CardinalityType, FS_EmptySet
<1>4. listed \in [1..N -> Picked]
  BY <1>3 DEF Listed
<1>5. \A j \in 1..N : listed[j].ns \in Nat /\ listed[j].name \in Nat \ {NoPVC}
  BY <1>1, <1>4 DEF ClusterInv
<1>6. <<>> \in Names
  BY DEF Names
<1>7. ASSUME NEW j \in 1..N PROVE Claim(listed[j]) \in Source /\ Claim(listed[j]).kind = "claim" /\ Claim(listed[j]).label = <<>>
  BY <1>5, <1>6 DEF Claim, Source
<1>8. PICK q : q = ClaimsOf(listed)
  OBVIOUS
<1>9. q = [j \in 1..N |-> Claim(listed[j])]
  BY <1>4, <1>8 DEF ClaimsOf
<1>10. \A j \in 1..N : q[j] \in Source /\ q[j].kind = "claim" /\ q[j].label = <<>>
  BY <1>7, <1>9
<1>11. q \in Seq(Source) /\ Len(q) = N /\ DOMAIN q = 1..N
  BY <1>9, <1>10
<1>12. Picked # {} => q # <<>>
  BY <1>3, <1>11
<1> QED
  BY <1>8, <1>10, <1>11, <1>12

\* What the claim selectors are replaced by.
Claimed(listed) ==
    [i \in DOMAIN sources |-> IF sources[i].kind = "claimSelector" THEN ClaimsOf(listed) ELSE <<sources[i]>>]

\* A source of the expanded list, and the source i it takes the place of.
Stands(s, i) ==
    \/ sources[i].kind # "claimSelector" /\ s = sources[i]
    \/ sources[i].kind = "claimSelector" /\ s.kind = "claim" /\ s.label = <<>>

\* The list with its selectors replaced, before labels are given.
LEMMA ClaimedFacts ==
    ASSUME EnvInv, ClusterInv, ListInv, NEW listed \in Listed, ~(Has("claimSelector") /\ Picked = {})
    PROVE  LET e == Expanded(Claimed(listed))  o == Origins(Claimed(listed)) IN
           /\ e \in Seq(Source) /\ o \in Seq(DOMAIN configured) /\ Len(o) = Len(e)
           /\ \A k \in DOMAIN e : \E i \in DOMAIN sources : o[k] = origin[i] /\ Stands(e[k], i)
           /\ \A i \in DOMAIN sources : \E k \in DOMAIN e : o[k] = origin[i] /\ Stands(e[k], i)
<1>1. PICK N \in Nat : N = Len(sources) /\ DOMAIN sources = 1..N /\ \A i \in 1..N : sources[i] \in Source
  <2>1. sources \in Seq(Source)
    BY DEF ListInv
  <2>2. Len(sources) \in Nat /\ DOMAIN sources = 1..Len(sources)
    BY <2>1
  <2>3. \A i \in 1..Len(sources) : sources[i] \in Source
    BY <2>1, <2>2
  <2> QED
    BY <2>2, <2>3
<1>2. PICK each : each = Claimed(listed)
  OBVIOUS
<1>3. PICK q : q = ClaimsOf(listed)
  OBVIOUS
<1>4. /\ q \in Seq(Source) /\ (Picked # {} => q # <<>>)
      /\ \A j \in DOMAIN q : q[j].kind = "claim" /\ q[j].label = <<>>
  BY <1>3, ClaimsOfFacts
<1>5. each = [i \in 1..N |-> IF sources[i].kind = "claimSelector" THEN q ELSE <<sources[i]>>]
  BY <1>1, <1>2, <1>3 DEF Claimed
<1>6. ASSUME NEW i \in 1..N
      PROVE  each[i] \in Seq(Source) /\ 1 \in DOMAIN each[i] /\ \A j \in DOMAIN each[i] : Stands(each[i][j], i)
  <2>1. CASE sources[i].kind = "claimSelector"
    <3>1. q # <<>> /\ each[i] = q
      BY <1>1, <1>4, <1>5, <2>1 DEF Has
    <3>2. 1 \in DOMAIN q
      BY <1>4, <3>1
    <3> QED
      BY <1>4, <2>1, <3>1, <3>2 DEF Stands
  <2>2. CASE sources[i].kind # "claimSelector"
    <3>1. each[i] = <<sources[i]>>
      BY <1>5, <2>2
    <3>2. each[i] \in Seq(Source) /\ DOMAIN each[i] = {1} /\ each[i][1] = sources[i]
      BY <1>1, <3>1
    <3> QED
      BY <2>2, <3>2 DEF Stands
  <2> QED
    BY <2>1, <2>2
<1>7. each \in Seq(Seq(Source)) /\ Len(each) = N /\ DOMAIN each = 1..N
  <2>1. PICK V : V = Seq(Source)
    OBVIOUS
  <2>2. \A i \in 1..N : each[i] \in V
    BY <1>6, <2>1
  <2>3. each \in Seq(V) /\ Len(each) = N /\ DOMAIN each = 1..N
    BY <1>5, <2>2
  <2> QED
    BY <2>1, <2>3
<1>8. PICK C : C = DOMAIN configured
  OBVIOUS
<1>9. origin \in Seq(C) /\ Len(origin) = Len(each)
  BY <1>1, <1>7, <1>8 DEF ListInv
<1>10. PICK e : e = Expanded(each)
  OBVIOUS
<1>11. PICK o : o = Origins(each)
  OBVIOUS
<1>12. Expands(e, o, each, Source, C)
  BY <1>7, <1>9, <1>10, <1>11, ExpandedFacts
<1>13. e \in Seq(Source) /\ o \in Seq(C) /\ Len(o) = Len(e)
  BY <1>12 DEF Expands
<1>14. ASSUME NEW k \in DOMAIN e PROVE \E i \in 1..N : o[k] = origin[i] /\ Stands(e[k], i)
  <2>1. PICK i \in 1..N : \E j \in DOMAIN each[i] : e[k] = each[i][j] /\ o[k] = origin[i]
    BY <1>7, <1>12, <1>14 DEF Expands
  <2>2. Stands(e[k], i) /\ o[k] = origin[i]
    BY <1>6, <2>1
  <2> QED
    BY <2>2
<1>15. ASSUME NEW i \in 1..N PROVE \E k \in DOMAIN e : o[k] = origin[i] /\ Stands(e[k], i)
  <2>1. 1 \in DOMAIN each[i] /\ Stands(each[i][1], i)
    BY <1>6
  <2>2. PICK k \in DOMAIN e : e[k] = each[i][1] /\ o[k] = origin[i]
    BY <1>7, <1>12, <2>1 DEF Expands
  <2> QED
    BY <2>1, <2>2
<1> QED
  BY <1>1, <1>2, <1>8, <1>10, <1>11, <1>13, <1>14, <1>15

\* expandClaimSources leaves no selector in the list, and labels that tell
\* unlabelled claims apart.
LEMMA ExpandClaimSources ==
    ASSUME EnvInv, ClusterInv, ListInv, StageInv, pc = "claims", NEW listed \in Listed, Reads,
           ~(Has("claimSelector") /\ Picked = {}),
           ~LabelsCollide(Labelled(Expanded(Claimed(listed))), Expanded(Claimed(listed))),
           sources' = Labelled(Expanded(Claimed(listed))), origin' = Origins(Claimed(listed)), pc' = "k8s"
    PROVE  ListInv' /\ StageInv'
<1>1. PICK e : e = Expanded(Claimed(listed))
  OBVIOUS
<1>2. PICK o : o = Origins(Claimed(listed))
  OBVIOUS
<1>3. /\ e \in Seq(Source) /\ o \in Seq(DOMAIN configured) /\ Len(o) = Len(e)
      /\ \A k \in DOMAIN e : \E i \in DOMAIN sources : o[k] = origin[i] /\ Stands(e[k], i)
      /\ \A i \in DOMAIN sources : \E k \in DOMAIN e : o[k] = origin[i] /\ Stands(e[k], i)
  BY <1>1, <1>2, ClaimedFacts
<1>4. PICK L : L = Labelled(e)
  OBVIOUS
<1>5. \A k \in DOMAIN e : e[k].kind # "claimSelector" /\ e[k].kind # "property"
  BY <1>3 DEF Stands, StageInv
<1>6. /\ L \in Seq(Source) /\ Len(L) = Len(e) /\ DOMAIN L = DOMAIN e
      /\ \A k \in DOMAIN e : L[k].kind = e[k].kind
      /\ \A k \in DOMAIN e : e[k].kind # "claim" => L[k] = e[k]
      /\ \A k \in DOMAIN e : e[k].kind = "claim" => L[k].ns = e[k].ns /\ L[k].name = e[k].name
  BY <1>3, <1>4, <1>5, LabelledFacts
<1>7. sources' = L /\ origin' = o /\ configured' = configured /\ everLocal' = everLocal /\ alwaysLocal' = alwaysLocal
  BY <1>1, <1>2, <1>4 DEF Reads, history
<1>8. \A i \in DOMAIN sources : sources[i].kind = "claim" => sources[i] = configured[origin[i]]
  BY DEF StageInv
<1>9. \A i \in DOMAIN sources : sources[i].kind = "claimSelector" => configured[origin[i]].kind = "claimSelector"
  BY DEF ListInv, Derives
<1>10. ListInv'
  <2>1. ASSUME NEW k \in DOMAIN e PROVE Derives(L[k], configured[o[k]])'
    <3>1. PICK i \in DOMAIN sources : o[k] = origin[i] /\ Stands(e[k], i)
      BY <1>3, <2>1
    <3>2. Derives(sources[i], configured[o[k]])
      BY <3>1 DEF ListInv
    <3>3. CASE sources[i].kind = "claimSelector"
      <4>1. configured[o[k]].kind = "claimSelector" /\ L[k].kind = "claim"
        BY <1>6, <1>9, <3>1, <3>3 DEF Stands
      <4> QED
        BY <1>7, <4>1 DEF Derives
    <3>4. CASE sources[i].kind = "claim"
      <4>1. e[k] = sources[i] /\ sources[i] = configured[o[k]]
        BY <1>8, <3>1, <3>4 DEF Stands
      <4>2. configured[o[k]].kind = "claim" /\ L[k].kind = "claim" /\ L[k].ns = configured[o[k]].ns /\ L[k].name = configured[o[k]].name
        BY <1>6, <3>4, <4>1
      <4> QED
        BY <1>7, <4>2 DEF Derives
    <3>5. CASE sources[i].kind \notin {"claim", "claimSelector"}
      <4>1. L[k] = sources[i]
        BY <1>6, <3>1, <3>5 DEF Stands
      <4> QED
        BY <1>7, <3>2, <4>1 DEF Derives
    <3> QED
      BY <3>3, <3>4, <3>5
  <2>2. \A c \in DOMAIN configured : \E k \in DOMAIN e : o[k] = c
    <3> TAKE c \in DOMAIN configured
    <3>1. PICK i \in DOMAIN sources : origin[i] = c
      BY DEF ListInv
    <3> QED
      BY <1>3, <3>1
  <2>3. configured \in Seq(Source)
    BY DEF ListInv
  <2> QED
    BY <1>3, <1>6, <1>7, <2>1, <2>2, <2>3 DEF ListInv
<1>11. ASSUME NEW c \in DOMAIN configured, configured[c].kind = "property", NEW d \in alwaysLocal, Selects(configured[c], d)
       PROVE  \E k \in DOMAIN L : o[k] = c /\ L[k].kind = "path" /\ L[k].ds = d
  <2>1. PICK i \in DOMAIN sources : origin[i] = c /\ sources[i].kind = "path" /\ sources[i].ds = d
    BY <1>11 DEF StageInv
  <2>2. PICK k \in DOMAIN e : o[k] = c /\ Stands(e[k], i)
    BY <1>3, <2>1
  <2>3. e[k] = sources[i]
    BY <2>1, <2>2 DEF Stands
  <2> QED
    BY <1>6, <2>1, <2>2, <2>3
<1>12. ASSUME NEW k \in DOMAIN L, Unlabelled(k)' PROVE e[k].kind = "claim" /\ e[k].label = <<>>
  <2>1. /\ L[k].kind = "claim" /\ k \in DOMAIN e
        /\ configured[o[k]].kind = "claimSelector" \/ (configured[o[k]].kind = "claim" /\ configured[o[k]].label = <<>>)
    BY <1>6, <1>7, <1>12 DEF Unlabelled
  <2>2. PICK i \in DOMAIN sources : o[k] = origin[i] /\ Stands(e[k], i)
    BY <1>3, <2>1
  <2>3. e[k].kind = "claim"
    BY <1>6, <2>1
  <2>4. CASE sources[i].kind = "claimSelector"
    BY <2>2, <2>3, <2>4 DEF Stands
  <2>5. CASE sources[i].kind # "claimSelector"
    <3>1. e[k] = sources[i] /\ sources[i] = configured[o[k]]
      BY <1>8, <2>2, <2>3, <2>5 DEF Stands
    <3> QED
      BY <2>1, <2>3, <3>1
  <2> QED
    BY <2>4, <2>5
<1>13. ASSUME NEW i \in DOMAIN L, NEW j \in DOMAIN L, Unlabelled(i)', Unlabelled(j)',
              ~(L[i].ns = L[j].ns /\ L[i].name = L[j].name)
       PROVE  SourceLabel(L[i]) # SourceLabel(L[j])
  <2>1. e[i].label = <<>> /\ e[j].label = <<>> /\ e[i].kind = "claim" /\ e[j].kind = "claim"
    BY <1>12, <1>13
  <2>2. IsClaim(L[i]) /\ IsClaim(L[j])
    BY <1>6, <1>13, <2>1 DEF IsClaim
  <2>3. <<L[i].ns, L[i].name>> # <<L[j].ns, L[j].name>>
    BY <1>13
  <2>4. ~LabelsCollide(L, e)
    BY <1>1, <1>4
  <2> QED
    BY <1>13, <2>1, <2>2, <2>3, <2>4 DEF LabelsCollide
<1>14. StageInv'
  <2>1. \A k \in DOMAIN L : L[k].kind \notin {"property", "claimSelector"}
    BY <1>5, <1>6
  <2> QED
    BY <1>7, <1>11, <1>13, <2>1 DEF StageInv
<1> QED
  BY <1>10, <1>14

\* The claims are expanded, or there are none, or their labels collide.
LEMMA ClaimsExpandStep ==
    ASSUME EnvInv, ClusterInv, ListInv, StageInv, MatchInv, AnswerInv, CountInv, ClaimsExpand
    PROVE  ListInv' /\ StageInv' /\ MatchInv' /\ AnswerInv' /\ CountInv' /\ Reads
<1>1. PICK listed \in Listed :
        LET each == Claimed(listed)  plain == Expanded(each) IN
        /\ pc = "claims"
        /\ IF Has("claimSelector") /\ Picked = {} THEN Fails("no match") /\ UNCHANGED <<sources, origin>>
           ELSE IF LabelsCollide(Labelled(plain), plain) THEN Fails("labels") /\ UNCHANGED <<sources, origin>>
           ELSE sources' = Labelled(plain) /\ origin' = Origins(each) /\ Begins("k8s")
        /\ UNCHANGED <<configured, matches, k8s, resolved, env, history, changes, errors>>
  BY DEF ClaimsExpand, Claimed
<1>2. Reads
  BY <1>1 DEF Reads, CountInv
<1>3. ASSUME NEW why \in {"no match", "labels"}, Fails(why), UNCHANGED <<sources, origin>>
      PROVE  ListInv' /\ StageInv' /\ MatchInv' /\ AnswerInv' /\ CountInv'
  BY <1>1, <1>2, <1>3, FailsStep
<1>4. ASSUME ~(Has("claimSelector") /\ Picked = {}),
             ~LabelsCollide(Labelled(Expanded(Claimed(listed))), Expanded(Claimed(listed))),
             sources' = Labelled(Expanded(Claimed(listed))), origin' = Origins(Claimed(listed)), Begins("k8s")
      PROVE  ListInv' /\ StageInv' /\ MatchInv' /\ AnswerInv' /\ CountInv'
  <2>1. pc' = "k8s" /\ at' = 1 /\ tries' = 1 /\ records' = {} /\ reason' = reason
    BY <1>4 DEF Begins
  <2>2. ListInv' /\ StageInv'
    BY <1>1, <1>2, <1>4, <2>1, ExpandClaimSources
  <2>3. MatchInv'
    BY <2>1 DEF MatchInv
  <2>4. AnswerInv'
    <3>1. k8s' = <<>> /\ resolved' = <<>>
      BY <1>1 DEF AnswerInv
    <3>2. IsSeq(<<>>) /\ DOMAIN <<>> = {}
      BY DEF IsSeq
    <3>3. K8sAnswers' /\ DataAnswers'
      BY <3>1, <3>2 DEF K8sAnswers, DataAnswers
    <3> QED
      BY <2>1, <3>1, <3>2, <3>3 DEF AnswerInv
  <2>5. CountInv'
    <3>1. Len(sources') \in Nat /\ MaxAttempts \in Nat \ {0}
      BY <2>2, ResolveAssumption DEF ListInv
    <3>2. at' \in 1..Len(sources') + 1 /\ tries' \in 1..MaxAttempts
      BY <2>1, <3>1
    <3>3. reason' = "none"
      BY <1>1, <2>1 DEF CountInv
    <3> QED
      BY <1>1, <2>1, <3>2, <3>3 DEF CountInv
  <2> QED
    BY <2>2, <2>3, <2>4, <2>5
<1> QED
  BY <1>1, <1>2, <1>3, <1>4

-----------------------------------------------------------------------------
(* ResolveK8sSources *)

Errors == {"none", "claim", "unsupported", "snapshot", "no claim", "too long", "members"}

\* ResolveClaim answers a claim.
LEMMA ClaimAnswers ==
    ASSUME EnvInv, ClusterInv, NEW s, s.kind = "claim"
    PROVE  /\ ResolveClaim(s).error \in Errors
           /\ ResolveClaim(s).error = "none" => Answers(s, ResolveClaim(s).snaps)
<1>1. PICK C : C = {c \in claims : <<c.ns, c.name>> = <<s.ns, s.name>>}
  OBVIOUS
<1>2. PICK f : f = [c \in C |-> [ds |-> c.ds, snap |-> Live, ns |-> c.ns, pvc |-> c.name, vs |-> 0]]
  OBVIOUS
<1>3. PICK S : S = {f[c] : c \in C}
  OBVIOUS
<1>4. S = {[ds |-> c.ds, snap |-> Live, ns |-> c.ns, pvc |-> c.name, vs |-> 0] : c \in C}
  BY <1>2, <1>3
<1>5. C \in SUBSET claims
  BY <1>1
<1>6. IsFiniteSet(C)
  BY <1>5, FS_Subset DEF EnvInv
<1>7. IsFiniteSet(S)
  BY <1>2, <1>3, <1>6, ImageFinite
<1>8. \A x \in S : IsMember(x) /\ x.ns = s.ns /\ x.pvc = s.name
  BY <1>1, <1>4 DEF IsMember
<1>9. ResolveClaim(s).error \in {"none", "claim", "unsupported"}
      /\ (ResolveClaim(s).error = "none" => C # {} /\ ResolveClaim(s).snaps = S)
  BY <1>1, <1>4 DEF ResolveClaim, Error, Found
<1>10. C # {} => Answers(s, S)
  BY <1>3, <1>7, <1>8 DEF Answers
<1> QED
  BY <1>9, <1>10 DEF Errors

\* Resolve and ResolveGroup answer a snapshot and a group; a group by newest
\* snapshot leaves out no claim that had a ready one.
LEMMA GroupAnswers ==
    ASSUME EnvInv, ClusterInv, NEW s, s.kind \in {"snapshot", "group"}
    PROVE  /\ ResolveGroup(s).error \in Errors
           /\ ResolveGroup(s).error = "none" =>
                 /\ ResolveGroup(s).snaps # {} /\ IsFiniteSet(ResolveGroup(s).snaps)
                 /\ \A x \in ResolveGroup(s).snaps : IsMember(x) /\ x.vs # 0
                 /\ s.kind = "snapshot" => \A x \in ResolveGroup(s).snaps : x.ns = s.ns /\ x.vs = s.name
                 /\ s.kind = "group" /\ s.newest => NoneLeftOut(ResolveGroup(s).snaps)
<1>1. PICK all : all = IF s.kind = "group" THEN vsnaps ELSE {v \in vsnaps : <<v.ns, v.name>> = <<s.ns, s.name>>}
  OBVIOUS
<1>2. PICK picked : picked = IF s.kind = "group" /\ s.newest THEN NewestPerPVC(all) ELSE all
  OBVIOUS
<1>3. PICK f : f = [v \in picked |-> Snapshot(v)]
  OBVIOUS
<1>4. PICK S : S = {f[v] : v \in picked}
  OBVIOUS
<1>5. S = {Snapshot(v) : v \in picked}
  BY <1>3, <1>4
<1>6. all \in SUBSET vsnaps
  BY <1>1
<1>7. picked \in SUBSET vsnaps
  BY <1>2, <1>6 DEF NewestPerPVC
<1>8. IsFiniteSet(picked)
  BY <1>7, FS_Subset DEF EnvInv
<1>9. IsFiniteSet(S)
  BY <1>3, <1>4, <1>8, ImageFinite
<1>10. \A v : IsMember(Snapshot(v)) /\ Snapshot(v).vs = v.name /\ Snapshot(v).ns = v.ns /\ Snapshot(v).pvc = v.pvc
  BY DEF IsMember, Snapshot
<1>11. \A x \in S : IsMember(x) /\ x.vs # 0
  <2>1. \A v \in picked : v.name # 0
    BY <1>7 DEF ClusterInv
  <2> QED
    BY <1>5, <1>10, <2>1
<1>12. s.kind = "snapshot" => \A x \in S : x.ns = s.ns /\ x.vs = s.name
  <2>1. s.kind = "snapshot" => \A v \in picked : v.ns = s.ns /\ v.name = s.name
    BY <1>1, <1>2
  <2> QED
    BY <1>5, <1>10, <2>1
<1>13. ASSUME s.kind = "group", s.newest PROVE NoneLeftOut(S)
  <2> SUFFICES ASSUME NEW v \in alwaysReady
               PROVE  \E x \in S :
                         /\ x.ns = v.ns /\ x.pvc = v.pvc
                         /\ \E w \in EveryVolumeSnapshot : w.ns = x.ns /\ w.name = x.vs /\ w.time >= v.time
    BY DEF NoneLeftOut
  <2>1. picked = NewestPerPVC(vsnaps)
    BY <1>1, <1>2, <1>13
  <2>2. v \in vsnaps /\ v.ready /\ IsFiniteSet(vsnaps)
    BY DEF EnvInv
  <2>3. \A w \in vsnaps : w.name \in Nat /\ w.time \in Nat
    BY DEF ClusterInv
  <2>4. PICK u \in picked : u.ns = v.ns /\ u.pvc = v.pvc /\ u.time >= v.time
    BY <2>1, <2>2, <2>3, NewestExists
  <2>5. PICK w \in EveryVolumeSnapshot : w.ns = u.ns /\ w.name = u.name /\ w.time = u.time
    BY <1>7, <2>4 DEF ClusterInv
  <2>6. Snapshot(u) \in S /\ Snapshot(u).ns = v.ns /\ Snapshot(u).pvc = v.pvc /\ Snapshot(u).vs = u.name /\ Snapshot(u).ns = u.ns
    BY <1>5, <1>10, <2>4
  <2> QED
    BY <2>4, <2>5, <2>6
<1>14. ResolveGroup(s).error \in {"none", "snapshot", "no claim"}
       /\ (ResolveGroup(s).error = "none" => picked # {} /\ ResolveGroup(s).snaps = S)
  <2>1. ResolveGroup(s) =
          IF picked = {} \/ \E v \in picked : ~v.ready THEN Error("snapshot", FALSE)
          ELSE IF (s.kind = "group" /\ s.newest) /\ \E v \in all : v.pvc = NoPVC THEN Error("no claim", FALSE)
          ELSE Found(S)
    BY <1>1, <1>2, <1>5 DEF ResolveGroup
  <2>2. Error("snapshot", FALSE).error = "snapshot" /\ Error("no claim", FALSE).error = "no claim"
        /\ Found(S).error = "none" /\ Found(S).snaps = S
    BY DEF Error, Found
  <2> QED
    BY <2>1, <2>2
<1>15. picked # {} => S # {}
  BY <1>5
<1> QED
  BY <1>9, <1>11, <1>12, <1>13, <1>14, <1>15 DEF Errors

\* resolveK8sSource answers its source, with names that fit and differ.
LEMMA K8sAnswer ==
    ASSUME EnvInv, ClusterInv, NEW i \in DOMAIN sources, IsK8s(sources[i]), sources[i].kind # "claimSelector"
    PROVE  /\ ResolveK8sSource(i).error \in Errors
           /\ ResolveK8sSource(i).error = "none" => Answers(sources[i], ResolveK8sSource(i).snaps)
<1>1. PICK s : s = sources[i]
  OBVIOUS
<1>2. PICK r : r = IF IsClaim(s) THEN ResolveClaim(s) ELSE ResolveGroup(s)
  OBVIOUS
<1>3. PICK k : k = ResolveK8sSource(i)
  OBVIOUS
<1>4. k = IF r.error # "none" \/ s.kind # "group" THEN r
          ELSE IF \E m \in r.snaps : MemberName(m) \in TooLong THEN Error("too long", TRUE)
          ELSE IF MembersCollide(r.snaps) THEN Error("members", TRUE)
          ELSE r
  BY <1>1, <1>2, <1>3 DEF ResolveK8sSource
<1>5. CASE s.kind = "claim"
  <2>1. k = r /\ r = ResolveClaim(s)
    BY <1>2, <1>4, <1>5 DEF IsClaim
  <2> QED
    BY <1>1, <1>3, <1>5, <2>1, ClaimAnswers
<1>6. CASE s.kind = "snapshot"
  <2>1. k = r /\ r = ResolveGroup(s)
    BY <1>2, <1>4, <1>6 DEF IsClaim
  <2>2. /\ r.error \in Errors
        /\ r.error = "none" =>
              /\ r.snaps # {} /\ IsFiniteSet(r.snaps)
              /\ \A x \in r.snaps : IsMember(x)
              /\ \A x \in r.snaps : x.ns = s.ns /\ x.vs = s.name
    BY <1>6, <2>1, GroupAnswers
  <2>3. r.error = "none" => Answers(s, r.snaps)
    BY <1>6, <2>2 DEF Answers
  <2> QED
    BY <1>1, <1>3, <2>1, <2>2, <2>3
<1>7. CASE s.kind = "group"
  <2>1. r = ResolveGroup(s)
    BY <1>2, <1>7 DEF IsClaim
  <2>2. /\ r.error \in Errors
        /\ r.error = "none" =>
              /\ r.snaps # {} /\ IsFiniteSet(r.snaps)
              /\ \A x \in r.snaps : IsMember(x) /\ x.vs # 0
              /\ s.newest => NoneLeftOut(r.snaps)
    BY <1>7, <2>1, GroupAnswers
  <2>3. Error("too long", TRUE).error = "too long" /\ Error("members", TRUE).error = "members"
    BY DEF Error
  <2>4. k.error \in Errors
    BY <1>4, <2>2, <2>3 DEF Errors
  <2>5. ASSUME k.error = "none"
        PROVE  /\ k = r /\ r.error = "none" /\ \A x \in r.snaps : MemberName(x) \notin TooLong
               /\ \A x, y \in r.snaps : MemberName(x) = MemberName(y) => x = y
    BY <1>4, <1>7, <2>3, <2>5 DEF MembersCollide
  <2>6. k.error = "none" => Answers(s, k.snaps)
    BY <1>7, <2>2, <2>5 DEF Answers
  <2> QED
    BY <1>1, <1>3, <2>4, <2>6
<1> QED
  BY <1>1, <1>5, <1>6, <1>7 DEF IsK8s, IsClaim

\* A sequence is one of its own elements.
LEMMA SeqIsSeq ==
    ASSUME NEW T, NEW q \in Seq(T)
    PROVE  IsSeq(q)
<1>1. PICK N \in Nat : N = Len(q) /\ DOMAIN q = 1..N
  OBVIOUS
<1>2. PICK R : R = Range(q)
  OBVIOUS
<1>3. \A i \in 1..N : q[i] \in R
  BY <1>1, <1>2 DEF Range
<1>4. q = [i \in 1..N |-> q[i]]
  BY <1>1
<1>5. q \in Seq(R)
  BY <1>3, <1>4
<1> QED
  BY <1>2, <1>5 DEF IsSeq

\* Append keeps that.
LEMMA AppendSeq ==
    ASSUME NEW q, IsSeq(q), NEW e
    PROVE  /\ IsSeq(Append(q, e)) /\ Len(Append(q, e)) = Len(q) + 1 /\ Len(q) \in Nat
           /\ DOMAIN Append(q, e) = 1..Len(q) + 1 /\ DOMAIN q = 1..Len(q)
           /\ Append(q, e)[Len(q) + 1] = e /\ \A i \in 1..Len(q) : Append(q, e)[i] = q[i]
<1>1. PICK R : R = Range(q) /\ q \in Seq(R)
  BY DEF IsSeq
<1>2. PICK T : T = R \cup {e}
  OBVIOUS
<1>3. q \in Seq(T) /\ e \in T
  <2>1. PICK N \in Nat : N = Len(q) /\ DOMAIN q = 1..N
    BY <1>1
  <2>2. q = [i \in 1..N |-> q[i]] /\ \A i \in 1..N : q[i] \in T
    BY <1>1, <1>2, <2>1
  <2> QED
    BY <1>2, <2>2
<1>4. Append(q, e) \in Seq(T)
  BY <1>3, AppendFacts
<1>5. IsSeq(Append(q, e))
  BY <1>4, SeqIsSeq
<1> QED
  BY <1>3, <1>5, AppendFacts

\* One source of ResolveK8sSources.
LEMMA K8sSourceStep ==
    ASSUME EnvInv, ClusterInv, ListInv, StageInv, MatchInv, AnswerInv, CountInv, K8sSource
    PROVE  ListInv' /\ StageInv' /\ MatchInv' /\ AnswerInv' /\ CountInv' /\ Reads
<1>1. PICK r : r = ResolveK8sSource(at)
  OBVIOUS
<1>2. pc = "k8s" /\ at <= Len(sources) /\ UNCHANGED <<configured, env, history, changes, errors>>
  BY DEF K8sSource
<1>3. Reads
  BY <1>2 DEF Reads, CountInv
<1>4. at \in DOMAIN sources /\ at + 1 \in 1..Len(sources) + 1 /\ sources[at].kind # "claimSelector"
  <2>1. at \in DOMAIN sources /\ at + 1 \in 1..Len(sources) + 1
    <3>1. PICK N \in Nat : N = Len(sources) /\ DOMAIN sources = 1..N
      BY DEF ListInv
    <3>2. at \in 1..N + 1
      BY <3>1 DEF CountInv
    <3> QED
      BY <1>2, <3>1, <3>2
  <2> QED
    BY <1>2, <2>1 DEF StageInv
<1>5. CASE IsK8s(sources[at]) /\ r.error # "none"
  <2>1. r.error \notin {"none", "payload"}
    BY <1>1, <1>4, <1>5, K8sAnswer DEF Errors
  <2>2. CASE Fails(r.error) /\ UNCHANGED <<sources, origin, matches, k8s, resolved>>
    BY <1>3, <2>1, <2>2, FailsStep
  <2>3. CASE AttemptFails(r.error)
    BY <1>2, <1>3, <2>1, <2>3, AttemptFailsStep
  <2> QED
    BY <1>1, <1>5, <2>2, <2>3 DEF K8sSource
<1>6. CASE /\ k8s' = k8s \/ (k8s' = Append(k8s, Archive(at, r.snaps, 0)) /\ Answers(sources[at], r.snaps))
           /\ at' = at + 1 /\ UNCHANGED <<pc, sources, origin, matches, resolved, tries, reason, records>>
  <2>1. ListInv' /\ StageInv'
    BY <1>3, <1>6, ListSame, StageSame
  <2>2. MatchInv'
    BY <1>2, <1>6 DEF MatchInv
  <2>3. CountInv'
    BY <1>2, <1>4, <1>6 DEF CountInv, env, history
  <2>4. DataAnswers'
    BY <1>3, <1>6, DataAge DEF AnswerInv, Reads, history
  <2>5. K8sAnswers' /\ IsSeq(k8s)'
    <3>1. CASE k8s' = k8s
      BY <1>3, <1>6, <3>1, K8sAge DEF AnswerInv, Reads, history
    <3>2. CASE k8s' = Append(k8s, Archive(at, r.snaps, 0)) /\ Answers(sources[at], r.snaps)
      <4>1. PICK a : a = Archive(at, r.snaps, 0)
        OBVIOUS
      <4>2. a.index = at /\ a.snaps = r.snaps
        BY <4>1 DEF Archive
      <4>3. IsSeq(k8s)
        BY DEF AnswerInv
      <4>4. /\ IsSeq(k8s)' /\ Len(k8s) \in Nat
            /\ DOMAIN k8s' = 1..Len(k8s) + 1 /\ DOMAIN k8s = 1..Len(k8s)
            /\ k8s'[Len(k8s) + 1] = a /\ \A i \in 1..Len(k8s) : k8s'[i] = k8s[i]
        BY <3>2, <4>1, <4>3, AppendSeq
      <4>5. alwaysSnaps' = alwaysSnaps /\ alwaysReady' = alwaysReady /\ sources' = sources
        BY <1>2, <1>6 DEF history
      <4>6. ASSUME NEW i \in DOMAIN k8s' PROVE k8s'[i].index \in DOMAIN sources /\ Answers(sources[k8s'[i].index], k8s'[i].snaps)
        <5>1. CASE i = Len(k8s) + 1
          BY <1>4, <3>2, <4>2, <4>4, <5>1
        <5>2. CASE i # Len(k8s) + 1
          <6>1. i \in DOMAIN k8s /\ k8s'[i] = k8s[i]
            BY <4>4, <4>6, <5>2
          <6> QED
            BY <6>1 DEF AnswerInv, K8sAnswers
        <5> QED
          BY <5>1, <5>2
      <4>7. ASSUME NEW i \in DOMAIN k8s' PROVE Answers(sources[k8s[i].index], k8s[i].snaps)'
        <5>1. PICK s : s = sources[k8s'[i].index]
          OBVIOUS
        <5>2. PICK found : found = k8s'[i].snaps
          OBVIOUS
        <5>3. Answers(s, found)
          BY <4>6, <4>7, <5>1, <5>2
        <5>4. Answers(s, found)'
          BY <4>5, <5>3, AnswersAge
        <5> QED
          BY <4>5, <5>1, <5>2, <5>4
      <4> QED
        BY <4>4, <4>5, <4>6, <4>7 DEF K8sAnswers
    <3> QED
      BY <1>6, <3>1, <3>2
  <2>6. AnswerInv'
    BY <1>2, <1>6, <2>4, <2>5 DEF AnswerInv
  <2> QED
    BY <1>3, <2>1, <2>2, <2>3, <2>6
<1>7. CASE ~IsK8s(sources[at])
  <2>1. at' = at + 1 /\ k8s' = k8s /\ UNCHANGED <<pc, sources, origin, matches, resolved, tries, reason, records>>
    BY <1>7 DEF K8sSource
  <2> QED
    BY <1>6, <2>1
<1>8. CASE IsK8s(sources[at]) /\ r.error = "none"
  <2>1. /\ k8s' = Append(k8s, Archive(at, r.snaps, 0)) /\ at' = at + 1
        /\ UNCHANGED <<pc, sources, origin, matches, resolved, tries, reason, records>>
    BY <1>1, <1>8 DEF K8sSource
  <2>2. Answers(sources[at], r.snaps)
    BY <1>1, <1>4, <1>8, K8sAnswer
  <2> QED
    BY <1>6, <2>1, <2>2
<1> QED
  BY <1>5, <1>7, <1>8

\* The data worker starts with an empty work list.
LEMMA K8sDoneStep ==
    ASSUME ListInv, StageInv, MatchInv, AnswerInv, CountInv, K8sDone
    PROVE  ListInv' /\ StageInv' /\ MatchInv' /\ AnswerInv' /\ CountInv' /\ Reads
<1>1. /\ pc = "k8s" /\ pc' = "data" /\ at' = 1 /\ tries' = 1 /\ records' = {} /\ reason' = reason
      /\ UNCHANGED <<configured, sources, origin, matches, k8s, resolved, env, history, changes, errors>>
  BY DEF K8sDone, Begins
<1>2. Reads
  BY <1>1 DEF Reads, CountInv
<1>3. ListInv' /\ StageInv'
  BY <1>1, <1>2, ListSame, StageSame
<1>4. MatchInv'
  BY <1>1 DEF MatchInv
<1>5. AnswerInv'
  <2>1. K8sAnswers' /\ DataAnswers'
    BY <1>1, <1>2, K8sAge, DataAge DEF AnswerInv, Reads, history
  <2>2. resolved' = <<>> /\ Len(<<>>) = 0
    BY <1>1 DEF AnswerInv
  <2> QED
    BY <1>1, <2>1, <2>2 DEF AnswerInv
<1>6. CountInv'
  <2>1. Len(sources) \in Nat /\ MaxAttempts \in Nat \ {0}
    BY ResolveAssumption DEF ListInv
  <2>2. at' \in 1..Len(sources') + 1 /\ tries' \in 1..MaxAttempts
    BY <1>1, <2>1
  <2> QED
    BY <1>1, <2>2 DEF CountInv, env, history
<1> QED
  BY <1>2, <1>3, <1>4, <1>5, <1>6

-----------------------------------------------------------------------------
(* ResolveAndCheck *)

\* What the data worker makes of a source answers it, and can be sized.
LEMMA DataAnswer ==
    ASSUME EnvInv, ListInv, AnswerInv, NEW i \in DOMAIN sources, sources[i].kind \notin {"property", "claimSelector"},
           DataSnaps(i) # {}
    PROVE  Answers(sources[i], DataSnaps(i)) /\ Estimate(DataSnaps(i)) \in Nat
<1>1. PICK s : s = sources[i]
  OBVIOUS
<1>2. PICK S : S = DataSnaps(i)
  OBVIOUS
<1>3. s \in Source /\ s.kind \in {"path", "newest", "claim", "snapshot", "group"}
  <2>1. s \in Source
    BY <1>1 DEF ListInv
  <2> QED
    BY <1>1, <2>1 DEF Source
<1>4. CASE IsK8s(s)
  <2>1. PICK mine : mine = {a \in Range(k8s) : a.index = i}
    OBVIOUS
  <2>2. PICK a : a = CHOOSE b \in mine : TRUE
    OBVIOUS
  <2>3. S = IF mine # {} /\ \A b \in mine : \A x \in b.snaps : Exists(x) /\ x.ds \in Managed THEN a.snaps ELSE {}
    BY <1>1, <1>2, <1>4, <2>1, <2>2 DEF DataSnaps
  <2>4. mine # {} /\ S = a.snaps /\ \A b \in mine : \A x \in b.snaps : Exists(x)
    BY <1>2, <2>3
  <2>5. a \in mine
    BY <2>2, <2>4
  <2>6. PICK n \in DOMAIN k8s : a = k8s[n]
    BY <2>1, <2>5 DEF Range
  <2>7. a.index = i
    BY <2>1, <2>5
  <2>8. Answers(s, S)
    BY <1>1, <2>4, <2>6, <2>7 DEF AnswerInv, K8sAnswers
  <2>9. \A x \in S : x.ds \in DOMAIN LogicalOf
    BY <2>4, <2>5 DEF Exists
  <2>10. Estimate(S) \in Nat
    BY <2>8, <2>9, EstimateNat DEF Answers
  <2> QED
    BY <1>1, <1>2, <2>8, <2>10
<1>5. CASE s.kind = "path"
  <2>1. S = {x \in {Raw(s.ds, s.snap)} : Exists(x)}
    BY <1>1, <1>2, <1>5 DEF DataSnaps, IsK8s, IsClaim
  <2>2. PICK x : x = Raw(s.ds, s.snap)
    OBVIOUS
  <2>3. IsMember(x) /\ x.ds = s.ds /\ x.snap = s.snap
    BY <2>2 DEF Raw, IsMember
  <2>4. S = {x} /\ Exists(x)
    BY <1>2, <2>1, <2>2
  <2>5. IsFiniteSet(S)
    BY <2>4, FS_Singleton
  <2>6. Answers(s, S)
    BY <1>5, <2>3, <2>4, <2>5 DEF Answers
  <2>7. \A y \in S : y.ds \in DOMAIN LogicalOf
    BY <2>4 DEF Exists
  <2>8. Estimate(S) \in Nat
    BY <2>5, <2>7, EstimateNat
  <2> QED
    BY <1>1, <1>2, <2>6, <2>8
<1>6. CASE s.kind = "newest"
  <2>1. S = {Raw(s.ds, x.name) : x \in Newest(s)}
    BY <1>1, <1>2, <1>6 DEF DataSnaps, IsK8s, IsClaim
  <2>2. Newest(s) \in SUBSET snaps /\ Candidates(s) \in SUBSET snaps
    BY DEF Newest, Candidates
  <2>3. IsFiniteSet(Newest(s))
    BY <2>2, FS_Subset DEF EnvInv
  <2>4. PICK f : f = [x \in Newest(s) |-> Raw(s.ds, x.name)]
    OBVIOUS
  <2>5. S = {f[x] : x \in Newest(s)}
    BY <2>1, <2>4
  <2>6. IsFiniteSet(S)
    BY <2>3, <2>4, <2>5, ImageFinite
  <2>7. ASSUME NEW y \in S PROVE IsMember(y) /\ IsNewest(y, s) /\ y.ds \in DOMAIN LogicalOf
    <3>1. PICK x \in Newest(s) : y = Raw(s.ds, x.name)
      BY <2>1
    <3>2. IsMember(y) /\ y.ds = s.ds /\ y.snap = x.name
      BY <3>1 DEF Raw, IsMember
    <3>3. x \in EverySnapshot /\ x.ds = s.ds /\ IsPrefix(s.prefix, x.name)
      BY <2>2, <3>1 DEF EnvInv, Newest, Candidates
    <3>4. x.ds \in DOMAIN LogicalOf /\ x.name \notin {Live, RunSnapshot}
      BY <3>3, CasesAssumption
    <3>5. ASSUME NEW z \in alwaysSnaps, z.ds = s.ds, IsPrefix(s.prefix, z.name) PROVE ~LaterThan(z, x)
      <4>1. z \in Candidates(s)
        BY <3>5 DEF EnvInv, Candidates
      <4> QED
        BY <3>1, <4>1 DEF Newest
    <3>6. IsNewest(y, s)
      BY <3>2, <3>3, <3>4, <3>5 DEF IsNewest
    <3> QED
      BY <3>2, <3>3, <3>4, <3>6
  <2>8. Answers(s, S)
    BY <1>2, <1>6, <2>6, <2>7 DEF Answers
  <2>9. Estimate(S) \in Nat
    BY <2>6, <2>7, EstimateNat
  <2> QED
    BY <1>1, <1>2, <2>8, <2>9
<1> QED
  BY <1>3, <1>4, <1>5, <1>6 DEF IsK8s, IsClaim

\* One source of ResolveAndCheck.
LEMMA DataSourceStep ==
    ASSUME EnvInv, ListInv, StageInv, MatchInv, AnswerInv, CountInv, DataSource
    PROVE  ListInv' /\ StageInv' /\ MatchInv' /\ AnswerInv' /\ CountInv' /\ Reads
<1>1. PICK found : found = DataSnaps(at)
  OBVIOUS
<1>2. PICK size : size = Estimate(found)
  OBVIOUS
<1>3. pc = "data" /\ at <= Len(sources) /\ UNCHANGED <<configured, env, history, changes, errors>>
  BY DEF DataSource
<1>4. Reads
  BY <1>3 DEF Reads, CountInv
<1>5. at \in DOMAIN sources /\ at + 1 \in 1..Len(sources) + 1 /\ sources[at].kind \notin {"property", "claimSelector"}
  <2>1. PICK N \in Nat : N = Len(sources) /\ DOMAIN sources = 1..N
    BY DEF ListInv
  <2>2. at \in 1..N + 1
    BY <2>1 DEF CountInv
  <2>3. at \in DOMAIN sources /\ at + 1 \in 1..Len(sources) + 1
    BY <1>3, <2>1, <2>2
  <2> QED
    BY <1>3, <2>3 DEF StageInv
<1>6. CASE found = {}
  <2>1. AttemptFails("missing")
    BY <1>1, <1>6 DEF DataSource
  <2> QED
    BY <1>3, <1>4, <2>1, AttemptFailsStep
<1>7. CASE found # {} /\ size > Capacity
  <2>1. Fails("infeasible") /\ UNCHANGED <<sources, origin, matches, k8s, resolved>>
    BY <1>1, <1>2, <1>7 DEF DataSource
  <2> QED
    BY <1>4, <2>1, FailsStep
<1>8. CASE found # {} /\ ~(size > Capacity)
  <2>1. PICK a : a = Archive(at, found, size)
    OBVIOUS
  <2>2. /\ resolved' = Append(resolved, a) /\ at' = at + 1
        /\ UNCHANGED <<pc, sources, origin, matches, k8s, tries, reason, records>>
    BY <1>1, <1>2, <1>8, <2>1 DEF DataSource
  <2>3. Answers(sources[at], found) /\ size \in Nat
    BY <1>1, <1>2, <1>5, <1>8, DataAnswer
  <2>4. ListInv' /\ StageInv'
    BY <1>4, <2>2, ListSame, StageSame
  <2>5. MatchInv'
    BY <1>3, <2>2 DEF MatchInv
  <2>6. CountInv'
    BY <1>3, <1>5, <2>2 DEF CountInv, env, history
  <2>7. K8sAnswers'
    BY <1>4, <2>2, K8sAge DEF AnswerInv, Reads, history
  <2>8. IsSeq(resolved) /\ Len(resolved) = at - 1 /\ at \in Nat
    BY <1>3 DEF AnswerInv, CountInv
  <2>9. /\ IsSeq(resolved)' /\ Len(resolved') = at /\ DOMAIN resolved' = 1..at /\ DOMAIN resolved = 1..at - 1
        /\ resolved'[at] = a /\ \A i \in 1..at - 1 : resolved'[i] = resolved[i]
    BY <2>2, <2>8, AppendSeq
  <2>10. /\ a.size = size /\ a.snaps = found
         /\ a = [index |-> at, label |-> SourceLabel(sources[at]), snaps |-> a.snaps, size |-> a.size]
    BY <2>1 DEF Archive
  <2>11. ASSUME NEW i \in DOMAIN resolved'
         PROVE  /\ i \in DOMAIN sources /\ resolved'[i].size \in Nat
                /\ resolved'[i] = [index |-> i, label |-> SourceLabel(sources[i]), snaps |-> resolved'[i].snaps,
                                   size |-> resolved'[i].size]
                /\ Answers(sources[i], resolved'[i].snaps)
    <3>1. CASE i = at
      BY <1>5, <2>3, <2>9, <2>10, <3>1
    <3>2. CASE i # at
      <4>1. i \in DOMAIN resolved /\ resolved'[i] = resolved[i]
        BY <2>8, <2>9, <2>11, <3>2
      <4> QED
        BY <4>1 DEF AnswerInv, DataAnswers
    <3> QED
      BY <3>1, <3>2
  <2>12. alwaysSnaps' = alwaysSnaps /\ alwaysReady' = alwaysReady /\ sources' = sources
    BY <1>3, <2>2 DEF history
  <2>13. ASSUME NEW i \in DOMAIN resolved' PROVE Answers(sources[i], resolved[i].snaps)'
    <3>1. PICK s : s = sources[i]
      OBVIOUS
    <3>2. PICK f : f = resolved'[i].snaps
      OBVIOUS
    <3>3. Answers(s, f)
      BY <2>11, <2>13, <3>1, <3>2
    <3>4. Answers(s, f)'
      BY <2>12, <3>3, AnswersAge
    <3> QED
      BY <2>12, <3>1, <3>2, <3>4
  <2>14. DataAnswers'
    BY <2>11, <2>12, <2>13 DEF DataAnswers
  <2>15. AnswerInv'
    <3>1. Len(resolved') = at' - 1
      BY <2>2, <2>8, <2>9
    <3> QED
      BY <1>3, <2>2, <2>7, <2>9, <2>14, <3>1 DEF AnswerInv
  <2> QED
    BY <1>4, <2>4, <2>5, <2>6, <2>15
<1> QED
  BY <1>6, <1>7, <1>8

\* A live dataset is frozen in the run's own snapshot; nothing else of a member
\* changes.
LEMMA FrozenFacts ==
    ASSUME NEW x, IsMember(x)
    PROVE  /\ IsMember(Frozen(x)) /\ Frozen(x).snap # Live /\ (x.snap # Live => Frozen(x) = x)
           /\ Frozen(x).ds = x.ds /\ Frozen(x).ns = x.ns /\ Frozen(x).pvc = x.pvc /\ Frozen(x).vs = x.vs
           /\ MemberName(Frozen(x)) = MemberName(x)
<1>1. PICK y : y = Frozen(x)
  OBVIOUS
<1>2. PICK n : n = IF x.snap = Live THEN RunSnapshot ELSE x.snap
  OBVIOUS
<1>3. RunSnapshot # Live
  <2>1. Len(RunSnapshot) = 1 /\ Len(Live) = 0
    BY DEF RunSnapshot, Live
  <2> QED
    BY <2>1
<1>4. y = [x EXCEPT !.snap = n]
  BY <1>1, <1>2 DEF Frozen
<1>5. DOMAIN x = {"ds", "snap", "ns", "pvc", "vs"}
  BY DEF IsMember
<1>6. y.ds = x.ds /\ y.ns = x.ns /\ y.pvc = x.pvc /\ y.vs = x.vs /\ y.snap = n /\ DOMAIN y = DOMAIN x
  BY <1>4, <1>5
<1>7. y = [ds |-> y.ds, snap |-> y.snap, ns |-> y.ns, pvc |-> y.pvc, vs |-> y.vs]
  BY <1>4, <1>5
<1>8. x.snap # Live => y = x
  BY <1>2, <1>6, <1>7 DEF IsMember
<1>9. MemberName(y) = MemberName(x)
  BY <1>6 DEF MemberName
<1> QED
  BY <1>1, <1>2, <1>3, <1>6, <1>7, <1>8, <1>9 DEF IsMember

\* Frozen members answer a source as the live ones did.
LEMMA FrozenAnswers ==
    ASSUME NEW s, NEW found, Answers(s, found)
    PROVE  LET F == {Frozen(x) : x \in found} IN Answers(s, F) /\ \A x \in F : x.snap # Live
<1>1. PICK f : f = [x \in found |-> Frozen(x)]
  OBVIOUS
<1>2. PICK F : F = {Frozen(x) : x \in found}
  OBVIOUS
<1>3. F = {f[x] : x \in found}
  BY <1>1, <1>2
<1>4. found # {} /\ IsFiniteSet(found) /\ \A x \in found : IsMember(x)
  BY DEF Answers
<1>5. IsFiniteSet(F)
  BY <1>1, <1>3, <1>4, ImageFinite
<1>6. ASSUME NEW y \in F
      PROVE  \E x \in found :
                /\ y = Frozen(x) /\ IsMember(y) /\ y.snap # Live /\ (x.snap # Live => y = x)
                /\ y.ds = x.ds /\ y.ns = x.ns /\ y.pvc = x.pvc /\ y.vs = x.vs /\ MemberName(y) = MemberName(x)
  <2>1. PICK x \in found : y = Frozen(x)
    BY <1>2
  <2> QED
    BY <1>4, <2>1, FrozenFacts
<1>7. s.kind = "path" => \A y \in F : y.ds = s.ds /\ (s.snap = Live \/ y.snap = s.snap)
  <2>1. s.kind = "path" => \A x \in found : x.ds = s.ds /\ (s.snap = Live \/ x.snap = s.snap)
    BY DEF Answers
  <2> QED
    BY <1>6, <2>1
<1>8. s.kind = "newest" => \A y \in F : IsNewest(y, s)
  <2>1. s.kind = "newest" => \A x \in found : IsNewest(x, s) /\ x.snap # Live
    BY DEF Answers, IsNewest
  <2> QED
    BY <1>6, <2>1
<1>9. s.kind = "claim" => \A y \in F : y.ns = s.ns /\ y.pvc = s.name
  BY <1>6 DEF Answers
<1>10. s.kind = "snapshot" => \A y \in F : y.ns = s.ns /\ y.vs = s.name
  BY <1>6 DEF Answers
<1>11. s.kind = "group" =>
         /\ \A y \in F : y.vs # 0 /\ MemberName(y) \notin TooLong
         /\ \A y, z \in F : MemberName(y) = MemberName(z) => y = z
  <2>1. s.kind = "group" =>
         /\ \A x \in found : x.vs # 0 /\ MemberName(x) \notin TooLong
         /\ \A x, y \in found : MemberName(x) = MemberName(y) => x = y
    BY DEF Answers
  <2> QED
    BY <1>6, <2>1
<1>12. ASSUME NoneLeftOut(found) PROVE NoneLeftOut(F)
  <2> SUFFICES ASSUME NEW v \in alwaysReady
               PROVE  \E y \in F :
                         /\ y.ns = v.ns /\ y.pvc = v.pvc
                         /\ \E w \in EveryVolumeSnapshot : w.ns = y.ns /\ w.name = y.vs /\ w.time >= v.time
    BY DEF NoneLeftOut
  <2>1. PICK x \in found : /\ x.ns = v.ns /\ x.pvc = v.pvc
                           /\ \E w \in EveryVolumeSnapshot : w.ns = x.ns /\ w.name = x.vs /\ w.time >= v.time
    BY <1>12 DEF NoneLeftOut
  <2>2. PICK y : y = Frozen(x)
    OBVIOUS
  <2>3. y \in F
    BY <1>2, <2>2
  <2>4. y.ns = x.ns /\ y.pvc = x.pvc /\ y.vs = x.vs
    BY <1>4, <2>2, FrozenFacts
  <2> QED
    BY <2>1, <2>3, <2>4
<1>13. s.kind = "group" /\ s.newest => NoneLeftOut(F)
  BY <1>12 DEF Answers
<1>14. F # {} /\ \A y \in F : IsMember(y) /\ y.snap # Live
  BY <1>2, <1>4, <1>6
<1>15. Answers(s, F)
  BY <1>5, <1>7, <1>8, <1>9, <1>10, <1>11, <1>13, <1>14 DEF Answers
<1> QED
  BY <1>2, <1>14, <1>15

\* The sizes of the archives, in the order of the list.
LEMMA SizesFacts ==
    ASSUME AnswerInv
    PROVE  /\ Sizes(resolved) \in Seq(Nat) /\ Len(Sizes(resolved)) = Len(resolved)
           /\ DOMAIN Sizes(resolved) = DOMAIN resolved /\ \A i \in DOMAIN resolved : Sizes(resolved)[i] = resolved[i].size
<1>1. PICK N \in Nat : N = Len(resolved) /\ DOMAIN resolved = 1..N
  BY DEF AnswerInv, IsSeq
<1>2. PICK q : q = Sizes(resolved)
  OBVIOUS
<1>3. q = [i \in 1..N |-> resolved[i].size]
  BY <1>1, <1>2 DEF Sizes
<1>4. \A i \in 1..N : resolved[i].size \in Nat
  BY <1>1 DEF AnswerInv, DataAnswers
<1>5. q \in Seq(Nat) /\ Len(q) = N /\ DOMAIN q = 1..N
  BY <1>3, <1>4
<1> QED
  BY <1>1, <1>2, <1>3, <1>5

\* The work list is done, or the bound on a payload is exceeded, which takes more
\* archives than the headroom.
LEMMA DataDoneStep ==
    ASSUME EnvInv, ListInv, StageInv, MatchInv, AnswerInv, CountInv, DataDone
    PROVE  ListInv' /\ StageInv' /\ MatchInv' /\ AnswerInv' /\ CountInv' /\ Reads
<1>1. pc = "data" /\ at > Len(sources) /\ UNCHANGED <<configured, env, history, changes, errors>>
  BY DEF DataDone
<1>2. Reads
  BY <1>1 DEF Reads, CountInv
<1>3. PICK N \in Nat : N = Len(sources) /\ DOMAIN sources = 1..N
  BY DEF ListInv
<1>4. Len(resolved) = N /\ DOMAIN resolved = 1..N
  <2>1. at \in 1..N + 1 /\ Len(resolved) = at - 1 /\ IsSeq(resolved)
    BY <1>1, <1>3 DEF CountInv, AnswerInv
  <2> QED
    BY <1>1, <1>3, <2>1 DEF IsSeq
<1>5. CASE ~PayloadFits(Sizes(resolved))
  <2>1. AttemptFails("payload")
    BY <1>5 DEF DataDone
  <2>2. Len(sources) > SliceBudget - RunTarget
    <3>1. PICK z \in Seq(Nat) : z = Sizes(resolved) /\ Len(z) = N
      BY <1>4, SizesFacts
    <3> QED
      BY <1>3, <1>5, <3>1, SlicesFacts
  <2> QED
    BY <1>1, <1>2, <2>1, <2>2, AttemptFailsStep
<1>6. CASE PayloadFits(Sizes(resolved))
  <2>1. /\ pc' = "done" /\ resolved' = Planned(resolved)
        /\ UNCHANGED <<sources, origin, at, records, matches, k8s, tries, reason>>
    BY <1>6 DEF DataDone
  <2>2. ListInv' /\ StageInv'
    BY <1>1, <1>2, <2>1, ListSame, StageSame
  <2>3. MatchInv'
    BY <2>1 DEF MatchInv
  <2>4. CountInv'
    BY <1>1, <2>1 DEF CountInv, env, history
  <2>5. K8sAnswers'
    BY <1>2, <2>1, K8sAge DEF AnswerInv, Reads, history
  <2>6. resolved' = [i \in 1..N |-> [resolved[i] EXCEPT !.snaps = {Frozen(x) : x \in resolved[i].snaps}]]
    BY <1>4, <2>1 DEF Planned
  <2>7. /\ IsSeq(resolved)' /\ Len(resolved') = N /\ DOMAIN resolved' = 1..N
    <3>1. PICK q : q = resolved'
      OBVIOUS
    <3>2. PICK T : T = {resolved'[i] : i \in 1..N}
      OBVIOUS
    <3>3. q = [i \in 1..N |-> q[i]] /\ \A i \in 1..N : q[i] \in T
      BY <2>6, <3>1, <3>2
    <3>4. q \in Seq(T) /\ Len(q) = N /\ DOMAIN q = 1..N
      BY <3>3
    <3>5. IsSeq(q)
      BY <3>4, SeqIsSeq
    <3> QED
      BY <3>1, <3>4, <3>5 DEF IsSeq, Range
  <2>8. ASSUME NEW i \in 1..N
        PROVE  /\ i \in DOMAIN sources /\ resolved'[i].size \in Nat
               /\ resolved'[i] = [index |-> i, label |-> SourceLabel(sources[i]), snaps |-> resolved'[i].snaps,
                                  size |-> resolved'[i].size]
               /\ Answers(sources[i], resolved'[i].snaps)
               /\ \A x \in resolved'[i].snaps : x.snap # Live
    <3>1. PICK a : a = resolved[i]
      OBVIOUS
    <3>2. PICK F : F = {Frozen(x) : x \in a.snaps}
      OBVIOUS
    <3>3. PICK b : b = resolved'[i]
      OBVIOUS
    <3>4. b = [a EXCEPT !.snaps = F]
      BY <2>6, <2>8, <3>1, <3>2, <3>3
    <3>5. /\ a.size \in Nat /\ Answers(sources[i], a.snaps)
          /\ a = [index |-> i, label |-> SourceLabel(sources[i]), snaps |-> a.snaps, size |-> a.size]
      BY <1>4, <2>8, <3>1 DEF AnswerInv, DataAnswers
    <3>6. PICK l : l = SourceLabel(sources[i])
      OBVIOUS
    <3>7. b.snaps = F /\ b.size = a.size /\ b = [index |-> i, label |-> l, snaps |-> b.snaps, size |-> b.size]
      BY <3>4, <3>5, <3>6
    <3>8. Answers(sources[i], F) /\ \A x \in F : x.snap # Live
      BY <3>2, <3>5, FrozenAnswers
    <3> QED
      BY <1>3, <3>3, <3>5, <3>6, <3>7, <3>8
  <2>9. alwaysSnaps' = alwaysSnaps /\ alwaysReady' = alwaysReady /\ sources' = sources
    BY <1>1, <2>1 DEF history
  <2>10. ASSUME NEW i \in 1..N PROVE Answers(sources[i], resolved[i].snaps)'
    <3>1. PICK s : s = sources[i]
      OBVIOUS
    <3>2. PICK found : found = resolved'[i].snaps
      OBVIOUS
    <3>3. Answers(s, found)
      BY <2>8, <3>1, <3>2
    <3>4. Answers(s, found)'
      BY <2>9, <3>3, AnswersAge
    <3> QED
      BY <2>9, <3>1, <3>2, <3>4
  <2>11. DataAnswers'
    BY <2>7, <2>8, <2>9, <2>10 DEF DataAnswers
  <2>12. \A i \in DOMAIN resolved' : \A x \in resolved'[i].snaps : x.snap # Live
    BY <2>7, <2>8
  <2>13. AnswerInv'
    BY <1>3, <2>1, <2>5, <2>7, <2>11, <2>12 DEF AnswerInv
  <2> QED
    BY <1>2, <2>2, <2>3, <2>4, <2>13
<1> QED
  BY <1>5, <1>6

-----------------------------------------------------------------------------
(* The invariant *)

\* A command that fails ends the attempt.
LEMMA CommandFailsStep ==
    ASSUME ListInv, StageInv, MatchInv, AnswerInv, CountInv, CommandFails
    PROVE  ListInv' /\ StageInv' /\ MatchInv' /\ AnswerInv' /\ CountInv' /\ Reads
<1>1. /\ pc \notin {"done", "failed"} /\ errors < MaxErrors /\ errors' = errors + 1 /\ AttemptFails("command")
      /\ UNCHANGED <<configured, env, history, changes>>
  BY DEF CommandFails
<1>2. errors' \in 0..MaxErrors
  BY <1>1, ResolveAssumption DEF CountInv
<1>3. Reads
  BY <1>1, <1>2 DEF Reads
<1> QED
  BY <1>1, <1>3, AttemptFailsStep

\* A step that changes nothing keeps the invariant.
LEMMA ResolveStutter ==
    ASSUME ResolveInv, UNCHANGED resolveVars
    PROVE  ResolveInv'
<1>1. UNCHANGED <<work, env, history, changes, errors>>
  BY DEF resolveVars
<1>2. Ages
  BY <1>1 DEF Ages, env, history
<1>3. ListInv' /\ StageInv' /\ MatchInv' /\ AnswerInv'
  BY <1>2, AgesStep DEF ResolveInv
<1>4. EnvInv' /\ ClusterInv'
  BY <1>1 DEF ResolveInv, EnvInv, ClusterInv, env, history
<1>5. CountInv'
  BY <1>1 DEF ResolveInv, CountInv, work, env, history
<1> QED
  BY <1>3, <1>4, <1>5 DEF ResolveInv

\* The phase starts in the invariant.
LEMMA ResolveInitInv ==
    ASSUME ResolveInit
    PROVE  ResolveInv
<1>1. PICK c \in Cases :
        /\ configured = c.sources /\ sources = c.sources /\ origin = [i \in DOMAIN c.sources |-> i]
        /\ local = c.pool.local /\ forged = c.pool.forged /\ snaps = c.pool.snaps
        /\ claims = c.cluster.claims /\ vsnaps = c.cluster.vsnaps
  BY DEF ResolveInit
<1>2. /\ at = 1 /\ records = {} /\ matches = <<>> /\ k8s = <<>> /\ resolved = <<>>
      /\ tries = 1 /\ reason = "none" /\ changes = 0 /\ errors = 0
      /\ everLocal = local /\ alwaysLocal = local /\ alwaysSnaps = snaps
      /\ alwaysReady = {v \in vsnaps : v.ready}
  BY DEF ResolveInit
<1>3. PICK N \in Nat : sources \in Seq(Source) /\ N = Len(sources) /\ DOMAIN sources = 1..N
  BY <1>1, CasesAssumption
<1>4. configured = sources /\ origin = [i \in 1..N |-> i]
  BY <1>1, <1>3
<1>5. \/ pc = "property" /\ \E i \in 1..N : sources[i].kind = "property"
      \/ pc = "claims" /\ \A i \in 1..N : sources[i].kind # "property"
      \/ pc = "k8s" /\ \A i \in 1..N : sources[i].kind # "property" /\ ~IsClaim(sources[i])
  <2>1. pc = IF Has("property") THEN "property" ELSE AfterProperty(sources)
    BY DEF ResolveInit
  <2> QED
    BY <1>3, <2>1 DEF Has, AfterProperty
<1>6. EnvInv
  <2>1. snaps \subseteq EverySnapshot
    BY <1>1 DEF EverySnapshot
  <2>2. IsFiniteSet(snaps) /\ IsFiniteSet(claims) /\ IsFiniteSet(vsnaps)
    BY <1>1, CasesAssumption
  <2> QED
    BY <1>2, <2>1, <2>2 DEF EnvInv
<1>7. ClusterInv
  <2>1. claims \subseteq EveryClaim /\ vsnaps \subseteq EveryVolumeSnapshot
    BY <1>1 DEF EveryClaim, EveryVolumeSnapshot
  <2> QED
    BY <2>1, CasesAssumption DEF ClusterInv
<1>8. ListInv
  <2>1. PICK V : V = DOMAIN configured
    OBVIOUS
  <2>2. origin \in Seq(V) /\ Len(origin) = N
    BY <1>3, <1>4, <2>1
  <2> QED
    BY <1>3, <1>4, <2>1, <2>2 DEF ListInv, Derives
<1>9. StageInv
  <2>1. pc = "k8s" => \A i \in DOMAIN sources : sources[i].kind \notin {"claim", "claimSelector"}
    BY <1>3, <1>5 DEF IsClaim
  <2> QED
    BY <1>3, <1>4, <1>5, <2>1 DEF StageInv, Unlabelled
<1>10. MatchInv
  <2>1. pc \in {"property", "confirm"} => pc = "property" /\ 1 <= Len(sources)
    BY <1>3, <1>5
  <2>2. <<>> \in Seq(Seq(DOMAIN LogicalOf)) /\ Len(<<>>) = 0 /\ DOMAIN <<>> = {}
    OBVIOUS
  <2> QED
    BY <1>2, <2>1, <2>2 DEF MatchInv
<1>11. AnswerInv
  <2>1. IsSeq(<<>>) /\ DOMAIN <<>> = {}
    BY DEF IsSeq
  <2> QED
    BY <1>2, <1>5, <2>1 DEF AnswerInv, K8sAnswers, DataAnswers
<1>12. CountInv
  <2>1. at \in 1..Len(sources) + 1 /\ tries \in 1..MaxAttempts /\ changes \in 0..MaxChanges /\ errors \in 0..MaxErrors
    BY <1>2, <1>3, ResolveAssumption
  <2> QED
    BY <1>2, <1>5, <2>1 DEF CountInv
<1> QED
  BY <1>6, <1>7, <1>8, <1>9, <1>10, <1>11, <1>12 DEF ResolveInv

\* Every step of the workflow, the pool and the cluster keeps it.
LEMMA ResolveStep ==
    ASSUME ResolveInv, [ResolveNext]_resolveVars
    PROVE  ResolveInv'
<1>1. EnvInv /\ ClusterInv /\ ListInv /\ StageInv /\ MatchInv /\ AnswerInv /\ CountInv
  BY DEF ResolveInv
<1>2. CASE Reads /\ ListInv' /\ StageInv' /\ MatchInv' /\ AnswerInv' /\ CountInv'
  BY <1>1, <1>2, ReadsEnv DEF ResolveInv
<1>3. CASE ListRecords
  BY <1>1, <1>2, <1>3, ListRecordsStep
<1>4. CASE Confirm
  BY <1>1, <1>2, <1>4, ConfirmStep
<1>5. CASE PropertyNext
  BY <1>1, <1>2, <1>5, PropertyNextStep
<1>6. CASE ClaimsExpand
  BY <1>1, <1>2, <1>6, ClaimsExpandStep
<1>7. CASE K8sSource
  BY <1>1, <1>2, <1>7, K8sSourceStep
<1>8. CASE K8sDone
  BY <1>1, <1>2, <1>8, K8sDoneStep
<1>9. CASE DataSource
  BY <1>1, <1>2, <1>9, DataSourceStep
<1>10. CASE DataDone
  BY <1>1, <1>2, <1>10, DataDoneStep
<1>11. CASE CommandFails
  BY <1>1, <1>2, <1>11, CommandFailsStep
<1>12. CASE Changes
  <2>1. Ages
    BY <1>1, <1>12, ChangesAge
  <2> QED
    BY <1>1, <1>12, <2>1, AgesStep, ChangesCount, ChangesEnv DEF ResolveInv
<1>13. CASE UNCHANGED resolveVars
  BY <1>13, ResolveStutter
<1> QED
  BY <1>3, <1>4, <1>5, <1>6, <1>7, <1>8, <1>9, <1>10, <1>11, <1>12, <1>13 DEF ResolveNext, Works, Changes, Stops

-----------------------------------------------------------------------------
(* What the invariant shows of a work list *)

\* An archive of a work list, with the source it is of and the configured source
\* that one was made from.
Traces(i, s, o) ==
    /\ i \in DOMAIN sources /\ resolved[i].index = i /\ resolved[i].label = SourceLabel(s)
    /\ s = sources[i] /\ o = configured[origin[i]] /\ origin[i] \in DOMAIN configured
    /\ Answers(s, resolved[i].snaps)
    /\ s \in Source /\ o \in Source
    /\ \/ s = o /\ o.kind \in {"path", "newest", "claim", "snapshot", "group"}
       \/ /\ o.kind = "property" /\ s.kind = "path" /\ s.snap = Live
          /\ IsPrefix(o.under, s.ds) /\ NotStaged(s.ds) /\ s.ds \in everLocal
       \/ o.kind = "claimSelector" /\ s.kind = "claim"
       \/ o.kind = "claim" /\ s.kind = "claim" /\ s.ns = o.ns /\ s.name = o.name

\* Every archive can be traced to its configured source.
LEMMA DoneTraces ==
    ASSUME ResolveInv, pc = "done", NEW i \in DOMAIN resolved
    PROVE  \E s, o : Traces(i, s, o)
<1>1. PICK s : s = sources[i]
  OBVIOUS
<1>2. PICK o : o = configured[origin[i]]
  OBVIOUS
<1>3. ListInv /\ StageInv /\ AnswerInv
  BY DEF ResolveInv
<1>4. PICK a : a = resolved[i]
  OBVIOUS
<1>5. /\ i \in DOMAIN sources /\ Answers(s, a.snaps)
      /\ a = [index |-> i, label |-> SourceLabel(s), snaps |-> a.snaps, size |-> a.size]
  BY <1>1, <1>3, <1>4 DEF AnswerInv, DataAnswers
<1>6. a.index = i /\ a.label = SourceLabel(s)
  BY <1>5
<1>7. s \in Source /\ origin[i] \in DOMAIN configured /\ o \in Source /\ Derives(s, o)
  <2>1. i \in DOMAIN origin
    BY <1>3, <1>5 DEF ListInv
  <2>2. origin[i] \in DOMAIN configured
    BY <1>3, <2>1 DEF ListInv
  <2> QED
    BY <1>1, <1>2, <1>3, <1>5, <2>2 DEF ListInv
<1>8. s.kind \notin {"property", "claimSelector"}
  BY <1>1, <1>3, <1>5 DEF StageInv
<1>9. s = o => o.kind \in {"path", "newest", "claim", "snapshot", "group"}
  BY <1>7, <1>8 DEF Source
<1>10. Traces(i, s, o)
  BY <1>1, <1>2, <1>4, <1>5, <1>6, <1>7, <1>9 DEF Traces, Derives
<1> QED
  BY <1>10

\* What an archive holds is what that source asked for.
LEMMA DoneAsConfigured ==
    ASSUME NEW i, NEW s, NEW o, Traces(i, s, o)
    PROVE  AsConfigured(resolved[i], o)
<1>1. PICK found : found = resolved[i].snaps
  OBVIOUS
<1>2. Answers(s, found) /\ s \in Source /\ o \in Source
  BY <1>1 DEF Traces
<1>3. CASE o.kind = "path"
  <2>1. s = o
    BY <1>3 DEF Traces
  <2> QED
    BY <1>1, <1>2, <1>3, <2>1 DEF Answers, AsConfigured
<1>4. CASE o.kind = "newest"
  <2>1. s = o
    BY <1>4 DEF Traces
  <2> QED
    BY <1>1, <1>2, <1>4, <2>1 DEF Answers, IsNewest, AsConfigured
<1>5. CASE o.kind = "property"
  <2>1. s.kind = "path" /\ IsPrefix(o.under, s.ds)
    BY <1>5 DEF Traces
  <2>2. \A x \in found : x.ds = s.ds
    BY <1>2, <2>1 DEF Answers
  <2> QED
    BY <1>1, <1>5, <2>1, <2>2 DEF AsConfigured
<1>6. CASE o.kind = "claim"
  <2>1. s.kind = "claim" /\ s.ns = o.ns /\ s.name = o.name
    BY <1>6 DEF Traces
  <2>2. \A x \in found : x.ns = o.ns /\ x.pvc = o.name
    BY <1>2, <2>1 DEF Answers
  <2> QED
    BY <1>1, <1>6, <2>2 DEF AsConfigured
<1>7. CASE o.kind = "claimSelector"
  <2>1. s.kind = "claim"
    BY <1>7 DEF Traces
  <2>2. s.name # NoPVC
    BY <1>2, <2>1 DEF Source
  <2>3. \A x \in found : x.pvc = s.name
    BY <1>2, <2>1 DEF Answers
  <2> QED
    BY <1>1, <1>7, <2>2, <2>3 DEF AsConfigured
<1>8. CASE o.kind = "snapshot"
  <2>1. s = o
    BY <1>8 DEF Traces
  <2>2. \A x \in found : x.ns = o.ns /\ x.vs = o.name
    BY <1>2, <1>8, <2>1 DEF Answers
  <2> QED
    BY <1>1, <1>8, <2>2 DEF AsConfigured
<1>9. CASE o.kind = "group"
  <2>1. s = o
    BY <1>9 DEF Traces
  <2>2. \A x \in found : x.vs # 0
    BY <1>2, <1>9, <2>1 DEF Answers
  <2> QED
    BY <1>1, <1>9, <2>2 DEF AsConfigured
<1>10. o.kind \in {"path", "newest", "property", "claim", "claimSelector", "snapshot", "group"}
  BY DEF Traces
<1> QED
  BY <1>3, <1>4, <1>5, <1>6, <1>7, <1>8, <1>9, <1>10

\* The snapshot of an archive by newest is the only one of its name.
LEMMA DoneNewest ==
    ASSUME NEW s, NEW x, IsNewest(x, s)
    PROVE  LET this == CHOOSE y \in EverySnapshot : y.ds = x.ds /\ y.name = x.snap
           IN  ~\E y \in alwaysSnaps : y.ds = s.ds /\ IsPrefix(s.prefix, y.name) /\ LaterThan(y, this)
<1>1. PICK z \in EverySnapshot :
        /\ z.ds = x.ds /\ z.name = x.snap
        /\ \A y \in alwaysSnaps : y.ds = s.ds /\ IsPrefix(s.prefix, y.name) => ~LaterThan(y, z)
  BY DEF IsNewest
<1>2. PICK t : t = CHOOSE y \in EverySnapshot : y.ds = x.ds /\ y.name = x.snap
  OBVIOUS
<1>3. t \in EverySnapshot /\ t.ds = x.ds /\ t.name = x.snap
  BY <1>1, <1>2
<1>4. t = z
  BY <1>1, <1>3, CasesAssumption
<1> QED
  BY <1>1, <1>2, <1>4

\* The invariant implies what WorkListSound says.
LEMMA ResolveSound ==
    ASSUME ResolveInv
    PROVE  WorkListSound
<1>1. EnvInv /\ ListInv /\ StageInv /\ AnswerInv /\ CountInv
  BY DEF ResolveInv
<1>2. PICK N \in Nat : N = Len(sources) /\ N = Len(origin) /\ DOMAIN sources = 1..N /\ DOMAIN origin = 1..N
  BY <1>1 DEF ListInv
<1>3. \A i \in 1..N : origin[i] \in DOMAIN configured
  BY <1>1, <1>2 DEF ListInv
<1>4. pc = "done" => Len(resolved) = N /\ DOMAIN resolved = 1..N
  <2>1. IsSeq(resolved) /\ (pc = "done" => Len(resolved) = N)
    BY <1>1, <1>2 DEF AnswerInv
  <2> QED
    BY <2>1 DEF IsSeq
<1>5. ResolveTypeOK
  <2>1. Range(origin) \subseteq DOMAIN configured
    BY <1>2, <1>3 DEF Range
  <2>2. \A a \in Range(k8s) : a.index \in DOMAIN sources /\ a.snaps # {}
    BY <1>1 DEF AnswerInv, K8sAnswers, Answers, Range
  <2>3. \A a \in Range(resolved) : a.index \in DOMAIN sources /\ a.snaps # {}
    <3>1. ASSUME NEW i \in DOMAIN resolved PROVE resolved[i].index \in DOMAIN sources /\ resolved[i].snaps # {}
      <4>1. PICK a : a = resolved[i]
        OBVIOUS
      <4>2. PICK l : l = SourceLabel(sources[i])
        OBVIOUS
      <4>3. i \in DOMAIN sources /\ a.snaps # {} /\ a = [index |-> i, label |-> l, snaps |-> a.snaps, size |-> a.size]
        BY <1>1, <4>1, <4>2 DEF AnswerInv, DataAnswers, Answers
      <4>4. a.index = i
        BY <4>3
      <4> QED
        BY <4>1, <4>3, <4>4
    <3> QED
      BY <3>1 DEF Range
  <2> QED
    BY <1>1, <1>2, <2>1, <2>2, <2>3 DEF ResolveTypeOK, CountInv
<1>6. NoLiveReads
  BY <1>1 DEF NoLiveReads, AnswerInv
<1>7. WorkListFaithful
  <2> SUFFICES ASSUME pc = "done"
               PROVE  /\ Range(origin) = DOMAIN configured /\ Len(resolved) = Len(sources)
                      /\ \A i \in DOMAIN resolved :
                            resolved[i].index = i /\ AsConfigured(resolved[i], configured[origin[i]])
    BY DEF WorkListFaithful
  <2>1. Range(origin) = DOMAIN configured
    BY <1>1, <1>2, <1>3 DEF Range, ListInv
  <2>2. ASSUME NEW i \in DOMAIN resolved PROVE resolved[i].index = i /\ AsConfigured(resolved[i], configured[origin[i]])
    <3>1. PICK s, o : Traces(i, s, o)
      BY DoneTraces
    <3>2. AsConfigured(resolved[i], o)
      BY <3>1, DoneAsConfigured
    <3> QED
      BY <3>1, <3>2 DEF Traces
  <2> QED
    BY <1>2, <1>4, <2>1, <2>2
<1>8. OnlySelected
  <2> SUFFICES ASSUME pc = "done", NEW i \in DOMAIN resolved, configured[origin[i]].kind = "property",
                      NEW x \in resolved[i].snaps
               PROVE  x.ds \in everLocal /\ ~IsPrefix(Staging, x.ds)
    BY DEF OnlySelected, ByProperty
  <2>1. PICK s, o : Traces(i, s, o)
    BY DoneTraces
  <2>2. s.kind = "path" /\ NotStaged(s.ds) /\ s.ds \in everLocal /\ Answers(s, resolved[i].snaps)
    BY <2>1 DEF Traces
  <2>3. x.ds = s.ds
    BY <2>2 DEF Answers
  <2> QED
    BY <2>2, <2>3 DEF NotStaged
<1>9. AllSelected
  <2> SUFFICES ASSUME pc = "done", NEW c \in DOMAIN configured, configured[c].kind = "property",
                      NEW d \in alwaysLocal, IsPrefix(configured[c].under, d), ~IsPrefix(Staging, d)
               PROVE  \E i \in ByProperty : origin[i] = c /\ \E x \in resolved[i].snaps : x.ds = d
    BY DEF AllSelected
  <2>1. PICK i \in DOMAIN sources : origin[i] = c /\ sources[i].kind = "path" /\ sources[i].ds = d
    BY <1>1 DEF StageInv, Selects, NotStaged
  <2>2. i \in DOMAIN resolved
    BY <1>2, <1>4
  <2>3. Answers(sources[i], resolved[i].snaps)
    BY <1>1, <2>2 DEF AnswerInv, DataAnswers
  <2>4. PICK x \in resolved[i].snaps : x.ds = d
    BY <2>1, <2>3 DEF Answers
  <2> QED
    BY <2>1, <2>2, <2>4 DEF ByProperty
<1>10. NewestChosen
  <2> SUFFICES ASSUME pc = "done", NEW i \in DOMAIN resolved, configured[origin[i]].kind = "newest",
                      NEW x \in resolved[i].snaps
               PROVE  LET s == configured[origin[i]]
                          this == CHOOSE y \in EverySnapshot : y.ds = x.ds /\ y.name = x.snap
                      IN  ~\E y \in alwaysSnaps : y.ds = s.ds /\ IsPrefix(s.prefix, y.name) /\ LaterThan(y, this)
    BY DEF NewestChosen
  <2>1. PICK s, o : Traces(i, s, o)
    BY DoneTraces
  <2>2. s = configured[origin[i]] /\ Answers(s, resolved[i].snaps) /\ s.kind = "newest"
    BY <2>1 DEF Traces
  <2>3. IsNewest(x, s)
    BY <2>2 DEF Answers
  <2> QED
    BY <2>2, <2>3, DoneNewest
<1>11. NewestPerClaim
  <2> SUFFICES ASSUME pc = "done", NEW i \in DOMAIN resolved, configured[origin[i]].kind = "group",
                      configured[origin[i]].newest, NEW v \in alwaysReady
               PROVE  \E x \in resolved[i].snaps :
                         /\ <<x.ns, x.pvc>> = <<v.ns, v.pvc>>
                         /\ \E w \in EveryVolumeSnapshot : <<w.ns, w.name>> = <<x.ns, x.vs>> /\ w.time >= v.time
    BY DEF NewestPerClaim
  <2>1. PICK s, o : Traces(i, s, o)
    BY DoneTraces
  <2>2. s = configured[origin[i]] /\ Answers(s, resolved[i].snaps)
    BY <2>1 DEF Traces
  <2>3. NoneLeftOut(resolved[i].snaps)
    BY <2>2 DEF Answers
  <2> QED
    BY <2>3 DEF NoneLeftOut
<1> QED
  BY <1>5, <1>6, <1>7, <1>8, <1>9, <1>10, <1>11 DEF WorkListSound

\* And what ToldApart says.
LEMMA ResolveToldApart ==
    ASSUME ResolveInv
    PROVE  ToldApart
<1>1. StageInv
  BY DEF ResolveInv
<1>2. LabelsTellApart
  <2>1. ASSUME pc = "done", NEW i \in DOMAIN resolved,
               configured[origin[i]].kind = "claimSelector"
               \/ (configured[origin[i]].kind = "claim" /\ configured[origin[i]].label = <<>>)
        PROVE  /\ i \in DOMAIN sources /\ Unlabelled(i) /\ resolved[i].label = SourceLabel(sources[i])
               /\ {<<x.ns, x.pvc>> : x \in resolved[i].snaps} = {<<sources[i].ns, sources[i].name>>}
    <3>1. PICK s, o : Traces(i, s, o)
      BY <2>1, DoneTraces
    <3>2. /\ i \in DOMAIN sources /\ s = sources[i] /\ o = configured[origin[i]] /\ s.kind = "claim"
          /\ Answers(s, resolved[i].snaps) /\ resolved[i].label = SourceLabel(s)
      BY <2>1, <3>1 DEF Traces
    <3>3. resolved[i].snaps # {} /\ \A x \in resolved[i].snaps : x.ns = s.ns /\ x.pvc = s.name
      BY <3>2 DEF Answers
    <3>4. {<<x.ns, x.pvc>> : x \in resolved[i].snaps} = {<<s.ns, s.name>>}
      BY <3>3
    <3>5. Unlabelled(i)
      BY <2>1, <3>2 DEF Unlabelled
    <3> QED
      BY <3>2, <3>4, <3>5
  <2> SUFFICES ASSUME pc = "done", NEW i \in DOMAIN resolved, NEW j \in DOMAIN resolved,
                      configured[origin[i]].kind = "claimSelector"
                      \/ (configured[origin[i]].kind = "claim" /\ configured[origin[i]].label = <<>>),
                      configured[origin[j]].kind = "claimSelector"
                      \/ (configured[origin[j]].kind = "claim" /\ configured[origin[j]].label = <<>>),
                      {<<x.ns, x.pvc>> : x \in resolved[i].snaps} # {<<x.ns, x.pvc>> : x \in resolved[j].snaps}
               PROVE  resolved[i].label # resolved[j].label
    BY DEF LabelsTellApart
  <2>2. /\ i \in DOMAIN sources /\ Unlabelled(i) /\ resolved[i].label = SourceLabel(sources[i])
        /\ {<<x.ns, x.pvc>> : x \in resolved[i].snaps} = {<<sources[i].ns, sources[i].name>>}
    BY <2>1
  <2>3. /\ j \in DOMAIN sources /\ Unlabelled(j) /\ resolved[j].label = SourceLabel(sources[j])
        /\ {<<x.ns, x.pvc>> : x \in resolved[j].snaps} = {<<sources[j].ns, sources[j].name>>}
    BY <2>1
  <2>4. ~(sources[i].ns = sources[j].ns /\ sources[i].name = sources[j].name)
    BY <2>2, <2>3
  <2>5. SourceLabel(sources[i]) # SourceLabel(sources[j])
    BY <1>1, <2>2, <2>3, <2>4 DEF StageInv
  <2> QED
    BY <2>2, <2>3, <2>5
<1>3. MembersDistinct
  <2> SUFFICES ASSUME pc = "done", NEW i \in DOMAIN resolved, configured[origin[i]].kind = "group"
               PROVE  /\ Cardinality({MemberName(x) : x \in resolved[i].snaps}) = Cardinality(resolved[i].snaps)
                      /\ \A x \in resolved[i].snaps : MemberName(x) \notin TooLong
    BY DEF MembersDistinct
  <2>1. PICK S : S = resolved[i].snaps
    OBVIOUS
  <2>2. PICK s, o : Traces(i, s, o)
    BY DoneTraces
  <2>3. s.kind = "group" /\ Answers(s, S)
    BY <2>1, <2>2 DEF Traces
  <2>4. /\ IsFiniteSet(S) /\ \A x \in S : MemberName(x) \notin TooLong
        /\ \A x, y \in S : MemberName(x) = MemberName(y) => x = y
    BY <2>3 DEF Answers
  <2>5. PICK f : f = [x \in S |-> MemberName(x)]
    OBVIOUS
  <2>6. DOMAIN f = S /\ (\A x \in S : f[x] = MemberName(x)) /\ {f[x] : x \in S} = {MemberName(x) : x \in S}
    BY <2>5
  <2>7. \A x, y \in S : f[x] = f[y] => x = y
    BY <2>4, <2>6
  <2>8. Cardinality({f[x] : x \in S}) = Cardinality(S)
    BY <2>4, <2>6, <2>7, ImageCardinality
  <2> QED
    BY <2>1, <2>4, <2>6, <2>8
<1> QED
  BY <1>2, <1>3 DEF ToldApart

\* And what SlicesBounded says.
LEMMA ResolveSlices ==
    ASSUME ResolveInv
    PROVE  SlicesBounded
<1>1. AnswerInv /\ CountInv
  BY DEF ResolveInv
<1>2. PICK z \in Seq(Nat) :
        z = Sizes(resolved) /\ DOMAIN z = DOMAIN resolved /\ \A i \in DOMAIN resolved : z[i] = resolved[i].size
  BY <1>1, SizesFacts
<1>3. \A i \in DOMAIN resolved : SlicesOf(resolved[i].size, DeriveSliceSize(z)) <= ArchiveTarget
  BY <1>2, SlicesFacts DEF SlicesOf
<1>4. reason = "payload" => Len(sources) > SliceBudget - RunTarget
  BY <1>1 DEF CountInv
<1> QED
  BY <1>2, <1>3, <1>4 DEF SlicesBounded

\* The invariant holds throughout.
LEMMA ResolveInvariant == ResolveSpec => []ResolveInv
<1>1. ResolveInit => ResolveInv
  BY ResolveInitInv
<1>2. ResolveInv /\ [ResolveNext]_resolveVars => ResolveInv'
  BY ResolveStep
<1> QED
  BY <1>1, <1>2, PTL DEF ResolveSpec

(***************************************************************************)
(* However the pool and the cluster change between the reads of the three  *)
(* resolving activities, the work list holds what the configuration asks   *)
(* for: every configured source and nothing else, nothing forged or in the *)
(* staging area, the newest snapshot where that is asked, never a live     *)
(* dataset.                                                                *)
(***************************************************************************)
THEOREM WorkListIsSound == ResolveSpec => []WorkListSound
<1>1. ResolveInv => WorkListSound
  BY ResolveSound
<1> QED
  BY <1>1, ResolveInvariant, PTL

(***************************************************************************)
(* The labels of expandClaimSources tell the claims apart that the         *)
(* operator did not label, and checkMemberNames the members of a group,    *)
(* although labels are cleaned and cut by any rule.                        *)
(***************************************************************************)
THEOREM SourcesAreToldApart == ResolveSpec => []ToldApart
<1>1. ResolveInv => ToldApart
  BY ResolveToldApart
<1> QED
  BY <1>1, ResolveInvariant, PTL

(***************************************************************************)
(* The slice size of DeriveSliceSize keeps every archive within its target *)
(* for any sizes and any rounding, and checkPayloadBound can fail only a   *)
(* run with more archives than the headroom left for rounding.             *)
(***************************************************************************)
THEOREM SlicesAreBounded == ResolveSpec => []SlicesBounded
<1>1. ResolveInv => SlicesBounded
  BY ResolveSlices
<1> QED
  BY <1>1, ResolveInvariant, PTL
=============================================================================

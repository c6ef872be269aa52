--------------------------- MODULE ArchiveRecord ---------------------------
(***************************************************************************)
(* What the tape path promises, without drives, slots, retries or pauses.  *)
(* content[t] is the (tape, copy) pair tape t carries in full, 0 for none; *)
(* record is what the run will report.  A tape is recorded only for what   *)
(* it carries, a pair only once, and from then on the tape is left alone;  *)
(* a run ends well only with every pair on record.                         *)
(***************************************************************************)
EXTENDS Naturals

CONSTANTS Tapes, Pairs

VARIABLES content, record, outcome

Copy == [pair : Pairs, tape : Tapes]
Recorded == {r.tape : r \in record}

\* No pair and no tape appears twice.
OneToOne(copies) ==
    \A r1, r2 \in copies : r1.pair = r2.pair \/ r1.tape = r2.tape => r1 = r2

Init == record = {} /\ outcome = "running" /\ content = [t \in Tapes |-> 0]

Write ==
    /\ \E t \in Tapes \ Recorded, p \in Pairs \cup {0} : content' = [content EXCEPT ![t] = p]
    /\ UNCHANGED <<record, outcome>>

Commit ==
    /\ outcome = "running"
    /\ \E new \in SUBSET Copy :
         /\ \A r \in new : content[r.tape] = r.pair
         /\ OneToOne(record \cup new)
         /\ record' = record \cup new
    /\ UNCHANGED <<content, outcome>>

End ==
    /\ outcome = "running"
    /\ \/ outcome' = "ok" /\ {r.pair : r \in record} = Pairs
       \/ outcome' = "ended"
    /\ UNCHANGED <<content, record>>

Next == Write \/ Commit \/ End

Spec == Init /\ [][Next]_<<content, record, outcome>>
=============================================================================

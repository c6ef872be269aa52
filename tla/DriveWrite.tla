----------------------------- MODULE DriveWrite -----------------------------
(***************************************************************************)
(* What TapePath relies on when it hands loaded tapes to writePhase: each  *)
(* tape's medium only moves from blank to partly written to complete, and  *)
(* each drive reports once, "ok" only for a complete tape.                 *)
(***************************************************************************)
CONSTANT Drives

VARIABLES
    content,  \* content[d]: the medium in drive d
    report    \* report[d]: what the Write phase says of it

Init ==
    /\ content = [d \in Drives |-> "blank"]
    /\ report = [d \in Drives |-> "none"]

Advance(d) ==
    \/ content[d] = "blank" /\ content' = [content EXCEPT ![d] = "partial"]
    \/ content[d] = "partial" /\ content' = [content EXCEPT ![d] = "complete"]

\* A step of the write, which may at once turn out to have failed.
Write(d) ==
    /\ Advance(d)
    /\ report' \in {report, [report EXCEPT ![d] = IF @ = "none" THEN "err" ELSE @]}

Succeed(d) ==
    /\ report[d] = "none" /\ content[d] = "complete"
    /\ report' = [report EXCEPT ![d] = "ok"]
    /\ UNCHANGED content

\* A failure, a cancellation or the loss of the worker.
Fail(set) ==
    /\ \A d \in set : report[d] = "none"
    /\ report' = [d \in Drives |-> IF d \in set THEN "err" ELSE report[d]]
    /\ UNCHANGED content

Next ==
    \/ \E d \in Drives : Write(d) \/ Succeed(d)
    \/ \E set \in SUBSET Drives : Fail(set)

Spec == Init /\ [][Next]_<<content, report>>
=============================================================================

---------------------------- MODULE MCRunEvents ----------------------------
(* A whole run with no stream on it, for the views; one stream on a run that  *)
(* pauses, with a failed call; and two streams on a run that ends.            *)
EXTENDS RunEvents

Past(name, t, out) == [Activity(name, "", t) EXCEPT !.out = out]
AtBurn == <<Past("BurnDisc", 0, "failed")>>
Faults(r, c) == [run |-> r, calls |-> c]

MCScenarios ==
    {[acts |-> <<Activity("ResolveAndCheck", "", 0)>>, completed |-> "", streams |-> 0, sets |-> 2, faults |-> Faults(1, 0)],
     [acts |-> AtBurn, completed |-> "Eject", streams |-> 1, sets |-> 1, faults |-> Faults(0, 1)],
     [acts |-> <<Past("Deliver", 0, "done")>>, completed |-> "Burn", streams |-> 2, sets |-> 1, faults |-> Faults(0, 0)]}
=============================================================================

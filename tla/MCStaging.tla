----------------------------- MODULE MCStaging -----------------------------
(***************************************************************************)
(* One or two archives of one or two slices, on tapes that hold all of     *)
(* them, or not, with a fixed target, a floor that is not a whole          *)
(* percentage, and a floor that cannot be kept on any tape.                *)
(***************************************************************************)
EXTENDS Staging

Shape(slices, tarred, native, mode, tenths) ==
    [slices |-> slices, logical |-> [a \in DOMAIN slices |-> 10], tarred |-> tarred,
     native |-> native, redundancy |-> [mode |-> mode, tenths |-> tenths]]

MCInputs == {
    Shape(<<<<20, 7>>>>, <<24>>, 260, "fill", 204),
    Shape(<<<<9>>, <<20>>>>, <<9, 16>>, 190, "fill", 305),
    Shape(<<<<20, 20>>>>, <<8>>, 230, "target", 900) }

\* One to three archives of up to five slices, on three sizes of tape.
MCSamples == MCInputs \cup
    {Shape(s, <<>>, n, r[1], r[2]) :
       s \in {<<<<20, 20>>, <<13>>, <<9>>>>, <<<<20, 20, 20, 20, 1>>, <<4>>>>, <<<<1>>, <<40>>, <<40>>>>,
              <<<<30, 2>>, <<30>>, <<30, 30, 7>>, <<5>>>>, <<<<100, 100, 100>>>>},
       n \in {300, 640, 1500},
       r \in {<<"fill", 0>>, <<"fill", 104>>, <<"fill", 995>>, <<"target", 104>>, <<"target", 995>>}}

\* A worker without limits, one under a limit of its parent's alone, one past
\* its limit, one on the older cgroups, and one that can read nothing.
Dir(limit, usage) == [limit |-> limit, usage |-> usage]
MCHosts == {
    [available |-> {120}, v2 |-> <<Dir({}, {7})>>, v1 |-> <<>>],
    [available |-> {400}, v2 |-> <<Dir({}, {7}), Dir({200}, {80})>>, v1 |-> <<>>],
    [available |-> {400}, v2 |-> <<Dir({100}, {110}), Dir({200}, {150})>>, v1 |-> <<>>],
    [available |-> {}, v2 |-> <<>>, v1 |-> <<Dir({300}, {}), Dir({300}, {140})>>],
    [available |-> {}, v2 |-> <<>>, v1 |-> <<>>] }
=============================================================================

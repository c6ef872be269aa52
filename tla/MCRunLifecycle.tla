--------------------------- MODULE MCRunLifecycle ---------------------------
(***************************************************************************)
(* Runs beside a given snapshot that looks like a leak: a replica of a     *)
(* snapshot of the first run, received with its name and its id, which     *)
(* every configuration names.  Somebody may set the first run's id on a    *)
(* snapshot, or inherit the property.                                      *)
(***************************************************************************)
EXTENDS RunLifecycle

MCNamed == {Given}
MCSpelled == [g \in Given |-> 1]
MCGivenTag == [g \in Given |-> [value |-> 1, source |-> "other"]]
MCRetags == {[value |-> 0, source |-> "other"], [value |-> 1, source |-> "local"]}

\* A fabricated record of every given snapshot.
MCForgeries == {{[name |-> g, value |-> 1] : g \in Given}}
=============================================================================

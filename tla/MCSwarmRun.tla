------------------------------ MODULE MCSwarmRun ------------------------------
(***************************************************************************)
(* Instances of SwarmRun for TLC: a run of four tasks in up to three waves *)
(* beside another run's writer, and two runs that only read.               *)
(***************************************************************************)
EXTENDS SwarmRun

CONSTANTS p, q, scan, probe, edit, check, patch

BothRuns == {p, q}
OneRun == {p}
NoRuns == {}
NoTasks == {}

(* A writer beside a reader, a verified task behind both, and a task whose *)
(* dependencies may be a failed one and one that is blocked by it.         *)
TwoPlans == p :> <<scan, edit, check, probe>> @@ q :> <<patch>>
Dependencies ==
  scan :> <<>> @@ edit :> <<>> @@ check :> <<scan, edit>> @@ probe :> <<scan, check>>
    @@ patch :> <<>>
TwoEdits == {edit, patch}
OneVerified == {check}

NoDependencies == [t \in {scan, probe, edit, check, patch} |-> <<>>]
ShortPlans == p :> <<scan>> @@ q :> <<check>>
===============================================================================

--------------------------- MODULE MCWorkspaceGate ----------------------------
(* Instances of WorkspaceGate for TLC: model values for the tasks.         *)
EXTENDS WorkspaceGate

CONSTANTS r1, r2, r3, w1, w2

TwoReaders == {r1, r2}
ThreeReaders == {r1, r2, r3}
TwoWriters == {w1, w2}
NoTasks == {}
===============================================================================

---------------------------- MODULE WorkspaceLease ----------------------------
(***************************************************************************)
(* What WorkspaceGate (core/concurrency.py) promises the swarm, without    *)
(* conditions, futures or wakeups: read leases may overlap, a write lease  *)
(* excludes every other lease, and a queued writer closes the gate to      *)
(* readers that have not entered yet.                                      *)
(***************************************************************************)
CONSTANTS Readers,   \* tasks whose agent has read_only access
          Writers    \* tasks whose agent has workspace_write access

VARIABLES reading,   \* readers holding the lease
          writing,   \* writers holding the lease
          pending    \* writers waiting for it

vars == <<reading, writing, pending>>

TypeOK == /\ reading \subseteq Readers
          /\ writing \subseteq Writers
          /\ pending \subseteq Writers

Init == /\ reading = {}
        /\ writing = {}
        /\ pending = {}

Read(r) == /\ writing = {}
           /\ pending = {}
           /\ r \notin reading
           /\ reading' = reading \cup {r}
           /\ UNCHANGED <<writing, pending>>

Queue(w) == /\ w \notin writing \cup pending
            /\ writing \cup reading # {}
            /\ pending' = pending \cup {w}
            /\ UNCHANGED <<reading, writing>>

Write(w) == /\ writing = {}
            /\ reading = {}
            /\ writing' = {w}
            /\ pending' = pending \ {w}
            /\ UNCHANGED reading

Withdraw(w) == /\ w \in pending
               /\ pending' = pending \ {w}
               /\ UNCHANGED <<reading, writing>>

Leave(t) == /\ t \in reading \cup writing
            /\ reading' = reading \ {t}
            /\ writing' = writing \ {t}
            /\ UNCHANGED pending

Next == \/ \E r \in Readers : Read(r)
        \/ \E w \in Writers : Queue(w) \/ Write(w) \/ Withdraw(w)
        \/ \E t \in Readers \cup Writers : Leave(t)

Spec == Init /\ [][Next]_vars

(* A write lease is held by one task at a time and never beside a read     *)
(* lease: WorkspaceGate's "writer excludes every other task".              *)
Exclusive == /\ writing # {} => reading = {}
             /\ \A v, w \in writing : v = w
===============================================================================

---------------------------- MODULE SwarmRunProofs ----------------------------
(***************************************************************************)
(* Proofs about SwarmRun, for any runs, plans, accesses and verification   *)
(* settings.                                                               *)
(***************************************************************************)
EXTENDS SwarmRun, InductionTheorems, SequenceTheorems

Phases == {"new", "entering", "planning", "stopping", "executing", "cancelling",
           "done", "cancelled"}
Stages == Active \cup {"pending", "returned", "stopping", "stopped"}

(* Where a run is and where its tasks are. *)
PhaseInv ==
  \A r \in Runs : \A t \in TasksOf(r) :
    /\ stage[t] \in Active => phase[r] = "executing"
    /\ stage[t] \in {"stopping", "stopped"} => phase[r] \in {"cancelling", "cancelled"}
    /\ phase[r] \in {"new", "entering", "planning", "stopping"} => stage[t] = "pending"
    /\ result[t] # None <=> stage[t] = "returned"

(* A task's trace names the last message it has published or received. *)
TraceInv ==
  \A r \in Runs : \A t \in TasksOf(r) :
    /\ stage[t] = "entering" => trace[t] = <<"plan.created", r>>
    /\ stage[t] = "working" => trace[t] = <<"task.assigned", t>>
    /\ stage[t] = "reviewing" => trace[t] = <<"review.request", t>>
    /\ stage[t] = "stopping" => trace[t] \in {<<"plan.created", r>>, <<"task.assigned", t>>,
                                              <<"review.request", t>>}

(* The lease is held by those at work, by a writer alone, and only tasks   *)
(* that have not started queue for it.                                     *)
LeaseInv ==
  /\ reading = AtWork \ Writers
  /\ writing = AtWork \cap Writers
  /\ Lease!Exclusive
  /\ \A t \in queued : stage[t] \in {"entering", "stopping"} /\ trace[t][1] = "plan.created"

(* The types a run or a task at a place has not published yet. *)
UnsaidByRun(place) ==
  CASE place \in {"entering", "planning", "stopping"} ->
         {"plan.created", "run.aggregated", "run.completed"}
    [] place \in {"executing", "cancelling"} -> {"run.aggregated", "run.completed"}
    [] OTHER -> {}
UnsaidByTask(place) ==
  CASE place \in {"pending", "entering"} ->
         {"task.assigned", "task.result", "review.request", "review.result",
          "task.failed", "task.blocked"}
    [] place = "working" ->
         {"task.result", "review.request", "review.result", "task.failed", "task.blocked"}
    [] place \in {"reviewing", "stopping", "stopped"} ->
         {"review.result", "task.failed", "task.blocked"}
    [] OTHER -> {}

SaidInv ==
  \A r \in Runs :
    /\ IF phase[r] = "new" THEN history[r] = <<>>
                           ELSE <<"run.request", r>> \in Published(r)
    /\ phase[r] \in {"executing", "cancelling"} => <<"plan.created", r>> \in Published(r)
    /\ \A type \in UnsaidByRun(phase[r]) : <<type, r>> \notin Published(r)
    /\ \A t \in TasksOf(r) :
         /\ \A type \in UnsaidByTask(stage[t]) : <<type, t>> \notin Published(r)
         /\ stage[t] \in Active => trace[t] \in Published(r)

(* The status that was reported is the one the tasks' records give. *)
StatusInv ==
  \A r \in Runs : phase[r] = "done" /\ <<"plan.created", r>> \in Published(r) =>
    status[r] = FinalStatus(r)

-------------------------------------------------------------------------------
(* Histories.  A batch of messages follows a history when each of its      *)
(* messages is new and caused by what is there before it.                  *)
IdsOf(messages) == {messages[i].id : i \in DOMAIN messages}

Follows(batch, messages) ==
  \A i \in DOMAIN batch :
    LET known == IdsOf(messages) \cup {batch[j].id : j \in 1 .. i - 1}
    IN  batch[i].id \notin known /\ {batch[i].cause} \cup batch[i].causes \subseteq known

(* Where the messages of a longer history come from. *)
LEMMA Extended ==
  ASSUME NEW h \in Seq(Messages), NEW batch \in Seq(Messages)
  PROVE  LET longer == h \o batch
         IN  /\ longer \in Seq(Messages) /\ Len(longer) = Len(h) + Len(batch)
             /\ Len(h) \in Nat /\ Len(batch) \in Nat
             /\ DOMAIN h = 1 .. Len(h) /\ DOMAIN batch = 1 .. Len(batch)
             /\ DOMAIN longer = 1 .. Len(h) + Len(batch)
             /\ \A i \in DOMAIN h : i \in DOMAIN longer /\ longer[i] = h[i]
             /\ \A i \in DOMAIN batch : /\ Len(h) + i \in DOMAIN longer
                                        /\ longer[Len(h) + i] = batch[i]
             /\ \A i \in DOMAIN longer :
                  i \in DOMAIN h \/ (i - Len(h) \in DOMAIN batch /\ i > Len(h))
             /\ IdsOf(longer) = IdsOf(h) \cup IdsOf(batch)
<1> DEFINE longer == h \o batch
<1>1. /\ Len(h) \in Nat /\ DOMAIN h = 1 .. Len(h)
      /\ Len(batch) \in Nat /\ DOMAIN batch = 1 .. Len(batch)
  BY LenProperties
<1>2. /\ longer \in Seq(Messages) /\ Len(longer) = Len(h) + Len(batch)
      /\ \A i \in 1 .. Len(h) + Len(batch) :
           longer[i] = IF i <= Len(h) THEN h[i] ELSE batch[i - Len(h)]
  BY ConcatProperties
<1>3. DOMAIN longer = 1 .. Len(h) + Len(batch)
  BY <1>2, LenProperties
<1> HIDE DEF longer
<1>4. \A i \in DOMAIN h : i \in DOMAIN longer /\ longer[i] = h[i]
  BY <1>1, <1>2, <1>3
<1>5. \A i \in DOMAIN batch : Len(h) + i \in DOMAIN longer /\ longer[Len(h) + i] = batch[i]
  <2> TAKE i \in DOMAIN batch
  <2>1. /\ Len(h) + i \in 1 .. Len(h) + Len(batch) /\ ~(Len(h) + i <= Len(h))
        /\ (Len(h) + i) - Len(h) = i
    BY <1>1
  <2> QED
    BY <1>2, <1>3, <2>1
<1>6. \A i \in DOMAIN longer : i \in DOMAIN h \/ (i - Len(h) \in DOMAIN batch /\ i > Len(h))
  BY <1>1, <1>3
<1>7. IdsOf(longer) = IdsOf(h) \cup IdsOf(batch)
  <2>1. ASSUME NEW id \in IdsOf(longer) PROVE id \in IdsOf(h) \cup IdsOf(batch)
    <3>1. PICK i \in DOMAIN longer : id = longer[i].id
      BY <2>1 DEF IdsOf
    <3>2. CASE i \in DOMAIN h
      BY <1>4, <3>1, <3>2 DEF IdsOf
    <3>3. CASE i - Len(h) \in DOMAIN batch /\ i > Len(h)
      <4>1. Len(h) + (i - Len(h)) = i
        BY <1>1, <1>3
      <4>2. longer[i] = batch[i - Len(h)]
        BY <1>5, <3>3, <4>1
      <4> QED
        BY <3>1, <3>3, <4>2 DEF IdsOf
    <3> QED
      BY <1>6, <3>2, <3>3
  <2>2. ASSUME NEW id \in IdsOf(h) PROVE id \in IdsOf(longer)
    BY <1>4 DEF IdsOf
  <2>3. ASSUME NEW id \in IdsOf(batch) PROVE id \in IdsOf(longer)
    BY <1>5 DEF IdsOf
  <2> QED
    BY <2>1, <2>2, <2>3
<1> QED
  BY <1>1, <1>2, <1>3, <1>4, <1>5, <1>6, <1>7 DEF longer

(* A history stays in causal order when a batch follows it. *)
LEMMA OrderKept ==
  ASSUME NEW h \in Seq(Messages), h # <<>>, NEW batch \in Seq(Messages),
         InCausalOrder(h), Follows(batch, h)
  PROVE  InCausalOrder(h \o batch)
<1> DEFINE longer == h \o batch
           earlier(i) == {longer[j].id : j \in 1 .. i - 1}
<1>1. /\ Len(h) \in Nat /\ Len(batch) \in Nat
      /\ DOMAIN h = 1 .. Len(h) /\ DOMAIN batch = 1 .. Len(batch)
      /\ DOMAIN longer = 1 .. Len(h) + Len(batch)
      /\ \A i \in DOMAIN h : longer[i] = h[i]
      /\ \A i \in DOMAIN batch : longer[Len(h) + i] = batch[i]
      /\ \A i \in DOMAIN longer :
           i \in DOMAIN h \/ (i - Len(h) \in DOMAIN batch /\ i > Len(h))
  BY Extended
<1>2. Len(h) >= 1
  BY EmptySeq
<1> HIDE DEF longer
<1> SUFFICES ASSUME NEW i \in DOMAIN longer
             PROVE  /\ longer[i].id \notin earlier(i)
                    /\ IF i = 1 THEN longer[i].id[1] = "run.request"
                       ELSE {longer[i].cause} \cup longer[i].causes \subseteq earlier(i)
  BY DEF InCausalOrder, longer
<1>3. CASE i \in DOMAIN h
  <2>1. \A j \in 1 .. i - 1 : longer[j] = h[j]
    BY <1>1, <1>3
  <2>2. earlier(i) = {h[j].id : j \in 1 .. i - 1}
    BY <2>1
  <2>3. longer[i] = h[i]
    BY <1>1, <1>3
  <2> QED
    BY <1>3, <2>2, <2>3 DEF InCausalOrder
<1>4. CASE i - Len(h) \in DOMAIN batch /\ i > Len(h)
  <2> DEFINE k == i - Len(h)
             known == IdsOf(h) \cup {batch[j].id : j \in 1 .. k - 1}
  <2>1. /\ k \in DOMAIN batch /\ Len(h) + k = i /\ i # 1
    BY <1>1, <1>2, <1>4
  <2>2. longer[i] = batch[k]
    BY <1>1, <2>1
  <2>3. earlier(i) = known
    <3>1. ASSUME NEW j \in 1 .. i - 1 PROVE longer[j].id \in known
      <4>1. CASE j \in DOMAIN h
        BY <1>1, <4>1 DEF IdsOf
      <4>2. CASE j \notin DOMAIN h
        <5>1. /\ j - Len(h) \in 1 .. k - 1 /\ j - Len(h) \in DOMAIN batch
              /\ Len(h) + (j - Len(h)) = j
          BY <1>1, <1>4, <4>2
        <5>2. longer[j] = batch[j - Len(h)]
          BY <1>1, <5>1
        <5> QED
          BY <5>1, <5>2
      <4> QED
        BY <4>1, <4>2
    <3>2. ASSUME NEW id \in IdsOf(h) PROVE id \in earlier(i)
      <4>1. PICK j \in DOMAIN h : id = h[j].id
        BY DEF IdsOf
      <4>2. j \in 1 .. i - 1 /\ longer[j] = h[j]
        BY <1>1, <1>4
      <4> QED
        BY <4>1, <4>2
    <3>3. ASSUME NEW j \in 1 .. k - 1 PROVE batch[j].id \in earlier(i)
      <4>1. j \in DOMAIN batch /\ Len(h) + j \in 1 .. i - 1
        BY <1>1, <1>4
      <4>2. longer[Len(h) + j] = batch[j]
        BY <1>1, <4>1
      <4> QED
        BY <4>1, <4>2
    <3> QED
      BY <3>1, <3>2, <3>3
  <2> HIDE DEF k
  <2>4. batch[k].id \notin known /\ {batch[k].cause} \cup batch[k].causes \subseteq known
    BY <2>1 DEF Follows
  <2> QED
    BY <2>1, <2>2, <2>3, <2>4
<1> QED
  BY <1>1, <1>3, <1>4

(* What a history says last about a task stays so unless a batch is about  *)
(* the task; then it is the last of the batch, if that is about it.        *)
LEMMA LastKept ==
  ASSUME NEW h \in Seq(Messages), NEW batch \in Seq(Messages), NEW t, NEW id,
         LastAbout(h, t, id), \A i \in DOMAIN batch : batch[i].id[2] # t
  PROVE  LastAbout(h \o batch, t, id)
<1> DEFINE longer == h \o batch
<1>1. /\ Len(h) \in Nat /\ Len(batch) \in Nat /\ Len(longer) = Len(h) + Len(batch)
      /\ DOMAIN h = 1 .. Len(h) /\ DOMAIN batch = 1 .. Len(batch)
      /\ DOMAIN longer = 1 .. Len(h) + Len(batch)
      /\ \A i \in DOMAIN h : i \in DOMAIN longer /\ longer[i] = h[i]
      /\ \A i \in DOMAIN batch : longer[Len(h) + i] = batch[i]
      /\ \A i \in DOMAIN longer :
           i \in DOMAIN h \/ (i - Len(h) \in DOMAIN batch /\ i > Len(h))
  BY Extended
<1> HIDE DEF longer
<1>2. PICK i \in DOMAIN h : /\ h[i].id = id /\ id[2] = t
                            /\ \A j \in i + 1 .. Len(h) : h[j].id[2] # t
  BY DEF LastAbout
<1>3. ASSUME NEW j \in i + 1 .. Len(longer) PROVE longer[j].id[2] # t
  <2>1. CASE j <= Len(h)
    BY <1>1, <1>2, <2>1
  <2>2. CASE j > Len(h)
    <3>1. j - Len(h) \in DOMAIN batch /\ Len(h) + (j - Len(h)) = j
      BY <1>1, <2>2
    <3>2. longer[j] = batch[j - Len(h)]
      BY <1>1, <3>1
    <3> QED
      BY <3>1, <3>2
  <2> QED
    BY <1>1, <2>1, <2>2
<1> QED
  BY <1>1, <1>2, <1>3 DEF LastAbout, longer

LEMMA LastNew ==
  ASSUME NEW h \in Seq(Messages), NEW batch \in Seq(Messages), NEW t, NEW id,
         LastAbout(batch, t, id)
  PROVE  LastAbout(h \o batch, t, id)
<1> DEFINE longer == h \o batch
<1>1. /\ Len(h) \in Nat /\ Len(batch) \in Nat /\ Len(longer) = Len(h) + Len(batch)
      /\ DOMAIN batch = 1 .. Len(batch)
      /\ \A i \in DOMAIN batch : Len(h) + i \in DOMAIN longer /\ longer[Len(h) + i] = batch[i]
  BY Extended
<1> HIDE DEF longer
<1>2. PICK i \in DOMAIN batch : /\ batch[i].id = id /\ id[2] = t
                                /\ \A j \in i + 1 .. Len(batch) : batch[j].id[2] # t
  BY DEF LastAbout
<1>3. ASSUME NEW j \in Len(h) + i + 1 .. Len(longer) PROVE longer[j].id[2] # t
  <2>1. /\ j - Len(h) \in DOMAIN batch /\ Len(h) + (j - Len(h)) = j
        /\ j - Len(h) \in i + 1 .. Len(batch)
    BY <1>1
  <2>2. longer[j] = batch[j - Len(h)]
    BY <1>1, <2>1
  <2> QED
    BY <1>2, <2>1, <2>2
<1>4. Len(h) + i \in DOMAIN longer /\ longer[Len(h) + i].id = id
  BY <1>1, <1>2
<1>5. LastAbout(longer, t, id)
  BY <1>2, <1>3, <1>4 DEF LastAbout
<1> QED
  BY <1>5 DEF longer

LEMMA LastOfBatch ==
  ASSUME NEW batch \in Seq(Messages), NEW t, NEW id,
         batch # <<>>, batch[Len(batch)].id = id, id[2] = t
  PROVE  LastAbout(batch, t, id)
<1>1. Len(batch) \in Nat /\ DOMAIN batch = 1 .. Len(batch) /\ Len(batch) # 0
  BY LenProperties, EmptySeq
<1>2. Len(batch) \in DOMAIN batch /\ Len(batch) + 1 .. Len(batch) = {}
  BY <1>1
<1> QED
  BY <1>2 DEF LastAbout

-------------------------------------------------------------------------------
(* Runs have tasks of their own. *)
LEMMA OwnTasks ==
  /\ \A r \in Runs : r \notin Tasks /\ TasksOf(r) \subseteq Tasks
  /\ \A t \in Tasks : t \notin Runs /\ \E r \in Runs : t \in TasksOf(r)
  /\ \A r, s \in Runs : \A t \in TasksOf(r) : t \in TasksOf(s) => r = s
<1>1. \A r, s \in Runs : r # s => TasksOf(r) \cap TasksOf(s) = {}
  BY PlanAssumption
<1>2. Runs \cap Tasks = {}
  BY AccessAssumption
<1>3. \A r \in Runs : TasksOf(r) \subseteq Tasks
  BY DEF Tasks
<1>4. \A t \in Tasks : \E r \in Runs : t \in TasksOf(r)
  BY DEF Tasks
<1> QED
  BY <1>1, <1>2, <1>3, <1>4

(* Batches of one, two and three messages, each of them after the first    *)
(* caused by the one before.                                               *)
TaskTypes == {"task.assigned", "task.result", "review.request", "review.result",
              "task.failed", "task.blocked"}

LEMMA MessageTypes ==
  ASSUME NEW type \in Types, NEW about \in Runs \cup Tasks, NEW cause \in Ids \cup {None}
  PROVE  /\ Message(type, about, cause) \in Messages
         /\ Message(type, about, cause).id = <<type, about>>
         /\ Message(type, about, cause).cause = cause
         /\ Message(type, about, cause).causes = {}
         /\ <<type, about>> \in Ids
BY DEF Message, Messages, Ids

LEMMA BatchOfOne ==
  ASSUME NEW m \in Messages
  PROVE  /\ <<m>> \in Seq(Messages) /\ <<m>> # <<>> /\ Len(<<m>>) = 1
         /\ DOMAIN <<m>> = 1 .. 1 /\ <<m>>[1] = m /\ Last(<<m>>) = m
         /\ Append(<<>>, m) = <<m>>
         /\ IdsOf(<<m>>) = {m.id}
<1>1. /\ <<m>> \in Seq(Messages) /\ <<m>> # <<>> /\ Len(<<m>>) = 1
      /\ DOMAIN <<m>> = 1 .. 1 /\ <<m>>[1] = m
  OBVIOUS
<1>2. Append(<<>>, m) = <<m>>
  OBVIOUS
<1>3. IdsOf(<<m>>) = {m.id}
  BY <1>1 DEF IdsOf
<1>4. Last(<<m>>) = m
  BY <1>1 DEF Last
<1> QED
  BY <1>1, <1>2, <1>3, <1>4

LEMMA BatchOfTwo ==
  ASSUME NEW m \in Messages, NEW n \in Messages
  PROVE  /\ <<m, n>> \in Seq(Messages) /\ <<m, n>> # <<>> /\ Len(<<m, n>>) = 2
         /\ DOMAIN <<m, n>> = 1 .. 2 /\ <<m, n>>[1] = m /\ <<m, n>>[2] = n
         /\ Last(<<m, n>>) = n
         /\ Append(<<m>>, n) = <<m, n>>
         /\ IdsOf(<<m, n>>) = {m.id, n.id}
<1>1. /\ <<m, n>> \in Seq(Messages) /\ <<m, n>> # <<>> /\ Len(<<m, n>>) = 2
      /\ DOMAIN <<m, n>> = 1 .. 2 /\ <<m, n>>[1] = m /\ <<m, n>>[2] = n
  OBVIOUS
<1>2. Append(<<m>>, n) = <<m, n>>
  <2> DEFINE a == Append(<<m>>, n)
             b == <<m, n>>
  <2>1. /\ a \in Seq(Messages) /\ Len(a) = 2 /\ a[1] = m /\ a[2] = n
    <3>1. <<m>> \in Seq(Messages) /\ Len(<<m>>) = 1 /\ <<m>>[1] = m
      OBVIOUS
    <3> QED
      BY <3>1, AppendProperties
  <2>2. /\ b \in Seq(Messages) /\ Len(b) = 2 /\ b[1] = m /\ b[2] = n
    BY <1>1
  <2> HIDE DEF a, b
  <2>3. \A i \in 1 .. Len(a) : a[i] = b[i]
    BY <2>1, <2>2
  <2>4. a = b
    BY <2>1, <2>2, <2>3, SeqEqual
  <2> QED
    BY <2>4 DEF a, b
<1>3. IdsOf(<<m, n>>) = {m.id, n.id}
  BY <1>1 DEF IdsOf
<1>4. Last(<<m, n>>) = n
  BY <1>1 DEF Last
<1> QED
  BY <1>1, <1>2, <1>3, <1>4

LEMMA BatchOfThree ==
  ASSUME NEW m \in Messages, NEW n \in Messages, NEW o \in Messages
  PROVE  /\ <<m, n, o>> \in Seq(Messages) /\ <<m, n, o>> # <<>>
         /\ <<m, n, o>>[Len(<<m, n, o>>)] = o
         /\ DOMAIN <<m, n, o>> = 1 .. 3
         /\ IdsOf(<<m, n, o>>) = {m.id, n.id, o.id}
<1>1. /\ <<m, n, o>> \in Seq(Messages) /\ <<m, n, o>> # <<>> /\ Len(<<m, n, o>>) = 3
      /\ DOMAIN <<m, n, o>> = 1 .. 3
      /\ <<m, n, o>>[1] = m /\ <<m, n, o>>[2] = n /\ <<m, n, o>>[3] = o
  OBVIOUS
<1>2. IdsOf(<<m, n, o>>) = {m.id, n.id, o.id}
  BY <1>1 DEF IdsOf
<1> QED
  BY <1>1, <1>2

LEMMA AppendToTwo ==
  ASSUME NEW m \in Messages, NEW n \in Messages, NEW o \in Messages
  PROVE  Append(<<m, n>>, o) = <<m, n, o>>
<1> DEFINE a == Append(<<m, n>>, o)
           b == <<m, n, o>>
<1>1. /\ a \in Seq(Messages) /\ Len(a) = 3 /\ a[1] = m /\ a[2] = n /\ a[3] = o
  <2>1. /\ <<m, n>> \in Seq(Messages) /\ Len(<<m, n>>) = 2
        /\ <<m, n>>[1] = m /\ <<m, n>>[2] = n
    OBVIOUS
  <2> QED
    BY <2>1, AppendProperties
<1>2. /\ b \in Seq(Messages) /\ Len(b) = 3 /\ b[1] = m /\ b[2] = n /\ b[3] = o
  OBVIOUS
<1> HIDE DEF a, b
<1>3. \A i \in 1 .. Len(a) : a[i] = b[i]
  BY <1>1, <1>2
<1>4. a = b
  BY <1>1, <1>2, <1>3, SeqEqual
<1> QED
  BY <1>4 DEF a, b

LEMMA FollowsOne ==
  ASSUME NEW h, NEW m \in Messages,
         m.id \notin IdsOf(h), {m.cause} \cup m.causes \subseteq IdsOf(h)
  PROVE  Follows(<<m>>, h)
BY BatchOfOne DEF Follows

LEMMA FollowsTwo ==
  ASSUME NEW h, NEW m \in Messages, NEW n \in Messages,
         m.id \notin IdsOf(h), {m.cause} \cup m.causes \subseteq IdsOf(h),
         n.id \notin IdsOf(h) \cup {m.id},
         {n.cause} \cup n.causes \subseteq IdsOf(h) \cup {m.id}
  PROVE  Follows(<<m, n>>, h)
<1> DEFINE b == <<m, n>>
<1>1. DOMAIN b = 1 .. 2 /\ b[1] = m /\ b[2] = n
  BY BatchOfTwo
<1> HIDE DEF b
<1>2. /\ {b[j].id : j \in 1 .. 1 - 1} = {}
      /\ {b[j].id : j \in 1 .. 2 - 1} = {m.id}
  BY <1>1
<1> QED
  BY <1>1, <1>2 DEF Follows, b

LEMMA FollowsThree ==
  ASSUME NEW h, NEW m \in Messages, NEW n \in Messages, NEW o \in Messages,
         m.id \notin IdsOf(h), {m.cause} \cup m.causes \subseteq IdsOf(h),
         n.id \notin IdsOf(h) \cup {m.id},
         {n.cause} \cup n.causes \subseteq IdsOf(h) \cup {m.id},
         o.id \notin IdsOf(h) \cup {m.id, n.id},
         {o.cause} \cup o.causes \subseteq IdsOf(h) \cup {m.id, n.id}
  PROVE  Follows(<<m, n, o>>, h)
<1> DEFINE b == <<m, n, o>>
<1>1. DOMAIN b = 1 .. 3 /\ b[1] = m /\ b[2] = n /\ b[3] = o
  OBVIOUS
<1> HIDE DEF b
<1>2. /\ {b[j].id : j \in 1 .. 1 - 1} = {}
      /\ {b[j].id : j \in 1 .. 2 - 1} = {m.id}
      /\ {b[j].id : j \in 1 .. 3 - 1} = {m.id, n.id}
  BY <1>1
<1>3. \A i \in 1 .. 3 : i = 1 \/ i = 2 \/ i = 3
  OBVIOUS
<1> QED
  BY <1>1, <1>2, <1>3 DEF Follows, b

(* Each message of a batch is caused by the one before it. *)
Chained(batch, first) ==
  \A i \in DOMAIN batch : batch[i].cause = IF i = 1 THEN first ELSE batch[i - 1].id

(* What task t says in one step, ending with the message called last. *)
Saying(r, t, messages, last) ==
  /\ messages \in Seq(Messages) /\ messages # <<>>
  /\ Follows(messages, history[r]) /\ Chained(messages, trace[t])
  /\ IdsOf(messages) \subseteq UnsaidByTask(stage[t]) \X {t}
  /\ messages[Len(messages)].id = last

LEMMA UnsaidTypes ==
  /\ TaskTypes \subseteq Types
  /\ \A place : UnsaidByTask(place) \subseteq TaskTypes
  /\ UnsaidByTask("pending") = TaskTypes
  /\ UnsaidByTask("entering") = TaskTypes
  /\ UnsaidByTask("working") = TaskTypes \ {"task.assigned"}
  /\ \A place \in {"reviewing", "stopping", "stopped"} :
       UnsaidByTask(place) = {"review.result", "task.failed", "task.blocked"}
  /\ UnsaidByTask("returned") = {}
BY DEF UnsaidByTask, TaskTypes, Types

LEMMA SayOne ==
  ASSUME SaidInv, NEW r \in Runs, NEW t \in TasksOf(r),
         NEW type \in UnsaidByTask(stage[t]), NEW cause \in Ids, cause \in Published(r),
         cause = trace[t]
  PROVE  /\ Saying(r, t, <<Message(type, t, cause)>>, <<type, t>>)
         /\ Message(type, t, cause).id = <<type, t>>
<1> DEFINE m == Message(type, t, cause)
<1>1. type \in Types /\ t \in Runs \cup Tasks /\ cause \in Ids \cup {None}
  BY OwnTasks, UnsaidTypes
<1>2. m \in Messages /\ m.id = <<type, t>> /\ m.cause = cause /\ m.causes = {}
  BY <1>1 DEF Message, Messages, Ids
<1>3. <<type, t>> \notin IdsOf(history[r]) /\ cause \in IdsOf(history[r])
  BY DEF SaidInv, Published, IdsOf
<1> HIDE DEF m
<1>4. Follows(<<m>>, history[r])
  BY <1>2, <1>3, FollowsOne
<1>5. Chained(<<m>>, trace[t])
  BY <1>2, BatchOfOne DEF Chained
<1> QED
  BY <1>2, <1>4, <1>5, BatchOfOne DEF Saying, m

LEMMA SayTwo ==
  ASSUME SaidInv, NEW r \in Runs, NEW t \in TasksOf(r),
         NEW one \in UnsaidByTask(stage[t]), NEW two \in UnsaidByTask(stage[t]), one # two,
         NEW cause \in Ids, cause \in Published(r), cause = trace[t]
  PROVE  Saying(r, t, <<Message(one, t, cause), Message(two, t, <<one, t>>)>>, <<two, t>>)
<1> DEFINE m == Message(one, t, cause)
           n == Message(two, t, <<one, t>>)
<1>1. /\ one \in Types /\ two \in Types
      /\ t \in Runs \cup Tasks /\ cause \in Ids \cup {None}
  BY OwnTasks, UnsaidTypes
<1>2. /\ m \in Messages /\ m.id = <<one, t>> /\ m.cause = cause /\ m.causes = {}
      /\ m.id \in Ids
  BY <1>1 DEF Message, Messages, Ids
<1>3. n \in Messages /\ n.id = <<two, t>> /\ n.cause = m.id /\ n.causes = {}
  BY <1>1, <1>2 DEF Message, Messages, Ids
<1>4. /\ <<one, t>> \notin IdsOf(history[r]) /\ <<two, t>> \notin IdsOf(history[r])
      /\ cause \in IdsOf(history[r]) /\ <<one, t>> # <<two, t>>
  BY DEF SaidInv, Published, IdsOf
<1> HIDE DEF m, n
<1>5. Follows(<<m, n>>, history[r])
  BY <1>2, <1>3, <1>4, FollowsTwo
<1>6. /\ <<m, n>> \in Seq(Messages) /\ <<m, n>> # <<>>
      /\ IdsOf(<<m, n>>) = {m.id, n.id} /\ <<m, n>>[Len(<<m, n>>)] = n
  BY <1>2, <1>3, BatchOfTwo
<1>7. {m.id, n.id} \subseteq UnsaidByTask(stage[t]) \X {t}
  BY <1>2, <1>3
<1>10. Chained(<<m, n>>, trace[t])
  <2> DEFINE b == <<m, n>>
  <2>1. DOMAIN b = 1 .. 2 /\ b[1] = m /\ b[2] = n
    BY <1>2, <1>3, BatchOfTwo
  <2> HIDE DEF b
  <2> QED
    BY <1>2, <1>3, <2>1 DEF Chained, b
<1>8. Saying(r, t, <<m, n>>, <<two, t>>)
  BY <1>3, <1>5, <1>6, <1>7, <1>10 DEF Saying
<1> QED
  BY <1>8 DEF m, n

LEMMA SayThree ==
  ASSUME SaidInv, NEW r \in Runs, NEW t \in TasksOf(r),
         NEW one \in UnsaidByTask(stage[t]), NEW two \in UnsaidByTask(stage[t]),
         NEW three \in UnsaidByTask(stage[t]), one # two, one # three, two # three,
         NEW cause \in Ids, cause \in Published(r), cause = trace[t]
  PROVE  Saying(r, t, <<Message(one, t, cause), Message(two, t, <<one, t>>),
                        Message(three, t, <<two, t>>)>>, <<three, t>>)
<1> DEFINE m == Message(one, t, cause)
           n == Message(two, t, <<one, t>>)
           o == Message(three, t, <<two, t>>)
<1>1. /\ one \in Types /\ two \in Types /\ three \in Types
      /\ t \in Runs \cup Tasks /\ cause \in Ids \cup {None}
  BY OwnTasks, UnsaidTypes
<1>2. /\ m \in Messages /\ m.id = <<one, t>> /\ m.cause = cause /\ m.causes = {}
      /\ m.id \in Ids
  BY <1>1 DEF Message, Messages, Ids
<1>3. /\ n \in Messages /\ n.id = <<two, t>> /\ n.cause = m.id /\ n.causes = {}
      /\ n.id \in Ids
  BY <1>1, <1>2 DEF Message, Messages, Ids
<1>4. o \in Messages /\ o.id = <<three, t>> /\ o.cause = n.id /\ o.causes = {}
  BY <1>1, <1>3 DEF Message, Messages, Ids
<1>5. /\ <<one, t>> \notin IdsOf(history[r]) /\ <<two, t>> \notin IdsOf(history[r])
      /\ <<three, t>> \notin IdsOf(history[r])
      /\ cause \in IdsOf(history[r])
      /\ <<one, t>> # <<two, t>> /\ <<one, t>> # <<three, t>> /\ <<two, t>> # <<three, t>>
  BY DEF SaidInv, Published, IdsOf
<1> HIDE DEF m, n, o
<1>6. Follows(<<m, n, o>>, history[r])
  BY <1>2, <1>3, <1>4, <1>5, FollowsThree
<1>7. /\ <<m, n, o>> \in Seq(Messages) /\ <<m, n, o>> # <<>>
      /\ IdsOf(<<m, n, o>>) = {m.id, n.id, o.id} /\ <<m, n, o>>[Len(<<m, n, o>>)] = o
  <2>1. m \in Messages /\ n \in Messages /\ o \in Messages
    BY <1>2, <1>3, <1>4
  <2> QED
    BY <2>1, BatchOfThree
<1>8. {m.id, n.id, o.id} \subseteq UnsaidByTask(stage[t]) \X {t}
  BY <1>2, <1>3, <1>4
<1>10. Chained(<<m, n, o>>, trace[t])
  <2> DEFINE b == <<m, n, o>>
  <2>1. DOMAIN b = 1 .. 3 /\ b[1] = m /\ b[2] = n /\ b[3] = o
    OBVIOUS
  <2> HIDE DEF b
  <2>2. \A i \in 1 .. 3 : i = 1 \/ i = 2 \/ i = 3
    OBVIOUS
  <2> QED
    BY <1>2, <1>3, <1>4, <2>1, <2>2 DEF Chained, b
<1>9. Saying(r, t, <<m, n, o>>, <<three, t>>)
  BY <1>4, <1>6, <1>7, <1>8, <1>10 DEF Saying
<1> QED
  BY <1>9 DEF m, n, o

-------------------------------------------------------------------------------
(* A step of task t that publishes either returns the task's record or     *)
(* starts its next call.                                                   *)
Returns(t, messages, last) ==
  /\ stage' = [stage EXCEPT ![t] = "returned"]
  /\ \E final \in Results, review \in {"APPROVE", "REJECT", None} :
       /\ result' = [result EXCEPT ![t] = final]
       /\ verdict' = [verdict EXCEPT ![t] = review]
       /\ final = "succeeded" /\ t \in Writers \cup Verified =>
            review = "APPROVE" /\ <<"review.result", t>> \in IdsOf(messages)
  /\ terminal' = [terminal EXCEPT ![t] = last]

CallsNext(t, messages, last) ==
  /\ \/ /\ stage[t] = "entering" /\ stage' = [stage EXCEPT ![t] = "working"]
        /\ last = <<"task.assigned", t>> /\ IdsOf(messages) = {last}
     \/ /\ stage[t] = "working" /\ stage' = [stage EXCEPT ![t] = "reviewing"]
        /\ last = <<"review.request", t>>
        /\ IdsOf(messages) = {<<"task.result", t>>, last}
  /\ UNCHANGED <<result, verdict, terminal>>

TaskSays(r, t) ==
  /\ stage[t] \in Active
  /\ \E messages, last :
       /\ Saying(r, t, messages, last) /\ last \in Ids
       /\ Publish(r, messages)
       /\ trace' = [trace EXCEPT ![t] = last]
       /\ Returns(t, messages, last) \/ CallsNext(t, messages, last)
  /\ \E over \in {overage[r], TRUE} : overage' = [overage EXCEPT ![r] = over]
  /\ UNCHANGED <<phase, status>>

(* A returned record, after one of the batches a task may say. *)
LEMMA ReturnSays ==
  ASSUME NEW r, NEW t \in Tasks, NEW final \in Results, NEW review \in {"APPROVE", "REJECT", None},
         NEW messages, NEW last, Saying(r, t, messages, last), last \in Ids,
         final = "succeeded" /\ t \in Writers \cup Verified =>
           review = "APPROVE" /\ <<"review.result", t>> \in IdsOf(messages),
         Return(r, t, final, review, messages, last),
         \E over \in {overage[r], TRUE} : overage' = [overage EXCEPT ![r] = over],
         stage[t] \in Active
  PROVE  TaskSays(r, t)
BY DEF Return, Returns, TaskSays

(* A failed task says task.failed after what it has published already. *)
LEMMA FailedSays ==
  ASSUME SaidInv, NEW r \in Runs, NEW t \in TasksOf(r),
         NEW final \in {"failed", "refused"},
         stage[t] \in Active, trace[t] \in Ids,
         \E over \in {overage[r], TRUE} : overage' = [overage EXCEPT ![r] = over]
  PROVE  /\ ReturnFailed(r, t, final, <<>>, trace[t]) => TaskSays(r, t)
         /\ \A type \in UnsaidByTask(stage[t]) \ {"task.failed"} :
              LET m == Message(type, t, trace[t])
              IN  ReturnFailed(r, t, final, <<m>>, m.id) => TaskSays(r, t)
         /\ \A one, two \in UnsaidByTask(stage[t]) \ {"task.failed"} :
              LET m == Message(one, t, trace[t])
                  n == Message(two, t, <<one, t>>)
              IN  one # two /\ ReturnFailed(r, t, final, <<m, n>>, n.id) => TaskSays(r, t)
<1>1. /\ trace[t] \in Published(r) /\ "task.failed" \in UnsaidByTask(stage[t])
      /\ t \in Tasks /\ t \in Runs \cup Tasks
  BY UnsaidTypes, OwnTasks DEF SaidInv, Active, TaskTypes
<1>2. final \in Results /\ final # "succeeded" /\ None \in {"APPROVE", "REJECT", None}
  BY DEF Results
<1>3. /\ <<"task.failed", t>> \in Ids
      /\ \A type \in UnsaidByTask(stage[t]) : type \in Types /\ <<type, t>> \in Ids
  BY <1>1, UnsaidTypes DEF Ids, TaskTypes
<1>4. \A type, cause : Message(type, t, cause).id = <<type, t>>
  BY DEF Message
<1>5. \A type \in Types, cause \in Ids : Message(type, t, cause) \in Messages
  BY <1>1, MessageTypes
<1>6. ASSUME ReturnFailed(r, t, final, <<>>, trace[t]) PROVE TaskSays(r, t)
  <2> DEFINE m == Message("task.failed", t, trace[t])
  <2>1. Saying(r, t, <<m>>, <<"task.failed", t>>)
    BY <1>1, SayOne
  <2>2. Append(<<>>, m) = <<m>>
    BY <1>1, <1>3, <1>5, BatchOfOne
  <2>3. Return(r, t, final, None, <<m>>, <<"task.failed", t>>)
    BY <1>6, <2>2 DEF ReturnFailed
  <2> QED
    BY <1>1, <1>2, <1>3, <2>1, <2>3, ReturnSays
<1>7. ASSUME NEW type \in UnsaidByTask(stage[t]) \ {"task.failed"},
             ReturnFailed(r, t, final, <<Message(type, t, trace[t])>>,
                          Message(type, t, trace[t]).id)
      PROVE  TaskSays(r, t)
  <2> DEFINE m == Message(type, t, trace[t])
             n == Message("task.failed", t, <<type, t>>)
  <2>1. Saying(r, t, <<m, n>>, <<"task.failed", t>>)
    BY <1>1, SayTwo
  <2>2. m \in Messages /\ n \in Messages /\ m.id = <<type, t>>
    BY <1>1, <1>3, <1>4, <1>5
  <2>3. Append(<<m>>, n) = <<m, n>>
    BY <2>2, BatchOfTwo
  <2>4. Return(r, t, final, None, <<m, n>>, <<"task.failed", t>>)
    BY <1>7, <2>2, <2>3 DEF ReturnFailed
  <2> QED
    BY <1>1, <1>2, <1>3, <2>1, <2>4, ReturnSays
<1>8. ASSUME NEW one \in UnsaidByTask(stage[t]) \ {"task.failed"},
             NEW two \in UnsaidByTask(stage[t]) \ {"task.failed"}, one # two,
             ReturnFailed(r, t, final, <<Message(one, t, trace[t]), Message(two, t, <<one, t>>)>>,
                          Message(two, t, <<one, t>>).id)
      PROVE  TaskSays(r, t)
  <2> DEFINE m == Message(one, t, trace[t])
             n == Message(two, t, <<one, t>>)
             o == Message("task.failed", t, <<two, t>>)
  <2>1. Saying(r, t, <<m, n, o>>, <<"task.failed", t>>)
    BY <1>1, <1>8, SayThree
  <2>2. m \in Messages /\ n \in Messages /\ o \in Messages /\ n.id = <<two, t>>
    BY <1>1, <1>3, <1>4, <1>5
  <2>3. Append(<<m, n>>, o) = <<m, n, o>>
    BY <2>2, AppendToTwo
  <2>4. Return(r, t, final, None, <<m, n, o>>, <<"task.failed", t>>)
    BY <1>8, <2>2, <2>3 DEF ReturnFailed
  <2> QED
    BY <1>1, <1>2, <1>3, <2>1, <2>4, ReturnSays
<1> QED
  BY <1>6, <1>7, <1>8

(* The steps of a task that publish. *)
LEMMA EnterSays ==
  ASSUME TypeOK, SaidInv, TraceInv, NEW r \in Runs, NEW t \in TasksOf(r), Enter(r, t)
  PROVE  TaskSays(r, t)
<1> DEFINE m == Message("task.assigned", t, <<"plan.created", r>>)
<1>1. /\ stage[t] = "entering" /\ stage[t] \in Active
      /\ trace[t] = <<"plan.created", r>> /\ trace[t] \in Ids
      /\ trace[t] \in Published(r)
  <2>1. stage[t] = "entering" /\ stage[t] \in Active
    BY DEF Enter, Active
  <2>2. trace[t] = <<"plan.created", r>> /\ trace[t] \in Published(r)
    BY <2>1 DEF TraceInv, SaidInv
  <2>3. <<"plan.created", r>> \in Ids
    BY DEF Ids, Types
  <2> QED
    BY <2>1, <2>2, <2>3
<1>2. \E over \in {overage[r], TRUE} : overage' = [overage EXCEPT ![r] = over]
  BY DEF Enter, TypeOK
<1>3. /\ "task.assigned" \in UnsaidByTask(stage[t]) \ {"task.failed"}
      /\ t \in Tasks /\ t \in Runs \cup Tasks
      /\ m.id = <<"task.assigned", t>> /\ m.id \in Ids
  BY <1>1, UnsaidTypes, OwnTasks DEF TaskTypes, Message, Ids, Types
<1>4. CASE ReturnFailed(r, t, "failed", <<>>, trace[t])
  BY <1>1, <1>2, <1>4, FailedSays
<1>5. CASE ReturnFailed(r, t, "refused", <<m>>, m.id)
  BY <1>1, <1>2, <1>3, <1>5, FailedSays
<1>6. CASE Call(r, t, "working", <<m>>)
  <2>1. Saying(r, t, <<m>>, m.id)
    BY <1>1, <1>3, SayOne
  <2>2. m \in Messages
    BY <1>1, <1>3, UnsaidTypes DEF Message, Messages, Ids
  <2>3. Last(<<m>>) = m /\ IdsOf(<<m>>) = {m.id}
    BY <2>2, BatchOfOne
  <2>4. /\ Publish(r, <<m>>) /\ trace' = [trace EXCEPT ![t] = m.id]
        /\ CallsNext(t, <<m>>, m.id) /\ UNCHANGED <<phase, status>>
    BY <1>1, <1>3, <1>6, <2>3 DEF Call, CallsNext
  <2> QED
    BY <1>1, <1>2, <1>3, <2>1, <2>4 DEF TaskSays
<1> QED
  BY <1>4, <1>5, <1>6 DEF Enter

LEMMA EndWorkSays ==
  ASSUME TypeOK, SaidInv, TraceInv, NEW r \in Runs, NEW t \in TasksOf(r), EndWork(r, t)
  PROVE  TaskSays(r, t)
<1> DEFINE m == Message("task.result", t, <<"task.assigned", t>>)
           n == Message("review.request", t, <<"task.result", t>>)
<1>1. /\ stage[t] = "working" /\ stage[t] \in Active
      /\ trace[t] = <<"task.assigned", t>> /\ trace[t] \in Published(r)
      /\ t \in Tasks /\ t \in Runs \cup Tasks
  BY OwnTasks DEF EndWork, Active, TraceInv, SaidInv
<1>2. /\ trace[t] \in Ids
      /\ m.id = <<"task.result", t>> /\ m.id \in Ids
      /\ n.id = <<"review.request", t>> /\ n.id \in Ids
  BY <1>1 DEF Message, Ids, Types
<1>3. \E over \in {overage[r], TRUE} : overage' = [overage EXCEPT ![r] = over]
  BY DEF EndWork, CallEnds
<1>4. /\ "task.result" \in UnsaidByTask(stage[t]) \ {"task.failed"}
      /\ "review.request" \in UnsaidByTask(stage[t]) \ {"task.failed"}
      /\ "task.result" # "review.request"
  BY <1>1, UnsaidTypes DEF TaskTypes
<1>5. /\ Saying(r, t, <<m>>, m.id) /\ Saying(r, t, <<m, n>>, n.id)
      /\ m \in Messages /\ n \in Messages
  <2>1. Saying(r, t, <<m>>, <<"task.result", t>>)
    BY <1>1, <1>2, <1>4, SayOne
  <2>2. Saying(r, t, <<m, n>>, <<"review.request", t>>)
    BY <1>1, <1>2, <1>4, SayTwo
  <2>3. m \in Messages /\ n \in Messages
    BY <1>1, <1>2 DEF Message, Messages
  <2> QED
    BY <1>2, <2>1, <2>2, <2>3
<1>6. ASSUME NEW error \in CallErrors, ReturnFailed(r, t, ErrorResult(error), <<>>, trace[t])
      PROVE  TaskSays(r, t)
  <2>1. ErrorResult(error) \in {"failed", "refused"}
    BY DEF ErrorResult
  <2> QED
    BY <1>1, <1>2, <1>3, <1>6, <2>1, FailedSays
<1>7. ASSUME NEW final \in {"blocked", "failed"}, Return(r, t, final, None, <<m>>, m.id)
      PROVE  TaskSays(r, t)
  <2>1. final \in Results /\ final # "succeeded" /\ None \in {"APPROVE", "REJECT", None}
    BY DEF Results
  <2> QED
    BY <1>1, <1>2, <1>3, <1>5, <1>7, <2>1, ReturnSays
<1>8. CASE ~NeedsReview(t) /\ Return(r, t, "succeeded", None, <<m>>, m.id)
  <2>1. "succeeded" \in Results /\ t \notin Writers \cup Verified /\ None \in {"APPROVE", "REJECT", None}
    BY <1>8 DEF Results, NeedsReview
  <2> QED
    BY <1>1, <1>2, <1>3, <1>5, <1>8, <2>1, ReturnSays
<1>9. CASE ReturnFailed(r, t, "failed", <<m>>, m.id)
  BY <1>1, <1>2, <1>3, <1>4, <1>9, FailedSays
<1>10. CASE ReturnFailed(r, t, "refused", <<m, n>>, n.id)
  BY <1>1, <1>2, <1>3, <1>4, <1>10, FailedSays
<1>11. CASE Call(r, t, "reviewing", <<m, n>>)
  <2>1. Last(<<m, n>>) = n /\ IdsOf(<<m, n>>) = {m.id, n.id}
    BY <1>5, BatchOfTwo
  <2>2. /\ Publish(r, <<m, n>>) /\ trace' = [trace EXCEPT ![t] = n.id]
        /\ CallsNext(t, <<m, n>>, n.id) /\ UNCHANGED <<phase, status>>
    BY <1>1, <1>2, <1>11, <2>1 DEF Call, CallsNext
  <2> QED
    BY <1>1, <1>2, <1>3, <1>5, <2>2 DEF TaskSays
<1> QED
  BY <1>6, <1>7, <1>8, <1>9, <1>10, <1>11 DEF EndWork

LEMMA EndReviewSays ==
  ASSUME TypeOK, SaidInv, TraceInv, NEW r \in Runs, NEW t \in TasksOf(r), EndReview(r, t)
  PROVE  TaskSays(r, t)
<1> DEFINE m == Message("review.result", t, <<"review.request", t>>)
<1>1. /\ stage[t] = "reviewing" /\ stage[t] \in Active
      /\ trace[t] = <<"review.request", t>> /\ trace[t] \in Published(r)
      /\ t \in Tasks /\ t \in Runs \cup Tasks
  BY OwnTasks DEF EndReview, Active, TraceInv, SaidInv
<1>2. trace[t] \in Ids /\ m.id = <<"review.result", t>> /\ m.id \in Ids
  BY <1>1 DEF Message, Ids, Types
<1>3. \E over \in {overage[r], TRUE} : overage' = [overage EXCEPT ![r] = over]
  BY DEF EndReview, CallEnds
<1>4. "review.result" \in UnsaidByTask(stage[t])
  BY <1>1, UnsaidTypes
<1>5. Saying(r, t, <<m>>, m.id) /\ IdsOf(<<m>>) = {m.id}
  <2>1. Saying(r, t, <<m>>, <<"review.result", t>>)
    BY <1>1, <1>2, <1>4, SayOne
  <2>2. m \in Messages
    BY <1>1, <1>2 DEF Message, Messages
  <2> QED
    BY <1>2, <2>1, <2>2, BatchOfOne
<1>6. ASSUME NEW error \in CallErrors, ReturnFailed(r, t, ErrorResult(error), <<>>, trace[t])
      PROVE  TaskSays(r, t)
  <2>1. ErrorResult(error) \in {"failed", "refused"}
    BY DEF ErrorResult
  <2> QED
    BY <1>1, <1>2, <1>3, <1>6, <2>1, FailedSays
<1>7. CASE Return(r, t, "succeeded", "APPROVE", <<m>>, m.id)
  <2>1. "succeeded" \in Results /\ "APPROVE" \in {"APPROVE", "REJECT", None}
    BY DEF Results
  <2>2. <<"review.result", t>> \in IdsOf(<<m>>)
    BY <1>2, <1>5
  <2> QED
    BY <1>1, <1>2, <1>3, <1>5, <1>7, <2>1, <2>2, ReturnSays
<1>8. CASE Return(r, t, "rejected", "REJECT", <<m>>, m.id)
  <2>1. "rejected" \in Results /\ "REJECT" \in {"APPROVE", "REJECT", None}
    BY DEF Results
  <2> QED
    BY <1>1, <1>2, <1>3, <1>5, <1>8, <2>1, ReturnSays
<1> QED
  BY <1>6, <1>7, <1>8 DEF EndReview

-------------------------------------------------------------------------------
(* A batch of messages is added to the history of run r. *)
Said(r, messages) ==
  /\ messages \in Seq(Messages) /\ Publish(r, messages)
  /\ \/ history[r] = <<>> /\ InCausalOrder(messages)
     \/ history[r] # <<>> /\ Follows(messages, history[r])

LEMMA SaidKeeps ==
  ASSUME history \in [Runs -> Seq(Messages)], CausesPrecede,
         NEW r \in Runs, NEW messages, Said(r, messages)
  PROVE  /\ history' \in [Runs -> Seq(Messages)]
         /\ CausesPrecede'
         /\ history'[r] = history[r] \o messages
         /\ Published(r)' = Published(r) \cup IdsOf(messages)
         /\ \A s \in Runs \ {r} : history'[s] = history[s] /\ Published(s)' = Published(s)
<1>1. /\ history[r] \in Seq(Messages) /\ messages \in Seq(Messages)
      /\ history' = [history EXCEPT ![r] = history[r] \o messages]
  BY DEF Said, Publish
<1>2. history[r] \o messages \in Seq(Messages)
  BY <1>1, ConcatProperties
<1>3. history'[r] = history[r] \o messages /\ \A s \in Runs \ {r} : history'[s] = history[s]
  BY <1>1
<1>4. IdsOf(history[r] \o messages) = IdsOf(history[r]) \cup IdsOf(messages)
  BY <1>1, Extended
<1>5. InCausalOrder(history[r] \o messages)
  <2>1. CASE history[r] = <<>> /\ InCausalOrder(messages)
    <3>1. history[r] \o messages = messages
      BY <1>1, <2>1, ConcatEmptySeq
    <3> QED
      BY <2>1, <3>1
  <2>2. CASE history[r] # <<>> /\ Follows(messages, history[r])
    BY <1>1, <2>2, OrderKept DEF CausesPrecede
  <2> QED
    BY <2>1, <2>2 DEF Said
<1>6. CausesPrecede'
  BY <1>3, <1>5 DEF CausesPrecede
<1>7. /\ Published(r)' = Published(r) \cup IdsOf(messages)
      /\ \A s \in Runs \ {r} : Published(s)' = Published(s)
  BY <1>3, <1>4 DEF Published, IdsOf
<1> QED
  BY <1>1, <1>2, <1>3, <1>6, <1>7

(* run begins. *)
LEMMA BeginSays ==
  ASSUME SaidInv, NEW r \in Runs, Begin(r)
  PROVE  \E messages :
           /\ Said(r, messages)
           /\ \/ /\ phase' = [phase EXCEPT ![r] = "entering"]
                 /\ IdsOf(messages) = {<<"run.request", r>>}
              \/ /\ phase' = [phase EXCEPT ![r] = "executing"]
                 /\ IdsOf(messages) = {<<"run.request", r>>, <<"plan.created", r>>}
<1> DEFINE m == Message("run.request", r, None)
           n == Message("plan.created", r, <<"run.request", r>>)
<1>1. history[r] = <<>>
  BY DEF Begin, SaidInv
<1>2. /\ m \in Messages /\ m.id = <<"run.request", r>>
      /\ n \in Messages /\ n.id = <<"plan.created", r>>
      /\ n.cause = m.id /\ n.causes = {} /\ n.id # m.id
  BY DEF Message, Messages, Ids, Types
<1>3. CASE Publish(r, <<m>>) /\ phase' = [phase EXCEPT ![r] = "entering"]
  <2> DEFINE b == <<m>>
  <2>1. /\ b \in Seq(Messages) /\ DOMAIN b = 1 .. 1 /\ b[1] = m
        /\ IdsOf(b) = {m.id}
    BY <1>2, BatchOfOne
  <2> HIDE DEF b
  <2>2. InCausalOrder(b)
    BY <1>2, <2>1 DEF InCausalOrder
  <2>3. Said(r, b)
    BY <1>1, <1>3, <2>1, <2>2 DEF Said, b
  <2> QED
    BY <1>2, <1>3, <2>1, <2>3
<1>4. CASE Publish(r, <<m, n>>) /\ phase' = [phase EXCEPT ![r] = "executing"]
  <2> DEFINE b == <<m, n>>
  <2>1. /\ b \in Seq(Messages) /\ DOMAIN b = 1 .. 2 /\ b[1] = m /\ b[2] = n
        /\ IdsOf(b) = {m.id, n.id}
    BY <1>2, BatchOfTwo
  <2> HIDE DEF b
  <2>2. InCausalOrder(b)
    <3>1. /\ {b[j].id : j \in 1 .. 1 - 1} = {}
          /\ {b[j].id : j \in 1 .. 2 - 1} = {m.id}
      BY <2>1
    <3>2. m.id[1] = "run.request" /\ {n.cause} \cup n.causes \subseteq {m.id}
      BY <1>2
    <3>3. \A i \in 1 .. 2 : i = 1 \/ i = 2
      OBVIOUS
    <3> QED
      BY <1>2, <2>1, <3>1, <3>2, <3>3 DEF InCausalOrder
  <2>3. Said(r, b)
    BY <1>1, <1>4, <2>1, <2>2 DEF Said, b
  <2> QED
    BY <1>2, <1>4, <2>1, <2>3
<1> QED
  BY <1>3, <1>4 DEF Begin

(* A run that has begun, and goes on or ends. *)
LEMMA RunSays ==
  ASSUME SaidInv, NEW r \in Runs, phase[r] # "new",
         NEW m \in Messages, m.id \notin Published(r),
         {m.cause} \cup m.causes \subseteq Published(r)
  PROVE  /\ Publish(r, <<m>>) => Said(r, <<m>>) /\ IdsOf(<<m>>) = {m.id}
         /\ \A n \in Messages :
              /\ n.id # m.id /\ n.id \notin Published(r)
              /\ {n.cause} \cup n.causes \subseteq {m.id}
              /\ Publish(r, <<m, n>>)
              => Said(r, <<m, n>>) /\ IdsOf(<<m, n>>) = {m.id, n.id}
<1>1. history[r] # <<>> /\ Published(r) = IdsOf(history[r])
  <2>1. Published(r) = IdsOf(history[r])
    BY DEF Published, IdsOf
  <2>2. <<"run.request", r>> \in Published(r)
    BY DEF SaidInv
  <2>3. IdsOf(<<>>) = {}
    BY DEF IdsOf
  <2> QED
    BY <2>1, <2>2, <2>3
<1>2. ASSUME Publish(r, <<m>>) PROVE Said(r, <<m>>) /\ IdsOf(<<m>>) = {m.id}
  <2>1. Follows(<<m>>, history[r])
    BY <1>1, FollowsOne
  <2> QED
    BY <1>1, <1>2, <2>1, BatchOfOne DEF Said
<1>3. ASSUME NEW n \in Messages, n.id # m.id, n.id \notin Published(r),
             {n.cause} \cup n.causes \subseteq {m.id}, Publish(r, <<m, n>>)
      PROVE  Said(r, <<m, n>>) /\ IdsOf(<<m, n>>) = {m.id, n.id}
  <2>1. Follows(<<m, n>>, history[r])
    BY <1>1, <1>3, FollowsTwo
  <2>2. <<m, n>> \in Seq(Messages) /\ IdsOf(<<m, n>>) = {m.id, n.id}
    BY BatchOfTwo
  <2> QED
    BY <1>1, <1>3, <2>1, <2>2 DEF Said
<1> QED
  BY <1>2, <1>3

(* The planner's plan is announced. *)
LEMMA PlanSays ==
  ASSUME SaidInv, NEW r \in Runs, phase[r] = "planning",
         Publish(r, <<Message("plan.created", r, <<"run.request", r>>)>>)
  PROVE  \E messages : Said(r, messages) /\ IdsOf(messages) = {<<"plan.created", r>>}
<1> DEFINE m == Message("plan.created", r, <<"run.request", r>>)
<1>1. /\ m \in Messages /\ m.id = <<"plan.created", r>>
      /\ m.cause = <<"run.request", r>> /\ m.causes = {}
  BY DEF Message, Messages, Ids, Types
<1>2. m.id \notin Published(r) /\ <<"run.request", r>> \in Published(r)
  BY <1>1 DEF SaidInv, UnsaidByRun
<1>3. phase[r] # "new"
  OBVIOUS
<1> HIDE DEF m
<1>4. Said(r, <<m>>) /\ IdsOf(<<m>>) = {m.id}
  BY <1>1, <1>2, <1>3, RunSays DEF m
<1> QED
  BY <1>1, <1>4

(* A run that never got its plan ends. *)
LEMMA CompleteSays ==
  ASSUME SaidInv, NEW r \in Runs, phase[r] \in {"entering", "planning"}, NEW final,
         Complete(r, final, <<>>)
  PROVE  \E messages : Said(r, messages) /\ IdsOf(messages) = {<<"run.completed", r>>}
<1> DEFINE m == Message("run.completed", r, <<"run.request", r>>)
<1>1. /\ m \in Messages /\ m.id = <<"run.completed", r>>
      /\ m.cause = <<"run.request", r>> /\ m.causes = {}
  BY DEF Message, Messages, Ids, Types
<1>2. m.id \notin Published(r) /\ <<"run.request", r>> \in Published(r)
  BY <1>1 DEF SaidInv, UnsaidByRun
<1>3. phase[r] # "new"
  OBVIOUS
<1>4. Publish(r, <<m>>)
  <2>1. Append(<<>>, m) = <<m>>
    BY <1>1, BatchOfOne
  <2> QED
    BY <2>1 DEF Complete
<1> HIDE DEF m
<1>5. Said(r, <<m>>) /\ IdsOf(<<m>>) = {m.id}
  BY <1>1, <1>2, <1>3, <1>4, RunSays
<1> QED
  BY <1>1, <1>5

(* The records of a run that returned are announced, and the run ends. *)
LEMMA FinishSays ==
  ASSUME TypeOK, SaidInv, TerminalIsLast, NEW r \in Runs, Finish(r)
  PROVE  \E messages :
           /\ Said(r, messages)
           /\ IdsOf(messages) = {<<"run.aggregated", r>>, <<"run.completed", r>>}
<1> DEFINE m == [id     |-> <<"run.aggregated", r>>,
                 cause  |-> <<"plan.created", r>>,
                 causes |-> {terminal[t] : t \in TasksOf(r)}]
           n == Message("run.completed", r, <<"run.aggregated", r>>)
<1>1. phase[r] = "executing" /\ \A t \in TasksOf(r) : stage[t] = "returned"
  BY DEF Finish, Gathered
<1>2. \A t \in TasksOf(r) : terminal[t] \in Published(r)
  BY <1>1 DEF TerminalIsLast, LastAbout, Published
<1>3. Published(r) \subseteq Ids
  <2>1. history[r] \in Seq(Messages)
    BY DEF TypeOK
  <2>2. \A i \in DOMAIN history[r] : history[r][i] \in Messages
    BY <2>1, LenProperties
  <2> QED
    BY <2>2 DEF Published, Messages
<1>4. {terminal[t] : t \in TasksOf(r)} \subseteq Published(r)
  BY <1>2
<1>5. /\ m \in Messages /\ m.id = <<"run.aggregated", r>>
      /\ m.cause = <<"plan.created", r>> /\ m.causes = {terminal[t] : t \in TasksOf(r)}
  BY <1>3, <1>4 DEF Messages, Ids, Types
<1>6. /\ n \in Messages /\ n.id = <<"run.completed", r>>
      /\ n.cause = m.id /\ n.causes = {} /\ n.id # m.id
  BY DEF Message, Messages, Ids, Types
<1>7. /\ m.id \notin Published(r) /\ n.id \notin Published(r)
      /\ <<"plan.created", r>> \in Published(r)
  BY <1>1, <1>5, <1>6 DEF SaidInv, UnsaidByRun
<1>8. Publish(r, <<m, n>>)
  <2>1. Append(<<m>>, n) = <<m, n>> /\ Last(<<m>>) = m
    BY <1>5, <1>6, BatchOfTwo, BatchOfOne
  <2>2. <<m>> # <<>>
    OBVIOUS
  <2>3. Last(<<m>>).id = <<"run.aggregated", r>>
    BY <1>5, <2>1
  <2>4. Complete(r, FinalStatus(r), <<m>>)
    BY DEF Finish
  <2> HIDE DEF m
  <2>5. Publish(r, Append(<<m>>, Message("run.completed", r, <<"run.aggregated", r>>)))
    BY <2>2, <2>3, <2>4 DEF Complete
  <2> QED
    BY <2>1, <2>5
<1>9. {m.cause} \cup m.causes \subseteq Published(r) /\ {n.cause} \cup n.causes \subseteq {m.id}
  BY <1>4, <1>5, <1>6, <1>7
<1> HIDE DEF m, n
<1>10. Said(r, <<m, n>>) /\ IdsOf(<<m, n>>) = {m.id, n.id}
  BY <1>1, <1>5, <1>6, <1>7, <1>8, <1>9, RunSays
<1> QED
  BY <1>5, <1>6, <1>10

-------------------------------------------------------------------------------
(* Blocking.  A nonempty set of numbers has a least one, a sequence a first*)
(* element of a set it meets, and a listing of a set lists all of it.      *)
LEMMA LeastNumber ==
  ASSUME NEW S \in SUBSET Nat, S # {}
  PROVE  Min(S) \in S
BY LeastMember DEF Min

LEMMA FirstIsOne ==
  ASSUME NEW S, NEW seq \in Seq(S), NEW T, T \cap ToSet(seq) # {}
  PROVE  FirstOf(seq, T) \in T
<1> DEFINE I == {i \in DOMAIN seq : seq[i] \in T}
<1>1. I # {} /\ I \in SUBSET Nat
  <2>1. DOMAIN seq = 1 .. Len(seq) /\ Len(seq) \in Nat
    BY LenProperties
  <2> QED
    BY <2>1 DEF ToSet
<1> HIDE DEF I
<1>2. Min(I) \in I
  BY <1>1, LeastNumber
<1> QED
  BY <1>2 DEF I, FirstOf

LEMMA ListsAll ==
  ASSUME NEW S, IsFiniteSet(S), NEW list \in SetToSeqs(S)
  PROVE  /\ list \in Seq(S) /\ DOMAIN list = 1 .. Len(list) /\ Len(list) \in Nat
         /\ \A i, j \in DOMAIN list : list[i] = list[j] => i = j
         /\ \A x \in S : \E i \in DOMAIN list : list[i] = x
<1> DEFINE n == Cardinality(S)
<1>1. n \in Nat
  BY FS_CardinalityType
<1>2. /\ list \in [1 .. n -> S]
      /\ \A i, j \in 1 .. n : i # j => list[i] # list[j]
  BY DEF SetToSeqs
<1>3. IsFiniteSet(1 .. n) /\ Cardinality(1 .. n) = n
  BY <1>1, FS_Interval
<1> HIDE DEF n
<1>4. list \in Seq(S) /\ DOMAIN list = 1 .. n /\ Len(list) = n
  BY <1>1, <1>2
<1>5. list \in Injection(1 .. n, S)
  BY <1>2 DEF Injection, IsInjective
<1>6. list \in Surjection(1 .. n, S)
  <2>1. Cardinality(1 .. n) = Cardinality(S)
    BY <1>3 DEF n
  <2> QED
    BY <1>5, <2>1, FS_Injection
<1>7. \A x \in S : \E i \in 1 .. n : list[i] = x
  BY <1>6 DEF Surjection
<1> QED
  BY <1>1, <1>2, <1>4, <1>7

LEMMA PlannedTasks ==
  ASSUME NEW r \in Runs
  PROVE  /\ IsFiniteSet(TasksOf(r))
         /\ \A t \in TasksOf(r) : /\ DependsOn[t] \in Seq(TasksOf(r))
                                  /\ ToSet(DependsOn[t]) \subseteq TasksOf(r)
<1>1. /\ Plan[r] \in Seq(TasksOf(r))
      /\ \A t \in TasksOf(r) : DependsOn[t] \in Seq(TasksOf(r))
  BY PlanAssumption
<1>2. IsFiniteSet(TasksOf(r))
  <2> DEFINE n == Len(Plan[r])
             D == 1 .. n
  <2>1. n \in Nat /\ DOMAIN Plan[r] = D /\ Plan[r] \in [D -> TasksOf(r)]
    BY <1>1, LenProperties
  <2>2. IsFiniteSet(D)
    BY <2>1, FS_Interval
  <2> HIDE DEF D
  <2>3. \A t \in TasksOf(r) : \E i \in D : Plan[r][i] = t
    BY <2>1 DEF TasksOf, ToSet
  <2>4. Plan[r] \in Surjection(D, TasksOf(r))
    BY <2>1, <2>3 DEF Surjection
  <2> QED
    BY <2>2, <2>4, FS_Surjection
<1>3. ASSUME NEW t \in TasksOf(r) PROVE ToSet(DependsOn[t]) \subseteq TasksOf(r)
  <2>1. \A i \in DOMAIN DependsOn[t] : DependsOn[t][i] \in TasksOf(r)
    BY <1>1, LenProperties
  <2> QED
    BY <2>1 DEF ToSet
<1> QED
  BY <1>1, <1>2, <1>3

LEMMA PublishedIds ==
  ASSUME TypeOK, NEW r \in Runs
  PROVE  Published(r) \subseteq Ids /\ Published(r) = IdsOf(history[r])
<1>1. history[r] \in Seq(Messages)
  BY DEF TypeOK
<1>2. \A i \in DOMAIN history[r] : history[r][i] \in Messages
  BY <1>1, LenProperties
<1> QED
  BY <1>2 DEF Published, Messages, IdsOf

(* The tasks of one pass, each blocked on dependencies that returned       *)
(* without success or were blocked before it in the same pass.             *)
LEMMA BlockSays ==
  ASSUME TypeOK, PhaseInv, SaidInv, TerminalIsLast, NEW r \in Runs, Block(r)
  PROVE  \E messages :
           /\ Said(r, messages)
           /\ IdsOf(messages) = {"task.blocked"} \X Blocked(r)
           /\ \A t \in Blocked(r) : LastAbout(messages, t, <<"task.blocked", t>>)
<1> DEFINE B == Blocked(r)
<1>1. PICK blocked \in InOrderOf(Plan[r], B) :
        LET failed(i) == FailedDependencies(blocked[i], {blocked[j] : j \in 1 .. i - 1})
        IN  Publish(r, [i \in DOMAIN blocked |->
              [id     |-> <<"task.blocked", blocked[i]>>,
               cause  |-> terminal'[FirstOf(DependsOn[blocked[i]], failed(i))],
               causes |-> {terminal'[d] : d \in failed(i)}]])
  BY DEF Block
<1> DEFINE before(i) == {blocked[j] : j \in 1 .. i - 1}
           failed(i) == FailedDependencies(blocked[i], before(i))
           id(i) == <<"task.blocked", blocked[i]>>
           batch == [i \in DOMAIN blocked |->
                       [id     |-> id(i),
                        cause  |-> terminal'[FirstOf(DependsOn[blocked[i]], failed(i))],
                        causes |-> {terminal'[d] : d \in failed(i)}]]
<1>2. Publish(r, batch)
  BY <1>1
<1>3. /\ phase[r] = "executing" /\ B # {} /\ B \subseteq TasksOf(r)
      /\ \A t \in B : stage[t] = "pending" /\ FailedDependencies(t, {}) # {}
      /\ terminal' = [t \in Tasks |-> IF t \in B THEN <<"task.blocked", t>> ELSE terminal[t]]
  BY DEF Block, Gathered, Blocked
<1>4. IsFiniteSet(B)
  BY <1>3, PlannedTasks, FS_Subset
<1>5. /\ DOMAIN blocked = 1 .. Len(blocked) /\ Len(blocked) \in Nat
      /\ \A i \in DOMAIN blocked : blocked[i] \in B
      /\ \A i, j \in DOMAIN blocked : blocked[i] = blocked[j] => i = j
      /\ \A t \in B : \E i \in DOMAIN blocked : blocked[i] = t
  <2> HIDE DEF B
  <2>1. blocked \in SetToSeqs(B)
    BY <1>1 DEF InOrderOf
  <2>2. /\ blocked \in Seq(B) /\ DOMAIN blocked = 1 .. Len(blocked) /\ Len(blocked) \in Nat
        /\ \A i, j \in DOMAIN blocked : blocked[i] = blocked[j] => i = j
        /\ \A t \in B : \E i \in DOMAIN blocked : blocked[i] = t
    BY <1>4, <2>1, ListsAll
  <2>3. \A i \in DOMAIN blocked : blocked[i] \in B
    BY <2>2, LenProperties
  <2> QED
    BY <2>2, <2>3
<1>6. TasksOf(r) \subseteq Tasks
  BY OwnTasks
<1> HIDE DEF B, batch
<1>7. ASSUME NEW i \in DOMAIN blocked
      PROVE  LET known == Published(r) \cup {id(j) : j \in 1 .. i - 1}
             IN  /\ FirstOf(DependsOn[blocked[i]], failed(i)) \in failed(i)
                 /\ \A d \in failed(i) : terminal'[d] \in known
                 /\ known \subseteq Ids
  <2> DEFINE t == blocked[i]
             known == Published(r) \cup {id(j) : j \in 1 .. i - 1}
  <2>1. t \in TasksOf(r) /\ DependsOn[t] \in Seq(TasksOf(r)) /\ failed(i) \subseteq TasksOf(r)
    BY <1>3, <1>5, PlannedTasks DEF FailedDependencies
  <2>2. failed(i) \cap ToSet(DependsOn[t]) # {}
    BY <1>3, <1>5 DEF FailedDependencies
  <2>3. FirstOf(DependsOn[t], failed(i)) \in failed(i)
    <3> HIDE DEF failed, t
    <3> QED
      BY <2>1, <2>2, FirstIsOne
  <2>4. \A j \in 1 .. i - 1 : j \in DOMAIN blocked
    BY <1>5
  <2>5. ASSUME NEW d \in failed(i) PROVE terminal'[d] \in known
    <3>1. CASE d \in before(i)
      <4>1. PICK j \in 1 .. i - 1 : d = blocked[j]
        BY <3>1
      <4>2. d \in B /\ d \in Tasks
        BY <1>3, <1>5, <1>6, <2>4, <4>1
      <4>3. terminal'[d] = id(j)
        BY <1>3, <4>1, <4>2
      <4> QED
        BY <4>3
    <3>2. CASE result[d] \notin {None, "succeeded"}
      <4>1. d \in TasksOf(r) /\ stage[d] = "returned" /\ d \in Tasks
        BY <1>6, <2>1, <3>2 DEF PhaseInv
      <4>2. d \notin B
        BY <1>3, <4>1
      <4>3. terminal'[d] = terminal[d] /\ terminal[d] \in Published(r)
        BY <1>3, <4>1, <4>2 DEF TerminalIsLast, LastAbout, Published
      <4> QED
        BY <4>3
    <3> QED
      BY <3>1, <3>2 DEF FailedDependencies
  <2>6. known \subseteq Ids
    <3>1. \A u \in B : <<"task.blocked", u>> \in Ids
      BY <1>3, <1>6 DEF Ids, Types
    <3> QED
      BY <1>5, <2>4, <3>1, PublishedIds
  <2> QED
    BY <2>3, <2>5, <2>6
<1>8. /\ DOMAIN batch = 1 .. Len(blocked)
      /\ \A i \in DOMAIN blocked :
           /\ batch[i] \in Messages /\ batch[i].id = id(i)
           /\ {batch[i].cause} \cup batch[i].causes
                \subseteq Published(r) \cup {id(j) : j \in 1 .. i - 1}
  <2>1. DOMAIN batch = 1 .. Len(blocked)
    BY <1>5 DEF batch
  <2>2. ASSUME NEW i \in DOMAIN blocked
        PROVE  /\ batch[i] \in Messages /\ batch[i].id = id(i)
               /\ {batch[i].cause} \cup batch[i].causes
                    \subseteq Published(r) \cup {id(j) : j \in 1 .. i - 1}
    <3> DEFINE known == Published(r) \cup {id(j) : j \in 1 .. i - 1}
               first == terminal'[FirstOf(DependsOn[blocked[i]], failed(i))]
               all == {terminal'[d] : d \in failed(i)}
    <3>1. first \in known /\ all \subseteq known /\ known \subseteq Ids
      BY <1>7
    <3>2. id(i) \in Ids
      BY <1>3, <1>5, <1>6 DEF Ids, Types
    <3>3. batch[i] = [id |-> id(i), cause |-> first, causes |-> all]
      BY DEF batch
    <3> HIDE DEF first, all, known, id
    <3>4. batch[i] \in Messages /\ batch[i].id = id(i) /\ batch[i].cause = first
          /\ batch[i].causes = all
      BY <3>1, <3>2, <3>3 DEF Messages
    <3> QED
      BY <3>1, <3>4 DEF known
  <2> QED
    BY <2>1, <2>2
<1>9. batch \in Seq(Messages) /\ Len(batch) = Len(blocked) /\ DOMAIN batch = DOMAIN blocked
  <2> HIDE DEF id
  <2>1. batch \in [1 .. Len(blocked) -> Messages]
    <3>1. batch = [i \in DOMAIN batch |-> batch[i]]
      BY DEF batch
    <3> QED
      BY <1>5, <1>8, <3>1
  <2> QED
    BY <1>5, <1>8, <2>1
<1>10. IdsOf(batch) = {"task.blocked"} \X B
  <2>1. \A i \in DOMAIN blocked : batch[i].id = <<"task.blocked", blocked[i]>>
    BY <1>8
  <2>2. ASSUME NEW x \in IdsOf(batch) PROVE x \in {"task.blocked"} \X B
    <3>1. PICK i \in DOMAIN blocked : x = batch[i].id
      BY <1>9, <2>2 DEF IdsOf
    <3>2. x = <<"task.blocked", blocked[i]>> /\ blocked[i] \in B
      BY <1>5, <2>1, <3>1
    <3> QED
      BY <3>2
  <2>3. ASSUME NEW t \in B PROVE <<"task.blocked", t>> \in IdsOf(batch)
    <3>1. PICK i \in DOMAIN blocked : blocked[i] = t
      BY <1>5
    <3>2. batch[i].id = <<"task.blocked", t>>
      BY <2>1, <3>1
    <3> HIDE DEF batch
    <3> QED
      BY <1>9, <3>2 DEF IdsOf
  <2> QED
    BY <2>2, <2>3
<1>11. Follows(batch, history[r])
  <2> SUFFICES ASSUME NEW i \in DOMAIN batch
               PROVE  LET known == IdsOf(history[r]) \cup {batch[j].id : j \in 1 .. i - 1}
                      IN  /\ batch[i].id \notin known
                          /\ {batch[i].cause} \cup batch[i].causes \subseteq known
    BY DEF Follows
  <2>1. \A j \in 1 .. i - 1 : j \in DOMAIN blocked /\ j # i
    BY <1>5, <1>9
  <2>2. {batch[j].id : j \in 1 .. i - 1} = {id(j) : j \in 1 .. i - 1}
    BY <1>8, <2>1
  <2>3. id(i) \notin Published(r)
    <3>1. stage[blocked[i]] = "pending" /\ blocked[i] \in TasksOf(r)
      BY <1>3, <1>5, <1>9
    <3>2. "task.blocked" \in UnsaidByTask("pending")
      BY UnsaidTypes DEF TaskTypes
    <3> QED
      BY <3>1, <3>2 DEF SaidInv
  <2>4. \A j \in 1 .. i - 1 : id(j) # id(i)
    BY <1>5, <1>9, <2>1
  <2> HIDE DEF id
  <2> QED
    BY <1>8, <1>9, <2>2, <2>3, <2>4, PublishedIds
<1>12. history[r] # <<>>
  <2>1. <<"run.request", r>> \in Published(r)
    BY <1>3 DEF SaidInv
  <2> QED
    BY <2>1 DEF Published
<1>13. Said(r, batch)
  BY <1>2, <1>9, <1>11, <1>12 DEF Said
<1>14. ASSUME NEW t \in B PROVE LastAbout(batch, t, <<"task.blocked", t>>)
  <2>1. PICK i \in DOMAIN blocked : blocked[i] = t
    BY <1>5
  <2>2. \A j \in DOMAIN blocked : batch[j].id = <<"task.blocked", blocked[j]>>
    BY <1>8
  <2>3. \A j \in i + 1 .. Len(batch) : j \in DOMAIN blocked /\ j # i
    BY <1>5, <1>9
  <2>4. \A j \in i + 1 .. Len(batch) : batch[j].id[2] # t
    BY <1>5, <2>1, <2>2, <2>3
  <2> QED
    BY <1>9, <2>1, <2>2, <2>4 DEF LastAbout
<1> QED
  BY <1>10, <1>13, <1>14 DEF B

-------------------------------------------------------------------------------
(* The inductive invariant, and the steps of a run by their effect.        *)
Inv == /\ TypeOK /\ PhaseInv /\ TraceInv /\ LeaseInv
       /\ SaidInv /\ CausesPrecede /\ TerminalIsLast /\ StatusInv
       /\ DependenciesSucceeded /\ NoUnreviewedSuccess

Act(r) == Advance(r) \/ Cancel(r) \/ \E t \in TasksOf(r) : Step(r, t)

TaskStep(r, t, messages, last) ==
  /\ stage[t] \in Active /\ phase[r] = "executing"
  /\ Said(r, messages) /\ Chained(messages, trace[t])
  /\ IdsOf(messages) \subseteq UnsaidByTask(stage[t]) \X {t}
  /\ LastAbout(messages, t, last) /\ last \in IdsOf(messages) /\ last \in Ids
  /\ trace' = [trace EXCEPT ![t] = last]
  /\ Returns(t, messages, last) \/ CallsNext(t, messages, last)
  /\ \E over \in {overage[r], TRUE} : overage' = [overage EXCEPT ![r] = over]
  /\ UNCHANGED <<phase, status>>

RunStep(r, from, to, types) ==
  /\ phase[r] = from /\ phase' = [phase EXCEPT ![r] = to]
  /\ \E messages : Said(r, messages) /\ IdsOf(messages) = types \X {r}
  /\ \E over \in {overage[r], TRUE} : overage' = [overage EXCEPT ![r] = over]
  /\ UNCHANGED taskVars

RunGoesOn(r) ==
  /\ UNCHANGED status
  /\ \/ RunStep(r, "new", "entering", {"run.request"})
     \/ RunStep(r, "new", "executing", {"run.request", "plan.created"})
     \/ RunStep(r, "planning", "executing", {"plan.created"})

RunEnds(r) ==
  \E final \in Statuses :
    /\ status' = [status EXCEPT ![r] = final]
    /\ \/ \E from \in {"entering", "planning"} : RunStep(r, from, "done", {"run.completed"})
       \/ /\ RunStep(r, "executing", "done", {"run.aggregated", "run.completed"})
          /\ \A t \in TasksOf(r) : stage[t] = "returned"
          /\ final = FinalStatus(r) /\ UNCHANGED overage

Silent == UNCHANGED <<overage, status, history, result, verdict, terminal>>

PhaseOnly(r) ==
  /\ \/ UNCHANGED phase
     \/ /\ phase[r] = "entering"
        /\ \E to \in {"planning", "cancelled"} : phase' = [phase EXCEPT ![r] = to]
     \/ phase[r] = "planning" /\ phase' = [phase EXCEPT ![r] = "stopping"]
     \/ phase[r] = "stopping" /\ phase' = [phase EXCEPT ![r] = "cancelled"]
     \/ Gathered(r) /\ phase' = [phase EXCEPT ![r] = "cancelled"]
  /\ Silent /\ UNCHANGED <<stage, trace>>

CancelWave(r) ==
  /\ phase[r] = "executing" /\ phase' = [phase EXCEPT ![r] = "cancelling"]
  /\ stage' = [t \in Tasks |->
                 IF t \in TasksOf(r) /\ stage[t] \in Active THEN "stopping" ELSE stage[t]]
  /\ Silent /\ UNCHANGED trace

StopTask(r, t) ==
  /\ stage[t] = "stopping" /\ stage' = [stage EXCEPT ![t] = "stopped"]
  /\ phase' = [phase EXCEPT ![r] = "cancelled"]
  /\ Silent /\ UNCHANGED trace

LEMMA TaskSteps ==
  ASSUME Inv, NEW r \in Runs, NEW t \in TasksOf(r), TaskSays(r, t)
  PROVE  \E messages, last : TaskStep(r, t, messages, last)
<1>1. PICK messages, last :
        /\ Saying(r, t, messages, last) /\ last \in Ids
        /\ Publish(r, messages)
        /\ trace' = [trace EXCEPT ![t] = last]
        /\ Returns(t, messages, last) \/ CallsNext(t, messages, last)
  BY DEF TaskSays
<1>2. /\ stage[t] \in Active /\ UNCHANGED <<phase, status>>
      /\ \E over \in {overage[r], TRUE} : overage' = [overage EXCEPT ![r] = over]
  BY DEF TaskSays
<1>3. phase[r] = "executing"
  BY <1>2 DEF Inv, PhaseInv
<1>4. /\ messages \in Seq(Messages) /\ messages # <<>>
      /\ Follows(messages, history[r]) /\ messages[Len(messages)].id = last
      /\ IdsOf(messages) \subseteq UnsaidByTask(stage[t]) \X {t}
      /\ Chained(messages, trace[t])
  BY <1>1 DEF Saying
<1>5. history[r] # <<>>
  <2>1. <<"run.request", r>> \in Published(r)
    BY <1>3 DEF Inv, SaidInv
  <2> QED
    BY <2>1 DEF Published
<1>6. Said(r, messages)
  BY <1>1, <1>4, <1>5 DEF Said
<1>7. last \in IdsOf(messages)
  <2>1. Len(messages) \in Nat /\ DOMAIN messages = 1 .. Len(messages) /\ Len(messages) # 0
    BY <1>4, LenProperties, EmptySeq
  <2>2. Len(messages) \in DOMAIN messages
    BY <2>1
  <2> QED
    BY <1>4, <2>2 DEF IdsOf
<1>8. last[2] = t
  BY <1>4, <1>7
<1>9. LastAbout(messages, t, last)
  BY <1>4, <1>8, LastOfBatch
<1>10. TaskStep(r, t, messages, last)
  BY <1>1, <1>2, <1>3, <1>4, <1>6, <1>7, <1>9 DEF TaskStep
<1> QED
  BY <1>10

LEMMA RunSteps ==
  ASSUME Inv, NEW r \in Runs
  PROVE  /\ Begin(r) => RunGoesOn(r)
         /\ EnterPlanning(r) => PhaseOnly(r) \/ RunEnds(r)
         /\ EndPlanning(r) => RunGoesOn(r) \/ RunEnds(r)
         /\ Finish(r) => RunEnds(r)
<1>1. /\ TypeOK /\ SaidInv /\ TerminalIsLast /\ overage \in [Runs -> BOOLEAN]
      /\ [overage EXCEPT ![r] = overage[r]] = overage
  BY DEF Inv, TypeOK
<1>2. ASSUME Begin(r) PROVE RunGoesOn(r)
  <2>1. PICK messages :
          /\ Said(r, messages)
          /\ \/ /\ phase' = [phase EXCEPT ![r] = "entering"]
                /\ IdsOf(messages) = {<<"run.request", r>>}
             \/ /\ phase' = [phase EXCEPT ![r] = "executing"]
                /\ IdsOf(messages) = {<<"run.request", r>>, <<"plan.created", r>>}
    BY <1>1, <1>2, BeginSays
  <2>2. /\ {<<"run.request", r>>} = {"run.request"} \X {r}
        /\ {<<"run.request", r>>, <<"plan.created", r>>}
             = {"run.request", "plan.created"} \X {r}
    OBVIOUS
  <2>3. phase[r] = "new" /\ UNCHANGED <<overage, status, taskVars>>
    BY <1>2 DEF Begin
  <2>4. \E over \in {overage[r], TRUE} : overage' = [overage EXCEPT ![r] = over]
    BY <1>1, <2>3
  <2> QED
    BY <2>1, <2>2, <2>3, <2>4 DEF RunGoesOn, RunStep
<1>3. ASSUME NEW from \in {"entering", "planning"}, phase[r] = from, NEW final \in Statuses,
             Complete(r, final, <<>>), UNCHANGED taskVars,
             \E over \in {overage[r], TRUE} : overage' = [overage EXCEPT ![r] = over]
      PROVE  RunEnds(r)
  <2>1. PICK messages : Said(r, messages) /\ IdsOf(messages) = {<<"run.completed", r>>}
    BY <1>1, <1>3, CompleteSays
  <2>2. {<<"run.completed", r>>} = {"run.completed"} \X {r}
    OBVIOUS
  <2>3. /\ phase' = [phase EXCEPT ![r] = "done"]
        /\ status' = [status EXCEPT ![r] = final]
    BY <1>3 DEF Complete
  <2>4. RunStep(r, from, "done", {"run.completed"})
    BY <1>3, <2>1, <2>2, <2>3 DEF RunStep
  <2> QED
    BY <2>3, <2>4 DEF RunEnds
<1>4. ASSUME EnterPlanning(r) PROVE PhaseOnly(r) \/ RunEnds(r)
  <2>1. phase[r] = "entering" /\ UNCHANGED <<overage, taskVars>>
    BY <1>4 DEF EnterPlanning
  <2>2. CASE phase' = [phase EXCEPT ![r] = "planning"] /\ UNCHANGED <<status, history>>
    BY <2>1, <2>2 DEF PhaseOnly, Silent, taskVars
  <2>3. CASE Complete(r, "budget_exhausted", <<>>)
    <3>1. \E over \in {overage[r], TRUE} : overage' = [overage EXCEPT ![r] = over]
      BY <1>1, <2>1
    <3>2. "budget_exhausted" \in Statuses
      BY DEF Statuses
    <3> QED
      BY <1>3, <2>1, <2>3, <3>1, <3>2
  <2> QED
    BY <1>4, <2>2, <2>3 DEF EnterPlanning
<1>5. ASSUME EndPlanning(r) PROVE RunGoesOn(r) \/ RunEnds(r)
  <2>1. phase[r] = "planning" /\ UNCHANGED taskVars
    BY <1>5 DEF EndPlanning
  <2>2. PICK end \in CallErrors \cup {"value"} :
       /\ CallEnds(r, end)
       /\ \/ /\ end = "value"
             /\ Publish(r, <<Message("plan.created", r, <<"run.request", r>>)>>)
             /\ phase' = [phase EXCEPT ![r] = "executing"]
             /\ UNCHANGED status
          \/ /\ end # "value"
             /\ Complete(r, IF end = "refused" THEN "budget_exhausted" ELSE "failed", <<>>)
    BY <1>5 DEF EndPlanning
  <2>3. \E over \in {overage[r], TRUE} : overage' = [overage EXCEPT ![r] = over]
    BY <2>2 DEF CallEnds
  <2>4. CASE end = "value"
    <3>1. PICK messages : Said(r, messages) /\ IdsOf(messages) = {<<"plan.created", r>>}
      BY <1>1, <2>1, <2>2, <2>4, PlanSays
    <3>2. {<<"plan.created", r>>} = {"plan.created"} \X {r}
      OBVIOUS
    <3> QED
      BY <2>1, <2>2, <2>3, <2>4, <3>1, <3>2 DEF RunGoesOn, RunStep
  <2>5. CASE end # "value"
    <3> DEFINE final == IF end = "refused" THEN "budget_exhausted" ELSE "failed"
    <3>1. final \in Statuses /\ Complete(r, final, <<>>)
      BY <2>2, <2>5 DEF Statuses
    <3> HIDE DEF final
    <3> QED
      BY <1>3, <2>1, <2>3, <3>1
  <2> QED
    BY <2>4, <2>5
<1>6. ASSUME Finish(r) PROVE RunEnds(r)
  <2>1. PICK messages :
           /\ Said(r, messages)
           /\ IdsOf(messages) = {<<"run.aggregated", r>>, <<"run.completed", r>>}
    BY <1>1, <1>6, FinishSays
  <2>2. {<<"run.aggregated", r>>, <<"run.completed", r>>}
          = {"run.aggregated", "run.completed"} \X {r}
    OBVIOUS
  <2>3. /\ phase[r] = "executing" /\ UNCHANGED <<overage, taskVars>>
        /\ \A t \in TasksOf(r) : stage[t] = "returned"
        /\ phase' = [phase EXCEPT ![r] = "done"]
        /\ status' = [status EXCEPT ![r] = FinalStatus(r)]
    BY <1>6 DEF Finish, Gathered, Complete
  <2>4. \E over \in {overage[r], TRUE} : overage' = [overage EXCEPT ![r] = over]
    BY <1>1, <2>3
  <2>5. RunStep(r, "executing", "done", {"run.aggregated", "run.completed"})
    BY <2>1, <2>2, <2>3, <2>4 DEF RunStep
  <2>6. FinalStatus(r) \in Statuses
    BY DEF FinalStatus, Statuses
  <2> QED
    BY <2>3, <2>5, <2>6 DEF RunEnds
<1> QED
  BY <1>2, <1>4, <1>5, <1>6

LEMMA Steps ==
  ASSUME Inv, NEW r \in Runs, Act(r)
  PROVE  \/ \E t \in TasksOf(r) : \E messages, last : TaskStep(r, t, messages, last)
         \/ RunGoesOn(r) \/ RunEnds(r) \/ Block(r) \/ StartWave(r)
         \/ PhaseOnly(r) \/ CancelWave(r) \/ \E t \in TasksOf(r) : StopTask(r, t)
<1>1. TypeOK /\ SaidInv /\ TraceInv
  BY DEF Inv
<1>2. ASSUME NEW t \in TasksOf(r), Enter(r, t) \/ EndWork(r, t) \/ EndReview(r, t)
      PROVE  \E messages, last : TaskStep(r, t, messages, last)
  <2>1. TaskSays(r, t)
    BY <1>1, <1>2, EnterSays, EndWorkSays, EndReviewSays
  <2> QED
    BY <2>1, TaskSteps
<1>3. ASSUME NEW t \in TasksOf(r), Queue(t) PROVE PhaseOnly(r)
  BY <1>3 DEF Queue, PhaseOnly, Silent, runVars, taskVars
<1>4. ASSUME NEW t \in TasksOf(r), Stop(r, t) PROVE StopTask(r, t)
  BY <1>4 DEF Stop, StopTask, Silent
<1>5. ASSUME Cancel(r) PROVE PhaseOnly(r) \/ CancelWave(r)
  <2>1. Silent /\ UNCHANGED trace
    BY <1>5 DEF Cancel, Silent
  <2> QED
    BY <1>5, <2>1 DEF Cancel, PhaseOnly, CancelWave
<1>6. ASSUME StopPlanning(r) PROVE PhaseOnly(r)
  BY <1>6 DEF StopPlanning, PhaseOnly, Silent, taskVars
<1>7. Advance(r) => \/ Begin(r) \/ EnterPlanning(r) \/ EndPlanning(r) \/ StopPlanning(r)
                    \/ Block(r) \/ StartWave(r) \/ Finish(r)
  BY DEF Advance
<1>8. \A t : Step(r, t) => \/ Queue(t) \/ Enter(r, t) \/ EndWork(r, t) \/ EndReview(r, t)
                           \/ Stop(r, t)
  BY DEF Step
<1> QED
  BY <1>2, <1>3, <1>4, <1>5, <1>6, <1>7, <1>8, RunSteps DEF Act

(* A step of one run leaves the others alone. *)
Untouched(s) ==
  /\ phase'[s] = phase[s] /\ overage'[s] = overage[s] /\ status'[s] = status[s]
  /\ history'[s] = history[s]
  /\ \A t \in TasksOf(s) :
       /\ stage'[t] = stage[t] /\ result'[t] = result[t] /\ verdict'[t] = verdict[t]
       /\ trace'[t] = trace[t] /\ terminal'[t] = terminal[t]

LEMMA Domains ==
  ASSUME TypeOK
  PROVE  /\ DOMAIN phase = Runs /\ DOMAIN overage = Runs /\ DOMAIN status = Runs
         /\ DOMAIN history = Runs /\ DOMAIN stage = Tasks /\ DOMAIN result = Tasks
         /\ DOMAIN verdict = Tasks /\ DOMAIN trace = Tasks /\ DOMAIN terminal = Tasks
BY DEF TypeOK

LEMMA BatchKept ==
  ASSUME Inv, NEW r \in Runs, NEW messages, Said(r, messages)
  PROVE  /\ history' \in [Runs -> Seq(Messages)] /\ CausesPrecede'
         /\ history'[r] = history[r] \o messages
         /\ Published(r)' = Published(r) \cup IdsOf(messages)
         /\ \A s \in Runs \ {r} : history'[s] = history[s]
BY SaidKeeps DEF Inv, TypeOK

LEMMA Others ==
  ASSUME Inv, NEW r \in Runs, Act(r)
  PROVE  \A s \in Runs \ {r} : Untouched(s)
<1> SUFFICES ASSUME NEW s \in Runs \ {r} PROVE Untouched(s)
  OBVIOUS
<1>1. \A t \in TasksOf(s) : t \notin TasksOf(r) /\ t \in Tasks
  BY OwnTasks
<1>2. /\ DOMAIN phase = Runs /\ DOMAIN overage = Runs /\ DOMAIN status = Runs
      /\ DOMAIN stage = Tasks /\ DOMAIN result = Tasks
      /\ DOMAIN verdict = Tasks /\ DOMAIN trace = Tasks /\ DOMAIN terminal = Tasks
  BY Domains DEF Inv
<1>3. ASSUME NEW t \in TasksOf(r), NEW messages, NEW last, TaskStep(r, t, messages, last)
      PROVE  Untouched(s)
  <2>1. history'[s] = history[s]
    BY <1>3, BatchKept DEF TaskStep
  <2>2. overage'[s] = overage[s] /\ UNCHANGED <<phase, status>>
    BY <1>2, <1>3 DEF TaskStep
  <2>3. \A u \in TasksOf(s) : trace'[u] = trace[u]
    BY <1>1, <1>2, <1>3 DEF TaskStep
  <2>4. \A u \in TasksOf(s) : /\ stage'[u] = stage[u] /\ result'[u] = result[u]
                              /\ verdict'[u] = verdict[u] /\ terminal'[u] = terminal[u]
    BY <1>1, <1>2, <1>3 DEF TaskStep, Returns, CallsNext
  <2> QED
    BY <2>1, <2>2, <2>3, <2>4 DEF Untouched
<1>4. ASSUME NEW from, NEW to, NEW types, RunStep(r, from, to, types),
             NEW final, status' = [status EXCEPT ![r] = final] \/ UNCHANGED status
      PROVE  Untouched(s)
  <2>1. history'[s] = history[s]
    BY <1>4, BatchKept DEF RunStep
  <2>2. overage'[s] = overage[s] /\ phase'[s] = phase[s] /\ status'[s] = status[s]
    BY <1>2, <1>4 DEF RunStep
  <2> QED
    BY <1>4, <2>1, <2>2 DEF Untouched, RunStep, taskVars
<1>5. CASE Block(r)
  <2>1. history'[s] = history[s]
    BY <1>5, BlockSays, BatchKept DEF Inv
  <2>2. UNCHANGED <<phase, overage, status, verdict, trace>>
    BY <1>5 DEF Block
  <2>3. \A t \in TasksOf(s) : t \notin Blocked(r)
    BY <1>1 DEF Blocked
  <2>4. \A t \in TasksOf(s) : /\ stage'[t] = stage[t] /\ result'[t] = result[t]
                              /\ terminal'[t] = terminal[t]
    BY <1>1, <1>5, <2>3 DEF Block
  <2> QED
    BY <2>1, <2>2, <2>4 DEF Untouched
<1>6. CASE StartWave(r)
  <2>1. \A t \in TasksOf(s) : t \notin Ready(r)
    BY <1>1 DEF Ready
  <2> QED
    BY <1>1, <1>6, <2>1 DEF StartWave, Untouched, runVars
<1>7. CASE PhaseOnly(r)
  BY <1>2, <1>7 DEF PhaseOnly, Silent, Untouched
<1>8. CASE CancelWave(r)
  BY <1>1, <1>2, <1>8 DEF CancelWave, Silent, Untouched
<1>9. ASSUME NEW t \in TasksOf(r), StopTask(r, t) PROVE Untouched(s)
  BY <1>1, <1>2, <1>9 DEF StopTask, Silent, Untouched
<1> QED
  BY <1>3, <1>4, <1>5, <1>6, <1>7, <1>8, <1>9, Steps DEF RunGoesOn, RunEnds

(* What a task's step does to the tasks of its run other than itself. *)
LEMMA OtherTasks ==
  ASSUME Inv, NEW r \in Runs, NEW t \in TasksOf(r), NEW messages, NEW last,
         TaskStep(r, t, messages, last), NEW u \in TasksOf(r), u # t
  PROVE  /\ stage'[u] = stage[u] /\ result'[u] = result[u] /\ verdict'[u] = verdict[u]
         /\ trace'[u] = trace[u] /\ terminal'[u] = terminal[u]
<1>1. /\ DOMAIN stage = Tasks /\ DOMAIN result = Tasks /\ DOMAIN verdict = Tasks
      /\ DOMAIN trace = Tasks /\ DOMAIN terminal = Tasks /\ u \in Tasks
  BY Domains, OwnTasks DEF Inv
<1>2. trace'[u] = trace[u]
  BY <1>1 DEF TaskStep
<1>3. CASE Returns(t, messages, last)
  BY <1>1, <1>2, <1>3 DEF Returns
<1>4. CASE CallsNext(t, messages, last)
  BY <1>1, <1>2, <1>4 DEF CallsNext
<1> QED
  BY <1>3, <1>4 DEF TaskStep

(* What it does to the task itself. *)
BecomesReturned(t, messages, last) ==
  /\ stage'[t] = "returned" /\ terminal'[t] = last
  /\ result'[t] \in Results /\ verdict'[t] \in {"APPROVE", "REJECT", None}
  /\ result'[t] = "succeeded" /\ t \in Writers \cup Verified =>
       verdict'[t] = "APPROVE" /\ <<"review.result", t>> \in IdsOf(messages)
BecomesWorking(t, messages, last) ==
  /\ stage[t] = "entering" /\ stage'[t] = "working"
  /\ last = <<"task.assigned", t>> /\ IdsOf(messages) = {last}
  /\ result'[t] = result[t] /\ verdict'[t] = verdict[t]
BecomesReviewing(t, messages, last) ==
  /\ stage[t] = "working" /\ stage'[t] = "reviewing"
  /\ last = <<"review.request", t>>
  /\ IdsOf(messages) = {<<"task.result", t>>, last}
  /\ result'[t] = result[t] /\ verdict'[t] = verdict[t]

LEMMA TaskItself ==
  ASSUME Inv, NEW r \in Runs, NEW t \in TasksOf(r), NEW messages, NEW last,
         TaskStep(r, t, messages, last)
  PROVE  /\ trace'[t] = last /\ phase'[r] = "executing"
         /\ \/ BecomesReturned(t, messages, last)
            \/ BecomesWorking(t, messages, last)
            \/ BecomesReviewing(t, messages, last)
<1>1. /\ DOMAIN stage = Tasks /\ DOMAIN result = Tasks /\ DOMAIN verdict = Tasks
      /\ DOMAIN trace = Tasks /\ DOMAIN terminal = Tasks /\ t \in Tasks
  BY Domains, OwnTasks DEF Inv
<1>2. trace'[t] = last /\ phase'[r] = "executing"
  BY <1>1 DEF TaskStep
<1>3. CASE Returns(t, messages, last)
  BY <1>1, <1>2, <1>3 DEF Returns, BecomesReturned
<1>4. CASE CallsNext(t, messages, last)
  BY <1>1, <1>2, <1>4 DEF CallsNext, BecomesWorking, BecomesReviewing
<1> QED
  BY <1>3, <1>4 DEF TaskStep

LEMMA PhaseItself ==
  ASSUME Inv, NEW r \in Runs
  PROVE  /\ \A from, to, types : RunStep(r, from, to, types) =>
              phase[r] = from /\ phase'[r] = to /\ UNCHANGED taskVars
         /\ PhaseOnly(r) =>
              /\ \/ <<phase[r], phase'[r]>> \in
                      {<<"entering", "planning">>, <<"entering", "cancelled">>,
                       <<"planning", "stopping">>, <<"stopping", "cancelled">>}
                 \/ phase'[r] = phase[r]
                 \/ Gathered(r) /\ phase'[r] = "cancelled"
              /\ UNCHANGED taskVars
         /\ CancelWave(r) => phase'[r] = "cancelling"
         /\ \A t : StopTask(r, t) => phase'[r] = "cancelled"
<1>1. r \in DOMAIN phase
  BY Domains DEF Inv
<1>2. ASSUME NEW from, NEW to, NEW types, RunStep(r, from, to, types)
      PROVE  phase[r] = from /\ phase'[r] = to /\ UNCHANGED taskVars
  BY <1>1, <1>2 DEF RunStep
<1>3. ASSUME PhaseOnly(r)
      PROVE  /\ \/ <<phase[r], phase'[r]>> \in
                     {<<"entering", "planning">>, <<"entering", "cancelled">>,
                      <<"planning", "stopping">>, <<"stopping", "cancelled">>}
                \/ phase'[r] = phase[r]
                \/ Gathered(r) /\ phase'[r] = "cancelled"
             /\ UNCHANGED taskVars
  <2>1. UNCHANGED taskVars
    BY <1>3 DEF PhaseOnly, Silent, taskVars
  <2> QED
    BY <1>1, <1>3, <2>1 DEF PhaseOnly
<1>4. CancelWave(r) => phase'[r] = "cancelling"
  BY <1>1 DEF CancelWave
<1>5. \A t : StopTask(r, t) => phase'[r] = "cancelled"
  BY <1>1 DEF StopTask
<1> QED
  BY <1>2, <1>3, <1>4, <1>5

-------------------------------------------------------------------------------
(* Every step of a run keeps each part of the invariant.                   *)
LEMMA PhaseKept ==
  ASSUME Inv, NEW r \in Runs, Act(r)
  PROVE  PhaseInv'
<1> SUFFICES ASSUME NEW s \in Runs, NEW u \in TasksOf(s)
             PROVE  /\ stage'[u] \in Active => phase'[s] = "executing"
                    /\ stage'[u] \in {"stopping", "stopped"} =>
                         phase'[s] \in {"cancelling", "cancelled"}
                    /\ phase'[s] \in {"new", "entering", "planning", "stopping"} =>
                         stage'[u] = "pending"
                    /\ result'[u] # None <=> stage'[u] = "returned"
  BY DEF PhaseInv
<1>1. /\ stage[u] \in Active => phase[s] = "executing"
      /\ stage[u] \in {"stopping", "stopped"} => phase[s] \in {"cancelling", "cancelled"}
      /\ phase[s] \in {"new", "entering", "planning", "stopping"} => stage[u] = "pending"
      /\ result[u] # None <=> stage[u] = "returned"
  BY DEF Inv, PhaseInv
<1>2. /\ u \in Tasks /\ DOMAIN stage = Tasks /\ DOMAIN result = Tasks
      /\ None \notin Results /\ "blocked" \in Results
  BY OwnTasks, Domains, NoneAssumption DEF Inv, Results
<1>3. CASE s # r
  BY <1>1, <1>3, Others DEF Untouched
<1>4. CASE s = r /\ \E t \in TasksOf(r) : \E messages, last : TaskStep(r, t, messages, last)
  <2>0. PICK t \in TasksOf(r) : \E messages, last : TaskStep(r, t, messages, last)
    BY <1>4
  <2>1. PICK messages, last : TaskStep(r, t, messages, last)
    BY <2>0
  <2>2. phase'[r] = "executing" /\ phase[r] = "executing" /\ stage[t] \in Active
    BY <2>1, TaskItself DEF TaskStep
  <2>3. CASE u = t
    BY <1>1, <1>2, <1>4, <2>1, <2>2, <2>3, TaskItself
      DEF Active, BecomesReturned, BecomesWorking, BecomesReviewing
  <2>4. CASE u # t
    BY <1>1, <1>4, <2>1, <2>2, <2>4, OtherTasks
  <2> QED
    BY <2>3, <2>4
<1>5. CASE s = r /\ (RunGoesOn(r) \/ RunEnds(r))
  BY <1>1, <1>5, PhaseItself DEF RunGoesOn, RunEnds, taskVars, Active
<1>6. CASE s = r /\ Block(r)
  <2>1. phase' = phase /\ phase[r] = "executing"
    BY <1>6 DEF Block, Gathered
  <2>2. /\ stage'[u] = IF u \in Blocked(r) THEN "returned" ELSE stage[u]
        /\ result'[u] = IF u \in Blocked(r) THEN "blocked" ELSE result[u]
    BY <1>2, <1>6 DEF Block
  <2> QED
    BY <1>1, <1>2, <1>6, <2>1, <2>2 DEF Active
<1>7. CASE s = r /\ StartWave(r)
  <2>1. UNCHANGED <<phase, result>> /\ phase[r] = "executing"
    BY <1>7 DEF StartWave, Gathered, runVars
  <2>2. stage'[u] = IF u \in Ready(r) THEN "entering" ELSE stage[u]
    BY <1>2, <1>7 DEF StartWave
  <2>3. u \in Ready(r) => stage[u] = "pending"
    BY DEF Ready
  <2> QED
    BY <1>1, <1>7, <2>1, <2>2, <2>3 DEF Active
<1>8. CASE s = r /\ PhaseOnly(r)
  BY <1>1, <1>8, PhaseItself DEF taskVars, Gathered, Active
<1>9. CASE s = r /\ CancelWave(r)
  <2>1. phase'[r] = "cancelling" /\ phase[r] = "executing" /\ UNCHANGED result
    BY <1>9, PhaseItself DEF CancelWave, Silent
  <2>2. stage'[u] = IF stage[u] \in Active THEN "stopping" ELSE stage[u]
    BY <1>2, <1>9 DEF CancelWave
  <2> QED
    BY <1>1, <1>9, <2>1, <2>2 DEF Active
<1>10. CASE s = r /\ \E t \in TasksOf(r) : StopTask(r, t)
  <2>1. PICK t \in TasksOf(r) : StopTask(r, t)
    BY <1>10
  <2>2. phase'[r] = "cancelled" /\ UNCHANGED result /\ stage[t] = "stopping"
    BY <2>1, PhaseItself DEF StopTask, Silent
  <2>3. phase[r] \in {"cancelling", "cancelled"}
    BY <2>2 DEF Inv, PhaseInv
  <2>4. stage'[u] = IF u = t THEN "stopped" ELSE stage[u]
    BY <1>2, <2>1 DEF StopTask
  <2> QED
    BY <1>1, <1>10, <2>2, <2>3, <2>4 DEF Active
<1> QED
  BY <1>3, <1>4, <1>5, <1>6, <1>7, <1>8, <1>9, <1>10, Steps

LEMMA TraceKept ==
  ASSUME Inv, NEW r \in Runs, Act(r)
  PROVE  TraceInv'
<1> SUFFICES ASSUME NEW s \in Runs, NEW u \in TasksOf(s)
             PROVE  /\ stage'[u] = "entering" => trace'[u] = <<"plan.created", s>>
                    /\ stage'[u] = "working" => trace'[u] = <<"task.assigned", u>>
                    /\ stage'[u] = "reviewing" => trace'[u] = <<"review.request", u>>
                    /\ stage'[u] = "stopping" =>
                         trace'[u] \in {<<"plan.created", s>>, <<"task.assigned", u>>,
                                        <<"review.request", u>>}
  BY DEF TraceInv
<1>1. /\ stage[u] = "entering" => trace[u] = <<"plan.created", s>>
      /\ stage[u] = "working" => trace[u] = <<"task.assigned", u>>
      /\ stage[u] = "reviewing" => trace[u] = <<"review.request", u>>
      /\ stage[u] = "stopping" =>
           trace[u] \in {<<"plan.created", s>>, <<"task.assigned", u>>, <<"review.request", u>>}
  BY DEF Inv, TraceInv
<1>2. u \in Tasks /\ DOMAIN stage = Tasks /\ DOMAIN trace = Tasks
  BY OwnTasks, Domains DEF Inv
<1>3. CASE s # r
  BY <1>1, <1>3, Others DEF Untouched
<1>4. CASE s = r /\ \E t \in TasksOf(r) : \E messages, last : TaskStep(r, t, messages, last)
  <2>0. PICK t \in TasksOf(r) : \E messages, last : TaskStep(r, t, messages, last)
    BY <1>4
  <2>1. PICK messages, last : TaskStep(r, t, messages, last)
    BY <2>0
  <2>2. CASE u = t
    <3>1. /\ trace'[t] = last
          /\ \/ BecomesReturned(t, messages, last)
             \/ BecomesWorking(t, messages, last)
             \/ BecomesReviewing(t, messages, last)
      BY <2>1, TaskItself
    <3> QED
      BY <2>2, <3>1 DEF BecomesReturned, BecomesWorking, BecomesReviewing
  <2>3. CASE u # t
    BY <1>1, <1>4, <2>1, <2>3, OtherTasks
  <2> QED
    BY <2>2, <2>3
<1>5. CASE s = r /\ (RunGoesOn(r) \/ RunEnds(r) \/ PhaseOnly(r))
  BY <1>1, <1>5, PhaseItself DEF RunGoesOn, RunEnds, taskVars
<1>6. CASE s = r /\ Block(r)
  BY <1>1, <1>2, <1>6 DEF Block
<1>7. CASE s = r /\ StartWave(r)
  BY <1>1, <1>2, <1>7 DEF StartWave
<1>8. CASE s = r /\ CancelWave(r)
  BY <1>1, <1>2, <1>8 DEF CancelWave, Active
<1>9. CASE s = r /\ \E t \in TasksOf(r) : StopTask(r, t)
  BY <1>1, <1>2, <1>9 DEF StopTask
<1> QED
  BY <1>3, <1>4, <1>5, <1>6, <1>7, <1>8, <1>9, Steps

(* A batch about r or its tasks that were not silent about it. *)
LEMMA SaidKept ==
  ASSUME Inv, NEW r \in Runs, Act(r)
  PROVE  SaidInv'
<1> SUFFICES ASSUME NEW s \in Runs
             PROVE  /\ IF phase'[s] = "new" THEN history'[s] = <<>>
                                            ELSE <<"run.request", s>> \in Published(s)'
                    /\ phase'[s] \in {"executing", "cancelling"} =>
                         <<"plan.created", s>> \in Published(s)'
                    /\ \A type \in UnsaidByRun(phase'[s]) : <<type, s>> \notin Published(s)'
                    /\ \A t \in TasksOf(s) :
                         /\ \A type \in UnsaidByTask(stage'[t]) :
                              <<type, t>> \notin Published(s)'
                         /\ stage'[t] \in Active => trace'[t] \in Published(s)'
  BY DEF SaidInv
<1>1. /\ IF phase[s] = "new" THEN history[s] = <<>> ELSE <<"run.request", s>> \in Published(s)
      /\ phase[s] \in {"executing", "cancelling"} => <<"plan.created", s>> \in Published(s)
      /\ \A type \in UnsaidByRun(phase[s]) : <<type, s>> \notin Published(s)
      /\ \A t \in TasksOf(s) :
           /\ \A type \in UnsaidByTask(stage[t]) : <<type, t>> \notin Published(s)
           /\ stage[t] \in Active => trace[t] \in Published(s)
  BY DEF Inv, SaidInv
<1>2. /\ \A u \in TasksOf(r) : u \in Tasks /\ u # r
      /\ DOMAIN stage = Tasks /\ DOMAIN trace = Tasks
  BY OwnTasks, Domains DEF Inv
<1>3. history' = history => Published(r)' = Published(r)
  BY DEF Published
<1>4. CASE s # r
  <2>1. Published(s)' = Published(s) /\ Untouched(s)
    BY <1>4, Others DEF Published, Untouched
  <2> QED
    BY <1>1, <2>1 DEF Untouched
<1>5. CASE s = r /\ \E t \in TasksOf(r) : \E messages, last : TaskStep(r, t, messages, last)
  <2>0. PICK t \in TasksOf(r) : \E messages, last : TaskStep(r, t, messages, last)
    BY <1>5
  <2>1. PICK messages, last : TaskStep(r, t, messages, last)
    BY <2>0
  <2>2. /\ Published(r)' = Published(r) \cup IdsOf(messages)
        /\ \A id \in IdsOf(messages) : id[2] = t
        /\ last \in IdsOf(messages)
    BY <2>1, BatchKept DEF TaskStep
  <2>3. phase'[r] = "executing" /\ phase[r] = "executing"
    BY <2>1, TaskItself DEF TaskStep
  <2>4. \A type, u : u # t => (<<type, u>> \in Published(r)' <=> <<type, u>> \in Published(r))
    BY <2>2
  <2>5. ASSUME NEW u \in TasksOf(r), u # t
        PROVE  /\ \A type \in UnsaidByTask(stage'[u]) : <<type, u>> \notin Published(r)'
               /\ stage'[u] \in Active => trace'[u] \in Published(r)'
    <3>1. stage'[u] = stage[u] /\ trace'[u] = trace[u]
      BY <2>1, <2>5, OtherTasks
    <3> QED
      BY <1>1, <1>5, <2>2, <2>4, <2>5, <3>1
  <2>6. \A type \in UnsaidByTask(stage'[t]) : <<type, t>> \notin Published(r)'
    <3>1. CASE stage'[t] = "returned"
      BY <3>1, UnsaidTypes
    <3>2. CASE /\ stage[t] = "entering" /\ stage'[t] = "working"
               /\ IdsOf(messages) = {<<"task.assigned", t>>}
      <4>1. UnsaidByTask("working") = UnsaidByTask("entering") \ {"task.assigned"}
        BY UnsaidTypes
      <4> QED
        BY <1>1, <1>5, <2>2, <3>2, <4>1
    <3>3. CASE /\ stage[t] = "working" /\ stage'[t] = "reviewing"
               /\ IdsOf(messages) = {<<"task.result", t>>, <<"review.request", t>>}
      <4>1. UnsaidByTask("reviewing")
              \subseteq UnsaidByTask("working") \ {"task.result", "review.request"}
        BY UnsaidTypes DEF TaskTypes
      <4> QED
        BY <1>1, <1>5, <2>2, <3>3, <4>1
    <3>4. \/ BecomesReturned(t, messages, last)
          \/ BecomesWorking(t, messages, last)
          \/ BecomesReviewing(t, messages, last)
      BY <2>1, TaskItself
    <3> QED
      BY <3>1, <3>2, <3>3, <3>4 DEF BecomesReturned, BecomesWorking, BecomesReviewing
  <2>7. trace'[t] \in Published(r)'
    <3>1. trace'[t] = last
      BY <1>2, <2>1 DEF TaskStep
    <3> QED
      BY <2>2, <3>1
  <2>8. /\ <<"run.request", r>> \in Published(r)' /\ <<"plan.created", r>> \in Published(r)'
        /\ \A type \in UnsaidByRun("executing") : <<type, r>> \notin Published(r)'
    BY <1>1, <1>2, <1>5, <2>2, <2>3, <2>4
  <2> QED
    BY <1>5, <2>3, <2>5, <2>6, <2>7, <2>8
<1>6. ASSUME s = r, NEW from, NEW to, NEW types, RunStep(r, from, to, types),
             <<from, to, types>> \in
               {<<"new", "entering", {"run.request"}>>,
                <<"new", "executing", {"run.request", "plan.created"}>>,
                <<"planning", "executing", {"plan.created"}>>,
                <<"entering", "done", {"run.completed"}>>,
                <<"planning", "done", {"run.completed"}>>,
                <<"executing", "done", {"run.aggregated", "run.completed"}>>}
      PROVE  /\ IF phase'[s] = "new" THEN history'[s] = <<>>
                                     ELSE <<"run.request", s>> \in Published(s)'
             /\ phase'[s] \in {"executing", "cancelling"} =>
                  <<"plan.created", s>> \in Published(s)'
             /\ \A type \in UnsaidByRun(phase'[s]) : <<type, s>> \notin Published(s)'
             /\ \A t \in TasksOf(s) :
                  /\ \A type \in UnsaidByTask(stage'[t]) :
                       <<type, t>> \notin Published(s)'
                  /\ stage'[t] \in Active => trace'[t] \in Published(s)'
  <2>1. PICK messages : Said(r, messages) /\ IdsOf(messages) = types \X {r}
    BY <1>6 DEF RunStep
  <2>2. Published(r)' = Published(r) \cup (types \X {r})
    BY <2>1, BatchKept
  <2>3. phase[r] = from /\ phase'[r] = to /\ stage' = stage /\ trace' = trace
    BY <1>6, PhaseItself DEF taskVars
  <2>4. \A t \in TasksOf(r) : \A type :
          <<type, t>> \in Published(r)' <=> <<type, t>> \in Published(r)
    BY <1>2, <2>2
  <2>5. \A t \in TasksOf(r) :
          /\ \A type \in UnsaidByTask(stage'[t]) : <<type, t>> \notin Published(r)'
          /\ stage'[t] \in Active => trace'[t] \in Published(r)'
    BY <1>1, <1>6, <2>2, <2>3, <2>4
  <2>6. /\ to # "new" /\ <<"run.request", r>> \in Published(r)'
        /\ to \in {"executing", "cancelling"} => <<"plan.created", r>> \in Published(r)'
    BY <1>1, <1>6, <2>2, <2>3
  <2>7. \A type \in UnsaidByRun(to) : <<type, r>> \notin Published(r)'
    <3>1. from = "new" => Published(r) = {}
      BY <1>1, <1>6, <2>3 DEF Published
    <3>2. UnsaidByRun(to) \cap types = {}
      BY <1>6 DEF UnsaidByRun
    <3>3. from # "new" => UnsaidByRun(to) \subseteq UnsaidByRun(from)
      BY <1>6 DEF UnsaidByRun
    <3> QED
      BY <1>1, <1>6, <2>2, <2>3, <3>1, <3>2, <3>3
  <2> QED
    BY <1>6, <2>3, <2>5, <2>6, <2>7
<1>7. CASE s = r /\ Block(r)
  <2>1. PICK messages :
           /\ Said(r, messages)
           /\ IdsOf(messages) = {"task.blocked"} \X Blocked(r)
    BY <1>7, BlockSays DEF Inv
  <2>2. Published(r)' = Published(r) \cup ({"task.blocked"} \X Blocked(r))
    BY <2>1, BatchKept
  <2>3. phase' = phase /\ trace' = trace /\ phase[r] = "executing"
    BY <1>7 DEF Block, Gathered
  <2>4. Blocked(r) \subseteq TasksOf(r)
    BY DEF Blocked
  <2>5. \A type : <<type, r>> \in Published(r)' <=> <<type, r>> \in Published(r)
    BY <1>2, <2>2, <2>4
  <2>6. ASSUME NEW t \in TasksOf(r)
        PROVE  /\ \A type \in UnsaidByTask(stage'[t]) : <<type, t>> \notin Published(r)'
               /\ stage'[t] \in Active => trace'[t] \in Published(r)'
    <3>1. stage'[t] = IF t \in Blocked(r) THEN "returned" ELSE stage[t]
      BY <1>2, <1>7 DEF Block
    <3>2. CASE t \in Blocked(r)
      BY <3>1, <3>2, UnsaidTypes DEF Active
    <3>3. CASE t \notin Blocked(r)
      BY <1>1, <1>7, <2>2, <2>3, <3>1, <3>3
    <3> QED
      BY <3>2, <3>3
  <2> QED
    BY <1>1, <1>7, <2>2, <2>3, <2>5, <2>6
<1>8. CASE s = r /\ StartWave(r)
  <2>1. /\ phase' = phase /\ phase[r] = "executing" /\ Published(r)' = Published(r)
        /\ history' = history
    BY <1>3, <1>8 DEF StartWave, runVars, Gathered
  <2>2. ASSUME NEW t \in TasksOf(r)
        PROVE  /\ \A type \in UnsaidByTask(stage'[t]) : <<type, t>> \notin Published(r)
               /\ stage'[t] \in Active => trace'[t] \in Published(r)
    <3>1. CASE t \in Ready(r)
      <4>1. stage[t] = "pending" /\ stage'[t] = "entering" /\ trace'[t] = <<"plan.created", r>>
        BY <1>2, <1>8, <3>1 DEF StartWave, Ready
      <4>2. UnsaidByTask("pending") = UnsaidByTask("entering")
        BY UnsaidTypes
      <4> QED
        BY <1>1, <1>8, <2>1, <4>1, <4>2
    <3>2. CASE t \notin Ready(r)
      <4>1. stage'[t] = stage[t] /\ trace'[t] = trace[t]
        BY <1>2, <1>8, <3>2 DEF StartWave
      <4> QED
        BY <1>1, <1>8, <4>1
    <3> QED
      BY <3>1, <3>2
  <2> QED
    BY <1>1, <1>8, <2>1, <2>2
<1>9. CASE s = r /\ PhaseOnly(r)
  <2>1. UNCHANGED <<history, stage, trace>> /\ Published(r)' = Published(r)
    BY <1>3, <1>9 DEF PhaseOnly, Silent
  <2>2. <<phase[r], phase'[r]>> \in {<<"entering", "planning">>, <<"entering", "cancelled">>,
          <<"planning", "stopping">>, <<"stopping", "cancelled">>, <<"executing", "cancelled">>}
        \/ phase'[r] = phase[r]
    BY <1>9, PhaseItself DEF Gathered
  <2>3. UnsaidByRun(phase'[r]) \subseteq UnsaidByRun(phase[r])
    BY <2>2 DEF UnsaidByRun
  <2> QED
    BY <1>1, <1>9, <2>1, <2>2, <2>3
<1>10. CASE s = r /\ CancelWave(r)
  <2>1. /\ UNCHANGED <<history, trace>> /\ Published(r)' = Published(r)
        /\ phase[r] = "executing" /\ phase'[r] = "cancelling"
    BY <1>3, <1>10, PhaseItself DEF CancelWave, Silent
  <2>2. UnsaidByRun("cancelling") = UnsaidByRun("executing")
    BY DEF UnsaidByRun
  <2>3. ASSUME NEW t \in TasksOf(r)
        PROVE  /\ \A type \in UnsaidByTask(stage'[t]) : <<type, t>> \notin Published(r)
               /\ stage'[t] \in Active => trace'[t] \in Published(r)
    <3>1. stage'[t] = IF stage[t] \in Active THEN "stopping" ELSE stage[t]
      BY <1>2, <1>10 DEF CancelWave
    <3>2. stage[t] \in Active => UnsaidByTask("stopping") \subseteq UnsaidByTask(stage[t])
      BY UnsaidTypes DEF Active, TaskTypes
    <3>3. "stopping" \notin Active
      BY DEF Active
    <3> QED
      BY <1>1, <1>10, <2>1, <3>1, <3>2, <3>3
  <2> QED
    BY <1>1, <1>10, <2>1, <2>2, <2>3
<1>11. CASE s = r /\ \E t \in TasksOf(r) : StopTask(r, t)
  <2>1. PICK t \in TasksOf(r) : StopTask(r, t)
    BY <1>11
  <2>2. /\ UNCHANGED <<history, trace>> /\ Published(r)' = Published(r)
        /\ phase'[r] = "cancelled" /\ stage[t] = "stopping"
    BY <1>3, <2>1, PhaseItself DEF StopTask, Silent
  <2>3. phase[r] \in {"cancelling", "cancelled"}
    BY <2>2 DEF Inv, PhaseInv
  <2>4. UnsaidByRun("cancelled") = {}
    BY DEF UnsaidByRun
  <2>5. ASSUME NEW u \in TasksOf(r)
        PROVE  /\ \A type \in UnsaidByTask(stage'[u]) : <<type, u>> \notin Published(r)
               /\ stage'[u] \in Active => trace'[u] \in Published(r)
    <3>1. stage'[u] = IF u = t THEN "stopped" ELSE stage[u]
      BY <1>2, <2>1 DEF StopTask
    <3>2. UnsaidByTask("stopped") = UnsaidByTask("stopping") /\ "stopped" \notin Active
      BY UnsaidTypes DEF Active
    <3> QED
      BY <1>1, <1>11, <2>2, <3>1, <3>2
  <2> QED
    BY <1>1, <1>11, <2>2, <2>3, <2>4, <2>5
<1> QED
  BY <1>4, <1>5, <1>6, <1>7, <1>8, <1>9, <1>10, <1>11, Steps DEF RunGoesOn, RunEnds

LEMMA CausesKept ==
  ASSUME Inv, NEW r \in Runs, Act(r)
  PROVE  history' \in [Runs -> Seq(Messages)] /\ CausesPrecede'
<1>1. history \in [Runs -> Seq(Messages)] /\ CausesPrecede
  BY DEF Inv, TypeOK
<1>2. CASE history' = history
  BY <1>1, <1>2 DEF CausesPrecede
<1>3. CASE \E messages : Said(r, messages)
  BY <1>3, BatchKept
<1>4. ASSUME NEW t \in TasksOf(r), NEW messages, NEW last, TaskStep(r, t, messages, last)
      PROVE  Said(r, messages)
  BY <1>4 DEF TaskStep
<1>5. ASSUME NEW from, NEW to, NEW types, RunStep(r, from, to, types)
      PROVE  \E messages : Said(r, messages)
  BY <1>5 DEF RunStep
<1>6. ASSUME Block(r) PROVE \E messages : Said(r, messages)
  BY <1>6, BlockSays DEF Inv
<1>7. \/ StartWave(r) \/ PhaseOnly(r) \/ CancelWave(r) \/ \E t \in TasksOf(r) : StopTask(r, t)
      => history' = history
  BY DEF StartWave, runVars, PhaseOnly, CancelWave, StopTask, Silent
<1> QED
  BY <1>2, <1>3, <1>4, <1>5, <1>6, <1>7, Steps DEF RunGoesOn, RunEnds

LEMMA TerminalKept ==
  ASSUME Inv, NEW r \in Runs, Act(r)
  PROVE  TerminalIsLast'
<1> SUFFICES ASSUME NEW s \in Runs, NEW u \in TasksOf(s), stage'[u] = "returned"
             PROVE  LastAbout(history'[s], u, terminal'[u])
  BY DEF TerminalIsLast
<1>1. stage[u] = "returned" => LastAbout(history[s], u, terminal[u])
  BY DEF Inv, TerminalIsLast
<1>2. /\ u \in Tasks /\ DOMAIN stage = Tasks /\ DOMAIN terminal = Tasks
      /\ r \notin TasksOf(r) /\ history[r] \in Seq(Messages)
  BY OwnTasks, Domains DEF Inv, TypeOK
<1>3. CASE s # r
  BY <1>1, <1>3, Others DEF Untouched
<1>4. ASSUME s = r, NEW messages, Said(r, messages),
             stage[u] = "returned", terminal'[u] = terminal[u],
             \A id \in IdsOf(messages) : id[2] # u
      PROVE  LastAbout(history'[s], u, terminal'[u])
  <2>1. \A i \in DOMAIN messages : messages[i].id[2] # u
    BY <1>4 DEF IdsOf
  <2>2. messages \in Seq(Messages) /\ history'[r] = history[r] \o messages
    BY <1>4, BatchKept DEF Said
  <2> QED
    BY <1>1, <1>2, <1>4, <2>1, <2>2, LastKept
<1>5. ASSUME s = r, NEW messages, Said(r, messages), LastAbout(messages, u, terminal'[u])
      PROVE  LastAbout(history'[s], u, terminal'[u])
  <2>1. messages \in Seq(Messages) /\ history'[r] = history[r] \o messages
    BY <1>5, BatchKept DEF Said
  <2> QED
    BY <1>2, <1>5, <2>1, LastNew
<1>6. CASE s = r /\ \E t \in TasksOf(r) : \E messages, last : TaskStep(r, t, messages, last)
  <2>0. PICK t \in TasksOf(r) : \E messages, last : TaskStep(r, t, messages, last)
    BY <1>6
  <2>1. PICK messages, last : TaskStep(r, t, messages, last)
    BY <2>0
  <2>2. /\ Said(r, messages) /\ \A id \in IdsOf(messages) : id[2] = t
        /\ LastAbout(messages, t, last)
    BY <2>1 DEF TaskStep
  <2>3. CASE u = t
    <3>1. \/ BecomesReturned(t, messages, last)
          \/ BecomesWorking(t, messages, last)
          \/ BecomesReviewing(t, messages, last)
      BY <2>1, TaskItself
    <3>2. terminal'[t] = last
      BY <2>3, <3>1 DEF BecomesReturned, BecomesWorking, BecomesReviewing
    <3> QED
      BY <1>5, <1>6, <2>2, <2>3, <3>2
  <2>4. CASE u # t
    <3>1. stage'[u] = stage[u] /\ terminal'[u] = terminal[u]
      BY <1>6, <2>1, <2>4, OtherTasks
    <3> QED
      BY <1>4, <1>6, <2>2, <2>4, <3>1
  <2> QED
    BY <2>3, <2>4
<1>7. ASSUME s = r, NEW from, NEW to, NEW types, RunStep(r, from, to, types)
      PROVE  LastAbout(history'[s], u, terminal'[u])
  <2>1. PICK messages : Said(r, messages) /\ IdsOf(messages) = types \X {r}
    BY <1>7 DEF RunStep
  <2>2. \A id \in IdsOf(messages) : id[2] # u
    BY <1>2, <1>7, <2>1
  <2>3. stage' = stage /\ terminal' = terminal
    BY <1>7 DEF RunStep, taskVars
  <2> QED
    BY <1>4, <1>7, <2>1, <2>2, <2>3
<1>8. CASE s = r /\ Block(r)
  <2>1. PICK messages :
           /\ Said(r, messages)
           /\ IdsOf(messages) = {"task.blocked"} \X Blocked(r)
           /\ \A t \in Blocked(r) : LastAbout(messages, t, <<"task.blocked", t>>)
    BY <1>8, BlockSays DEF Inv
  <2>2. /\ terminal'[u] = IF u \in Blocked(r) THEN <<"task.blocked", u>> ELSE terminal[u]
        /\ stage'[u] = IF u \in Blocked(r) THEN "returned" ELSE stage[u]
    BY <1>2, <1>8 DEF Block
  <2>3. CASE u \in Blocked(r)
    BY <1>5, <1>8, <2>1, <2>2, <2>3
  <2>4. CASE u \notin Blocked(r)
    <3>1. \A id \in IdsOf(messages) : id[2] # u
      BY <2>1, <2>4
    <3> QED
      BY <1>4, <1>8, <2>1, <2>2, <2>4, <3>1
  <2> QED
    BY <2>3, <2>4
<1>9. CASE s = r /\ StartWave(r)
  <2>1. history' = history /\ terminal' = terminal /\ stage[u] = "returned"
    BY <1>2, <1>9 DEF StartWave, runVars
  <2> QED
    BY <1>1, <2>1
<1>10. CASE s = r /\ PhaseOnly(r)
  BY <1>1, <1>10 DEF PhaseOnly, Silent
<1>11. CASE s = r /\ CancelWave(r)
  <2>1. history' = history /\ terminal' = terminal /\ stage[u] = "returned"
    BY <1>2, <1>11 DEF CancelWave, Silent
  <2> QED
    BY <1>1, <2>1
<1>12. CASE s = r /\ \E t \in TasksOf(r) : StopTask(r, t)
  <2>1. history' = history /\ terminal' = terminal /\ stage[u] = "returned"
    BY <1>2, <1>12 DEF StopTask, Silent
  <2> QED
    BY <1>1, <2>1
<1> QED
  BY <1>3, <1>6, <1>7, <1>8, <1>9, <1>10, <1>11, <1>12, Steps DEF RunGoesOn, RunEnds

(* Where each task's chain of messages ends: pending and entering tasks    *)
(* have not been spoken of, and the trace of a task at work names what was *)
(* said about it last.                                                     *)
LatestInv ==
  \A r \in Runs : \A t \in TasksOf(r) :
    /\ stage[t] \in {"pending", "entering"} =>
         \A i \in DOMAIN history[r] : history[r][i].id[2] # t
    /\ stage[t] \in {"working", "reviewing"} => LastAbout(history[r], t, trace[t])

LEMMA StillUnsaid ==
  ASSUME NEW h \in Seq(Messages), NEW batch \in Seq(Messages), NEW t,
         \A i \in DOMAIN h : h[i].id[2] # t, \A i \in DOMAIN batch : batch[i].id[2] # t
  PROVE  \A i \in DOMAIN (h \o batch) : (h \o batch)[i].id[2] # t
<1> DEFINE longer == h \o batch
<1>1. /\ Len(h) \in Nat /\ DOMAIN h = 1 .. Len(h) /\ DOMAIN batch = 1 .. Len(batch)
      /\ Len(batch) \in Nat /\ DOMAIN longer = 1 .. Len(h) + Len(batch)
      /\ \A i \in DOMAIN h : longer[i] = h[i]
      /\ \A i \in DOMAIN batch : longer[Len(h) + i] = batch[i]
      /\ \A i \in DOMAIN longer :
           i \in DOMAIN h \/ (i - Len(h) \in DOMAIN batch /\ i > Len(h))
  BY Extended
<1> HIDE DEF longer
<1>2. ASSUME NEW i \in DOMAIN longer PROVE longer[i].id[2] # t
  <2>1. CASE i \in DOMAIN h
    BY <1>1, <2>1
  <2>2. CASE i - Len(h) \in DOMAIN batch
    <3>1. Len(h) + (i - Len(h)) = i
      BY <1>1
    <3>2. longer[i] = batch[i - Len(h)]
      BY <1>1, <2>2, <3>1
    <3> QED
      BY <2>2, <3>2
  <2> QED
    BY <1>1, <2>1, <2>2
<1> QED
  BY <1>2 DEF longer

LEMMA IsLinked ==
  ASSUME NEW messages, NEW i, NEW first
  PROVE  /\ /\ messages[i].cause = first
            /\ \A j \in 1 .. i - 1 : messages[j].id[2] # messages[i].id[2]
            => Continues(messages, i, first)
         /\ \A j \in 1 .. i - 1 :
              /\ messages[i].cause = messages[j].id
              /\ messages[j].id[2] = messages[i].id[2]
              /\ \A k \in j + 1 .. i - 1 : messages[k].id[2] # messages[i].id[2]
              => Continues(messages, i, first)
BY DEF Continues

(* A longer history has the same links, and those of a chained batch.      *)
LEMMA LinkKept ==
  ASSUME NEW h \in Seq(Messages), NEW batch \in Seq(Messages), NEW first,
         NEW i \in DOMAIN h, Continues(h, i, first)
  PROVE  Continues(h \o batch, i, first)
<1> DEFINE longer == h \o batch
<1>1. /\ Len(h) \in Nat /\ DOMAIN h = 1 .. Len(h)
      /\ \A j \in DOMAIN h : longer[j] = h[j]
  BY Extended
<1> HIDE DEF longer
<1>2. /\ longer[i] = h[i] /\ \A j \in 1 .. i - 1 : longer[j] = h[j]
      /\ \A j \in 1 .. i - 1 : \A k \in j + 1 .. i - 1 : k \in 1 .. i - 1
  BY <1>1
<1>3. CASE h[i].cause = first /\ \A j \in 1 .. i - 1 : h[j].id[2] # h[i].id[2]
  <2>1. Continues(longer, i, first)
    BY <1>2, <1>3, IsLinked
  <2> QED
    BY <2>1 DEF longer
<1>4. ASSUME NEW j \in 1 .. i - 1, h[i].cause = h[j].id, h[j].id[2] = h[i].id[2],
             \A k \in j + 1 .. i - 1 : h[k].id[2] # h[i].id[2]
      PROVE  Continues(longer, i, first)
  <2>1. \A k \in j + 1 .. i - 1 : longer[k] = h[k]
    BY <1>2
  <2> QED
    BY <1>2, <1>4, <2>1, IsLinked
<1> QED
  BY <1>3, <1>4 DEF longer, Continues

LEMMA LinkNew ==
  ASSUME NEW h \in Seq(Messages), NEW batch \in Seq(Messages), NEW t, NEW from, NEW first,
         \A i \in DOMAIN batch : batch[i].id[2] = t, Chained(batch, from),
         \/ LastAbout(h, t, from)
         \/ from = first /\ \A i \in DOMAIN h : h[i].id[2] # t,
         NEW i \in DOMAIN batch
  PROVE  Continues(h \o batch, Len(h) + i, first)
<1> DEFINE longer == h \o batch
           n == Len(h) + i
<1>1. /\ Len(h) \in Nat /\ DOMAIN h = 1 .. Len(h)
      /\ Len(batch) \in Nat /\ DOMAIN batch = 1 .. Len(batch)
      /\ \A j \in DOMAIN h : longer[j] = h[j]
      /\ \A j \in DOMAIN batch : longer[Len(h) + j] = batch[j]
  BY Extended
<1> HIDE DEF longer
<1>2. n \in Nat /\ longer[n] = batch[i] /\ longer[n].id[2] = t
  BY <1>1
<1>3. CASE i = 1
  <2>1. /\ longer[n].cause = from /\ n = Len(h) + 1
        /\ \A j \in 1 .. n - 1 : j \in DOMAIN h /\ longer[j] = h[j]
    BY <1>1, <1>2, <1>3 DEF Chained
  <2>2. CASE LastAbout(h, t, from)
    <3>1. PICK j \in DOMAIN h : /\ h[j].id = from /\ from[2] = t
                               /\ \A k \in j + 1 .. Len(h) : h[k].id[2] # t
      BY <2>2 DEF LastAbout
    <3>2. n - 1 = Len(h) /\ j \in 1 .. n - 1 /\ longer[j].id = from
      BY <1>1, <2>1, <3>1
    <3>3. \A k \in j + 1 .. n - 1 : longer[k].id[2] # t
      <4>1. \A k \in j + 1 .. Len(h) : longer[k] = h[k]
        BY <1>1, <3>1
      <4> HIDE DEF n
      <4> QED
        BY <3>1, <3>2, <4>1
    <3> HIDE DEF n
    <3>4. Continues(longer, n, first)
      BY <1>2, <2>1, <3>1, <3>2, <3>3, IsLinked
    <3> QED
      BY <3>4 DEF longer, n
  <2>3. CASE from = first /\ \A j \in DOMAIN h : h[j].id[2] # t
    <3> HIDE DEF n
    <3>1. \A j \in 1 .. n - 1 : longer[j].id[2] # longer[n].id[2]
      BY <1>2, <2>1, <2>3
    <3>2. Continues(longer, n, first)
      BY <2>1, <2>3, <3>1, IsLinked
    <3> QED
      BY <3>2 DEF longer, n
  <2> QED
    BY <2>2, <2>3
<1>4. CASE i # 1
  <2>1. i - 1 \in DOMAIN batch /\ Len(h) + (i - 1) = n - 1 /\ n - 1 \in 1 .. n - 1
    BY <1>1, <1>4
  <2>0. (n - 1) + 1 .. n - 1 = {}
    BY <1>2
  <2>2. longer[n - 1] = batch[i - 1] /\ longer[n - 1].id[2] = t
    BY <1>1, <2>1
  <2>3. longer[n].cause = longer[n - 1].id
    BY <1>2, <1>4, <2>2 DEF Chained
  <2> HIDE DEF n
  <2>4. Continues(longer, n, first)
    BY <1>2, <2>0, <2>1, <2>2, <2>3, IsLinked
  <2> QED
    BY <2>4 DEF longer, n
<1> QED
  BY <1>3, <1>4

LEMMA LatestKept ==
  ASSUME Inv, LatestInv, NEW r \in Runs, Act(r)
  PROVE  LatestInv'
<1> SUFFICES ASSUME NEW s \in Runs, NEW u \in TasksOf(s)
             PROVE  /\ stage'[u] \in {"pending", "entering"} =>
                         \A i \in DOMAIN history'[s] : history'[s][i].id[2] # u
                    /\ stage'[u] \in {"working", "reviewing"} =>
                         LastAbout(history'[s], u, trace'[u])
  BY DEF LatestInv
<1> DEFINE Unsaid == \A i \in DOMAIN history[s] : history[s][i].id[2] # u
           Unsaid1 == \A i \in DOMAIN history'[s] : history'[s][i].id[2] # u
<1>1. /\ stage[u] \in {"pending", "entering"} => Unsaid
      /\ stage[u] \in {"working", "reviewing"} => LastAbout(history[s], u, trace[u])
  BY DEF LatestInv
<1>2. /\ u \in Tasks /\ DOMAIN stage = Tasks /\ DOMAIN trace = Tasks
      /\ r \notin TasksOf(r) /\ history[r] \in Seq(Messages)
  BY OwnTasks, Domains DEF Inv, TypeOK
<1>3. CASE s # r
  BY <1>1, <1>3, Others DEF Untouched
<1>4. ASSUME s = r, stage'[u] = stage[u], trace'[u] = trace[u],
             NEW messages, Said(r, messages), \A id \in IdsOf(messages) : id[2] # u
      PROVE  /\ stage'[u] \in {"pending", "entering"} => Unsaid1
             /\ stage'[u] \in {"working", "reviewing"} => LastAbout(history'[s], u, trace'[u])
  <2>1. \A i \in DOMAIN messages : messages[i].id[2] # u
    BY <1>4 DEF IdsOf
  <2>2. messages \in Seq(Messages) /\ history'[r] = history[r] \o messages
    BY <1>4, BatchKept DEF Said
  <2>3. Unsaid => Unsaid1
    BY <1>2, <1>4, <2>1, <2>2, StillUnsaid
  <2>4. LastAbout(history[s], u, trace[u]) => LastAbout(history'[s], u, trace'[u])
    BY <1>2, <1>4, <2>1, <2>2, LastKept
  <2> QED
    BY <1>1, <1>4, <2>3, <2>4
<1>5. CASE s = r /\ \E t \in TasksOf(r) : \E messages, last : TaskStep(r, t, messages, last)
  <2>0. PICK t \in TasksOf(r) : \E messages, last : TaskStep(r, t, messages, last)
    BY <1>5
  <2>1. PICK messages, last : TaskStep(r, t, messages, last)
    BY <2>0
  <2>2. /\ Said(r, messages) /\ \A id \in IdsOf(messages) : id[2] = t
        /\ LastAbout(messages, t, last)
    BY <2>1 DEF TaskStep
  <2>3. CASE u = t
    <3>1. /\ trace'[t] = last
          /\ \/ BecomesReturned(t, messages, last)
             \/ BecomesWorking(t, messages, last)
             \/ BecomesReviewing(t, messages, last)
      BY <2>1, TaskItself
    <3>2. stage'[u] \in {"returned", "working", "reviewing"}
      BY <2>3, <3>1 DEF BecomesReturned, BecomesWorking, BecomesReviewing
    <3>3. messages \in Seq(Messages) /\ history'[r] = history[r] \o messages
      BY <2>2, BatchKept DEF Said
    <3>4. LastAbout(history'[s], u, trace'[u])
      BY <1>2, <1>5, <2>2, <2>3, <3>1, <3>3, LastNew
    <3> QED
      BY <3>2, <3>4
  <2>4. CASE u # t
    <3>1. stage'[u] = stage[u] /\ trace'[u] = trace[u]
      BY <1>5, <2>1, <2>4, OtherTasks
    <3> QED
      BY <1>4, <1>5, <2>2, <2>4, <3>1
  <2> QED
    BY <2>3, <2>4
<1>6. ASSUME s = r, NEW from, NEW to, NEW types, RunStep(r, from, to, types)
      PROVE  /\ stage'[u] \in {"pending", "entering"} => Unsaid1
             /\ stage'[u] \in {"working", "reviewing"} => LastAbout(history'[s], u, trace'[u])
  <2>1. PICK messages : Said(r, messages) /\ IdsOf(messages) = types \X {r}
    BY <1>6 DEF RunStep
  <2>2. \A id \in IdsOf(messages) : id[2] # u
    BY <1>2, <1>6, <2>1
  <2>3. stage' = stage /\ trace' = trace
    BY <1>6 DEF RunStep, taskVars
  <2> QED
    BY <1>4, <1>6, <2>1, <2>2, <2>3
<1>7. CASE s = r /\ Block(r)
  <2>1. PICK messages :
           /\ Said(r, messages)
           /\ IdsOf(messages) = {"task.blocked"} \X Blocked(r)
    BY <1>7, BlockSays DEF Inv
  <2>2. stage'[u] = (IF u \in Blocked(r) THEN "returned" ELSE stage[u]) /\ trace' = trace
    BY <1>2, <1>7 DEF Block
  <2>3. CASE u \notin Blocked(r)
    <3>1. \A id \in IdsOf(messages) : id[2] # u
      BY <2>1, <2>3
    <3> QED
      BY <1>4, <1>7, <2>1, <2>2, <2>3, <3>1
  <2> QED
    BY <2>2, <2>3
<1>8. CASE s = r /\ StartWave(r)
  <2>1. history' = history
    BY <1>8 DEF StartWave, runVars
  <2>2. CASE u \in Ready(r)
    <3>1. stage[u] = "pending" /\ stage'[u] = "entering"
      BY <1>2, <1>8, <2>2 DEF StartWave, Ready
    <3> QED
      BY <1>1, <2>1, <3>1
  <2>3. CASE u \notin Ready(r)
    <3>1. stage'[u] = stage[u] /\ trace'[u] = trace[u]
      BY <1>2, <1>8, <2>3 DEF StartWave
    <3> QED
      BY <1>1, <2>1, <3>1
  <2> QED
    BY <2>2, <2>3
<1>9. CASE s = r /\ PhaseOnly(r)
  BY <1>1, <1>9 DEF PhaseOnly, Silent
<1>10. CASE s = r /\ CancelWave(r)
  <2>1. /\ history' = history /\ trace' = trace
        /\ stage'[u] = stage[u] \/ stage'[u] = "stopping"
    BY <1>2, <1>10 DEF CancelWave, Silent
  <2> QED
    BY <1>1, <2>1
<1>11. CASE s = r /\ \E t \in TasksOf(r) : StopTask(r, t)
  <2>1. /\ history' = history /\ trace' = trace
        /\ stage'[u] = stage[u] \/ stage'[u] = "stopped"
    BY <1>2, <1>11 DEF StopTask, Silent
  <2> QED
    BY <1>1, <2>1
<1> QED
  BY <1>3, <1>5, <1>6, <1>7, <1>8, <1>9, <1>10, <1>11, Steps DEF RunGoesOn, RunEnds

(* The links of the chains are kept, and those of a task's next messages   *)
(* are added where its chain ends.                                         *)
Linked(r, messages) ==
  \A i \in DOMAIN messages :
    LET id == messages[i].id
    IN  id[2] \in Tasks /\ id[1] # "task.blocked" =>
          Continues(messages, i, <<"plan.created", r>>)

LEMMA LinksAdded ==
  ASSUME NEW r, NEW h \in Seq(Messages), NEW batch \in Seq(Messages), Linked(r, h),
         \A i \in DOMAIN batch :
           LET id == batch[i].id
           IN  id[2] \in Tasks /\ id[1] # "task.blocked" =>
                 Continues(h \o batch, Len(h) + i, <<"plan.created", r>>)
  PROVE  Linked(r, h \o batch)
<1> DEFINE longer == h \o batch
           plan == <<"plan.created", r>>
<1>1. /\ Len(h) \in Nat
      /\ \A i \in DOMAIN h : longer[i] = h[i]
      /\ \A i \in DOMAIN batch : longer[Len(h) + i] = batch[i]
      /\ \A i \in DOMAIN longer :
           i \in DOMAIN h \/ (i - Len(h) \in DOMAIN batch /\ i > Len(h))
      /\ DOMAIN longer = 1 .. Len(h) + Len(batch) /\ Len(batch) \in Nat
  BY Extended
<1>2. \A i \in DOMAIN h : Continues(h, i, plan) => Continues(longer, i, plan)
  BY LinkKept
<1> HIDE DEF longer, plan
<1> SUFFICES ASSUME NEW i \in DOMAIN longer, longer[i].id[2] \in Tasks,
                    longer[i].id[1] # "task.blocked"
             PROVE  Continues(longer, i, plan)
  BY DEF Linked, longer, plan
<1>3. CASE i \in DOMAIN h
  <2>1. longer[i] = h[i]
    BY <1>1, <1>3
  <2>2. Continues(h, i, plan)
    BY <1>3, <2>1 DEF Linked, plan
  <2> QED
    BY <1>2, <1>3, <2>2
<1>4. CASE i - Len(h) \in DOMAIN batch
  <2>1. Len(h) + (i - Len(h)) = i
    BY <1>1
  <2>2. longer[i] = batch[i - Len(h)]
    BY <1>1, <1>4, <2>1
  <2>3. Continues(longer, Len(h) + (i - Len(h)), plan)
    BY <1>4, <2>2 DEF longer, plan
  <2> QED
    BY <2>1, <2>3
<1> QED
  BY <1>1, <1>3, <1>4

LEMMA LinksKept ==
  ASSUME Inv, LatestInv, CauseIsLatest, NEW r \in Runs, Act(r)
  PROVE  CauseIsLatest'
<1>1. \A s \in Runs : Linked(s, history[s])
  BY DEF CauseIsLatest, Linked
<1> SUFFICES ASSUME NEW s \in Runs PROVE Linked(s, history'[s])
  BY DEF CauseIsLatest, Linked
<1>2. history[s] \in Seq(Messages) /\ r \notin Tasks
  BY OwnTasks DEF Inv, TypeOK
<1>3. CASE s # r
  BY <1>1, <1>3, Others DEF Untouched
<1>4. ASSUME s = r, NEW messages, Said(r, messages),
             \A id \in IdsOf(messages) : id[2] \notin Tasks \/ id[1] = "task.blocked"
      PROVE  Linked(s, history'[s])
  <2>1. \A i \in DOMAIN messages :
          messages[i].id[2] \notin Tasks \/ messages[i].id[1] = "task.blocked"
    BY <1>4 DEF IdsOf
  <2>2. messages \in Seq(Messages) /\ history'[r] = history[r] \o messages
    BY <1>4, BatchKept DEF Said
  <2>3. Linked(r, history[r] \o messages)
    BY <1>1, <1>2, <1>4, <2>1, <2>2, LinksAdded
  <2> QED
    BY <1>4, <2>2, <2>3
<1>5. CASE s = r /\ \E t \in TasksOf(r) : \E messages, last : TaskStep(r, t, messages, last)
  <2>0. PICK t \in TasksOf(r) : \E messages, last : TaskStep(r, t, messages, last)
    BY <1>5
  <2>1. PICK messages, last : TaskStep(r, t, messages, last)
    BY <2>0
  <2>2. /\ Said(r, messages) /\ Chained(messages, trace[t]) /\ stage[t] \in Active
        /\ \A id \in IdsOf(messages) : id[2] = t
    BY <2>1 DEF TaskStep
  <2>3. \A i \in DOMAIN messages : messages[i].id[2] = t
    BY <2>2 DEF IdsOf
  <2>4. messages \in Seq(Messages) /\ history'[r] = history[r] \o messages
    BY <2>2, BatchKept DEF Said
  <2>5. \/ LastAbout(history[r], t, trace[t])
        \/ /\ trace[t] = <<"plan.created", r>>
           /\ \A i \in DOMAIN history[r] : history[r][i].id[2] # t
    <3>1. stage[t] = "entering" => trace[t] = <<"plan.created", r>>
      BY DEF Inv, TraceInv
    <3> QED
      BY <2>2, <3>1 DEF LatestInv, Active
  <2> DEFINE plan == <<"plan.created", r>>
  <2>6. \A i \in DOMAIN messages : Continues(history[r] \o messages, Len(history[r]) + i, plan)
    <3> HIDE DEF plan
    <3>1. \/ LastAbout(history[r], t, trace[t])
          \/ trace[t] = plan /\ \A i \in DOMAIN history[r] : history[r][i].id[2] # t
      BY <2>5 DEF plan
    <3> QED
      BY <1>2, <1>5, <2>2, <2>3, <2>4, <3>1, LinkNew
  <2>7. Linked(r, history[r] \o messages)
    BY <1>1, <1>2, <1>5, <2>4, <2>6, LinksAdded
  <2> QED
    BY <1>5, <2>4, <2>7
<1>6. ASSUME s = r, NEW from, NEW to, NEW types, RunStep(r, from, to, types)
      PROVE  Linked(s, history'[s])
  <2>1. PICK messages : Said(r, messages) /\ IdsOf(messages) = types \X {r}
    BY <1>6 DEF RunStep
  <2>2. \A id \in IdsOf(messages) : id[2] \notin Tasks
    BY <1>2, <2>1
  <2> QED
    BY <1>4, <1>6, <2>1, <2>2
<1>7. CASE s = r /\ Block(r)
  <2>1. PICK messages :
           Said(r, messages) /\ IdsOf(messages) = {"task.blocked"} \X Blocked(r)
    BY <1>7, BlockSays DEF Inv
  <2>2. \A id \in IdsOf(messages) : id[1] = "task.blocked"
    BY <2>1
  <2> QED
    BY <1>4, <1>7, <2>1, <2>2
<1>8. StartWave(r) \/ PhaseOnly(r) \/ CancelWave(r) \/ (\E t \in TasksOf(r) : StopTask(r, t))
      => history' = history
  BY DEF StartWave, runVars, PhaseOnly, CancelWave, StopTask, Silent
<1>9. CASE history' = history
  BY <1>1, <1>9
<1> QED
  BY <1>3, <1>5, <1>6, <1>7, <1>8, <1>9, Steps DEF RunGoesOn, RunEnds

LEMMA StatusKept ==
  ASSUME Inv, NEW r \in Runs, Act(r)
  PROVE  StatusInv'
<1> SUFFICES ASSUME NEW s \in Runs, phase'[s] = "done", <<"plan.created", s>> \in Published(s)'
             PROVE  status'[s] = FinalStatus(s)'
  BY DEF StatusInv
<1>1. phase[s] = "done" /\ <<"plan.created", s>> \in Published(s) => status[s] = FinalStatus(s)
  BY DEF Inv, StatusInv
<1>2. ASSUME overage'[s] = overage[s], \A t \in TasksOf(s) : result'[t] = result[t]
      PROVE  FinalStatus(s)' = FinalStatus(s)
  <2>1. \A results : Having(s, results)' = Having(s, results)
    BY <1>2 DEF Having
  <2> QED
    BY <1>2, <2>1 DEF FinalStatus
<1>3. CASE s # r
  <2>1. Untouched(s)
    BY <1>3, Others
  <2>2. Published(s)' = Published(s)
    BY <2>1 DEF Untouched, Published
  <2>3. FinalStatus(s)' = FinalStatus(s)
    BY <1>2, <2>1 DEF Untouched
  <2> QED
    BY <1>1, <2>1, <2>2, <2>3 DEF Untouched
<1>4. CASE s = r /\ RunEnds(r)
  <2>1. PICK final \in Statuses :
          /\ status' = [status EXCEPT ![r] = final]
          /\ \/ \E from \in {"entering", "planning"} :
                  RunStep(r, from, "done", {"run.completed"})
             \/ /\ RunStep(r, "executing", "done", {"run.aggregated", "run.completed"})
                /\ \A t \in TasksOf(r) : stage[t] = "returned"
                /\ final = FinalStatus(r) /\ UNCHANGED overage
    BY <1>4 DEF RunEnds
  <2>2. status'[r] = final
    BY <2>1, Domains DEF Inv
  <2>3. ASSUME NEW from \in {"entering", "planning"}, RunStep(r, from, "done", {"run.completed"})
        PROVE  FALSE
    <3>1. PICK messages : Said(r, messages) /\ IdsOf(messages) = {"run.completed"} \X {r}
      BY <2>3 DEF RunStep
    <3>2. Published(r)' = Published(r) \cup ({"run.completed"} \X {r})
      BY <3>1, BatchKept
    <3>3. "plan.created" \in UnsaidByRun(from) /\ phase[r] = from
      BY <2>3 DEF UnsaidByRun, RunStep
    <3>4. <<"plan.created", r>> \notin Published(r)
      BY <3>3 DEF Inv, SaidInv
    <3> QED
      BY <1>4, <3>2, <3>4
  <2>4. CASE /\ RunStep(r, "executing", "done", {"run.aggregated", "run.completed"})
             /\ final = FinalStatus(r) /\ UNCHANGED overage
    <3>1. result' = result
      BY <2>4 DEF RunStep, taskVars
    <3> QED
      BY <1>2, <1>4, <2>2, <2>4, <3>1
  <2> QED
    BY <2>1, <2>3, <2>4
<1>5. CASE s = r /\ (RunGoesOn(r) \/ Block(r) \/ StartWave(r) \/ CancelWave(r))
  <2>1. RunGoesOn(r) => phase'[r] # "done"
    BY PhaseItself DEF RunGoesOn
  <2>2. Block(r) \/ StartWave(r) => phase'[r] # "done"
    BY DEF Block, StartWave, Gathered, runVars
  <2>3. CancelWave(r) => phase'[r] # "done"
    BY PhaseItself
  <2> QED
    BY <1>5, <2>1, <2>2, <2>3
<1>6. CASE s = r /\ \E t \in TasksOf(r) : \E messages, last : TaskStep(r, t, messages, last)
  BY <1>6 DEF TaskStep
<1>7. CASE s = r /\ PhaseOnly(r)
  <2>1. phase'[r] = phase[r]
    BY <1>7, PhaseItself
  <2>2. UNCHANGED <<overage, status, history, result>>
    BY <1>7 DEF PhaseOnly, Silent
  <2>3. Published(r)' = Published(r) /\ FinalStatus(r)' = FinalStatus(r)
    BY <1>2, <1>7, <2>2 DEF Published
  <2> QED
    BY <1>1, <1>7, <2>1, <2>2, <2>3
<1>8. CASE s = r /\ \E t \in TasksOf(r) : StopTask(r, t)
  BY <1>8, PhaseItself
<1> QED
  BY <1>3, <1>4, <1>5, <1>6, <1>7, <1>8, Steps

LEMMA DependenciesKept ==
  ASSUME Inv, NEW r \in Runs, Act(r)
  PROVE  DependenciesSucceeded'
<1> SUFFICES ASSUME NEW u \in Tasks, NEW d \in ToSet(DependsOn[u]),
                    stage'[u] \in Active \/ result'[u] \notin {None, "blocked"}
             PROVE  result'[d] = "succeeded"
  BY DEF DependenciesSucceeded
<1>1. stage[u] \in Active \/ result[u] \notin {None, "blocked"} => result[d] = "succeeded"
  BY DEF Inv, DependenciesSucceeded
<1>2. PICK s \in Runs : u \in TasksOf(s) /\ d \in TasksOf(s)
  BY OwnTasks, PlannedTasks
<1>3. /\ d \in Tasks /\ DOMAIN stage = Tasks /\ DOMAIN result = Tasks
      /\ None # "succeeded" /\ "pending" \notin Active /\ "stopping" \notin Active
      /\ "stopped" \notin Active /\ "returned" \notin Active
  BY <1>2, OwnTasks, Domains, NoneAssumption DEF Inv, Results, Active
<1>4. CASE s # r
  BY <1>1, <1>2, <1>4, Others DEF Untouched
<1>5. CASE s = r /\ \E t \in TasksOf(r) : \E messages, last : TaskStep(r, t, messages, last)
  <2>0. PICK t \in TasksOf(r) : \E messages, last : TaskStep(r, t, messages, last)
    BY <1>5
  <2>1. PICK messages, last : TaskStep(r, t, messages, last)
    BY <2>0
  <2>2. stage[t] \in Active
    BY <2>1 DEF TaskStep
  <2>3. result[t] = None
    BY <1>3, <2>2 DEF Inv, PhaseInv
  <2>4. u # t => stage'[u] = stage[u] /\ result'[u] = result[u]
    BY <1>2, <1>5, <2>1, OtherTasks
  <2>5. result[d] = "succeeded"
    BY <1>1, <2>2, <2>4
  <2>6. d # t
    BY <1>3, <2>3, <2>5
  <2>7. result'[d] = result[d]
    BY <1>2, <1>5, <2>1, <2>6, OtherTasks
  <2> QED
    BY <2>5, <2>7
<1>6. CASE s = r /\ (RunGoesOn(r) \/ RunEnds(r) \/ PhaseOnly(r))
  BY <1>1, <1>6, PhaseItself DEF RunGoesOn, RunEnds, taskVars
<1>7. CASE s = r /\ Block(r)
  <2>1. /\ stage'[u] = IF u \in Blocked(r) THEN "returned" ELSE stage[u]
        /\ result'[u] = IF u \in Blocked(r) THEN "blocked" ELSE result[u]
        /\ result'[d] = IF d \in Blocked(r) THEN "blocked" ELSE result[d]
    BY <1>3, <1>7 DEF Block
  <2>2. u \notin Blocked(r)
    BY <1>3, <2>1
  <2>3. result[d] = "succeeded"
    BY <1>1, <2>1, <2>2
  <2>4. stage[d] = "returned"
    BY <1>2, <1>3, <2>3 DEF Inv, PhaseInv
  <2>5. d \notin Blocked(r)
    BY <2>4 DEF Blocked
  <2> QED
    BY <2>1, <2>3, <2>5
<1>8. CASE s = r /\ StartWave(r)
  <2>1. /\ stage'[u] = IF u \in Ready(r) THEN "entering" ELSE stage[u]
        /\ result' = result
    BY <1>3, <1>8 DEF StartWave
  <2>2. CASE u \in Ready(r)
    <3>1. stage[u] = "pending" /\ result[d] # None
      BY <2>2 DEF Ready
    <3>2. FailedDependencies(u, {}) = {}
      BY <1>2, <1>8, <3>1 DEF StartWave, Blocked
    <3> QED
      BY <2>1, <3>1, <3>2 DEF FailedDependencies
  <2>3. CASE u \notin Ready(r)
    BY <1>1, <2>1, <2>3
  <2> QED
    BY <2>2, <2>3
<1>9. CASE s = r /\ CancelWave(r)
  <2>1. result' = result /\ (stage'[u] = "stopping" \/ stage'[u] = stage[u])
    BY <1>3, <1>9 DEF CancelWave, Silent
  <2> QED
    BY <1>1, <1>3, <2>1
<1>10. CASE s = r /\ \E t \in TasksOf(r) : StopTask(r, t)
  <2>1. result' = result /\ (stage'[u] = "stopped" \/ stage'[u] = stage[u])
    BY <1>3, <1>10 DEF StopTask, Silent
  <2> QED
    BY <1>1, <1>3, <2>1
<1> QED
  BY <1>4, <1>5, <1>6, <1>7, <1>8, <1>9, <1>10, Steps

LEMMA ReviewsKept ==
  ASSUME Inv, NEW r \in Runs, Act(r)
  PROVE  NoUnreviewedSuccess'
<1> SUFFICES ASSUME NEW s \in Runs, NEW u \in TasksOf(s) \cap (Writers \cup Verified),
                    result'[u] = "succeeded"
             PROVE  verdict'[u] = "APPROVE" /\ <<"review.result", u>> \in Published(s)'
  BY DEF NoUnreviewedSuccess
<1>1. result[u] = "succeeded" =>
        verdict[u] = "APPROVE" /\ <<"review.result", u>> \in Published(s)
  BY DEF Inv, NoUnreviewedSuccess
<1>2. /\ u \in Tasks /\ DOMAIN result = Tasks
  BY OwnTasks, Domains DEF Inv
<1>3. CASE s # r
  <2>1. Untouched(s)
    BY <1>3, Others
  <2>2. Published(s)' = Published(s)
    BY <2>1 DEF Untouched, Published
  <2> QED
    BY <1>1, <2>1, <2>2 DEF Untouched
<1>4. ASSUME NEW messages, Said(r, messages) PROVE Published(r) \subseteq Published(r)'
  BY <1>4, BatchKept
<1>5. CASE s = r /\ \E t \in TasksOf(r) : \E messages, last : TaskStep(r, t, messages, last)
  <2>0. PICK t \in TasksOf(r) : \E messages, last : TaskStep(r, t, messages, last)
    BY <1>5
  <2>1. PICK messages, last : TaskStep(r, t, messages, last)
    BY <2>0
  <2>2. Published(r)' = Published(r) \cup IdsOf(messages)
    BY <2>1, BatchKept DEF TaskStep
  <2>3. CASE u = t
    <3>1. \/ BecomesReturned(t, messages, last)
          \/ BecomesWorking(t, messages, last)
          \/ BecomesReviewing(t, messages, last)
      BY <2>1, TaskItself
    <3>2. CASE BecomesReturned(t, messages, last)
      BY <1>5, <2>2, <2>3, <3>2 DEF BecomesReturned
    <3>3. CASE BecomesWorking(t, messages, last) \/ BecomesReviewing(t, messages, last)
      <4>1. result'[u] = result[u] /\ verdict'[u] = verdict[u]
        BY <2>3, <3>3 DEF BecomesWorking, BecomesReviewing
      <4> QED
        BY <1>1, <1>5, <2>2, <4>1
    <3> QED
      BY <3>1, <3>2, <3>3
  <2>4. CASE u # t
    <3>1. result'[u] = result[u] /\ verdict'[u] = verdict[u]
      BY <1>5, <2>1, <2>4, OtherTasks
    <3> QED
      BY <1>1, <1>5, <2>2, <3>1
  <2> QED
    BY <2>3, <2>4
<1>6. ASSUME s = r, NEW from, NEW to, NEW types, RunStep(r, from, to, types)
      PROVE  verdict'[u] = "APPROVE" /\ <<"review.result", u>> \in Published(s)'
  BY <1>1, <1>4, <1>6 DEF RunStep, taskVars
<1>7. CASE s = r /\ Block(r)
  <2>1. result'[u] = IF u \in Blocked(r) THEN "blocked" ELSE result[u]
    BY <1>2, <1>7 DEF Block
  <2>2. result[u] = "succeeded" /\ verdict' = verdict
    BY <1>7, <2>1 DEF Block
  <2>3. Published(r) \subseteq Published(r)'
    BY <1>4, <1>7, BlockSays DEF Inv
  <2> QED
    BY <1>1, <1>7, <2>2, <2>3
<1>8. CASE s = r /\ (\/ StartWave(r) \/ PhaseOnly(r) \/ CancelWave(r)
                     \/ \E t \in TasksOf(r) : StopTask(r, t))
  <2>1. UNCHANGED <<history, result, verdict>>
    BY <1>8 DEF StartWave, runVars, PhaseOnly, CancelWave, StopTask, Silent
  <2>2. Published(r)' = Published(r)
    BY <2>1 DEF Published
  <2> QED
    BY <1>1, <1>8, <2>1, <2>2
<1> QED
  BY <1>3, <1>5, <1>6, <1>7, <1>8, Steps DEF RunGoesOn, RunEnds

-------------------------------------------------------------------------------
(* The lease follows those at work.                                        *)
Working(t) == \/ stage[t] \in {"working", "reviewing"}
              \/ stage[t] = "stopping" /\ trace[t][1] # "plan.created"
Planning(r) == phase[r] \in {"planning", "stopping"}

LEMMA AtWorkIs ==
  /\ AtWork = {t \in Tasks : Working(t)} \cup {r \in Runs : Planning(r)}
  /\ AtWork' = {t \in Tasks : Working(t)'} \cup {r \in Runs : Planning(r)'}
BY DEF AtWork, Working, Planning

LEMMA WorkOfOthers ==
  ASSUME Inv, NEW r \in Runs, Act(r), NEW x, x # r, x \notin TasksOf(r)
  PROVE  x \in AtWork' <=> x \in AtWork
<1>1. ASSUME NEW s \in Runs \ {r}
      PROVE  /\ Planning(s)' <=> Planning(s)
             /\ \A u \in TasksOf(s) : Working(u)' <=> Working(u)
  BY Others DEF Untouched, Planning, Working
<1>2. \A t \in Tasks : t \notin Runs
  BY OwnTasks
<1>3. CASE x \in Runs
  BY <1>1, <1>2, <1>3, AtWorkIs
<1>4. CASE x \in Tasks
  <2>1. PICK s \in Runs : x \in TasksOf(s)
    BY <1>4, OwnTasks
  <2>2. Working(x)' <=> Working(x)
    BY <1>1, <2>1
  <2> QED
    BY <1>2, <1>4, <2>2, AtWorkIs
<1>5. CASE x \notin Runs \cup Tasks
  BY <1>5, AtWorkIs
<1> QED
  BY <1>3, <1>4, <1>5

LEMMA SameWork ==
  ASSUME Inv, NEW r \in Runs, Act(r), Planning(r)' <=> Planning(r),
         \A u \in TasksOf(r) : Working(u)' <=> Working(u)
  PROVE  AtWork' = AtWork
<1>1. \A t \in Tasks : t \notin Runs
  BY OwnTasks
<1>2. ASSUME NEW x PROVE x \in AtWork' <=> x \in AtWork
  <2>1. CASE x = r
    BY <1>1, <2>1, AtWorkIs
  <2>2. CASE x \in TasksOf(r)
    <3>1. x \in Tasks
      BY <2>2, OwnTasks
    <3> QED
      BY <1>1, <2>2, <3>1, AtWorkIs
  <2>3. CASE x # r /\ x \notin TasksOf(r)
    BY <2>3, WorkOfOthers
  <2> QED
    BY <2>1, <2>2, <2>3
<1> QED
  BY <1>2

LEMMA RunAtWork ==
  ASSUME Inv, NEW r \in Runs, Act(r), UNCHANGED <<stage, trace>>
  PROVE  /\ Planning(r)' => AtWork' = AtWork \cup {r}
         /\ ~Planning(r)' => AtWork' = AtWork \ {r}
<1>1. \A t \in Tasks : t \notin Runs
  BY OwnTasks
<1>2. ASSUME NEW x, x # r PROVE x \in AtWork' <=> x \in AtWork
  <2>1. CASE x \in TasksOf(r)
    <3>1. x \in Tasks /\ (Working(x)' <=> Working(x))
      BY <2>1, OwnTasks DEF Working
    <3> QED
      BY <1>1, <3>1, AtWorkIs
  <2>2. CASE x \notin TasksOf(r)
    BY <1>2, <2>2, WorkOfOthers
  <2> QED
    BY <2>1, <2>2
<1>3. r \in AtWork' <=> Planning(r)'
  BY <1>1, AtWorkIs
<1> QED
  BY <1>2, <1>3

LEMMA TaskAtWork ==
  ASSUME Inv, NEW r \in Runs, Act(r), NEW t \in TasksOf(r), Planning(r)' <=> Planning(r),
         NEW place, place # "stopping", stage' = [stage EXCEPT ![t] = place],
         UNCHANGED trace \/ \E last : trace' = [trace EXCEPT ![t] = last]
  PROVE  /\ place \in {"working", "reviewing"} => AtWork' = AtWork \cup {t}
         /\ place \notin {"working", "reviewing"} => AtWork' = AtWork \ {t}
<1>1. /\ \A u \in Tasks : u \notin Runs
      /\ t \in Tasks /\ TasksOf(r) \subseteq Tasks
      /\ DOMAIN stage = Tasks /\ DOMAIN trace = Tasks
  BY OwnTasks, Domains DEF Inv
<1>2. ASSUME NEW x, x # t PROVE x \in AtWork' <=> x \in AtWork
  <2>1. CASE x \in TasksOf(r)
    <3>1. x \in Tasks /\ stage'[x] = stage[x] /\ trace'[x] = trace[x]
      BY <1>1, <1>2, <2>1
    <3> QED
      BY <1>1, <3>1, AtWorkIs DEF Working
  <2>2. CASE x = r
    BY <1>1, <2>2, AtWorkIs
  <2>3. CASE x \notin TasksOf(r) /\ x # r
    BY <2>3, WorkOfOthers
  <2> QED
    BY <2>1, <2>2, <2>3
<1>3. stage'[t] = place
  BY <1>1
<1>4. t \in AtWork' <=> place \in {"working", "reviewing"}
  BY <1>1, <1>3, AtWorkIs DEF Working
<1> QED
  BY <1>2, <1>4

(* How a lease moves with the work. *)
Held == reading = AtWork \ Writers /\ writing = AtWork \cap Writers /\ Lease!Exclusive

LEMMA HeldKept ==
  ASSUME Held, NEW x,
         \/ AtWork' = AtWork /\ UNCHANGED <<reading, writing>>
         \/ AtWork' = AtWork \cup {x} /\ x \notin Writers /\ Lease!Read(x)
         \/ AtWork' = AtWork \cup {x} /\ x \in Writers /\ Lease!Write(x)
         \/ AtWork' = AtWork \ {x} /\ Lease!Leave(x)
  PROVE  Held'
<1>1. CASE AtWork' = AtWork /\ UNCHANGED <<reading, writing>>
  BY <1>1 DEF Held, Lease!Exclusive
<1>2. CASE AtWork' = AtWork \cup {x} /\ x \notin Writers /\ Lease!Read(x)
  BY <1>2 DEF Held, Lease!Exclusive, Lease!Read
<1>3. CASE AtWork' = AtWork \cup {x} /\ x \in Writers /\ Lease!Write(x)
  BY <1>3 DEF Held, Lease!Exclusive, Lease!Write
<1>4. CASE AtWork' = AtWork \ {x} /\ Lease!Leave(x)
  BY <1>4 DEF Held, Lease!Exclusive, Lease!Leave
<1> QED
  BY <1>1, <1>2, <1>3, <1>4

LEMMA LeaseKept ==
  ASSUME Inv, NEW r \in Runs, Act(r)
  PROVE  LeaseInv' /\ queued' \subseteq Writers
<1> DEFINE waits(t) == stage[t] \in {"entering", "stopping"} /\ trace[t][1] = "plan.created"
<1>1. Held /\ queued \subseteq Writers /\ \A t \in queued : waits(t)
  BY DEF Inv, LeaseInv, Held, TypeOK, Lease!TypeOK
<1>2. /\ r \notin Writers /\ r \notin Tasks
      /\ \A t \in TasksOf(r) : t \in Tasks /\ t \notin Runs
      /\ \A t \in Tasks : t \notin TasksOf(r) => \E s \in Runs \ {r} : t \in TasksOf(s)
      /\ Writers \subseteq Tasks
      /\ DOMAIN stage = Tasks /\ DOMAIN trace = Tasks /\ r \in DOMAIN phase
  BY OwnTasks, Domains, AccessAssumption DEF Inv
<1>3. ASSUME Held', \A t \in queued' : t \in queued \/ t \in TasksOf(r) \cap Writers,
             \A t \in queued' \cap TasksOf(r) : waits(t)'
      PROVE  LeaseInv' /\ queued' \subseteq Writers
  <2>1. ASSUME NEW t \in queued' PROVE waits(t)' /\ t \in Writers
    <3>1. CASE t \in TasksOf(r)
      BY <1>1, <1>3, <3>1
    <3>2. CASE t \notin TasksOf(r)
      <4>1. t \in queued /\ t \in Tasks
        BY <1>1, <1>2, <1>3, <3>2
      <4>2. PICK s \in Runs \ {r} : t \in TasksOf(s)
        BY <1>2, <3>2, <4>1
      <4>3. stage'[t] = stage[t] /\ trace'[t] = trace[t]
        BY <4>2, Others DEF Untouched
      <4> QED
        BY <1>1, <4>1, <4>3
    <3> QED
      BY <3>1, <3>2
  <2>2. Held'
    BY <1>3
  <2> QED
    BY <2>1, <2>2 DEF LeaseInv, Held
<1>4. ASSUME UNCHANGED leaseVars, AtWork' = AtWork,
             \A t \in TasksOf(r) : waits(t) => waits(t)'
      PROVE  LeaseInv' /\ queued' \subseteq Writers
  <2>1. UNCHANGED <<reading, writing>> /\ queued' = queued
    BY <1>4 DEF leaseVars
  <2>2. Held'
    BY <1>1, <1>4, <2>1, HeldKept
  <2>3. \A t \in queued' \cap TasksOf(r) : waits(t)'
    BY <1>1, <1>4, <2>1
  <2> HIDE DEF waits
  <2> QED
    BY <1>3, <2>1, <2>2, <2>3
<1>5. ASSUME UNCHANGED <<stage, trace>>, queued' = queued, Held'
      PROVE  LeaseInv' /\ queued' \subseteq Writers
  BY <1>1, <1>3, <1>5
<1>6. ASSUME NEW t \in TasksOf(r), NEW place, stage' = [stage EXCEPT ![t] = place],
             UNCHANGED trace \/ \E last : trace' = [trace EXCEPT ![t] = last],
             queued' \subseteq queued \ {t}, Held'
      PROVE  LeaseInv' /\ queued' \subseteq Writers
  <2>1. \A u \in TasksOf(r) : u # t => stage'[u] = stage[u] /\ trace'[u] = trace[u]
    BY <1>2, <1>6
  <2>2. \A u \in queued' \cap TasksOf(r) : waits(u)'
    BY <1>1, <1>6, <2>1
  <2>3. \A u \in queued' : u \in queued
    BY <1>6
  <2> HIDE DEF waits
  <2> QED
    BY <1>3, <1>6, <2>2, <2>3
<1>7. \A t \in TasksOf(r) : stage[t] \in {"working", "reviewing"} => t \notin queued
  BY <1>1
<1>8. CASE Begin(r) \/ Finish(r)
  <2>1. /\ ~Planning(r) /\ ~Planning(r)'
        /\ UNCHANGED <<stage, trace>> /\ UNCHANGED leaseVars
    BY <1>2, <1>8 DEF Begin, Finish, Complete, Gathered, Planning, taskVars
  <2>2. AtWork' = AtWork
    <3>1. \A u \in TasksOf(r) : Working(u)' <=> Working(u)
      BY <2>1 DEF Working
    <3> QED
      BY <2>1, <3>1, SameWork
  <2> QED
    BY <1>4, <2>1, <2>2
<1>9. CASE EnterPlanning(r)
  <2>1. UNCHANGED <<stage, trace>> /\ ~Planning(r)
    BY <1>9 DEF EnterPlanning, Planning, taskVars
  <2>2. CASE Lease!Read(r) /\ phase' = [phase EXCEPT ![r] = "planning"]
    <3>1. AtWork' = AtWork \cup {r}
      BY <1>2, <2>1, <2>2, RunAtWork DEF Planning
    <3>2. Held' /\ queued' = queued
      BY <1>1, <1>2, <2>2, <3>1, HeldKept DEF Lease!Read
    <3> QED
      BY <1>5, <2>1, <3>2
  <2>3. CASE PassThrough(r) /\ Complete(r, "budget_exhausted", <<>>)
    <3>1. ~Planning(r)' /\ UNCHANGED leaseVars
      BY <1>2, <2>3 DEF PassThrough, Complete, Planning
    <3>2. \A u \in TasksOf(r) : Working(u)' <=> Working(u)
      BY <2>1 DEF Working
    <3>3. AtWork' = AtWork
      BY <2>1, <3>1, <3>2, SameWork
    <3> QED
      BY <1>4, <2>1, <3>1, <3>3
  <2> QED
    BY <1>9, <2>2, <2>3 DEF EnterPlanning
<1>10. CASE EndPlanning(r) \/ StopPlanning(r)
  <2>1. UNCHANGED <<stage, trace>> /\ Lease!Leave(r) /\ ~Planning(r)'
    BY <1>2, <1>10 DEF EndPlanning, StopPlanning, Complete, Planning, taskVars
  <2>2. AtWork' = AtWork \ {r}
    BY <2>1, RunAtWork
  <2>3. Held' /\ queued' = queued
    BY <1>1, <2>1, <2>2, HeldKept DEF Lease!Leave
  <2> QED
    BY <1>5, <2>1, <2>3
<1>11. CASE Block(r) \/ StartWave(r)
  <2>1. UNCHANGED leaseVars /\ (Planning(r)' <=> Planning(r))
    BY <1>11 DEF Block, StartWave, Planning, runVars
  <2>2. ASSUME NEW t \in TasksOf(r)
        PROVE  (Working(t)' <=> Working(t)) /\ (waits(t) => waits(t)')
    <3>1. \/ stage'[t] = stage[t] /\ trace'[t] = trace[t]
          \/ stage[t] = "pending" /\ stage'[t] \in {"returned", "entering"}
      BY <1>2, <1>11 DEF Block, StartWave, Blocked, Ready
    <3> QED
      BY <3>1 DEF Working
  <2>3. AtWork' = AtWork
    BY <2>1, <2>2, SameWork
  <2> QED
    BY <1>4, <2>1, <2>2, <2>3
<1>12. CASE Cancel(r)
  <2>1. UNCHANGED leaseVars /\ UNCHANGED trace
    BY <1>12 DEF Cancel
  <2>2. Planning(r)' <=> Planning(r)
    BY <1>2, <1>12 DEF Cancel, Planning, Gathered
  <2>3. ASSUME NEW t \in TasksOf(r)
        PROVE  (Working(t)' <=> Working(t)) /\ (waits(t) => waits(t)')
    <3>1. \/ stage'[t] = stage[t]
          \/ stage[t] \in Active /\ stage'[t] = "stopping"
      BY <1>2, <1>12 DEF Cancel
    <3>2. /\ stage[t] = "entering" => trace[t] = <<"plan.created", r>>
          /\ stage[t] = "working" => trace[t] = <<"task.assigned", t>>
          /\ stage[t] = "reviewing" => trace[t] = <<"review.request", t>>
      BY DEF Inv, TraceInv
    <3> QED
      BY <2>1, <3>1, <3>2 DEF Working, Active
  <2>4. AtWork' = AtWork
    BY <2>2, <2>3, SameWork
  <2> QED
    BY <1>4, <2>1, <2>3, <2>4
<1>13. ASSUME NEW t \in TasksOf(r), Queue(t)
       PROVE  LeaseInv' /\ queued' \subseteq Writers
  <2>1. /\ UNCHANGED <<phase, stage, trace, reading, writing>>
        /\ queued' = queued \cup {t} /\ t \in Writers /\ stage[t] = "entering"
    BY <1>13 DEF Queue, Lease!Queue, runVars, taskVars
  <2>2. trace[t][1] = "plan.created"
    BY <2>1 DEF Inv, TraceInv
  <2>3. (Planning(r)' <=> Planning(r)) /\ \A u \in TasksOf(r) : Working(u)' <=> Working(u)
    BY <2>1 DEF Planning, Working
  <2>4. AtWork' = AtWork
    BY <2>3, SameWork
  <2>5. Held'
    BY <1>1, <2>1, <2>4, HeldKept
  <2>6. \A u \in queued' : waits(u)'
    BY <1>1, <2>1, <2>2
  <2>7. \A u \in queued' : u \in queued \/ u \in TasksOf(r) \cap Writers
    BY <2>1
  <2> HIDE DEF waits
  <2> QED
    BY <1>3, <2>5, <2>6, <2>7
<1>14. ASSUME NEW t \in TasksOf(r), NEW place, stage' = [stage EXCEPT ![t] = place],
              place # "stopping", Planning(r)' <=> Planning(r),
              UNCHANGED trace \/ \E last : trace' = [trace EXCEPT ![t] = last],
              \/ /\ UNCHANGED <<reading, writing>> /\ queued' \subseteq queued \ {t}
                 /\ place \in {"working", "reviewing"} <=> t \in AtWork
              \/ /\ Take(t) /\ place \in {"working", "reviewing"}
              \/ /\ Lease!Leave(t) /\ place \notin {"working", "reviewing"} /\ t \notin queued
       PROVE  LeaseInv' /\ queued' \subseteq Writers
  <2>1. /\ place \in {"working", "reviewing"} => AtWork' = AtWork \cup {t}
        /\ place \notin {"working", "reviewing"} => AtWork' = AtWork \ {t}
    BY <1>14, TaskAtWork
  <2>2. Held' /\ queued' \subseteq queued \ {t}
    <3>1. CASE /\ UNCHANGED <<reading, writing>> /\ queued' \subseteq queued \ {t}
               /\ place \in {"working", "reviewing"} <=> t \in AtWork
      <4>1. AtWork' = AtWork
        BY <2>1, <3>1
      <4> QED
        BY <1>1, <3>1, <4>1, HeldKept
    <3>2. CASE Take(t) /\ place \in {"working", "reviewing"}
      <4>1. AtWork' = AtWork \cup {t}
        BY <2>1, <3>2
      <4>2. CASE t \in Writers
        BY <1>1, <3>2, <4>1, <4>2, HeldKept DEF Take, Lease!Write
      <4>3. CASE t \notin Writers
        BY <1>1, <3>2, <4>1, <4>3, HeldKept DEF Take, Lease!Read
      <4> QED
        BY <4>2, <4>3
    <3>3. CASE Lease!Leave(t) /\ place \notin {"working", "reviewing"} /\ t \notin queued
      <4>1. AtWork' = AtWork \ {t}
        BY <2>1, <3>3
      <4> QED
        BY <1>1, <3>3, <4>1, HeldKept DEF Lease!Leave
    <3> QED
      BY <1>14, <3>1, <3>2, <3>3
  <2> QED
    BY <1>6, <1>14, <2>2
<1>15. ASSUME NEW t \in TasksOf(r), NEW final, NEW messages, NEW last,
              ReturnFailed(r, t, final, messages, last)
       PROVE  /\ stage' = [stage EXCEPT ![t] = "returned"]
              /\ \E id : trace' = [trace EXCEPT ![t] = id]
              /\ UNCHANGED phase
  BY <1>15 DEF ReturnFailed, Return
<1>16. ASSUME NEW t \in TasksOf(r), Enter(r, t)
       PROVE  LeaseInv' /\ queued' \subseteq Writers
  <2>1. stage[t] = "entering" /\ t \notin AtWork
    <3>1. stage[t] = "entering"
      BY <1>16 DEF Enter
    <3> QED
      BY <1>2, <3>1, AtWorkIs DEF Working
  <2>2. ASSUME PassThrough(t)
        PROVE  UNCHANGED <<reading, writing>> /\ queued' \subseteq queued \ {t}
    <3>1. CASE t \in Writers
      BY <2>2, <3>1 DEF PassThrough
    <3>2. CASE t \notin Writers
      BY <1>1, <2>2, <3>2 DEF PassThrough, leaseVars
    <3> QED
      BY <3>1, <3>2
  <2>3. ASSUME PassThrough(t), NEW final, NEW messages, NEW last,
               ReturnFailed(r, t, final, messages, last)
        PROVE  LeaseInv' /\ queued' \subseteq Writers
    <3>1. /\ stage' = [stage EXCEPT ![t] = "returned"]
          /\ \E id : trace' = [trace EXCEPT ![t] = id]
          /\ Planning(r)' <=> Planning(r)
      BY <1>15, <2>3 DEF Planning
    <3>2. UNCHANGED <<reading, writing>> /\ queued' \subseteq queued \ {t}
      BY <2>2, <2>3
    <3> QED
      BY <1>14, <2>1, <3>1, <3>2
  <2>4. ASSUME Take(t), NEW messages, Call(r, t, "working", messages)
        PROVE  LeaseInv' /\ queued' \subseteq Writers
    <3>1. /\ stage' = [stage EXCEPT ![t] = "working"]
          /\ \E id : trace' = [trace EXCEPT ![t] = id]
          /\ Planning(r)' <=> Planning(r)
      BY <2>4 DEF Call, Planning
    <3> QED
      BY <1>14, <2>4, <3>1
  <2> QED
    BY <1>16, <2>3, <2>4 DEF Enter
<1>17. ASSUME NEW t \in TasksOf(r), EndWork(r, t) \/ EndReview(r, t)
       PROVE  LeaseInv' /\ queued' \subseteq Writers
  <2>1. stage[t] \in {"working", "reviewing"} /\ t \notin queued /\ t \in AtWork
    <3>1. stage[t] \in {"working", "reviewing"}
      BY <1>17 DEF EndWork, EndReview
    <3> QED
      BY <1>2, <1>7, <3>1, AtWorkIs DEF Working
  <2>2. \/ /\ Lease!Leave(t)
           /\ \E final, review, messages, last :
                \/ Return(r, t, final, review, messages, last)
                \/ ReturnFailed(r, t, final, messages, last)
        \/ /\ \E messages : Call(r, t, "reviewing", messages)
           /\ UNCHANGED leaseVars
    <3>1. CASE EndReview(r, t)
      BY <3>1 DEF EndReview
    <3>2. CASE EndWork(r, t)
      BY <3>2 DEF EndWork
    <3> QED
      BY <1>17, <3>1, <3>2
  <2>3. ASSUME Lease!Leave(t), NEW final, NEW review, NEW messages, NEW last,
               \/ Return(r, t, final, review, messages, last)
               \/ ReturnFailed(r, t, final, messages, last)
        PROVE  LeaseInv' /\ queued' \subseteq Writers
    <3>1. /\ stage' = [stage EXCEPT ![t] = "returned"]
          /\ \E id : trace' = [trace EXCEPT ![t] = id]
          /\ UNCHANGED phase
      BY <1>15, <2>3 DEF Return
    <3>2. Planning(r)' <=> Planning(r)
      BY <3>1 DEF Planning
    <3> QED
      BY <1>14, <2>1, <2>3, <3>1, <3>2
  <2>4. ASSUME NEW messages, Call(r, t, "reviewing", messages), UNCHANGED leaseVars
        PROVE  LeaseInv' /\ queued' \subseteq Writers
    <3>1. /\ stage' = [stage EXCEPT ![t] = "reviewing"]
          /\ \E id : trace' = [trace EXCEPT ![t] = id]
          /\ Planning(r)' <=> Planning(r)
          /\ UNCHANGED <<reading, writing>> /\ queued' \subseteq queued \ {t}
      BY <2>1, <2>4 DEF Call, Planning, leaseVars
    <3> QED
      BY <1>14, <2>1, <3>1
  <2> QED
    BY <2>2, <2>3, <2>4
<1>18. ASSUME NEW t \in TasksOf(r), Stop(r, t)
       PROVE  LeaseInv' /\ queued' \subseteq Writers
  <2>1. /\ stage[t] = "stopping" /\ stage' = [stage EXCEPT ![t] = "stopped"]
        /\ UNCHANGED trace /\ phase' = [phase EXCEPT ![r] = "cancelled"]
    BY <1>18 DEF Stop
  <2>2. Planning(r)' <=> Planning(r)
    <3>1. phase[r] \in {"cancelling", "cancelled"} /\ phase'[r] = "cancelled"
      BY <1>2, <2>1 DEF Inv, PhaseInv
    <3> QED
      BY <3>1 DEF Planning
  <2>3. /\ t \in AtWork <=> t \in reading \cup writing
        /\ t \in AtWork => t \notin queued
    <3>1. t \in AtWork => trace[t][1] # "plan.created"
      BY <1>2, <2>1, AtWorkIs DEF Working
    <3> QED
      BY <1>1, <3>1 DEF Held
  <2>4. \/ UNCHANGED <<reading, writing>> /\ queued' \subseteq queued \ {t} /\ t \notin AtWork
        \/ Lease!Leave(t) /\ t \notin queued
    <3>1. CASE Lease!Leave(t)
      BY <2>3, <3>1 DEF Lease!Leave
    <3>2. CASE Lease!Withdraw(t)
      BY <2>3, <3>2 DEF Lease!Withdraw
    <3>3. CASE t \notin reading \cup writing \cup queued /\ UNCHANGED leaseVars
      BY <2>3, <3>3 DEF leaseVars
    <3> QED
      BY <1>18, <3>1, <3>2, <3>3 DEF Stop
  <2> QED
    BY <1>14, <2>1, <2>2, <2>4
<1> QED
  BY <1>8, <1>9, <1>10, <1>11, <1>12, <1>13, <1>16, <1>17, <1>18 DEF Act, Advance, Step

-------------------------------------------------------------------------------
LEMMA TypesKept ==
  ASSUME Inv, NEW r \in Runs, Act(r)
  PROVE  TypeOK'
<1>1. /\ phase \in [Runs -> Phases] /\ overage \in [Runs -> BOOLEAN]
      /\ status \in [Runs -> Statuses \cup {None}]
      /\ stage \in [Tasks -> Stages] /\ result \in [Tasks -> Results \cup {None}]
      /\ verdict \in [Tasks -> {"APPROVE", "REJECT", None}]
      /\ trace \in [Tasks -> Ids \cup {None}] /\ terminal \in [Tasks -> Ids \cup {None}]
  BY DEF Inv, TypeOK, Phases, Stages
<1> DEFINE typed == /\ phase' \in [Runs -> Phases] /\ overage' \in [Runs -> BOOLEAN]
                    /\ status' \in [Runs -> Statuses \cup {None}]
                    /\ stage' \in [Tasks -> Stages]
                    /\ result' \in [Tasks -> Results \cup {None}]
                    /\ verdict' \in [Tasks -> {"APPROVE", "REJECT", None}]
                    /\ trace' \in [Tasks -> Ids \cup {None}]
                    /\ terminal' \in [Tasks -> Ids \cup {None}]
<1>2. Lease!TypeOK'
  <2>1. /\ reading' = AtWork' \ Writers /\ writing' = AtWork' \cap Writers
        /\ queued' \subseteq Writers
    BY LeaseKept DEF LeaseInv
  <2>2. AtWork' \subseteq Tasks \cup Runs
    BY AtWorkIs
  <2> QED
    BY <2>1, <2>2 DEF Lease!TypeOK
<1>3. history' \in [Runs -> Seq(Messages)]
  BY CausesKept
<1>4. TasksOf(r) \subseteq Tasks /\ r \in Runs
  BY OwnTasks
<1>5. \A t \in Tasks : <<"plan.created", r>> \in Ids /\ <<"task.blocked", t>> \in Ids
  BY DEF Ids, Types
<1>6. ASSUME NEW t \in TasksOf(r), NEW messages, NEW last, TaskStep(r, t, messages, last)
      PROVE  typed
  <2>1. /\ UNCHANGED <<phase, status>> /\ last \in Ids
        /\ trace' = [trace EXCEPT ![t] = last]
        /\ \E over \in {overage[r], TRUE} : overage' = [overage EXCEPT ![r] = over]
    BY <1>6 DEF TaskStep
  <2>2. /\ phase' \in [Runs -> Phases] /\ status' \in [Runs -> Statuses \cup {None}]
        /\ trace' \in [Tasks -> Ids \cup {None}]
    BY <1>1, <2>1
  <2>3. overage' \in [Runs -> BOOLEAN]
    BY <1>1, <2>1
  <2>4. CASE Returns(t, messages, last)
    <3>1. /\ stage' \in [Tasks -> Stages] /\ terminal' \in [Tasks -> Ids \cup {None}]
      BY <1>1, <2>1, <2>4 DEF Returns, Stages
    <3>2. /\ result' \in [Tasks -> Results \cup {None}]
          /\ verdict' \in [Tasks -> {"APPROVE", "REJECT", None}]
      BY <1>1, <2>4 DEF Returns
    <3> QED
      BY <2>2, <2>3, <3>1, <3>2
  <2>5. CASE CallsNext(t, messages, last)
    BY <1>1, <2>2, <2>3, <2>5 DEF CallsNext, Stages, Active
  <2> QED
    BY <1>6, <2>4, <2>5 DEF TaskStep
<1>7. ASSUME NEW from, NEW to \in Phases, NEW types, RunStep(r, from, to, types),
             UNCHANGED status \/ \E final \in Statuses : status' = [status EXCEPT ![r] = final]
      PROVE  typed
  <2>1. phase' \in [Runs -> Phases]
    BY <1>1, <1>7 DEF RunStep
  <2>2. overage' \in [Runs -> BOOLEAN]
    BY <1>1, <1>7 DEF RunStep
  <2>3. status' \in [Runs -> Statuses \cup {None}]
    BY <1>1, <1>7
  <2>4. UNCHANGED taskVars
    BY <1>7 DEF RunStep
  <2> QED
    BY <1>1, <2>1, <2>2, <2>3, <2>4 DEF taskVars
<1>8. ASSUME Block(r) PROVE typed
  <2>1. /\ UNCHANGED <<phase, overage, status, verdict, trace>>
        /\ stage' \in [Tasks -> Stages] /\ result' \in [Tasks -> Results \cup {None}]
    BY <1>1, <1>8 DEF Block, Stages, Results
  <2>2. terminal' \in [Tasks -> Ids \cup {None}]
    BY <1>1, <1>5, <1>8 DEF Block
  <2> QED
    BY <1>1, <2>1, <2>2
<1>9. ASSUME StartWave(r) PROVE typed
  <2>1. /\ UNCHANGED <<phase, overage, status, result, verdict, terminal>>
        /\ stage' \in [Tasks -> Stages]
    BY <1>1, <1>9 DEF StartWave, runVars, Stages, Active
  <2>2. trace' \in [Tasks -> Ids \cup {None}]
    BY <1>1, <1>5, <1>9 DEF StartWave
  <2> QED
    BY <1>1, <2>1, <2>2
<1>10. ASSUME PhaseOnly(r) PROVE typed
  <2>1. phase' \in [Runs -> Phases]
    BY <1>1, <1>10 DEF PhaseOnly, Phases
  <2> QED
    BY <1>1, <1>10, <2>1 DEF PhaseOnly, Silent
<1>11. ASSUME CancelWave(r) PROVE typed
  BY <1>1, <1>11 DEF CancelWave, Silent, Phases, Stages
<1>12. ASSUME NEW t \in TasksOf(r), StopTask(r, t) PROVE typed
  BY <1>1, <1>12 DEF StopTask, Silent, Phases, Stages
<1>13. /\ \A to \in {"entering", "executing", "done"} : to \in Phases
  BY DEF Phases
<1>14. typed
  <2>1. RunGoesOn(r) => typed
    BY <1>7, <1>13 DEF RunGoesOn
  <2>2. RunEnds(r) => typed
    BY <1>7, <1>13 DEF RunEnds
  <2> HIDE DEF typed
  <2> QED
    BY <1>6, <1>8, <1>9, <1>10, <1>11, <1>12, <2>1, <2>2, Steps
<1> QED
  BY <1>2, <1>3, <1>14 DEF TypeOK, Phases, Stages

LEMMA InvInit == Init => Inv
<1> SUFFICES ASSUME Init PROVE Inv
  OBVIOUS
<1>1. /\ \A r \in Runs : /\ phase[r] = "new" /\ overage[r] = FALSE /\ status[r] = None
                         /\ history[r] = <<>>
      /\ \A t \in Tasks : /\ stage[t] = "pending" /\ result[t] = None /\ verdict[t] = None
                          /\ trace[t] = None /\ terminal[t] = None
      /\ reading = {} /\ writing = {} /\ queued = {}
  BY DEF Init, Lease!Init
<1>2. \A r \in Runs : TasksOf(r) \subseteq Tasks /\ Published(r) = {}
  BY <1>1, OwnTasks DEF Published
<1>3. TypeOK
  <2>1. <<>> \in Seq(Messages)
    OBVIOUS
  <2> QED
    BY <2>1 DEF Init, Lease!Init, TypeOK, Lease!TypeOK
<1>4. PhaseInv /\ TraceInv
  BY <1>1, <1>2 DEF PhaseInv, TraceInv, Active
<1>5. LeaseInv
  <2>1. AtWork = {}
    BY <1>1 DEF AtWork
  <2> QED
    BY <1>1, <2>1 DEF LeaseInv, Lease!Exclusive
<1>6. SaidInv
  BY <1>1, <1>2 DEF SaidInv, Active
<1>7. CausesPrecede
  BY <1>1 DEF CausesPrecede, InCausalOrder
<1>8. TerminalIsLast /\ StatusInv
  BY <1>1, <1>2 DEF TerminalIsLast, StatusInv
<1>9. DependenciesSucceeded
  BY <1>1 DEF DependenciesSucceeded, Active
<1>10. NoUnreviewedSuccess
  BY <1>1, <1>2, NoneAssumption DEF NoUnreviewedSuccess, Results
<1> QED
  BY <1>3, <1>4, <1>5, <1>6, <1>7, <1>8, <1>9, <1>10 DEF Inv

LEMMA InvNext == Inv /\ [Next]_vars => Inv'
<1> SUFFICES ASSUME Inv, [Next]_vars PROVE Inv'
  OBVIOUS
<1>1. ASSUME NEW r \in Runs, Act(r) PROVE Inv'
  BY <1>1, TypesKept, PhaseKept, TraceKept, LeaseKept, SaidKept, CausesKept, TerminalKept,
     StatusKept, DependenciesKept, ReviewsKept DEF Inv
<1>2. CASE UNCHANGED vars
  <2>1. UNCHANGED <<phase, overage, status, history, stage, result, verdict, trace,
                    terminal, reading, writing, queued>>
    BY <1>2 DEF vars, runVars, taskVars, leaseVars
  <2>2. TypeOK' /\ PhaseInv' /\ TraceInv' /\ CausesPrecede' /\ TerminalIsLast'
        /\ DependenciesSucceeded'
    BY <2>1 DEF Inv, TypeOK, Lease!TypeOK, PhaseInv, TraceInv, CausesPrecede, TerminalIsLast,
                DependenciesSucceeded
  <2>3. AtWork' = AtWork /\ \A r \in Runs : Published(r)' = Published(r)
    BY <2>1 DEF AtWork, Published
  <2>4. LeaseInv'
    BY <2>1, <2>3 DEF Inv, LeaseInv, Lease!Exclusive
  <2>5. SaidInv'
    BY <2>1, <2>3 DEF Inv, SaidInv
  <2>6. NoUnreviewedSuccess'
    BY <2>1, <2>3 DEF Inv, NoUnreviewedSuccess
  <2>7. StatusInv'
    <3>1. \A r \in Runs : FinalStatus(r)' = FinalStatus(r)
      BY <2>1 DEF FinalStatus, Having
    <3> QED
      BY <2>1, <2>3, <3>1 DEF Inv, StatusInv
  <2> QED
    BY <2>2, <2>4, <2>5, <2>6, <2>7 DEF Inv
<1> QED
  BY <1>1, <1>2 DEF Next, Act, Terminated

LEMMA Invariant == Spec => []Inv
<1>1. Init => Inv
  BY InvInit
<1>2. Inv /\ [Next]_vars => Inv'
  BY InvNext
<1> QED
  BY <1>1, <1>2, PTL DEF Spec

(* Every reachable state is of the types the code works with.              *)
THEOREM RunTypes == Spec => []TypeOK
<1>1. Inv => TypeOK
  BY DEF Inv
<1> QED
  BY <1>1, Invariant, PTL

(* No task starts, or counts as anything but blocked, before all it        *)
(* depends on has succeeded: the waves and the blocking of _execute_plan.  *)
THEOREM DependenciesFirst == Spec => []DependenciesSucceeded
<1>1. Inv => DependenciesSucceeded
  BY DEF Inv
<1> QED
  BY <1>1, Invariant, PTL

(* A write, whatever config.verification says, and a task that it says is  *)
(* verified, counts as succeeded only with the approval of a review that   *)
(* the run's history records.                                              *)
THEOREM ReviewsEnforced == Spec => []NoUnreviewedSuccess
<1>1. Inv => NoUnreviewedSuccess
  BY DEF Inv
<1> QED
  BY <1>1, Invariant, PTL

(* The messages of a run that executes concurrent tasks are in causal      *)
(* order, and the records name each task's last message.                   *)
THEOREM TraceIsSound == Spec => []TraceSound
<1>1. Inv => TraceSound
  BY DEF Inv, TraceSound
<1> QED
  BY <1>1, Invariant, PTL

(* The messages about each task form one chain, whichever of its calls and *)
(* reviews fail: the mutable trace of _execute_task always names the       *)
(* latest of them.                                                         *)
THEOREM ChainsUnbroken == Spec => []CauseIsLatest
<1> DEFINE Chains == Inv /\ LatestInv /\ CauseIsLatest
<1>1. ASSUME Init PROVE Chains
  <2>1. \A r \in Runs : history[r] = <<>>
    BY <1>1 DEF Init
  <2>2. ASSUME NEW r \in Runs, NEW t \in TasksOf(r) PROVE stage[t] = "pending"
    BY <1>1, OwnTasks DEF Init
  <2> QED
    BY <1>1, <2>1, <2>2, InvInit DEF LatestInv, CauseIsLatest
<1>2. ASSUME Chains, [Next]_vars PROVE Chains'
  <2>1. Inv'
    BY <1>2, InvNext
  <2>2. ASSUME NEW r \in Runs, Act(r) PROVE LatestInv' /\ CauseIsLatest'
    BY <1>2, <2>2, LatestKept, LinksKept
  <2>3. ASSUME UNCHANGED vars PROVE LatestInv' /\ CauseIsLatest'
    <3>1. UNCHANGED <<history, stage, trace>>
      BY <2>3 DEF vars, runVars, taskVars
    <3> QED
      BY <1>2, <3>1 DEF LatestInv, CauseIsLatest
  <2>4. LatestInv' /\ CauseIsLatest'
    BY <1>2, <2>2, <2>3 DEF Next, Act, Terminated
  <2> QED
    BY <2>1, <2>4
<1>3. Chains => CauseIsLatest
  OBVIOUS
<1> HIDE DEF Chains
<1> QED
  BY <1>1, <1>2, <1>3, PTL DEF Spec

(* The status of a run that executed its plan is what its tasks' records   *)
(* and its ledger give: success is complete and every overage is reported. *)
THEOREM StatusIsTruthful == Spec => []StatusTruthful
<1>1. ASSUME Inv PROVE StatusTruthful
  <2> SUFFICES ASSUME NEW r \in Runs, phase[r] = "done",
                      <<"plan.created", r>> \in Published(r)
               PROVE  /\ status[r] = "succeeded" =>
                           ~overage[r] /\ Having(r, {"succeeded"}) = TasksOf(r)
                      /\ overage[r] => status[r] = "budget_exhausted"
    BY DEF StatusTruthful
  <2>1. status[r] = FinalStatus(r)
    BY <1>1 DEF Inv, StatusInv
  <2> QED
    BY <2>1 DEF FinalStatus
<1> QED
  BY <1>1, Invariant, PTL

(* A run that has returned leaves no task and no lease behind; a cancelled *)
(* one leaves only tasks that are being stopped.                           *)
THEOREM NothingIsLeft == Spec => []NothingLeftRunning
<1>1. ASSUME Inv PROVE NothingLeftRunning
  <2> SUFFICES ASSUME NEW r \in Runs, NEW t \in TasksOf(r)
               PROVE  /\ phase[r] \in {"done", "cancelled"} => stage[t] \notin Active
                      /\ phase[r] = "done" =>
                           /\ stage[t] # "stopping"
                           /\ {r, t} \cap (reading \cup writing \cup queued) = {}
    BY DEF NothingLeftRunning
  <2>1. /\ stage[t] \in Active => phase[r] = "executing"
        /\ stage[t] \in {"stopping", "stopped"} => phase[r] \in {"cancelling", "cancelled"}
    BY <1>1 DEF Inv, PhaseInv
  <2>2. ASSUME phase[r] = "done" PROVE {r, t} \cap (reading \cup writing \cup queued) = {}
    <3>1. t \in Tasks /\ t \notin Runs /\ r \notin Tasks
      BY OwnTasks
    <3>2. stage[t] \notin {"entering", "working", "reviewing", "stopping"}
      BY <2>1, <2>2 DEF Active
    <3>3. t \notin AtWork /\ r \notin AtWork
      BY <2>2, <3>1, <3>2, AtWorkIs DEF Working, Planning
    <3>4. reading \subseteq AtWork /\ writing \subseteq AtWork
      BY <1>1 DEF Inv, LeaseInv
    <3>5. r \notin queued
      BY <1>1, <3>1, AccessAssumption DEF Inv, TypeOK, Lease!TypeOK
    <3>6. t \notin queued
      BY <1>1, <3>2 DEF Inv, LeaseInv
    <3> QED
      BY <3>3, <3>4, <3>5, <3>6
  <2> QED
    BY <2>1, <2>2
<1> QED
  BY <1>1, Invariant, PTL

(* A task with workspace_write access works while nobody else is at work   *)
(* in the checkout, whatever access the planners have.                     *)
TaskWritesAlone == \A w \in AtWork \cap Writers : AtWork = {w}

THEOREM TasksWriteAlone == Spec => []TaskWritesAlone
<1>1. ASSUME Inv PROVE TaskWritesAlone
  <2> SUFFICES ASSUME NEW w \in AtWork \cap Writers PROVE AtWork = {w}
    BY DEF TaskWritesAlone
  <2>1. /\ reading = AtWork \ Writers /\ writing = AtWork \cap Writers
        /\ writing # {} => reading = {}
        /\ \A v, x \in writing : v = x
    BY <1>1 DEF Inv, LeaseInv, Lease!Exclusive
  <2>2. \A x \in AtWork : x = w
    BY <2>1
  <2> QED
    BY <2>2
<1> QED
  BY <1>1, Invariant, PTL

(* Nobody with workspace_write access works beside another, provided that  *)
(* no overseer has it: planners take a read lease whatever their access.   *)
THEOREM WritersAlone == Overseers = {} => (Spec => []WriterAlone)
<1> SUFFICES ASSUME Overseers = {} PROVE Spec => []WriterAlone
  OBVIOUS
<1>1. TaskWritesAlone => WriterAlone
  BY DEF TaskWritesAlone, WriterAlone
<1> QED
  BY <1>1, TasksWriteAlone, PTL
===============================================================================

------------------------ MODULE RefreshPipelineProofs ------------------------
(* Theorems about RefreshPipeline, for any number of tasks, changes, faults, *)
(* attempts and invocations side by side.                                    *)
EXTENDS RefreshPipeline, FiniteSetTheorems, TLAPS

Statuses == {"none", "queued", "running", "done", "ignored", "dead"}

Invocation == [todo : SUBSET Instance, target : Instance \union {NoInstance}, made : Nat,
               spent : 0 .. Deadlines - 1, ok : BOOLEAN]

\* An event has attempts left while it is queued; every address is called once; and
\* success, of one call or of the whole, has been confirmed by a load after the change.
EventOK(e) ==
    /\ status[e] \in Statuses
    /\ inv[e] \in Invocation
    /\ status[e] # "none" <=> e <= changes
    /\ status[e] = "none" => attempts[e] = 0
    /\ status[e] = "queued" => attempts[e] < MaxAttempts
    /\ status[e] # "running" => inv[e] = NoInvocation
    /\ inv[e].made + Cardinality(inv[e].todo) <= Cardinality(Instance)
    /\ inv[e].ok = TRUE => confirmed[e] = TRUE
    /\ status[e] = "done" => confirmed[e] = TRUE

LambdaOK ==
    /\ DOMAIN status = Event /\ attempts \in [Event -> 0 .. MaxAttempts]
    /\ DOMAIN inv = Event /\ confirmed \in [Event -> BOOLEAN]
    /\ \A e \in Event : EventOK(e)

\* A load that was started for a change has read the store after it.
LoadOK(x) ==
    /\ x \in LoadRecord /\ x.inst \in up
    /\ x.event <= changes
    /\ x.ver # Empty => x.ver >= x.event

TasksOK ==
    /\ up \subseteq Instance /\ dns \subseteq Instance
    /\ served \in [Instance -> Version]
    /\ \A x \in loads : LoadOK(x)

PInv == changes \in 0 .. MaxChanges /\ LambdaOK /\ TasksOK

-----------------------------------------------------------------------------
LEMMA InstancesFacts ==
    /\ Cardinality(Instance) \in Nat
    /\ \A S \in SUBSET Instance :
          IsFiniteSet(S) /\ Cardinality(S) \in Nat /\ Cardinality(S) <= Cardinality(Instance)
  BY InstanceAssumption, FS_Subset, FS_CardinalityType

LEMMA NoInvocationFacts ==
    /\ NoInvocation \in Invocation
    /\ NoInvocation.made + Cardinality(NoInvocation.todo) <= Cardinality(Instance)
    /\ NoInvocation.ok = FALSE
  BY InstancesFacts, BoundsAssumption, FS_EmptySet DEF NoInvocation, Invocation

LEMMA InitPInv == Init => PInv
  <1> SUFFICES ASSUME Init PROVE PInv
    OBVIOUS
  <1>1. changes = 0 /\ changes \in 0 .. MaxChanges /\ loads = {}
    BY BoundsAssumption DEF Init
  <1>2. ASSUME NEW e \in Event PROVE EventOK(e)
    <2>1. status[e] = "none" /\ attempts[e] = 0 /\ inv[e] = NoInvocation
      BY DEF Init
    <2>2. e \in Nat /\ ~(e <= changes)
      BY <1>1 DEF Event
    <2> QED
      BY <2>1, <2>2, NoInvocationFacts, BoundsAssumption DEF EventOK, Statuses
  <1>3. LambdaOK
    BY <1>2, BoundsAssumption DEF Init, LambdaOK
  <1>4. TasksOK
    BY <1>1, BoundsAssumption, InitialAssumption DEF Init, TasksOK, Version, Empty
  <1> QED
    BY <1>1, <1>3, <1>4 DEF PInv

-----------------------------------------------------------------------------
(* Steps of the Lambda.                                                     *)

\* The tasks do not notice.
LEMMA SameTasks == ASSUME PInv, UNCHANGED <<changes, tasks>> PROVE TasksOK'
  BY DEF PInv, TasksOK, LoadOK, tasks

\* What a step for event e leaves alone.
OtherEvents(e) ==
    \A f \in Event : f # e =>
        /\ status'[f] = status[f] /\ attempts'[f] = attempts[f]
        /\ inv'[f] = inv[f] /\ confirmed'[f] = confirmed[f]

LEMMA EventStep ==
    ASSUME PInv, NEW e \in Event, changes' = changes, OtherEvents(e), EventOK(e)',
           DOMAIN status' = Event, attempts' \in [Event -> 0 .. MaxAttempts], DOMAIN inv' = Event,
           confirmed' \in [Event -> BOOLEAN]
    PROVE  LambdaOK'
  <1>1. ASSUME NEW f \in Event, f # e PROVE EventOK(f)'
    BY <1>1 DEF PInv, LambdaOK, EventOK, OtherEvents
  <1> QED
    BY <1>1 DEF LambdaOK

LEMMA SettleOK ==
    ASSUME PInv, NEW e \in Event, status[e] # "none",
           NEW s \in {"queued", "done", "ignored", "dead"}, Settle(e, s),
           NEW n \in 0 .. MaxAttempts, attempts' = [attempts EXCEPT ![e] = n],
           s = "queued" => n < MaxAttempts, s = "done" => confirmed[e] = TRUE,
           changes' = changes, confirmed' = confirmed
    PROVE  LambdaOK'
  <1>1. /\ status' = [status EXCEPT ![e] = s]
        /\ inv' = [inv EXCEPT ![e] = NoInvocation]
    BY DEF Settle
  <1>2. /\ DOMAIN status = Event /\ attempts \in [Event -> 0 .. MaxAttempts]
        /\ DOMAIN inv = Event /\ confirmed \in [Event -> BOOLEAN] /\ EventOK(e)
    BY DEF PInv, LambdaOK
  <1>3. EventOK(e)'
    BY <1>1, <1>2, NoInvocationFacts DEF EventOK, Statuses
  <1>4. OtherEvents(e)
    BY <1>1, <1>2 DEF OtherEvents
  <1> QED
    BY <1>1, <1>2, <1>3, <1>4, EventStep

\* The handler is in the middle of its calls, and goes on.
LEMMA GoesOn ==
    ASSUME PInv, NEW e \in Event, status[e] = "running",
           NEW i \in Invocation, inv' = [inv EXCEPT ![e] = i],
           i.made + Cardinality(i.todo) <= Cardinality(Instance),
           i.ok = TRUE => confirmed'[e] = TRUE,
           confirmed' \in [Event -> BOOLEAN],
           \A f \in Event : f # e => confirmed'[f] = confirmed[f],
           UNCHANGED <<changes, status, attempts>>
    PROVE  LambdaOK'
  <1>1. /\ DOMAIN status = Event /\ attempts \in [Event -> 0 .. MaxAttempts]
        /\ DOMAIN inv = Event /\ EventOK(e)
    BY DEF PInv, LambdaOK
  <1>2. EventOK(e)'
    BY <1>1 DEF EventOK
  <1>3. OtherEvents(e)
    BY <1>1 DEF OtherEvents
  <1> QED
    BY <1>1, <1>2, <1>3, EventStep

LEMMA InvokePInv == ASSUME PInv, NEW e \in Event, Invoke(e) PROVE PInv'
  <1>0. PICK n : n = attempts[e] + 1
    OBVIOUS
  <1>1. /\ EventOK(e) /\ status[e] = "queued" /\ n \in 0 .. MaxAttempts
        /\ attempts' = [attempts EXCEPT ![e] = n]
        /\ UNCHANGED <<changes, tasks, confirmed>>
    BY <1>0, BoundsAssumption DEF PInv, LambdaOK, EventOK, Invoke
  <1> SUFFICES LambdaOK'
    BY <1>1, SameTasks DEF PInv
  <1>2. CASE Settle(e, "ignored")
    BY <1>1, <1>2, SettleOK
  <1>3. CASE Failed(e, n)
    BY <1>1, <1>3, SettleOK, BoundsAssumption DEF Failed
  <1>4. CASE /\ status' = [status EXCEPT ![e] = "running"]
             /\ inv' = [inv EXCEPT ![e] = [NoInvocation EXCEPT !.todo = dns]]
    <2>0. PICK i : i = [NoInvocation EXCEPT !.todo = dns]
      OBVIOUS
    <2>1. dns \in SUBSET Instance
      BY DEF PInv, TasksOK
    <2>2. i \in Invocation /\ i.made = 0 /\ i.todo = dns /\ i.ok = FALSE
      <3>1. i = [todo |-> dns, target |-> NoInstance, made |-> 0, spent |-> 0, ok |-> FALSE]
        BY <2>0 DEF NoInvocation
      <3>2. 0 \in 0 .. Deadlines - 1 /\ FALSE \in BOOLEAN
        BY BoundsAssumption
      <3> QED
        BY <2>1, <3>1, <3>2 DEF Invocation
    <2>3. i.made + Cardinality(i.todo) <= Cardinality(Instance)
      BY <2>1, <2>2, InstancesFacts
    <2>4. /\ DOMAIN status = Event /\ attempts \in [Event -> 0 .. MaxAttempts]
          /\ DOMAIN inv = Event /\ confirmed \in [Event -> BOOLEAN]
      BY DEF PInv, LambdaOK
    <2>5. status'[e] = "running" /\ attempts'[e] = n /\ inv'[e] = i
      BY <1>1, <1>4, <2>0, <2>4
    <2>6. EventOK(e)'
      BY <1>1, <2>2, <2>3, <2>5 DEF EventOK, Statuses
    <2>7. OtherEvents(e)
      BY <1>1, <1>4, <2>4 DEF OtherEvents
    <2> QED
      BY <1>1, <1>4, <2>4, <2>6, <2>7, EventStep
  <1> QED
    BY <1>0, <1>2, <1>3, <1>4 DEF Invoke

LEMMA CallPInv == ASSUME PInv, NEW e \in Event, NEW a \in Instance, Call(e, a) PROVE PInv'
  <1> DEFINE x == [inst |-> a, event |-> e, try |-> attempts[e], ver |-> Empty]
  <1>1. /\ EventOK(e) /\ status[e] = "running" /\ a \in inv[e].todo
        /\ inv[e] \in Invocation
        /\ UNCHANGED <<changes, status, attempts, up, dns, served, confirmed>>
    BY DEF PInv, LambdaOK, EventOK, Call
  <1>2. PICK i : /\ i = [inv[e] EXCEPT !.todo = @ \ {a}, !.target = a, !.made = @ + 1]
                 /\ inv' = [inv EXCEPT ![e] = i]
    BY DEF Call, PInv, LambdaOK
  <1>3. /\ i \in Invocation /\ i.todo = inv[e].todo \ {a}
        /\ i.made = inv[e].made + 1 /\ i.ok = inv[e].ok
    <2>1. i = [todo |-> inv[e].todo \ {a}, target |-> a, made |-> inv[e].made + 1,
               spent |-> inv[e].spent, ok |-> inv[e].ok]
      BY <1>1, <1>2 DEF Invocation
    <2> QED
      BY <1>1, <2>1 DEF Invocation
  <1>4. i.made + Cardinality(i.todo) <= Cardinality(Instance)
    <2>1. IsFiniteSet(inv[e].todo) /\ inv[e].made \in Nat
      BY <1>1, InstancesFacts DEF Invocation
    <2>2. Cardinality(inv[e].todo \ {a}) = Cardinality(inv[e].todo) - 1
      BY <1>1, <2>1, FS_RemoveElement
    <2>3. Cardinality(inv[e].todo) \in Nat /\ Cardinality(Instance) \in Nat
      BY <2>1, FS_CardinalityType, InstancesFacts
    <2> QED
      BY <1>1, <1>3, <2>1, <2>2, <2>3 DEF EventOK
  <1>5. LambdaOK'
    <2>1. i.ok = TRUE => confirmed'[e] = TRUE
      BY <1>1, <1>3 DEF EventOK
    <2> QED
      BY <1>1, <1>2, <1>3, <1>4, <2>1, GoesOn DEF PInv, LambdaOK
  <1>6. TasksOK'
    <2>1. loads' \subseteq loads \union (IF a \in up THEN {x} ELSE {})
      BY DEF Call
    <2>2. a \in up => LoadOK(x)
      BY <1>1, BoundsAssumption
         DEF LoadOK, LoadRecord, EventOK, Event, Version, Empty, PInv, LambdaOK
    <2>3. \A y \in loads' : LoadOK(y)
      BY <2>1, <2>2 DEF PInv, TasksOK
    <2> QED
      BY <1>1, <2>3 DEF PInv, TasksOK, LoadOK
  <1> QED
    BY <1>1, <1>5, <1>6 DEF PInv

\* A call ends: in success only if a load has confirmed it.
LEMMA CallEndsOK ==
    ASSUME PInv, NEW e \in Event, NEW ok \in BOOLEAN, NEW late \in Nat,
           CallEnds(e, ok, late), inv[e].spent + late \in 0 .. Deadlines - 1,
           ok = TRUE => confirmed'[e] = TRUE, confirmed[e] = TRUE => confirmed'[e] = TRUE,
           status[e] = "running", confirmed' \in [Event -> BOOLEAN],
           \A f \in Event : f # e => confirmed'[f] = confirmed[f],
           UNCHANGED <<changes, status, attempts>>
    PROVE  LambdaOK'
  <1>1. EventOK(e) /\ inv[e] \in Invocation
    BY DEF PInv, LambdaOK, EventOK
  <1>2. PICK i :
            /\ i = [inv[e] EXCEPT !.target = NoInstance, !.ok = @ \/ ok, !.spent = @ + late]
            /\ inv' = [inv EXCEPT ![e] = i]
    BY DEF CallEnds, PInv, LambdaOK
  <1>3. /\ i.todo = inv[e].todo /\ i.made = inv[e].made /\ i.ok = (inv[e].ok \/ ok)
        /\ i \in Invocation
    BY <1>1, <1>2 DEF Invocation
  <1>4. i.ok = TRUE => confirmed'[e] = TRUE
    BY <1>1, <1>3 DEF EventOK, Invocation
  <1>5. i.made + Cardinality(i.todo) <= Cardinality(Instance)
    BY <1>1, <1>3 DEF EventOK
  <1> QED
    BY <1>2, <1>3, <1>4, <1>5, GoesOn

LEMMA CallFailsPInv ==
    ASSUME PInv, NEW e \in Event, CallFails(e) \/ Deadline(e)
    PROVE  PInv'
  <1>1. /\ status[e] = "running" /\ UNCHANGED <<changes, status, attempts, tasks, confirmed>>
        /\ confirmed \in [Event -> BOOLEAN] /\ inv[e].spent \in 0 .. Deadlines - 1
    BY DEF PInv, LambdaOK, EventOK, Invocation, CallFails, Deadline, Waiting
  <1>2. LambdaOK'
    <2>1. CASE CallFails(e)
      <3>1. CallEnds(e, FALSE, 0)
        BY <2>1, Zenon DEF CallFails
      <3>2. inv[e].spent + 0 \in 0 .. Deadlines - 1
        BY <1>1, BoundsAssumption
      <3> QED
        BY <1>1, <3>1, <3>2, CallEndsOK
    <2>2. CASE Deadline(e)
      <3>1. CallEnds(e, FALSE, 1)
        BY <2>2, Zenon DEF Deadline
      <3>2. inv[e].spent + 1 \in 0 .. Deadlines - 1
        BY <1>1, <2>2, BoundsAssumption DEF Deadline
      <3> QED
        BY <1>1, <3>1, <3>2, CallEndsOK
    <2> QED
      BY <2>1, <2>2
  <1> QED
    BY <1>1, <1>2, SameTasks DEF PInv

LEMMA EndsPInv ==
    ASSUME PInv, NEW e \in Event, Timeout(e) \/ Finish(e)
    PROVE  PInv'
  <1>0. PICK n : n = attempts[e]
    OBVIOUS
  <1>1. /\ EventOK(e) /\ status[e] = "running" /\ UNCHANGED <<changes, attempts, tasks, confirmed>>
        /\ n \in 0 .. MaxAttempts
        /\ attempts' = [attempts EXCEPT ![e] = n]
    <2>1. EventOK(e) /\ attempts \in [Event -> 0 .. MaxAttempts]
      BY DEF PInv, LambdaOK
    <2>2. status[e] = "running" /\ UNCHANGED <<changes, attempts, tasks, confirmed>>
      BY DEF Timeout, Finish, Waiting
    <2> QED
      BY <1>0, <2>1, <2>2
  <1> SUFFICES LambdaOK'
    BY <1>1, SameTasks DEF PInv
  <1>2. CASE Failed(e, n)
    BY <1>1, <1>2, SettleOK, BoundsAssumption DEF Failed
  <1>3. CASE Settle(e, "done") /\ inv[e].ok
    <2>1. confirmed[e] = TRUE
      BY <1>1, <1>3 DEF EventOK, Invocation
    <2> QED
      BY <1>1, <1>3, <2>1, SettleOK
  <1> QED
    BY <1>0, <1>2, <1>3 DEF Timeout, Finish

-----------------------------------------------------------------------------
(* Changes, and steps of the tasks.                                         *)

LEMMA ChangePInv == ASSUME PInv, NEW k \in Kind, Change(k) PROVE PInv'
  <1>1. /\ changes \in 0 .. MaxChanges /\ changes' = changes + 1 /\ changes' \in 0 .. MaxChanges
        /\ status' = [status EXCEPT ![changes + 1] = "queued"]
        /\ UNCHANGED <<attempts, inv, tasks, confirmed>>
    BY BoundsAssumption DEF PInv, Change
  <1>2. ASSUME NEW e \in Event PROVE EventOK(e)'
    <2>1. EventOK(e) /\ DOMAIN status = Event /\ e \in Nat
      BY DEF PInv, LambdaOK, Event
    <2>2. CASE e = changes + 1
      BY <1>1, <2>1, <2>2, BoundsAssumption DEF EventOK, Statuses
    <2>3. CASE e # changes + 1
      BY <1>1, <2>1, <2>3 DEF EventOK
    <2> QED
      BY <2>2, <2>3
  <1>3. LambdaOK'
    BY <1>1, <1>2 DEF PInv, LambdaOK
  <1>4. TasksOK'
    <2>1. UNCHANGED <<up, dns, loads, served>>
      BY <1>1 DEF tasks
    <2>2. ASSUME NEW x \in loads PROVE LoadOK(x)'
      <3>1. LoadOK(x) /\ x.event \in Int
        BY DEF PInv, TasksOK, LoadOK, LoadRecord
      <3> QED
        BY <1>1, <2>1, <3>1 DEF LoadOK
    <2> QED
      BY <2>1, <2>2 DEF PInv, TasksOK
  <1> QED
    BY <1>1, <1>3, <1>4 DEF PInv

\* The Lambda does not notice.
LEMMA SameLambda ==
    ASSUME PInv, UNCHANGED <<changes, lambda, confirmed>>
    PROVE  LambdaOK'
  BY DEF PInv, LambdaOK, EventOK, lambda

LEMMA ReadPInv == ASSUME PInv, NEW x \in loads, Read(x) PROVE PInv'
  <1>1. /\ UNCHANGED <<changes, lambda, confirmed, up, dns, served>>
        /\ loads' = (loads \ {x}) \union {[x EXCEPT !.ver = changes]}
    BY DEF Read
  <1>2. changes \in 0 .. MaxChanges /\ LoadOK(x)
    BY DEF PInv, TasksOK
  <1>3. LoadOK([x EXCEPT !.ver = changes])
    BY <1>2, BoundsAssumption DEF LoadOK, LoadRecord, Version, Empty
  <1>4. TasksOK'
    <2>1. ASSUME NEW y \in loads' PROVE LoadOK(y)
      BY <1>1, <1>3 DEF PInv, TasksOK
    <2> QED
      BY <1>1, <2>1 DEF PInv, TasksOK, LoadOK
  <1> QED
    BY <1>1, <1>4, SameLambda DEF PInv

\* The load that confirms an event was started for it, so it read the change.
LEMMA CommitPInv == ASSUME PInv, NEW x \in loads, Commit(x) PROVE PInv'
  <1>1. LoadOK(x) /\ x.ver # Empty /\ UNCHANGED <<changes, status, attempts, up, dns>>
    BY DEF PInv, TasksOK, Commit
  <1>2. TasksOK'
    <2>1. loads' \subseteq loads /\ served' = [served EXCEPT ![x.inst] = x.ver]
      BY DEF Commit
    <2>2. x.ver \in Version
      BY <1>1 DEF LoadOK, LoadRecord
    <2> QED
      BY <1>1, <2>1, <2>2 DEF PInv, TasksOK, LoadOK
  <1>3. LambdaOK'
    <2>1. CASE UNCHANGED <<inv, confirmed>>
      BY <1>1, <2>1, SameLambda DEF lambda
    <2>2. CASE /\ x.event # 0 /\ Waiting(x.event)
               /\ CallEnds(x.event, TRUE, 0)
               /\ confirmed' = [confirmed EXCEPT ![x.event] = @ \/ x.ver >= x.event]
      <3>1. PICK e : e = x.event
        OBVIOUS
      <3>2. e \in Event /\ status[e] = "running" /\ x.ver >= e
        BY <1>1, <2>2, <3>1 DEF LoadOK, LoadRecord, Event, Waiting
      <3>3. confirmed \in [Event -> BOOLEAN] /\ inv[e].spent + 0 \in 0 .. Deadlines - 1
        BY <3>2, BoundsAssumption DEF PInv, LambdaOK, EventOK, Invocation
      <3>4. confirmed' = [confirmed EXCEPT ![e] = TRUE]
        BY <2>2, <3>1, <3>2
      <3>5. /\ confirmed' \in [Event -> BOOLEAN] /\ confirmed'[e] = TRUE
            /\ \A f \in Event : f # e => confirmed'[f] = confirmed[f]
        BY <3>2, <3>3, <3>4
      <3>6. CallEnds(e, TRUE, 0)
        BY <2>2, <3>1, Zenon
      <3> QED
        BY <1>1, <3>2, <3>3, <3>5, <3>6, CallEndsOK
    <2> QED
      BY <2>1, <2>2 DEF Commit
  <1> QED
    BY <1>1, <1>2, <1>3 DEF PInv

\* A task that is gone leaves no load behind.
LEMMA GoneOK == ASSUME PInv, NEW i \in Instance, Gone(i), UNCHANGED <<changes, dns>> PROVE TasksOK'
  <1>1. /\ up' = up \ {i}
        /\ loads' = {x \in loads : x.inst # i}
        /\ served' = [served EXCEPT ![i] = Empty]
    BY DEF Gone
  <1>2. Empty \in Version
    BY BoundsAssumption DEF Empty, Version
  <1>3. ASSUME NEW x \in loads' PROVE LoadOK(x)'
    <2>1. LoadOK(x) /\ x.inst # i
      BY <1>1, <1>3 DEF PInv, TasksOK
    <2> QED
      BY <1>1, <2>1 DEF LoadOK
  <1> QED
    BY <1>1, <1>2, <1>3 DEF PInv, TasksOK

LEMMA RejectPInv == ASSUME PInv, NEW x \in loads, Reject(x) PROVE PInv'
  <1>1. UNCHANGED <<changes, lambda, dns, confirmed>>
    BY DEF Reject
  <1>2. TasksOK'
    <2>1. CASE Gone(x.inst)
      <3>1. PICK i \in Instance : i = x.inst
        BY DEF PInv, TasksOK, LoadOK, LoadRecord
      <3> QED
        BY <1>1, <2>1, <3>1, GoneOK
    <2>2. CASE loads' = loads \ {x} /\ UNCHANGED <<up, served>>
      BY <1>1, <2>2 DEF PInv, TasksOK, LoadOK
    <2> QED
      BY <2>1, <2>2 DEF Reject
  <1> QED
    BY <1>1, <1>2, SameLambda DEF PInv

LEMMA MovePInv ==
    ASSUME PInv, NEW i \in Instance, StartTask(i) \/ StopTask(i)
    PROVE  PInv'
  <1>1. UNCHANGED <<changes, lambda, dns, confirmed>>
    BY DEF StartTask, StopTask
  <1>2. TasksOK'
    <2>1. CASE StartTask(i)
      <3>1. /\ up' = up \union {i} /\ loads' = loads \union {Boot(i)}
            /\ UNCHANGED served
        BY <2>1 DEF StartTask
      <3>2. /\ Boot(i) \in LoadRecord /\ Boot(i).inst = i
            /\ Boot(i).event = 0 /\ Boot(i).ver = Empty
        BY BoundsAssumption DEF Boot, LoadRecord, Version, Empty
      <3>3. ASSUME NEW x \in loads' PROVE LoadOK(x)'
        <4>1. CASE x = Boot(i)
          BY <1>1, <3>1, <3>2, <4>1 DEF PInv, LoadOK
        <4>2. CASE x \in loads
          BY <1>1, <3>1, <4>2 DEF PInv, TasksOK, LoadOK
        <4> QED
          BY <3>1, <3>3, <4>1, <4>2
      <3> QED
        BY <1>1, <3>1, <3>3 DEF PInv, TasksOK
    <2>2. CASE StopTask(i)
      BY <1>1, <2>2, GoneOK DEF StopTask
    <2> QED
      BY <2>1, <2>2
  <1> QED
    BY <1>1, <1>2, SameLambda DEF PInv

LEMMA DnsPInv == ASSUME PInv, DnsUpdate PROVE PInv'
  <1>1. UNCHANGED <<changes, lambda, confirmed, up, loads, served>> /\ dns' = up
    BY DEF DnsUpdate
  <1>2. TasksOK'
    BY <1>1 DEF PInv, TasksOK, LoadOK
  <1> QED
    BY <1>1, <1>2, SameLambda DEF PInv

LEMMA NextPInv == PInv /\ [Next]_pvars => PInv'
  <1> SUFFICES ASSUME PInv, [Next]_pvars PROVE PInv'
    OBVIOUS
  <1>1. CASE UNCHANGED pvars
    <2>1. UNCHANGED <<changes, lambda, tasks, confirmed>>
      BY <1>1 DEF pvars, lambda, tasks
    <2> QED
      BY <2>1, SameTasks, SameLambda DEF PInv
  <1>2. ASSUME NEW e \in Event, Lambda(e) \/ Deadline(e) \/ Timeout(e) PROVE PInv'
    BY <1>2, InvokePInv, CallPInv, CallFailsPInv, EndsPInv DEF Lambda
  <1>3. CASE Tasks \/ \E x \in loads : LoadFails(x)
    BY <1>3, ReadPInv, CommitPInv, RejectPInv DEF Tasks, LoadFails, MapperThrows
  <1> QED
    BY <1>1, <1>2, <1>3, ChangePInv, MovePInv, DnsPInv DEF Next

-----------------------------------------------------------------------------
\* Every event, invocation, task and load is what the others expect of it.
THEOREM TypeCorrect == Spec => []TypeOK
  <1>1. ASSUME PInv PROVE TypeOK
    <2>1. /\ loads \subseteq LoadRecord /\ \A x \in loads : x.inst \in up
          /\ changes \in 0 .. MaxChanges /\ up \subseteq Instance /\ dns \subseteq Instance
          /\ served \in [Instance -> Version]
      BY <1>1 DEF PInv, TasksOK, LoadOK
    <2>2. ASSUME NEW e \in Event
          PROVE  /\ status[e] \in Statuses /\ attempts[e] \in 0 .. MaxAttempts
                 /\ inv[e] \in [todo : SUBSET Instance, target : Instance \union {NoInstance},
                                 made : 0 .. Cardinality(Instance), spent : 0 .. Deadlines - 1,
                                 ok : BOOLEAN]
                 /\ status[e] # "running" => inv[e] = NoInvocation
      <3>1. EventOK(e) /\ inv[e] \in Invocation /\ attempts[e] \in 0 .. MaxAttempts
        BY <1>1 DEF PInv, LambdaOK, EventOK
      <3>2. Cardinality(inv[e].todo) \in Nat /\ Cardinality(Instance) \in Nat
        BY <3>1, InstancesFacts DEF Invocation
      <3>3. inv[e].made \in 0 .. Cardinality(Instance)
        BY <3>1, <3>2 DEF EventOK, Invocation
      <3> QED
        BY <3>1, <3>3 DEF EventOK, Invocation
    <2> QED
      BY <2>1, <2>2 DEF TypeOK, Statuses
  <1> QED
    BY <1>1, InitPInv, NextPInv, PTL DEF Spec

\* An event that is reported as done was loaded by a task after its change; a late
\* answer to an earlier invocation does not count.
THEOREM DoneIsLoaded == Spec => []DoneMeansLoaded
  <1>1. PInv => DoneMeansLoaded
    BY DEF PInv, LambdaOK, EventOK, DoneMeansLoaded
  <1> QED
    BY <1>1, InitPInv, NextPInv, PTL DEF Spec
=============================================================================

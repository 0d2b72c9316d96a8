-------------------------- MODULE RefreshPipeline --------------------------
(* How a change of a parameter reaches the config-service instances: the    *)
(* EventBridge rules and the refresh Lambda with its retries and dead-letter *)
(* queue (event-driven-refresh.yaml), the Lambda's handler (resolve, call   *)
(* the instances one after the other, each with a deadline), Cloud Map's    *)
(* DNS answers, and the instances, which ECS starts and stops.              *)
(*                                                                          *)
(* The store is a version number, one for each change.  A load of an        *)
(* instance reads the store at one moment and commits at a later one, or    *)
(* not, when a mapper throws (ParameterCache has its pages and its two      *)
(* maps); a load goes on when the Lambda no longer waits for it.            *)
EXTENDS Integers, FiniteSets

CONSTANTS
    Instance,      \* config-service tasks
    NoInstance,
    Kind,          \* what changes: "parameter" (SSM), "clash" (SSM, and from then on a
                   \* mapper throws for what is there), "secret" (Secrets Manager)
    Initial,       \* bound: sets of tasks that may be running at first
    MaxChanges,    \* bound: changes made
    MaxFaults,     \* bound: failed resolutions and loads, and calls that take too long
    MaxMoves,      \* bound: tasks started and stopped by ECS
    Concurrency,   \* ReservedConcurrentExecutions of the Lambda
    MaxAttempts,   \* invocations for one event: one, and the retries
    Deadlines      \* call deadlines that fit into the Lambda's timeout

ASSUME BoundsAssumption ==
    /\ MaxChanges \in Nat /\ MaxFaults \in Nat /\ MaxMoves \in Nat
    /\ Concurrency \in Nat \ {0} /\ MaxAttempts \in Nat \ {0} /\ Deadlines \in Nat \ {0}
ASSUME InstanceAssumption == IsFiniteSet(Instance)
ASSUME InitialAssumption == Initial \subseteq SUBSET Instance
ASSUME NoInstanceAssumption == NoInstance \notin Instance
ASSUME KindAssumption == Kind \subseteq {"parameter", "clash", "secret"}

Event == 1 .. MaxChanges    \* the event of change number e
Empty == -1                 \* what a task serves before its first load
Version == Empty .. MaxChanges

VARIABLES
    changes,   \* changes so far; also the version of the store
    kind,      \* event -> what changed
    status,    \* event -> none, queued, running, done, ignored or dead (in the DLQ)
    attempts,  \* event -> invocations so far
    inv,       \* event -> the invocation under way
    up,        \* running tasks
    dns,       \* what the service discovery name resolves to
    loads,     \* loads under way in the tasks
    served,    \* task -> version of the last load it has taken up in both maps
    faults, moves,
    confirmed  \* history: event -> a refresh that reported success had read the change

pvars == <<changes, kind, status, attempts, inv, up, dns, loads, served, faults, moves,
           confirmed>>

\* A load: who does it, for which event and invocation (0 for the one of the
\* constructor), and the version it has read, Empty before that.
LoadRecord == [inst : Instance, event : 0 .. MaxChanges, try : 0 .. MaxAttempts, ver : Version]

Boot(i) == [inst |-> i, event |-> 0, try |-> 0, ver |-> Empty]

\* An invocation: addresses not called yet, the one being called, the number
\* of calls made, calls that ran into their deadline, and whether one succeeded.
NoInvocation == [todo |-> {}, target |-> NoInstance, made |-> 0, spent |-> 0, ok |-> FALSE]

lambda == <<status, attempts, inv>>
tasks == <<up, dns, loads, served, moves>>

-----------------------------------------------------------------------------
(* Changes and their events.                                                *)

\* A parameter under /config-service/ is created, updated or deleted, or a
\* secret is; the rule that matches it hands the event to the Lambda.
Change(k) ==
    /\ changes < MaxChanges
    /\ changes' = changes + 1
    /\ kind' = [kind EXCEPT ![changes + 1] = k]
    /\ status' = [status EXCEPT ![changes + 1] = "queued"]
    /\ UNCHANGED <<attempts, inv, tasks, faults, confirmed>>

-----------------------------------------------------------------------------
(* The Lambda.                                                              *)

Running == {e \in Event : status[e] = "running"}

Fault == faults < MaxFaults /\ faults' = faults + 1

\* Mutant: what an invocation had got to is left over for the next.
MutSettleKeeps(e, s) ==
    /\ status' = [status EXCEPT ![e] = s]
    /\ UNCHANGED inv

\* The invocation ends.
Settle(e, s) ==
    /\ status' = [status EXCEPT ![e] = s]
    /\ inv' = [inv EXCEPT ![e] = NoInvocation]

\* The handler threw or was killed: the event is delivered again, and in the
\* end put into the dead-letter queue.
Failed(e, n) == Settle(e, IF n < MaxAttempts THEN "queued" ELSE "dead")

\* An instance of the Lambda takes the event.  The name of a secret has no
\* leading slash, so it does not look like one of the parameters; for those the
\* handler resolves the discovery name, and throws when that fails.
Invoke(e) ==
    LET n == attempts[e] + 1
    IN  /\ status[e] = "queued"
        /\ Cardinality(Running) < Concurrency
        /\ attempts' = [attempts EXCEPT ![e] = n]
        /\ \/ /\ kind[e] = "secret"
              /\ Settle(e, "ignored")
              /\ UNCHANGED faults
           \/ /\ kind[e] # "secret"
              /\ \/ dns = {} /\ UNCHANGED faults
                 \/ Fault
              /\ Failed(e, n)
           \/ /\ kind[e] # "secret"
              /\ dns # {}
              /\ status' = [status EXCEPT ![e] = "running"]
              /\ inv' = [inv EXCEPT ![e] = [NoInvocation EXCEPT !.todo = dns]]
              /\ UNCHANGED faults
        /\ UNCHANGED <<changes, kind, tasks, confirmed>>

Waiting(e) == status[e] = "running" /\ inv[e].target # NoInstance

\* Mutant: only one of the resolved addresses is called.
MutCallOne(e, i) ==
    /\ status[e] = "running" /\ inv[e].target = NoInstance
    /\ i \in inv[e].todo
    /\ inv' = [inv EXCEPT ![e].todo = {}, ![e].target = i, ![e].made = @ + 1]
    /\ loads' = IF i \in up
                THEN loads \union {[inst |-> i, event |-> e, try |-> attempts[e], ver |-> Empty]}
                ELSE loads
    /\ UNCHANGED <<changes, kind, status, attempts, up, dns, served, faults, moves, confirmed>>

\* The loop of callRefreshConfig calls the next address.  A running task starts
\* a load; nothing may be left behind the address.
Call(e, i) ==
    /\ status[e] = "running" /\ inv[e].target = NoInstance
    /\ i \in inv[e].todo
    /\ inv' = [inv EXCEPT ![e].todo = @ \ {i}, ![e].target = i, ![e].made = @ + 1]
    /\ loads' = IF i \in up
                THEN loads \union {[inst |-> i, event |-> e, try |-> attempts[e], ver |-> Empty]}
                ELSE loads
    /\ UNCHANGED <<changes, kind, status, attempts, up, dns, served, faults, moves, confirmed>>

CallEnds(e, ok, late) ==
    inv' = [inv EXCEPT ![e].target = NoInstance, ![e].ok = @ \/ ok, ![e].spent = @ + late]

\* Mutant: a call to a task that is gone is waited for without an end.
MutCallHangs(e) ==
    /\ Waiting(e)
    /\ inv[e].target \in up
    /\ ~\E x \in loads : x.inst = inv[e].target /\ x.event = e /\ x.try = attempts[e]
    /\ CallEnds(e, FALSE, 0)
    /\ UNCHANGED <<changes, kind, status, attempts, tasks, faults, confirmed>>

\* The call fails at once: nothing listens at the address, or the refresh
\* answered with an error, or the task is gone.
CallFails(e) ==
    /\ Waiting(e)
    /\ ~\E x \in loads : x.inst = inv[e].target /\ x.event = e /\ x.try = attempts[e]
    /\ CallEnds(e, FALSE, 0)
    /\ UNCHANGED <<changes, kind, status, attempts, tasks, faults, confirmed>>

\* The call runs into its deadline.  The load it started goes on.
Deadline(e) ==
    /\ Waiting(e)
    /\ inv[e].spent + 1 < Deadlines
    /\ Fault
    /\ CallEnds(e, FALSE, 1)
    /\ UNCHANGED <<changes, kind, status, attempts, tasks, confirmed>>

\* Calls that take long use up the Lambda's own time: it is killed in the
\* middle of a call, with addresses perhaps still to come.
Timeout(e) ==
    /\ Waiting(e)
    /\ inv[e].made >= Deadlines
    /\ Fault
    /\ Failed(e, attempts[e])
    /\ UNCHANGED <<changes, kind, attempts, tasks, confirmed>>

\* Mutant: the results of the calls are not looked at.
MutFinishAlways(e) ==
    /\ status[e] = "running" /\ inv[e].target = NoInstance /\ inv[e].todo = {}
    /\ Settle(e, "done")
    /\ UNCHANGED <<changes, kind, attempts, tasks, faults, confirmed>>

\* All addresses have been called: an error only if every call failed.
Finish(e) ==
    /\ status[e] = "running" /\ inv[e].target = NoInstance /\ inv[e].todo = {}
    /\ IF inv[e].ok THEN Settle(e, "done") ELSE Failed(e, attempts[e])
    /\ UNCHANGED <<changes, kind, attempts, tasks, faults, confirmed>>

-----------------------------------------------------------------------------
(* The tasks.                                                               *)

\* A load gets its answer from SSM.
Read(x) ==
    /\ x.ver = Empty
    /\ loads' = (loads \ {x}) \union {[x EXCEPT !.ver = changes]}
    /\ UNCHANGED <<changes, kind, lambda, up, dns, served, faults, moves, confirmed>>

\* At version v the store holds what a mapper throws for: a path in the way of
\* another, a refused segment, a service of an inherited name.
Clashes(v) ==
    \E e \in Event :
        e <= v /\ kind[e] = "clash" /\ \A f \in Event : e < f /\ f <= v => kind[f] = "secret"

\* A load replaces the maps; the call it serves succeeds if it is still waited
\* for.
Commit(x) ==
    LET e == x.event
        heard == e # 0 /\ Waiting(e) /\ inv[e].target = x.inst /\ attempts[e] = x.try
    IN  /\ x.ver # Empty
        /\ ~Clashes(x.ver)
        /\ loads' = loads \ {x}
        /\ served' = [served EXCEPT ![x.inst] = x.ver]
        /\ IF heard
           THEN /\ CallEnds(e, TRUE, 0)
                /\ confirmed' = [confirmed EXCEPT ![e] = @ \/ x.ver >= e]
           ELSE UNCHANGED <<inv, confirmed>>
        /\ UNCHANGED <<changes, kind, status, attempts, up, dns, faults, moves>>

Gone(i) ==
    /\ up' = up \ {i}
    /\ loads' = {x \in loads : x.inst # i}
    /\ served' = [served EXCEPT ![i] = Empty]

\* A load is rejected: a refresh answers an error, a first load ends the process.
Reject(x) ==
    /\ IF x.event = 0 THEN Gone(x.inst)
       ELSE loads' = loads \ {x} /\ UNCHANGED <<up, served>>
    /\ UNCHANGED <<changes, kind, lambda, dns, moves, confirmed>>

\* SSM fails it.
LoadFails(x) == x.ver = Empty /\ Fault /\ Reject(x)

\* A mapper throws for what it has read, between the assignments or before them.
MapperThrows(x) == x.ver # Empty /\ Clashes(x.ver) /\ Reject(x) /\ UNCHANGED faults

\* ECS starts a task, which starts its first load and serves at once.
StartTask(i) ==
    /\ i \notin up
    /\ moves < MaxMoves
    /\ moves' = moves + 1
    /\ up' = up \union {i}
    /\ loads' = loads \union {Boot(i)}
    /\ UNCHANGED <<changes, kind, lambda, dns, served, faults, confirmed>>

\* ECS stops a task: scale-in or a deployment.
StopTask(i) ==
    /\ i \in up
    /\ moves < MaxMoves
    /\ moves' = moves + 1
    /\ Gone(i)
    /\ UNCHANGED <<changes, kind, lambda, dns, faults, confirmed>>

\* Cloud Map and the resolver's cache catch up with the running tasks.
DnsUpdate ==
    /\ dns # up
    /\ dns' = up
    /\ UNCHANGED <<changes, kind, lambda, up, loads, served, faults, moves, confirmed>>

-----------------------------------------------------------------------------
Init ==
    /\ changes = 0
    /\ kind = [e \in Event |-> "parameter"]
    /\ status = [e \in Event |-> "none"]
    /\ attempts = [e \in Event |-> 0]
    /\ inv = [e \in Event |-> NoInvocation]
    /\ up \in Initial
    /\ dns = up
    /\ loads = {}
    /\ served = [i \in Instance |-> IF i \in up THEN 0 ELSE Empty]
    /\ faults = 0
    /\ moves = 0
    /\ confirmed = [e \in Event |-> FALSE]

Lambda(e) ==
    Invoke(e) \/ CallFails(e) \/ Finish(e) \/ \E i \in Instance : Call(e, i)

Tasks == \E x \in loads : Read(x) \/ Commit(x) \/ MapperThrows(x)

Next ==
    \/ \E k \in Kind : Change(k)
    \/ \E e \in Event : Lambda(e) \/ Deadline(e) \/ Timeout(e)
    \/ Tasks
    \/ \E x \in loads : LoadFails(x)
    \/ \E i \in Instance : StartTask(i) \/ StopTask(i)
    \/ DnsUpdate

Spec == Init /\ [][Next]_pvars

\* EventBridge delivers, the Lambda and the tasks run, DNS catches up.  Nobody
\* has to change anything, and no fault has to happen.
FairSpec ==
    /\ Spec
    /\ \A e \in Event : WF_pvars(Lambda(e))
    /\ WF_pvars(Tasks)
    /\ WF_pvars(DnsUpdate)

-----------------------------------------------------------------------------
(* Properties.                                                              *)

TypeOK ==
    /\ changes \in 0 .. MaxChanges
    /\ \A e \in Event :
          /\ status[e] \in {"none", "queued", "running", "done", "ignored", "dead"}
          /\ attempts[e] \in 0 .. MaxAttempts
          /\ inv[e] \in [todo : SUBSET Instance, target : Instance \union {NoInstance},
                         made : 0 .. Cardinality(Instance), spent : 0 .. Deadlines - 1,
                         ok : BOOLEAN]
          /\ status[e] # "running" => inv[e] = NoInvocation
    /\ up \subseteq Instance /\ dns \subseteq Instance
    /\ loads \subseteq LoadRecord
    /\ \A x \in loads : x.inst \in up
    /\ served \in [Instance -> Version]

\* An event whose invocation reported success was loaded by a task: the refresh
\* that succeeded read the store after the change (callRefreshConfig throws when
\* every call failed; a late answer of an earlier invocation does not count).
DoneMeansLoaded ==
    \A e \in Event : status[e] = "done" => confirmed[e]

\* Every event is handled or ends up in the dead-letter queue, whatever fails.
EventsSettle ==
    \A e \in Event : status[e] = "queued" ~> status[e] \in {"done", "ignored", "dead"}

\* README: EventBridge and the Lambda propagate configuration changes without
\* manual intervention, so in the end every running task serves the last one.
Propagates ==
    <>[](\A i \in up : served[i] = changes)

\* What is left of it: parameters propagate to every running task if nothing
\* fails, no task starts or stops, the Lambda is never invoked for two events at
\* the same time, and what the mappers throw for does not stay (the changes made
\* meanwhile are made up for by the one that puts it right).
Quiet ==
    /\ faults = 0 /\ moves = 0
    /\ Cardinality(Running) <= 1
    /\ \A e \in Event : kind[e] # "secret"

PropagatesWhenQuiet == []Quiet /\ <>[]~Clashes(changes) => Propagates
=============================================================================

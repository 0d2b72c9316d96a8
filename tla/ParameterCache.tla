--------------------------- MODULE ParameterCache ---------------------------
(* One config-service process and the SSM parameters it keeps in memory     *)
(* (SSMConfigStrategy with ConfigurationService.getSecretFromSSM and        *)
(* SSMService.getParameter).                                                *)
(*                                                                          *)
(* A load is one run of loadParamters: the constructor starts one and does  *)
(* not wait for it, and each Refresh call starts another, so loads overlap. *)
(* A load asks SSM for a page, waits, asks for the next, and only when the  *)
(* last page is in replaces `parameters` and then `newParameters` without   *)
(* yielding.  Between the pages of one load anything else may happen: the   *)
(* store changes, another load commits, the process ends.                   *)
EXTENDS Integers, Sequences

CONSTANTS
    NParam,      \* parameters under SSM_PATH, numbered in the order SSM lists them
    Value,       \* values a parameter can have
    Absent,      \* stands for a parameter that does not exist
    Prefix,      \* <<p, q>>: the path of p is a proper prefix of the path of q
    Refused,     \* parameters with a segment newParamMapper refuses (__proto__, ...)
    Inherited,   \* parameters whose service has the name of something every object
                 \* inherits (toString, ...): paramMapper finds no list to push to
    Load,        \* loads that can be under way at the same time
    NoLoad,
    EmptyPages,  \* may SSM answer an empty page although parameters follow it
    MaxWrites,   \* bound: changes to the store
    MaxFaults    \* bound: failed SSM calls and killed processes

ASSUME NParamAssumption == NParam \in Nat \ {0}
ASSUME AbsentAssumption == Absent \notin Value
ASSUME PrefixAssumption == Prefix \subseteq (1 .. NParam) \X (1 .. NParam)
ASSUME PathsAssumption == Refused \subseteq 1 .. NParam /\ Inherited \subseteq 1 .. NParam
ASSUME NoLoadAssumption == NoLoad \notin Load
ASSUME EmptyPagesAssumption == EmptyPages \in BOOLEAN
ASSUME BoundsAssumption == MaxWrites \in Nat /\ MaxFaults \in Nat

Param == 1 .. NParam
Content == Value \union {Absent}
Snapshot == [Param -> Content]
Nothing == [p \in Param |-> Absent]

VARIABLES
    hist,           \* every state the store has had; the last one is current
    up,             \* is the process running
    boot,           \* the load the constructor started, while it is under way
    load,           \* the loads under way
    parameters,     \* SSMConfigStrategy.parameters, as a snapshot
    newParameters,  \* SSMConfigStrategy.newParameters, as a snapshot
    faults,         \* faults so far
    asOf,           \* history: Len(hist) when the load behind `parameters` began, 0 for none
    acked           \* history: the latest Len(hist) at which a load began that succeeded

vars == <<hist, up, boot, load, parameters, newParameters, faults, asOf, acked>>

store == hist[Len(hist)]

IdleLoad == [phase |-> "idle", start |-> 0, cursor |-> 0, got |-> Nothing,
             reach |-> 0, page |-> Nothing, more |-> FALSE]

Phase == {"idle", "asked", "answered", "failed"}

-----------------------------------------------------------------------------
(* The two maps a load builds from its answer (ParamMaps has both in full). *)
(* paramMapper groups the parameters by service; of those whose paths name  *)
(* one it loses none, but an inherited name makes it throw a TypeError.     *)
(* newParamMapper builds a tree along the paths in the order of the answer: *)
(* a refused segment, or a value standing where a longer path has to pass,  *)
(* makes it throw; a value written where a subtree stands replaces it.      *)

GroupThrows(s) == \E p \in Inherited : s[p] # Absent

Collides(s) ==
    \E u \in Prefix : u[1] < u[2] /\ s[u[1]] # Absent /\ s[u[2]] # Absent

TreeThrows(s) == Collides(s) \/ \E p \in Refused : s[p] # Absent

Shadowed(s, q) ==
    \E u \in Prefix : u[2] = q /\ q < u[1] /\ s[u[1]] # Absent

newParamMapper(s) ==
    [q \in Param |-> IF Shadowed(s, q) THEN Absent ELSE s[q]]

-----------------------------------------------------------------------------
(* The parameter store, outside the repository.                             *)

\* A parameter is created, overwritten or deleted.
Write(p, c) ==
    /\ Len(hist) <= MaxWrites
    /\ c # store[p]
    /\ hist' = Append(hist, [store EXCEPT ![p] = c])
    /\ UNCHANGED <<up, boot, load, parameters, newParameters, faults, asOf, acked>>

\* SSM answers a page that ends at parameter c, with a NextToken when
\* parameters follow it.  The answer travels back while the store moves on.
Serve(l, c) ==
    LET page == [q \in Param |-> IF load[l].cursor < q /\ q <= c THEN store[q] ELSE Absent]
        more == \E q \in Param : c < q /\ store[q] # Absent
    IN  /\ load[l].phase = "asked"
        /\ load[l].cursor < c
        /\ page = Nothing /\ more => EmptyPages
        /\ load' = [load EXCEPT ![l].phase = "answered", ![l].reach = c,
                                ![l].page = page, ![l].more = more]
        /\ UNCHANGED <<hist, up, boot, parameters, newParameters, faults, asOf, acked>>

\* The call to SSM fails.
Fail(l) ==
    /\ load[l].phase = "asked"
    /\ faults < MaxFaults
    /\ faults' = faults + 1
    /\ load' = [load EXCEPT ![l].phase = "failed"]
    /\ UNCHANGED <<hist, up, boot, parameters, newParameters, asOf, acked>>

-----------------------------------------------------------------------------
(* The process.                                                             *)

\* Mutant: a load starts from the map that is being served.
MutAskFromCache(l) ==
    [IdleLoad EXCEPT !.phase = "asked", !.start = Len(hist), !.got = parameters]

\* A load asks for its first page; NextToken is still empty.
Ask(l) == [IdleLoad EXCEPT !.phase = "asked", !.start = Len(hist)]

\* The process ends, and everything it holds in memory with it.
Exit ==
    /\ up' = FALSE
    /\ boot' = NoLoad
    /\ load' = [l \in Load |-> IdleLoad]
    /\ parameters' = Nothing
    /\ newParameters' = Nothing
    /\ asOf' = 0
    /\ acked' = 0

\* ECS starts the task; the constructor starts the first load and returns.
Start(l) ==
    /\ ~up
    /\ up' = TRUE
    /\ boot' = l
    /\ load' = [load EXCEPT ![l] = Ask(l)]
    /\ UNCHANGED <<hist, parameters, newParameters, faults, asOf, acked>>

\* reloadConfig, called by the Refresh handler: served from the start, also
\* while the first load is still under way.
Refresh(l) ==
    /\ up
    /\ load[l].phase = "idle"
    /\ load' = [load EXCEPT ![l] = Ask(l)]
    /\ UNCHANGED <<hist, up, boot, parameters, newParameters, faults, asOf, acked>>

\* Mutant: the error handler empties the maps of a refresh that failed.
MutRejectClears(l, params, since) ==
    IF l = boot
    THEN Exit
    ELSE /\ load' = [load EXCEPT ![l] = IdleLoad]
         /\ parameters' = Nothing
         /\ newParameters' = Nothing
         /\ asOf' = 0
         /\ UNCHANGED <<up, boot, acked>>

\* Mutant: the constructor catches the rejection and the process stays up.
MutRejectCaught(l, params, since) ==
    /\ load' = [load EXCEPT ![l] = IdleLoad]
    /\ boot' = IF l = boot THEN NoLoad ELSE boot
    /\ parameters' = params
    /\ asOf' = since
    /\ UNCHANGED <<up, newParameters, acked>>

\* The promise of load l is rejected, `parameters` being `params` by then.
\* Nobody awaits the constructor's promise, so the unhandled rejection ends
\* the process; a refresh answers an error.
Reject(l, params, since) ==
    IF l = boot
    THEN Exit
    ELSE /\ load' = [load EXCEPT ![l] = IdleLoad]
         /\ parameters' = params
         /\ asOf' = since
         /\ UNCHANGED <<up, boot, newParameters, acked>>

Later(a, b) == IF a < b THEN b ELSE a

\* Mutant: what neither page lists is there, but undefined.
MutJoinedUndefined(s, page) ==
    [q \in Param |-> IF page[q] # Absent THEN page[q]
                     ELSE IF s[q] # Absent THEN s[q] ELSE "undefined"]

Joined(s, page) == [q \in Param |-> IF page[q] # Absent THEN page[q] ELSE s[q]]

\* Mutant: the new tree is merged into the old one.
MutAcceptMerges(l, s) ==
    /\ parameters' = s
    /\ newParameters' = Joined(newParameters, newParamMapper(s))
    /\ load' = [load EXCEPT ![l] = IdleLoad]
    /\ boot' = IF l = boot THEN NoLoad ELSE boot
    /\ asOf' = load[l].start
    /\ acked' = Later(acked, load[l].start)
    /\ UNCHANGED up

Accept(l, s) ==
    /\ parameters' = s
    /\ newParameters' = newParamMapper(s)
    /\ load' = [load EXCEPT ![l] = IdleLoad]
    /\ boot' = IF l = boot THEN NoLoad ELSE boot
    /\ asOf' = load[l].start
    /\ acked' = Later(acked, load[l].start)
    /\ UNCHANGED up

\* The rest of loadParamters, once the whole answer s is in.  When paramMapper throws,
\* nothing has been assigned; when newParamMapper throws, `parameters` has.
Commit(l, s) ==
    IF GroupThrows(s) THEN Reject(l, parameters, asOf)
    ELSE IF TreeThrows(s) THEN Reject(l, s, load[l].start)
    ELSE Accept(l, s)

\* The pages of load l are complete: SSM gave no NextToken, or an empty page.
LastPage(l) == load[l].page = Nothing \/ ~load[l].more

\* Mutant: each page replaces the ones before it.
MutNextPageReplaces(l) ==
    /\ load[l].phase = "answered"
    /\ ~LastPage(l)
    /\ load' = [load EXCEPT
                  ![l] = [Ask(l) EXCEPT !.start = load[l].start,
                                        !.cursor = load[l].reach]]
    /\ UNCHANGED <<hist, up, boot, parameters, newParameters, faults, asOf, acked>>

\* Mutant: the pages read so far are published before the last is in.
MutNextPagePublishes(l) ==
    /\ load[l].phase = "answered"
    /\ ~LastPage(l)
    /\ LET s == Joined(load[l].got, load[l].page)
       IN  /\ parameters' = s
           /\ load' = [load EXCEPT ![l] = [Ask(l) EXCEPT !.start = load[l].start,
                                               !.cursor = load[l].reach, !.got = s]]
    /\ UNCHANGED <<hist, up, boot, newParameters, faults, asOf, acked>>

\* Mutant: the NextToken is not passed on, so the first page comes again.
MutNextPageRepeats(l) ==
    /\ load[l].phase = "answered"
    /\ ~LastPage(l)
    /\ load' = [load EXCEPT
                  ![l] = [Ask(l) EXCEPT !.start = load[l].start,
                                        !.got = Joined(load[l].got, load[l].page)]]
    /\ UNCHANGED <<hist, up, boot, parameters, newParameters, faults, asOf, acked>>

\* The loop of getParameter goes round with the NextToken it was given.
NextPage(l) ==
    /\ load[l].phase = "answered"
    /\ ~LastPage(l)
    /\ load' = [load EXCEPT
                  ![l] = [Ask(l) EXCEPT
                            !.start = load[l].start,
                            !.cursor = load[l].reach,
                            !.got = Joined(load[l].got, load[l].page)]]
    /\ UNCHANGED <<hist, up, boot, parameters, newParameters, faults, asOf, acked>>

\* The last page is in: the load commits.
Finish(l) ==
    /\ load[l].phase = "answered"
    /\ LastPage(l)
    /\ Commit(l, Joined(load[l].got, load[l].page))
    /\ UNCHANGED <<hist, faults>>

\* The error of a page reaches getParameter: nothing is committed.
GiveUp(l) ==
    /\ load[l].phase = "failed"
    /\ Reject(l, parameters, asOf)
    /\ UNCHANGED <<hist, faults>>

\* The task is stopped or dies.
Kill ==
    /\ up
    /\ faults < MaxFaults
    /\ faults' = faults + 1
    /\ Exit
    /\ UNCHANGED hist

-----------------------------------------------------------------------------
Init ==
    /\ \E s \in Snapshot : hist = <<s>>
    /\ up = FALSE
    /\ boot = NoLoad
    /\ load = [l \in Load |-> IdleLoad]
    /\ parameters = Nothing
    /\ newParameters = Nothing
    /\ faults = 0
    /\ asOf = 0
    /\ acked = 0

Process(l) == Start(l) \/ Refresh(l) \/ NextPage(l) \/ Finish(l) \/ GiveUp(l)

Ssm(l) == Fail(l) \/ \E c \in Param : Serve(l, c)

Next ==
    \/ \E p \in Param, c \in Content : Write(p, c)
    \/ \E l \in Load : Process(l) \/ Ssm(l)
    \/ Kill

Spec == Init /\ [][Next]_vars

\* SSM answers or fails every call, the event loop runs every continuation,
\* and ECS keeps a task running.  No one has to write or to refresh.
Fairness ==
    /\ \A l \in Load : WF_vars(Ssm(l))
    /\ \A l \in Load : WF_vars(NextPage(l) \/ Finish(l) \/ GiveUp(l))
    /\ WF_vars(\E l \in Load : Start(l))

FairSpec == Spec /\ Fairness

-----------------------------------------------------------------------------
(* Properties.                                                              *)

\* Every variable keeps its type; the maps and the answers being collected
\* are functions on the parameters.
LoadState == [phase : Phase, start : Nat, cursor : 0 .. NParam, got : Snapshot,
              reach : 0 .. NParam, page : Snapshot, more : BOOLEAN]

TypeOK ==
    /\ hist \in Seq(Snapshot) /\ Len(hist) >= 1
    /\ up \in BOOLEAN
    /\ boot \in Load \union {NoLoad}
    /\ load \in [Load -> LoadState]
    /\ parameters \in Snapshot
    /\ newParameters \in Snapshot
    /\ faults \in 0 .. MaxFaults
    /\ asOf \in Nat
    /\ acked \in Nat

\* Every value of s was the store's at some time since Len(hist) was `from`.
ReadableSince(s, from) ==
    \A p \in Param : \E i \in from .. Len(hist) : s[p] = hist[i][p]

\* The map that is served is never half of an answer, nor a mixture of two:
\* each parameter has a value the store held after the load that produced the
\* map began, and a parameter that is missing was missing then
\* (the loop in SSMService.getParameter and the assignment in loadParamters).
CacheWasReadable ==
    IF asOf = 0 THEN parameters = Nothing ELSE ReadableSince(parameters, asOf)

\* GetConfig reads `parameters` and RetrieveConfigs reads `newParameters`: the
\* two come from the same answer, unless that answer has a value standing in
\* the path of another parameter, or a path with a refused segment (the two
\* assignments of loadParamters, and what may throw before and between them).
MapsAgree ==
    ~TreeThrows(parameters) => newParameters = newParamMapper(parameters)

\* Once a load has succeeded, the map never goes back to something older than
\* what that load began with.  A load that began before another and commits
\* after it breaks this.
NeverOlderThanAcked ==
    acked # 0 => ReadableSince(parameters, acked)

\* As long as refreshes wait for each other, and for the first load, the map
\* only ever gets newer.
OneAtATime == \A l, m \in Load : load[l].phase # "idle" /\ load[m].phase # "idle" => l = m

NeverOlderWhenSerial == []OneAtATime => []NeverOlderThanAcked

\* A refresh that could not read SSM changes neither map: the process goes on
\* serving what it had (getParameter throws before loadParamters assigns).
FailedRefreshKeepsMaps ==
    [][\A l \in Load :
          load[l].phase = "failed" /\ load'[l].phase = "idle" /\ up'
          => UNCHANGED <<parameters, newParameters>>]_vars

\* Every load ends, however often the others start over: the paging loop makes
\* progress with each NextToken.
LoadsEnd == \A l \in Load : (load[l].phase # "idle") ~> (load[l].phase = "idle")

\* A process whose first load failed does not stay up with empty maps: it dies
\* and is started again, until a first load succeeds.  Only a store that holds
\* a parameter one of the mappers throws on (a value in the path of another, a
\* refused segment, a service of an inherited name) can keep it from there.
EventuallyServes ==
    <>[]~(GroupThrows(store) \/ TreeThrows(store)) => <>[](up /\ asOf # 0)

\* The process keeps the contract its readers rely on.
Contract == INSTANCE CacheContract
    WITH Fetcher <- Load, Blank <- Nothing, cache <- parameters,
         since <- [l \in Load |-> load[l].start]

ImplementsContract == Contract!CSpec
=============================================================================

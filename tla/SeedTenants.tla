---------------------------- MODULE SeedTenants ----------------------------
(* seed-tenants.ts: DynamoDB, SSM and Cognito are filled by one AWS call     *)
(* after the other.  A run stops at the first error it does not expect; it   *)
(* is repaired by another run, which meets what the first one left behind,   *)
(* and nothing keeps two runs from overlapping.  Beside them administrators  *)
(* change what has been seeded.                                              *)
EXTENDS Integers, Sequences, FiniteSets, SequencesExt

CONSTANTS
    Run,         \* executions of the script
    Absent,      \* what has never been there
    Gone,        \* what somebody has deleted
    Handmade,    \* bound: one of these parameters and users may be there before
    MaxFaults,   \* bound: calls that fail, answers that are lost
    MaxChanges   \* bound: changes by others

ASSUME BoundsAssumption == MaxFaults \in Nat /\ MaxChanges \in Nat

\* What is seeded.  A parameter is named by the end of its path, a user by the role,
\* which the group goes with.
tenants ==
    LET Seeded(tenantId) ==
            [tenantId  |-> tenantId,
             configs   |-> <<"payment-gateway", "api-settings">>,
             ssmParams |-> <<"api/api-key", "api/endpoint", "database/connection-string">>,
             users     |-> <<"admin", "user">>]
    IN  <<Seeded("acme-corp"), Seeded("globex-inc")>>

\* The elements of one kind, tenant by tenant, as the nested loops meet them.
Loop(kind) ==
    FlattenSeq([i \in DOMAIN tenants |->
        [j \in DOMAIN tenants[i][kind] |-> <<kind, tenants[i].tenantId, tenants[i][kind][j]>>]])

Config == Range(Loop("configs"))
Param  == Range(Loop("ssmParams"))
User   == Range(Loop("users"))
ASSUME HandmadeAssumption == Handmade \subseteq Param \union User

\* Mutant: the users come first.
MutMainUsersFirst(withPool) ==
    (IF withPool THEN Loop("users") ELSE <<>>) \o Loop("configs") \o Loop("ssmParams")

\* main: the three parts in sequence, the last one only with a pool's id.
main(withPool) ==
    Loop("configs") \o Loop("ssmParams") \o (IF withPool THEN Loop("users") ELSE <<>>)

VARIABLES
    table,    \* DynamoDB: configuration -> its item
    params,   \* SSM: path -> parameter
    pool,     \* Cognito: user -> its attributes and whether it is in its group
    run,      \* run -> where it stands
    known,    \* what there was before the first run
    touched,  \* what others have changed and no run has put right since
    raced,    \* users the answer to whose creation was lost, parameters deleted
              \* between two calls about them
    faults, changes

svars == <<table, params, pool, run, known, touched, raced, faults, changes>>

Missing == {Absent, Gone}

\* `seeded`: a parameter has the value of the script, a user its custom:tenantId and
\* custom:role; `email`: and its email and email_verified.
Item == [isActive : BOOLEAN, version : 1 .. MaxChanges + 1]
Parameter == [seeded : BOOLEAN, tagged : BOOLEAN]
Account == [seeded : BOOLEAN, email : BOOLEAN, inGroup : BOOLEAN]
Made == [seeded |-> TRUE, email |-> TRUE, inGroup |-> FALSE]
ASSUME MissingAssumption ==
    Absent # Gone /\ Missing \intersect (Item \union Parameter \union Account) = {}

\* The calls a run can be about to make for the element it has come to.  `todo` has
\* what is left, the element at hand first; `unsaid` the users whose update failed.
Calls == {"PutItem", "PutParameter", "Overwrite", "CreateUser", "AddToGroup", "UpdateUser"}
Waiting == [status |-> "waiting", todo |-> <<>>, next |-> "PutItem", withPool |-> FALSE,
            unsaid |-> {}]

FirstCall(kind) ==
    CASE kind = "configs" -> "PutItem" [] kind = "ssmParams" -> "PutParameter"
      [] kind = "users" -> "CreateUser"

About(r, command) == run[r].status = "running" /\ run[r].next = command
Element(r) == Head(run[r].todo)

-----------------------------------------------------------------------------
(* A run.                                                                   *)

Start(r) ==
    /\ run[r].status = "waiting"
    /\ \E withPool \in BOOLEAN :
          run' = [run EXCEPT ![r] = [Waiting EXCEPT !.status = "running",
                                                    !.todo = main(withPool),
                                                    !.next = FirstCall(main(withPool)[1][1]),
                                                    !.withPool = withPool]]
    /\ UNCHANGED <<table, params, pool, known, touched, raced, faults, changes>>

\* Mutant: whether something is left is asked before the element is taken off.
MutContinueOnceMore(r, unsaid) ==
    LET rest == Tail(run[r].todo)
    IN  run' = [run EXCEPT ![r].unsaid = @ \union unsaid, ![r].todo = rest,
                           ![r].status = IF run[r].todo = <<>> THEN "succeeded" ELSE @,
                           ![r].next = IF rest = <<>> THEN @ ELSE FirstCall(rest[1][1])]

\* On to the next element; after the last one the process exits with 0.
Continue(r, unsaid) ==
    LET rest == Tail(run[r].todo)
    IN  run' = [run EXCEPT ![r].unsaid = @ \union unsaid, ![r].todo = rest,
                           ![r].status = IF rest = <<>> THEN "succeeded" ELSE @,
                           ![r].next = IF rest = <<>> THEN @ ELSE FirstCall(rest[1][1])]

Then(r, command) == run' = [run EXCEPT ![r].next = command]

Written(e) == touched' = touched \ {e}

\* The item is put whatever was there: active, and of version 1.
PutItem(r) ==
    /\ About(r, "PutItem")
    /\ table' = [table EXCEPT ![Element(r)] = [isActive |-> TRUE, version |-> 1]]
    /\ Written(Element(r))
    /\ Continue(r, {})
    /\ UNCHANGED <<params, pool, known, raced, faults, changes>>

\* Mutant: the existing parameter is kept.
MutPutParameterKeeps(r) ==
    LET p == Element(r)
    IN  /\ About(r, "PutParameter")
        /\ IF params[p] \in Missing
           THEN params' = [params EXCEPT ![p] = [seeded |-> TRUE, tagged |-> TRUE]] /\ Written(p)
           ELSE UNCHANGED <<params, touched>>
        /\ Continue(r, {})
        /\ UNCHANGED <<table, pool, known, raced, faults, changes>>

\* Mutant: the parameter is put with Overwrite, which takes no tags.
MutPutParameterUntagged(r) ==
    /\ About(r, "PutParameter")
    /\ Then(r, "Overwrite")
    /\ UNCHANGED <<table, params, pool, known, touched, raced, faults, changes>>

\* A new parameter gets tags; ParameterAlreadyExists leads to Overwrite.
PutParameter(r) ==
    LET p == Element(r)
    IN  /\ About(r, "PutParameter")
        /\ IF params[p] \in Missing
           THEN /\ params' = [params EXCEPT ![p] = [seeded |-> TRUE, tagged |-> TRUE]]
                /\ Written(p)
                /\ Continue(r, {})
           ELSE Then(r, "Overwrite") /\ UNCHANGED <<params, touched>>
        /\ UNCHANGED <<table, pool, known, raced, faults, changes>>

\* The parameter keeps the tags it has; one that is gone by now comes back without.
Overwrite(r) ==
    LET p == Element(r)
    IN  /\ About(r, "Overwrite")
        /\ params' = [params EXCEPT ![p] =
                        [seeded |-> TRUE, tagged |-> @ \notin Missing /\ @.tagged]]
        /\ Written(p)
        /\ Continue(r, {})
        /\ UNCHANGED <<table, pool, known, raced, faults, changes>>

\* A new user has all the attributes and is added to its group next;
\* UsernameExistsException leads to the update instead, and to no group.
CreateUser(r) ==
    LET u == Element(r)
    IN  /\ About(r, "CreateUser")
        /\ IF pool[u] \in Missing
           THEN /\ pool' = [pool EXCEPT ![u] = Made]
                /\ Written(u)
                /\ Then(r, "AddToGroup")
           ELSE Then(r, "UpdateUser") /\ UNCHANGED <<pool, touched>>
        /\ UNCHANGED <<table, params, known, raced, faults, changes>>

Stop(r, status) == run' = [run EXCEPT ![r].status = status]

\* UserNotFoundException ends the run like any other error.
AddToGroup(r) ==
    LET u == Element(r)
    IN  /\ About(r, "AddToGroup")
        /\ IF pool[u] \in Missing
           THEN Stop(r, "failed") /\ UNCHANGED pool
           ELSE pool' = [pool EXCEPT ![u].inGroup = TRUE] /\ Continue(r, {})
        /\ UNCHANGED <<table, params, known, touched, raced, faults, changes>>

\* The update writes the two custom attributes, so another email is not put right; its
\* failure is logged and forgotten.
UpdateUser(r) ==
    LET u == Element(r)
    IN  /\ About(r, "UpdateUser")
        /\ IF pool[u] \in Missing
           THEN Continue(r, {u}) /\ UNCHANGED <<pool, touched>>
           ELSE /\ pool' = [pool EXCEPT ![u].seeded = TRUE]
                /\ IF pool[u].email THEN Written(u) ELSE UNCHANGED touched
                /\ Continue(r, {})
        /\ UNCHANGED <<table, params, known, raced, faults, changes>>

-----------------------------------------------------------------------------
(* What goes wrong, and what others do.                                     *)

Fault == faults < MaxFaults /\ faults' = faults + 1

\* Mutant: a failed AddToGroup is forgotten like a failed update.
MutCallFailsGroupForgotten(r) ==
    /\ run[r].status = "running"
    /\ Fault
    /\ IF run[r].next \in {"AddToGroup", "UpdateUser"} THEN Continue(r, {Element(r)})
       ELSE Stop(r, "failed")
    /\ UNCHANGED <<table, params, pool, known, touched, raced, changes>>

\* A call fails: but for an update, the process exits with 1.
CallFails(r) ==
    /\ run[r].status = "running"
    /\ Fault
    /\ IF About(r, "UpdateUser") THEN Continue(r, {Element(r)}) ELSE Stop(r, "failed")
    /\ UNCHANGED <<table, params, pool, known, touched, raced, changes>>

\* A user or parameter is created, the answer does not arrive, and the SDK sends the
\* call again: the second time it finds what the first has made.
AnswerLost(r) ==
    LET e == Element(r)
    IN  /\ \/ /\ About(r, "PutParameter") /\ params[e] \in Missing
              /\ params' = [params EXCEPT ![e] = [seeded |-> TRUE, tagged |-> TRUE]]
              /\ UNCHANGED <<pool, raced>>
           \/ /\ About(r, "CreateUser") /\ pool[e] \in Missing
              /\ pool' = [pool EXCEPT ![e] = Made]
              /\ raced' = raced \union {e}
              /\ UNCHANGED params
        /\ Fault
        /\ Written(e)
        /\ UNCHANGED <<table, run, known, changes>>

Kill(r) ==
    /\ run[r].status = "running"
    /\ Stop(r, "killed")
    /\ UNCHANGED <<table, params, pool, known, touched, raced, faults, changes>>

Change(e) ==
    /\ changes < MaxChanges
    /\ changes' = changes + 1
    /\ touched' = touched \union {e}
    /\ UNCHANGED <<run, known, faults>>

\* An item is soft-deleted.
Deactivate(c) ==
    /\ table[c] # Absent
    /\ table' = [table EXCEPT ![c] = [isActive |-> FALSE, version |-> @.version + 1]]
    /\ Change(c)
    /\ UNCHANGED <<params, pool, raced>>

DeleteParameter(p) ==
    /\ params[p] \notin Missing
    /\ params' = [params EXCEPT ![p] = Gone]
    /\ raced' = IF \E r \in Run : About(r, "Overwrite") /\ Element(r) = p
                THEN raced \union {p} ELSE raced
    /\ Change(p)
    /\ UNCHANGED <<table, pool>>

\* A user gets other attributes, or is deleted.
ChangeUser(u) ==
    /\ pool[u] \notin Missing
    /\ \/ pool' = [pool EXCEPT ![u].seeded = FALSE]
       \/ pool' = [pool EXCEPT ![u].email = FALSE]
       \/ pool' = [pool EXCEPT ![u] = Gone]
    /\ Change(u)
    /\ UNCHANGED <<table, params, raced>>

-----------------------------------------------------------------------------
\* An empty account, but for a parameter or a user made by hand.
Init ==
    /\ known \in {{}} \union {{e} : e \in Handmade}
    /\ table = [c \in Config |-> Absent]
    /\ params = [p \in Param |-> IF p \in known THEN [seeded |-> FALSE, tagged |-> FALSE]
                                 ELSE Absent]
    /\ pool = [u \in User |-> IF u \in known
                              THEN [seeded |-> FALSE, email |-> FALSE, inGroup |-> FALSE]
                              ELSE Absent]
    /\ run = [r \in Run |-> Waiting]
    /\ touched = {}
    /\ raced = {}
    /\ faults = 0
    /\ changes = 0

Step(r) ==
    PutItem(r) \/ PutParameter(r) \/ Overwrite(r)
        \/ CreateUser(r) \/ AddToGroup(r) \/ UpdateUser(r)

Next ==
    \/ \E r \in Run : Start(r) \/ Step(r) \/ CallFails(r) \/ AnswerLost(r) \/ Kill(r)
    \/ \E c \in Config : Deactivate(c)
    \/ \E p \in Param : DeleteParameter(p)
    \/ \E u \in User : ChangeUser(u)

Spec == Init /\ [][Next]_svars

-----------------------------------------------------------------------------
(* Properties.                                                              *)

\* A run that is under way has an element before it, and a call for it.
TypeOK ==
    /\ table \in [Config -> Item \union {Absent}]
    /\ params \in [Param -> Parameter \union Missing]
    /\ pool \in [User -> Account \union Missing]
    /\ \A r \in Run :
          /\ run[r].status \in {"waiting", "running", "succeeded", "failed", "killed"}
          /\ run[r].next \in Calls
          /\ run[r].status = "running" =>
                /\ run[r].todo # <<>>
                /\ Element(r) \in CASE run[r].next = "PutItem" -> Config
                                    [] run[r].next \in {"PutParameter", "Overwrite"} -> Param
                                    [] OTHER -> User

\* A configuration is as the script has it; a parameter has its value, a user its
\* tenant and role, and its email unless it was made by hand before the first run.
IsSeeded(e) ==
    \/ e \in Config /\ table[e] = [isActive |-> TRUE, version |-> 1]
    \/ e \in Param /\ params[e] \notin Missing /\ params[e].seeded
    \/ /\ e \in User /\ pool[e] \notin Missing
       /\ pool[e].seeded /\ (pool[e].email \/ e \in known)

\* After a run that exited with 0 each of its configurations is the script's, each of
\* its parameters has the script's value, and each of its users the script's tenant and
\* role and, unless it was made by hand, email, whatever runs before or beside it have
\* left or done: but for what somebody else has changed and no run has put right, and
\* a user whose update failed, the one failure that is swallowed.  Groups and tags it
\* does not promise: of these NoGroupHasACause and NoTagsHaveACause tell.
SuccessMeansSeeded ==
    \A r \in Run : run[r].status = "succeeded" =>
        \A e \in Range(main(run[r].withPool)) \ (touched \union run[r].unsaid) : IsSeeded(e)

\* Users come last: one the script has made exists only when every configuration and
\* every parameter has been there, so nobody logs in to a tenant seeded by half.
UsersComeLast ==
    (\E u \in User \ known : pool[u] # Absent) =>
        /\ \A c \in Config : table[c] # Absent
        /\ \A p \in Param : params[p] # Absent

\* A user the script has made lacks its group only while the run that made it is
\* between the two calls (for ever, if it ended there: a later run updates the
\* attributes and adds nobody to a group), or if the answer to the first was lost.
NoGroupHasACause ==
    \A u \in User \ (known \union raced) :
        pool[u] \notin Missing /\ ~pool[u].inGroup =>
            \E r \in Run : /\ run[r].status # "succeeded" /\ run[r].next = "AddToGroup"
                            /\ Element(r) = u

\* A parameter the script has made lacks its tags only if somebody deleted it between
\* the call that found it and the one that overwrites it.
NoTagsHaveACause ==
    \A p \in Param \ known :
        params[p] \notin Missing /\ ~params[p].tagged => p \in raced
=============================================================================

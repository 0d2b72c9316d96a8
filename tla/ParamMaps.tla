----------------------------- MODULE ParamMaps -----------------------------
(* What a load makes of SSM's answer and what is looked up in it: the map    *)
(* grouped by service that retrieveConfig reads (paramMapper, getConfig) and *)
(* the tree that retrieveConfigs reads (newParamMapper, getConfigs with      *)
(* getValueFromMap).                                                         *)
(*                                                                           *)
(* The answer comes parameter by parameter, in any order; the two loops over *)
(* it are run side by side, since neither reads what the other writes.  A    *)
(* path is the sequence of its segments.  A parameter's value is named by    *)
(* its path, so that an answer tells which parameter it was taken from.      *)
EXTENDS Integers, Sequences, FiniteSets, SequencesExt

CONSTANTS
    Path,       \* paths a parameter can have under SSM_PATH
    Dangerous,  \* segments the tree refuses: __proto__, constructor, prototype
    Inherited,  \* segments every JavaScript object has a member for: constructor, ...
    Root,       \* the segment config-service
    Env,        \* NODE_ENV
    Tenant,     \* segments that name tenants
    MaxItems    \* bound: parameters in an answer

ASSUME PathAssumption == \A p \in Path : p \in Seq(Range(p)) /\ p # <<>>
ASSUME MaxItemsAssumption == MaxItems \in Nat

Segment == UNION {Range(p) : p \in Path}
ParentsOf(p) == {SubSeq(p, 1, n) : n \in 1 .. Len(p) - 1}

VARIABLES
    input,   \* the parameters so far, in the order of the answer
    groups,  \* the result of paramMapper: service -> its pairs, in order
    tree,    \* the result of newParamMapper: its inner objects and its leaves
    thrown   \* which of the two loops has thrown

mvars == <<input, groups, tree, thrown>>

Pair(p) == [key |-> Last(p), value |-> p]

-----------------------------------------------------------------------------
(* The loops.                                                               *)

\* Mutant: the service is taken to be the segment before the last.
MutGroupParent(p) ==
    IF Len(p) < 4 THEN groups
    ELSE LET service == p[Len(p) - 1]
         IN  [s \in DOMAIN groups \union {service} |->
                 IF s # service THEN groups[s]
                 ELSE IF s \in DOMAIN groups THEN Append(groups[s], Pair(p)) ELSE <<Pair(p)>>]

\* paramMapper: paths with fewer than four segments are skipped.
Group(p) ==
    IF Len(p) < 4 THEN groups
    ELSE LET service == p[4]
         IN  [s \in DOMAIN groups \union {service} |->
                 IF s # service THEN groups[s]
                 ELSE IF s \in DOMAIN groups THEN Append(groups[s], Pair(p)) ELSE <<Pair(p)>>]

\* An object already has a member of that name, which takes no pairs.
GroupThrows(p) == Len(p) >= 4 /\ p[4] \in Inherited

\* Mutant: a value that replaces an inner object leaves what was below it.
MutPlantKeepsBelow(p) ==
    [inner  |-> (tree.inner \union ParentsOf(p)) \ {p},
     leaves |-> tree.leaves \union {p}]

\* newParamMapper: the objects on the way are created where they are missing,
\* and the value is assigned, over an inner object too.
Plant(p) ==
    LET Below(q) == IsStrictPrefix(p, q)
    IN  [inner  |-> {q \in tree.inner \union ParentsOf(p) : q # p /\ ~Below(q)},
         leaves |-> {q \in tree.leaves : ~Below(q)} \union {p}]

\* Mutant: a value on the way is replaced by an object, as for a missing one.
MutPlantNeverThrows(p) == Range(p) \intersect Dangerous # {}

\* A value stands where an object is needed, or a segment is refused.
PlantThrows(p) ==
    \/ Range(p) \intersect Dangerous # {}
    \/ ParentsOf(p) \intersect tree.leaves # {}

\* The next parameter of the answer.
Take(p) ==
    /\ p \in Path \ Range(input)
    /\ Len(input) < MaxItems
    /\ input' = Append(input, p)
    /\ thrown' = [groups |-> thrown.groups \/ GroupThrows(p),
                  tree   |-> thrown.tree \/ PlantThrows(p)]
    /\ groups' = IF thrown'.groups THEN groups ELSE Group(p)
    /\ tree' = IF thrown'.tree THEN tree ELSE Plant(p)

Init ==
    /\ input = <<>>
    /\ groups = <<>>
    /\ tree = [inner |-> {}, leaves |-> {}]
    /\ thrown = [groups |-> FALSE, tree |-> FALSE]

Next == \E p \in Path : Take(p)

Spec == Init /\ [][Next]_mvars

-----------------------------------------------------------------------------
(* The lookups.                                                             *)

\* What a lookup ends with when it returns no value; no path looks like these.
Missing == <<"NOT_FOUND">>
Refused == <<"VALIDATION_ERROR">>
Broken  == <<"TypeError">>

ASSUME ResultAssumption == Path \intersect {Missing, Refused, Broken} = {}

\* getConfig of SSMConfigStrategy for one key of a service.
getConfig(service, key) ==
    LET pairs == groups[service]
        hits == {n \in DOMAIN pairs : pairs[n].key = key}
    IN  IF service \in Inherited THEN Broken
        ELSE IF service \notin DOMAIN groups THEN Refused
        ELSE IF hits = {} THEN Missing ELSE pairs[Min(hits)].value

Known(p) == p \in tree.inner \union tree.leaves

\* getValueFromMap: the path is followed segment by segment.  A refused segment
\* throws when it is reached; an inner object is returned as if it were a value.
getValueFromMap(p) ==
    LET unknown == {n \in 1 .. Len(p) : ~Known(SubSeq(p, 1, n))}
        refused == {n \in 1 .. Len(p) : p[n] \in Dangerous}
    IN  IF \E n \in refused : \A m \in unknown : n <= m THEN Refused
        ELSE IF unknown # {} THEN Missing
        ELSE p

\* Mutant: the environment is left out of the path.
MutGetConfigsNoEnv(tenant, key) == getValueFromMap(<<Root, tenant>> \o key)

\* getConfigs: the key is completed with the tenant and the environment.
getConfigs(tenant, key) == getValueFromMap(<<Root, tenant, Env>> \o key)

-----------------------------------------------------------------------------
(* Properties, all of what the loops return when the answer ends.           *)

\* The tree is one: the parent of a leaf or of an inner object is an inner
\* object, and nothing is both.
TypeOK ==
    /\ input \in Seq(Path)
    /\ \A s \in DOMAIN groups : groups[s] \in Seq([key : Segment, value : Path])
    /\ thrown \in [groups : BOOLEAN, tree : BOOLEAN]
    /\ tree.inner \intersect tree.leaves = {}
    /\ \A p \in tree.inner \union tree.leaves : ParentsOf(p) \subseteq tree.inner

\* The tree is refused exactly if a value comes before a parameter below it, or
\* a segment is refused (what ParameterCache calls a collision).
TreeThrowsOnCollision ==
    thrown.tree <=>
        \/ \E p \in Range(input) : Range(p) \intersect Dangerous # {}
        \/ \E i, j \in DOMAIN input : i < j /\ IsStrictPrefix(input[i], input[j])

\* Otherwise a tenant finds its parameter under its key, unless one above it came
\* later and shadows it (what ParameterCache calls newParamMapper).  For a key
\* without a parameter it gets no value, and never one of another tenant.
TreeServes ==
    ~thrown.tree =>
        \A q \in Path, t \in Tenant :
            LET key == SubSeq(q, 4, Len(q))
                own == <<Root, t, Env>> \o key
                shadowed == \E i, j \in DOMAIN input :
                                i < j /\ own = input[i] /\ IsStrictPrefix(input[j], own)
                live == own \in Range(input) /\ ~shadowed
            IN  IF live THEN getConfigs(t, key) = own /\ own \in tree.leaves
                ELSE getConfigs(t, key) \notin tree.leaves

\* A lookup answers something exactly if a parameter that no later one shadows lies
\* at the path or below it; if below, the answer is an object, where a string is
\* promised.  It never is one that has no value in it.
ObjectsHaveAValueBelow ==
    ~thrown.tree =>
        \A q \in Path, t \in Tenant : \A n \in 4 .. Len(q) :
            LET key == SubSeq(q, 4, n)
                own == <<Root, t, Env>> \o key
                Shadowed(i) == \E j \in DOMAIN input :
                                   i < j /\ IsStrictPrefix(input[j], input[i])
            IN  getConfigs(t, key) = own <=>
                    \E i \in DOMAIN input : IsPrefix(own, input[i]) /\ ~Shadowed(i)

\* Every parameter with enough segments is in the group of its service, in the
\* order of the answer, and single lookups find a parameter of that name; the
\* first, whoever it belongs to.
GroupsServe ==
    ~thrown.groups =>
        \A i \in DOMAIN input :
            LET p == input[i]
            IN  Len(p) >= 4 =>
                    \E j \in 1 .. i :
                        /\ getConfig(p[4], Last(p)) = input[j]
                        /\ Len(input[j]) >= 4 /\ input[j][4] = p[4] /\ Last(input[j]) = Last(p)

\* README: configurations of several tenants are managed with complete
\* isolation of their data.  A lookup made for a tenant that has a parameter of
\* that name under the service returns that tenant's parameter.
OwnParameterIsReturned ==
    ~thrown.groups =>
        \A p \in Range(input), t \in Tenant :
            Len(p) = 5 /\ p[2] = t => getConfig(p[4], p[5]) = p
=============================================================================

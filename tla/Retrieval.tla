------------------------------ MODULE Retrieval ------------------------------
(* The gRPC calls of the config-service, from the guards to the answer:      *)
(* CognitoJwtGuard and TenantAccessGuard, the interceptor that hands the     *)
(* tenant on, the pipes, the strategy chosen by the key's prefix, and the    *)
(* filter that turns an exception into a status.                             *)
(*                                                                           *)
(* A call awaits the pool's signing key, then the pipe, then DynamoDB or     *)
(* SSM; what it does between two awaits is one action.  Calls share the maps *)
(* of SSMConfigStrategy, which a refresh replaces while others are under     *)
(* way (ParameterCache has its pages, ParamMaps what the maps look like).    *)
EXTENDS Integers, Sequences, FiniteSets, SequencesExt

CONSTANTS
    Tenant,
    Name,        \* names of the parameters of one service
    Token,       \* the tokens callers hold, see TokenAssumption
    Call,        \* the calls of a run, each made at most once
    None,
    Batches,     \* bound: the lists of keys retrieveConfigs is called with
    MaxTime,     \* bound: the clock, in whatever unit tokens expire
    MaxChanges,  \* bound: changes to DynamoDB and to SSM
    MaxFaults    \* bound: failed fetches of keys, queries and loads

\* What validateToken looks at: whose tenant it is for (None without the claim),
\* whether the pool signed it, what it is to be used for, and when it expires.
ASSUME TokenAssumption ==
    Token \subseteq [tenant : Tenant \union {None}, signed : BOOLEAN,
                     use : {"id", "access", "refresh"}, exp : Nat]
ASSUME NoneAssumption == None \notin Tenant \union Name \union Token
ASSUME BoundsAssumption == MaxTime \in Nat /\ MaxChanges \in Nat /\ MaxFaults \in Nat

\* A key of retrieveConfig: the name of a parameter under param_config_, the one
\* tenant_config_ key that is asked for, one with another prefix, or no key.
Key == Name \union {"tenant", "other", "empty"}
ASSUME KeyAssumption == Name \intersect {"tenant", "other", "empty"} = {}
ASSUME BatchesAssumption == \A keys \in Batches : keys \in Seq(Key \ {"empty"})

\* A parameter's value is named by the change that wrote it: 0 for the values there
\* are at the beginning, Older for those before them.
Absent == -1
Older == -2
Content == [Tenant \X Name -> Older .. MaxChanges]
Nothing == [p \in Tenant \X Name |-> Absent]

\* What else lies under SSM_PATH, of other services: nothing that matters, a path
\* newParamMapper throws for, or a service of an inherited name, for which paramMapper
\* throws first (ParameterCache and ParamMaps have the paths).
Strays == {"none", "refused", "inherited"}

\* The two maps: the groups that retrieveConfig looks into, `parameters`, and the tree
\* of retrieveConfigs, `newParameters`.
Maps == [groups : Content, tree : Content]
Both(content) == [groups |-> content, tree |-> content]

VARIABLES
    items,    \* DynamoDB: tenant -> isActive of each version of its item so far
    settled,  \* tenant -> the oldest version a query may still find
    ssm,      \* SSM: the parameters
    stray,    \* SSM: what else there is
    changes,  \* changes so far
    maps,     \* every pair of maps there has been; the last one is served
    cached,   \* is the pool's signing key in the cache of jwks-rsa
    now, faults,
    call      \* call -> where it stands

rvars == <<items, settled, ssm, stray, changes, maps, cached, now, faults, call>>
stores == <<items, settled, ssm, stray, changes>>

\* `from`, `base` and `at` are history: how many pairs of maps there had been and
\* which versions were settled when the call came, and when its token was verified.
Unborn == [phase |-> "unborn", op |-> "retrieveConfig", token |-> None, keys |-> <<>>,
           tenant |-> None, read |-> None, from |-> 0, base |-> settled,
           at |-> None, status |-> None, answer |-> None]

Phase(r) == call[r].phase

-----------------------------------------------------------------------------
(* What is outside: the stores, the clock, the pool.                        *)

\* The tenant's item is written, soft-deleted or restored.
ChangeItem(t, active) ==
    /\ changes < MaxChanges
    /\ changes' = changes + 1
    /\ items' = [items EXCEPT ![t] = Append(@, active)]
    /\ UNCHANGED <<settled, ssm, stray, maps, cached, now, faults, call>>

\* The replica that lagged behind has the next version.
Settle(t) ==
    /\ settled[t] < Len(items[t])
    /\ settled' = [settled EXCEPT ![t] = @ + 1]
    /\ UNCHANGED <<items, ssm, stray, changes, maps, cached, now, faults, call>>

\* A parameter is written or deleted.
ChangeParameter(p) ==
    /\ changes < MaxChanges
    /\ changes' = changes + 1
    /\ \E v \in {Absent, changes + 1} : v # ssm[p] /\ ssm' = [ssm EXCEPT ![p] = v]
    /\ UNCHANGED <<items, settled, stray, maps, cached, now, faults, call>>

\* Something else under SSM_PATH is written or deleted.
ChangeStray(kind) ==
    /\ changes < MaxChanges
    /\ kind # stray
    /\ changes' = changes + 1
    /\ stray' = kind
    /\ UNCHANGED <<items, settled, ssm, maps, cached, now, faults, call>>

Tick ==
    /\ now < MaxTime
    /\ now' = now + 1
    /\ UNCHANGED <<stores, maps, cached, faults, call>>

\* JWKS_CACHE_MAX_AGE has passed.
ForgetKey ==
    /\ cached
    /\ cached' = FALSE
    /\ UNCHANGED <<stores, maps, now, faults, call>>

Fault == faults < MaxFaults /\ faults' = faults + 1

-----------------------------------------------------------------------------
(* Errors.                                                                  *)

\* The HTTP status of what is thrown; an Error that is no HttpException passes
\* the filter by and becomes UNKNOWN.
HttpStatus ==
    [UnauthorizedException |-> 401, ForbiddenException |-> 403,
     VALIDATION_ERROR |-> 400, NOT_FOUND_ERROR |-> 404,
     INTERNAL_SERVER_ERROR |-> 500, Error |-> 0]

mapHttpToGrpcStatus(status) ==
    CASE status = 401 -> "UNAUTHENTICATED" [] status = 403 -> "PERMISSION_DENIED"
      [] status = 400 -> "INVALID_ARGUMENT" [] status = 404 -> "NOT_FOUND"
      [] status = 500 -> "INTERNAL" [] OTHER -> "UNKNOWN"

Answer(r, status, answer) ==
    call' = [call EXCEPT ![r].phase = "done", ![r].status = status, ![r].answer = answer]

Throw(r, exception) == Answer(r, mapHttpToGrpcStatus(HttpStatus[exception]), None)

-----------------------------------------------------------------------------
(* The guards.                                                              *)

\* A call arrives.  refreshConfig is public and goes on to await its load; a
\* call without a token, or with one that cannot be decoded, ends here.
Arrive(r, op, token, keys) ==
    /\ Phase(r) = "unborn"
    /\ LET arrived == [Unborn EXCEPT !.op = op, !.token = token, !.keys = keys,
                                     !.from = Len(maps), !.phase = "verifying"]
       IN  call' = [call EXCEPT ![r] =
                      IF op = "refreshConfig" THEN [arrived EXCEPT !.phase = "loading"]
                      ELSE IF token # None THEN arrived
                      ELSE [arrived EXCEPT !.phase = "done", !.status = "UNAUTHENTICATED"]]
    /\ UNCHANGED <<stores, maps, cached, now, faults>>

\* Mutant: the tenant claim is not asked for.
MutClaimsUseOnly(token) == token.use \in {"id", "access"}

\* validateClaims.
ClaimsHold(token) == token.use \in {"id", "access"} /\ token.tenant # None

\* TenantAccessGuard: in a gRPC call the tenant that counts as requested is the one
\* the first guard has put there.
TenantAccessGuard(token, requested) == requested = token.tenant

\* The guards are passed; the interceptor copies the token's tenant into the request.
Admit(r, token) ==
    call' = [call EXCEPT ![r].phase = "admitted", ![r].tenant = token.tenant, ![r].at = now]

\* Mutant: only validateClaims looks at the expiry, and lets `exp` itself pass.
MutVerifyLate(r) ==
    LET token == call[r].token
    IN  /\ Phase(r) = "verifying"
        /\ cached' = (cached \/ token.signed)
        /\ IF ~(token.signed /\ now <= token.exp /\ ClaimsHold(token))
           THEN Throw(r, "UnauthorizedException")
           ELSE Admit(r, token)
        /\ UNCHANGED <<stores, maps, now, faults>>

\* The signing key is there: signature, expiry and claims are checked, then the
\* second guard has its turn.
Verify(r) ==
    LET token == call[r].token
    IN  /\ Phase(r) = "verifying"
        /\ cached' = (cached \/ token.signed)
        /\ IF ~(token.signed /\ now < token.exp /\ ClaimsHold(token))
           THEN Throw(r, "UnauthorizedException")
           ELSE IF ~TenantAccessGuard(token, token.tenant)
           THEN Throw(r, "ForbiddenException")
           ELSE Admit(r, token)
        /\ UNCHANGED <<stores, maps, now, faults>>

\* The key is not cached and its fetch fails, or is refused by the rate limit.
NoSigningKey(r) ==
    /\ Phase(r) = "verifying"
    /\ ~cached
    /\ Fault
    /\ Throw(r, "UnauthorizedException")
    /\ UNCHANGED <<stores, maps, cached, now>>

-----------------------------------------------------------------------------
(* The handlers, from the pipe to the answer or to the next await.          *)

\* What the tree holds for a tenant, and the groups for the whole service.
Lookup(tenant, name) == Last(maps).tree[<<tenant, name>>]
InGroup(content, name) == {t \in Tenant : content[<<t, name>>] # Absent}

\* Mutant: the groups are those there were when the process began.
MutGetParameterOfBoot(r, name) ==
    LET content == Head(maps).groups
    IN  IF \A p \in DOMAIN content : content[p] = Absent THEN Throw(r, "VALIDATION_ERROR")
        ELSE IF InGroup(content, name) = {} THEN Throw(r, "NOT_FOUND_ERROR")
        ELSE \E t \in InGroup(content, name) : Answer(r, "OK", content[<<t, name>>])

\* getConfig of SSMConfigStrategy: without any parameter there is no group of the
\* service; within the group the pair found first may be any tenant's.
GetParameter(r, name) ==
    LET content == Last(maps).groups
    IN  IF \A p \in DOMAIN content : content[p] = Absent THEN Throw(r, "VALIDATION_ERROR")
        ELSE IF InGroup(content, name) = {} THEN Throw(r, "NOT_FOUND_ERROR")
        ELSE \E t \in InGroup(content, name) : Answer(r, "OK", content[<<t, name>>])

\* validateKeyParameter, and validateKeysParameter: one key may have either prefix,
\* several only param_config_.
KeyValid(key) == key \in Name \union {"tenant"}
KeysValid(keys) ==
    Range(keys) \subseteq IF Len(keys) = 1 THEN Name \union {"tenant"} ELSE Name

getStrategy(key) == IF key = "tenant" THEN "DynamoDB" ELSE "SSM"

\* retrieveConfig.  For no key the pipe returns nothing, and the handler reads a
\* property of that; a tenant_config_ key goes on to await DynamoDB.
RetrieveConfig(r) ==
    LET key == call[r].keys[1]
    IN  /\ Phase(r) = "admitted" /\ call[r].op = "retrieveConfig"
        /\ IF key = "empty" THEN Throw(r, "Error")
           ELSE IF ~KeyValid(key) THEN Throw(r, "VALIDATION_ERROR")
           ELSE IF getStrategy(key) = "DynamoDB"
           THEN call' = [call EXCEPT ![r].phase = "querying"]
           ELSE GetParameter(r, key)
        /\ UNCHANGED <<stores, maps, cached, now, faults>>

\* Mutant: the lookup of a key yields before the next.
MutBatchYields(r) ==
    LET keys == call[r].keys
        t == call[r].tenant
        got == IF call[r].answer = None THEN <<>> ELSE call[r].answer
        key == keys[Cardinality(DOMAIN got) + 1]
        more == got @@ key :> Lookup(t, key)
    IN  /\ Phase(r) = "admitted" /\ call[r].op = "retrieveConfigs"
        /\ IF keys = <<>> \/ ~Range(keys) \subseteq Name THEN Throw(r, "Error")
           ELSE IF Lookup(t, key) = Absent THEN Throw(r, "NOT_FOUND_ERROR")
           ELSE IF DOMAIN more = Range(keys) THEN Answer(r, "OK", more)
           ELSE call' = [call EXCEPT ![r].answer = more]
        /\ UNCHANGED <<stores, maps, cached, now, faults>>

\* retrieveConfigs.  An empty list does not come over the wire, so it is as if there
\* were none; DynamoDBConfigStrategy has no getConfigs.  Promise.all: the keys are
\* looked up without yielding, and one that is not found fails the call.
RetrieveConfigs(r) ==
    LET keys == call[r].keys
        t == call[r].tenant
    IN  /\ Phase(r) = "admitted" /\ call[r].op = "retrieveConfigs"
        /\ IF keys = <<>> THEN Throw(r, "Error")
           ELSE IF ~KeysValid(keys) THEN Throw(r, "VALIDATION_ERROR")
           ELSE IF getStrategy(keys[1]) = "DynamoDB" THEN Throw(r, "Error")
           ELSE IF \E k \in Range(keys) : Lookup(t, k) = Absent THEN Throw(r, "NOT_FOUND_ERROR")
           ELSE Answer(r, "OK", [k \in Range(keys) |-> Lookup(t, k)])
        /\ UNCHANGED <<stores, maps, cached, now, faults>>

\* Mutant: the item is looked up by its key alone, as getConfiguration does.
MutQueryAnyTenant(r) ==
    /\ Phase(r) = "querying"
    /\ \E t \in Tenant : \E n \in settled[t] .. Len(items[t]) :
          IF items[t][n] THEN Answer(r, "OK", [tenant |-> t, version |-> n])
          ELSE Throw(r, "NOT_FOUND_ERROR")
    /\ UNCHANGED <<stores, maps, cached, now, faults>>

\* getConfigurationByTenant: DynamoDB answers an eventually consistent query with a
\* version its replicas have, and nothing if that one is not active.
Query(r) ==
    LET t == call[r].tenant
    IN  /\ Phase(r) = "querying"
        /\ \E n \in settled[t] .. Len(items[t]) :
              IF items[t][n] THEN Answer(r, "OK", [tenant |-> t, version |-> n])
              ELSE Throw(r, "NOT_FOUND_ERROR")
        /\ UNCHANGED <<stores, maps, cached, now, faults>>

\* DynamoDB fails; what the SDK throws is no HttpException.
QueryFails(r) ==
    /\ Phase(r) = "querying"
    /\ Fault
    /\ Throw(r, "Error")
    /\ UNCHANGED <<stores, maps, cached, now>>

\* refreshConfig: SSM answers, and the load goes on to build the maps; or it fails.
Load(r) ==
    /\ Phase(r) = "loading"
    /\ call' = [call EXCEPT ![r].phase = "loaded",
                            ![r].read = [content |-> ssm, stray |-> stray]]
    /\ UNCHANGED <<stores, maps, cached, now, faults>>

LoadFails(r) ==
    /\ Phase(r) = "loading"
    /\ Fault
    /\ Throw(r, "INTERNAL_SERVER_ERROR")
    /\ UNCHANGED <<stores, maps, cached, now>>

\* paramMapper replaces the groups unless it throws, then newParamMapper the tree.
Commit(r) ==
    LET content == call[r].read.content
        beside == call[r].read.stray
    IN  /\ Phase(r) = "loaded"
        /\ \/ /\ beside = "none"
              /\ maps' = Append(maps, Both(content))
              /\ Answer(r, "OK", None)
           \/ /\ beside = "refused"
              /\ maps' = Append(maps, [Last(maps) EXCEPT !.groups = content])
              /\ Throw(r, "VALIDATION_ERROR")
           \/ /\ beside = "inherited"
              /\ maps' = maps
              /\ Throw(r, "Error")
        /\ UNCHANGED <<stores, cached, now, faults>>

-----------------------------------------------------------------------------
\* The stores as they are seeded, and a task that serves already, its first load
\* still under way or behind the last change of the parameters.
Init ==
    /\ items = [t \in Tenant |-> <<TRUE>>]
    /\ settled = [t \in Tenant |-> 1]
    /\ ssm = [p \in Tenant \X Name |-> 0]
    /\ stray = "none"
    /\ changes = 0
    /\ maps \in {<<Both(Nothing)>>, <<Both([p \in Tenant \X Name |-> Older])>>}
    /\ cached = FALSE
    /\ now = 0
    /\ faults = 0
    /\ call = [r \in Call |-> Unborn]

Arrives(r) ==
    \/ Arrive(r, "refreshConfig", None, <<>>)
    \/ \E token \in Token \union {None} :
          \/ \E key \in Key : Arrive(r, "retrieveConfig", token, <<key>>)
          \/ \E keys \in Batches : Arrive(r, "retrieveConfigs", token, keys)

Step(r) ==
    Verify(r) \/ RetrieveConfig(r) \/ RetrieveConfigs(r) \/ Query(r) \/ Load(r) \/ Commit(r)

Next ==
    \/ \E r \in Call :
          Arrives(r) \/ Step(r) \/ NoSigningKey(r) \/ QueryFails(r) \/ LoadFails(r)
    \/ \E t \in Tenant : Settle(t) \/ \E active \in BOOLEAN : ChangeItem(t, active)
    \/ \E p \in Tenant \X Name : ChangeParameter(p)
    \/ \E kind \in Strays : ChangeStray(kind)
    \/ Tick
    \/ ForgetKey

Spec == Init /\ [][Next]_rvars

-----------------------------------------------------------------------------
(* Properties.                                                              *)

Done(r) == Phase(r) = "done"
Statuses == {"OK"} \union {mapHttpToGrpcStatus(HttpStatus[e]) : e \in DOMAIN HttpStatus}

\* The place of each call: it has its tenant from the moment it is admitted, and
\* a status, of those the filter knows, when it is done.
TypeOK ==
    /\ \A t \in Tenant : items[t] \in Seq(BOOLEAN) /\ settled[t] \in 1 .. Len(items[t])
    /\ ssm \in Content /\ stray \in Strays
    /\ maps \in Seq(Maps) /\ maps # <<>>
    /\ \A r \in Call :
          /\ Phase(r) \in {"unborn", "verifying", "admitted", "querying", "loading",
                           "loaded", "done"}
          /\ Phase(r) \in {"admitted", "querying"} => call[r].tenant \in Tenant
          /\ call[r].status \in IF Done(r) THEN Statuses ELSE {None}

\* A call is answered, be it with an error of its own, only if its token was signed
\* by the pool, carried a tenant and had not expired when the key had come; and it
\* is turned away only if not, or if the key could not be fetched.
OnlyVerifiedCallersAreServed ==
    \A r \in Call :
        Done(r) /\ call[r].op # "refreshConfig" =>
            LET token == call[r].token
                genuine == token # None /\ token.signed /\ token.tenant # None
                           /\ token.use # "refresh"
            IN  IF call[r].status = "UNAUTHENTICATED"
                THEN ~genuine \/ now >= token.exp \/ faults > 0
                ELSE genuine /\ call[r].at < token.exp /\ call[r].tenant = token.tenant

\* A tenant_config_ key is answered with the caller's own configuration, in a version
\* that was active and at least as new as what every replica had when the call came;
\* and with NOT_FOUND only if one of those versions was not active.
OwnActiveConfiguration ==
    \A r \in Call :
        Done(r) /\ call[r].op = "retrieveConfig" /\ call[r].keys = <<"tenant">> =>
            LET t == call[r].token.tenant
                since == call[r].base[t] .. Len(items[t])
            IN  /\ call[r].status = "OK" =>
                       /\ call[r].answer.tenant = t
                       /\ call[r].answer.version \in {n \in since : items[t][n]}
                /\ call[r].status = "NOT_FOUND" => \E n \in since : ~items[t][n]

\* A batch is answered from one load, which was served at some time while the call
\* ran, with a value of the caller's tenant for every key; and with NOT_FOUND only
\* if such a load lacked one of them.
BatchIsOfOneLoad ==
    \A r \in Call :
        Done(r) /\ call[r].op = "retrieveConfigs" =>
            LET keys == Range(call[r].keys)
                t == call[r].token.tenant
                Of(n) == [k \in keys |-> maps[n].tree[<<t, k>>]]
            IN  /\ call[r].status = "OK" =>
                       \E n \in call[r].from .. Len(maps) :
                           call[r].answer = Of(n) /\ \A k \in keys : Of(n)[k] # Absent
                /\ call[r].status = "NOT_FOUND" =>
                       \E n \in call[r].from .. Len(maps) : \E k \in keys : Of(n)[k] = Absent

\* UNKNOWN, which tells a client nothing, comes of a failed query of DynamoDB, of no
\* key at all, of a list that is one tenant_config_ key, which no strategy takes, or of
\* a refresh that read a service paramMapper throws for.  INVALID_ARGUMENT is for keys
\* the pipe refuses, for a parameter while there are none at all, or for a refresh that
\* read a path newParamMapper throws for; NOT_FOUND for a parameter that no tenant has
\* in groups served meanwhile; INTERNAL for a refresh, when SSM fails.  A refresh is OK
\* only if both maps became what it read.
ErrorsHaveTheirCause ==
    \A r \in Call : Done(r) =>
        LET keys == call[r].keys
            single == call[r].op = "retrieveConfig"
            batch == call[r].op = "retrieveConfigs"
            refresh == call[r].op = "refreshConfig"
            Served(n) == call[r].from <= n /\ n <= Len(maps)
        IN  CASE call[r].status = "UNKNOWN" ->
                     \/ single /\ keys = <<"tenant">> /\ faults > 0
                     \/ single /\ keys = <<"empty">>
                     \/ batch /\ keys \in {<<>>, <<"tenant">>}
                     \/ refresh /\ call[r].read.stray = "inherited"
              [] call[r].status = "INVALID_ARGUMENT" ->
                     \/ "other" \in Range(keys)
                     \/ batch /\ Len(keys) > 1 /\ "tenant" \in Range(keys)
                     \/ /\ single /\ keys[1] \in Name
                        /\ \E n \in DOMAIN maps : Served(n) /\ maps[n].groups = Nothing
                     \/ refresh /\ call[r].read.stray = "refused"
              [] call[r].status = "NOT_FOUND" /\ single /\ keys[1] \in Name ->
                     \E n \in DOMAIN maps : Served(n) /\ InGroup(maps[n].groups, keys[1]) = {}
              [] call[r].status = "INTERNAL" -> refresh /\ faults > 0
              [] call[r].status = "OK" /\ batch -> Range(keys) \subseteq Name
              [] call[r].status = "OK" /\ refresh ->
                     \E n \in DOMAIN maps : Served(n) /\ maps[n] = Both(call[r].read.content)
              [] OTHER -> TRUE
=============================================================================

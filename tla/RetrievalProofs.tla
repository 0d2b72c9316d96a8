--------------------------- MODULE RetrievalProofs ---------------------------
(* Theorems about Retrieval, for any number of tenants, parameters, tokens,  *)
(* calls, changes and faults, and any lists of keys.                         *)
EXTENDS Retrieval, SequenceTheorems, TLAPS

\* The fields of a call.
Fields == {"phase", "op", "token", "keys", "tenant", "read", "from", "base", "at",
           "status", "answer"}

ShapeOK == DOMAIN call = Call /\ \A r \in Call : DOMAIN call[r] = Fields

StoresOK ==
    /\ items \in [Tenant -> Seq(BOOLEAN)] /\ settled \in [Tenant -> Nat]
    /\ \A t \in Tenant : settled[t] \in 1 .. Len(items[t])
    /\ ssm \in Content /\ stray \in Strays /\ changes \in 0 .. MaxChanges
    /\ maps \in Seq(Maps) /\ maps # <<>>
    /\ now \in Nat /\ faults \in Nat

Genuine(token) ==
    token # None /\ token.signed /\ token.tenant # None /\ token.use # "refresh"

\* What a call that has come has asked, and since when.
AsksOK(r) ==
    Phase(r) # "unborn" =>
        /\ call[r].token \in Token \union {None}
        /\ call[r].from \in 1 .. Len(maps)
        /\ \A t \in Tenant : call[r].base[t] \in 1 .. settled[t]
        /\ \/ call[r].op = "refreshConfig"
           \/ call[r].op = "retrieveConfig" /\ \E key \in Key : call[r].keys = <<key>>
           \/ call[r].op = "retrieveConfigs" /\ call[r].keys \in Batches

\* A call that is past the guards has convinced them, and has its tenant.
Passed(r) ==
    /\ Genuine(call[r].token)
    /\ call[r].at < call[r].token.exp
    /\ call[r].tenant = call[r].token.tenant

\* The place of a call that is under way.
PlaceOK(r) ==
    /\ Phase(r) \in {"unborn", "verifying", "admitted", "querying", "loading", "loaded", "done"}
    /\ Phase(r) # "done" => call[r].status = None
    /\ Phase(r) \in {"loading", "loaded"} => call[r].op = "refreshConfig"
    /\ Phase(r) \in {"verifying", "admitted", "querying"} =>
          call[r].op # "refreshConfig" /\ call[r].token # None
    /\ Phase(r) \in {"admitted", "querying"} => Passed(r)
    /\ Phase(r) = "querying" => call[r].op = "retrieveConfig" /\ call[r].keys = <<"tenant">>
    /\ Phase(r) = "loaded" => call[r].read \in [content : Content, stray : Strays]

-----------------------------------------------------------------------------
(* What the properties say of a call that is done.                          *)

VerifiedOK(r) ==
    call[r].op # "refreshConfig" =>
        IF call[r].status = "UNAUTHENTICATED"
        THEN ~Genuine(call[r].token) \/ now >= call[r].token.exp \/ faults > 0
        ELSE Passed(r)

OwnOK(r) ==
    call[r].op = "retrieveConfig" /\ call[r].keys = <<"tenant">> =>
        LET t == call[r].token.tenant
            since == call[r].base[t] .. Len(items[t])
        IN  /\ call[r].status = "OK" =>
                   /\ call[r].answer.tenant = t
                   /\ call[r].answer.version \in since /\ items[t][call[r].answer.version]
            /\ call[r].status = "NOT_FOUND" => \E n \in since : ~items[t][n]

\* What a content of the maps has for the keys of a call.
Of(r, n) == [k \in Range(call[r].keys) |-> maps[n].tree[<<call[r].token.tenant, k>>]]

BatchOK(r) ==
    call[r].op = "retrieveConfigs" =>
        /\ call[r].status = "OK" =>
               \E n \in call[r].from .. Len(maps) :
                   call[r].answer = Of(r, n) /\ \A k \in Range(call[r].keys) : Of(r, n)[k] # Absent
        /\ call[r].status = "NOT_FOUND" =>
               \E n \in call[r].from .. Len(maps) :
                   \E k \in Range(call[r].keys) : Of(r, n)[k] = Absent

FailedOK(r) ==
    /\ call[r].status = "UNKNOWN" =>
           \/ call[r].op = "retrieveConfig" /\ call[r].keys = <<"tenant">> /\ faults > 0
           \/ call[r].op = "retrieveConfig" /\ call[r].keys = <<"empty">>
           \/ call[r].op = "retrieveConfigs" /\ call[r].keys \in {<<>>, <<"tenant">>}
           \/ call[r].op = "refreshConfig" /\ call[r].read.stray = "inherited"
    /\ call[r].status = "INTERNAL" => call[r].op = "refreshConfig" /\ faults > 0

InvalidOK(r) ==
    call[r].status = "INVALID_ARGUMENT" =>
        \/ "other" \in Range(call[r].keys)
        \/ /\ call[r].op = "retrieveConfigs"
           /\ Len(call[r].keys) > 1 /\ "tenant" \in Range(call[r].keys)
        \/ /\ call[r].op = "retrieveConfig" /\ call[r].keys[1] \in Name
           /\ \E n \in call[r].from .. Len(maps) : maps[n].groups = Nothing
        \/ call[r].op = "refreshConfig" /\ call[r].read.stray = "refused"

NotFoundOK(r) ==
    call[r].status = "NOT_FOUND" /\ call[r].op = "retrieveConfig" /\ call[r].keys[1] \in Name =>
        \E n \in call[r].from .. Len(maps) : InGroup(maps[n].groups, call[r].keys[1]) = {}

AnsweredOK(r) ==
    call[r].status = "OK" =>
        /\ call[r].op = "retrieveConfigs" => Range(call[r].keys) \subseteq Name
        /\ call[r].op = "refreshConfig" =>
               \E n \in call[r].from .. Len(maps) : maps[n] = Both(call[r].read.content)

DoneOK(r) ==
    Phase(r) = "done" =>
        /\ call[r].status \in Statuses
        /\ VerifiedOK(r) /\ OwnOK(r) /\ BatchOK(r)
        /\ FailedOK(r) /\ InvalidOK(r) /\ NotFoundOK(r) /\ AnsweredOK(r)

CallOK(r) == AsksOK(r) /\ PlaceOK(r) /\ DoneOK(r)

RInv == ShapeOK /\ StoresOK /\ \A r \in Call : CallOK(r)

-----------------------------------------------------------------------------
LEMMA StatusFacts ==
    /\ mapHttpToGrpcStatus(HttpStatus["UnauthorizedException"]) = "UNAUTHENTICATED"
    /\ mapHttpToGrpcStatus(HttpStatus["ForbiddenException"]) = "PERMISSION_DENIED"
    /\ mapHttpToGrpcStatus(HttpStatus["VALIDATION_ERROR"]) = "INVALID_ARGUMENT"
    /\ mapHttpToGrpcStatus(HttpStatus["NOT_FOUND_ERROR"]) = "NOT_FOUND"
    /\ mapHttpToGrpcStatus(HttpStatus["INTERNAL_SERVER_ERROR"]) = "INTERNAL"
    /\ mapHttpToGrpcStatus(HttpStatus["Error"]) = "UNKNOWN"
  BY DEF mapHttpToGrpcStatus, HttpStatus

LEMMA StatusesFacts ==
    {"OK", "UNAUTHENTICATED", "PERMISSION_DENIED", "INVALID_ARGUMENT", "NOT_FOUND",
     "INTERNAL", "UNKNOWN"}
        \subseteq Statuses
  <1>1. DOMAIN HttpStatus = {"UnauthorizedException", "ForbiddenException", "VALIDATION_ERROR",
                             "NOT_FOUND_ERROR", "INTERNAL_SERVER_ERROR", "Error"}
    BY DEF HttpStatus
  <1> QED
    BY <1>1, StatusFacts DEF Statuses

LEMMA TokenFacts ==
    ASSUME NEW token \in Token
    PROVE  /\ token # None
           /\ token.tenant \in Tenant \union {None} /\ token.signed \in BOOLEAN
           /\ token.use \in {"id", "access", "refresh"} /\ token.exp \in Nat
  BY TokenAssumption, NoneAssumption

\* Contents are added, versions are added, time passes and faults are counted.
Grows ==
    /\ Len(maps) <= Len(maps') /\ \A n \in 1 .. Len(maps) : maps'[n] = maps[n]
    /\ \A t \in Tenant :
          /\ Len(items[t]) <= Len(items'[t]) /\ settled[t] <= settled'[t]
          /\ \A n \in 1 .. Len(items[t]) : items'[t][n] = items[t][n]
    /\ now <= now' /\ faults <= faults'

\* A call that does not step.
LEMMA RestStays ==
    ASSUME RInv, StoresOK', Grows, NEW r \in Call, call'[r] = call[r]
    PROVE  CallOK(r)'
  <1>1. /\ AsksOK(r) /\ PlaceOK(r) /\ DoneOK(r) /\ Phase(r)' = Phase(r)
        /\ Len(maps) \in Nat /\ Len(maps') \in Nat
        /\ \A t \in Tenant : /\ Len(items[t]) \in Nat /\ Len(items'[t]) \in Nat
                             /\ settled[t] \in Nat /\ settled'[t] \in Nat
        /\ now \in Nat /\ now' \in Nat /\ faults \in Nat /\ faults' \in Nat
    BY DEF RInv, CallOK, StoresOK, Phase
  <1>2. AsksOK(r)' /\ PlaceOK(r)'
    BY <1>1 DEF AsksOK, PlaceOK, Passed, Grows
  <1>3. ASSUME Phase(r) = "done" PROVE DoneOK(r)'
    <2>1. VerifiedOK(r)'
      <3>1. call[r].token \in Token => call[r].token.exp \in Nat
        BY TokenFacts
      <3> QED
        BY <1>1, <1>3, <3>1 DEF DoneOK, AsksOK, VerifiedOK, Passed, Genuine, Grows
    <2>2. OwnOK(r)'
      <3> SUFFICES ASSUME call[r].op = "retrieveConfig", call[r].keys = <<"tenant">>,
                          call[r].status \in {"OK", "NOT_FOUND"}
                   PROVE  OwnOK(r)'
        BY DEF OwnOK
      <3>1. call[r].token.tenant \in Tenant
        BY <1>1, <1>3, TokenFacts DEF DoneOK, VerifiedOK, Passed, Genuine, AsksOK
      <3> DEFINE t == call[r].token.tenant
      <3>2. /\ call[r].base[t] \in Int /\ Len(items[t]) <= Len(items'[t])
            /\ 1 <= call[r].base[t] /\ Len(items[t]) \in Nat /\ Len(items'[t]) \in Nat
            /\ \A n \in 1 .. Len(items[t]) : items'[t][n] = items[t][n]
        BY <1>1, <1>3, <3>1 DEF AsksOK, Grows
      <3>3. ASSUME NEW n \in call[r].base[t] .. Len(items[t])
            PROVE  n \in call[r].base[t] .. Len(items'[t]) /\ items'[t][n] = items[t][n]
        BY <3>2
      <3> QED
        BY <1>1, <1>3, <3>3 DEF DoneOK, OwnOK
    <2>3. ASSUME NEW n \in call[r].from .. Len(maps)
          PROVE  n \in call[r].from .. Len(maps') /\ maps'[n] = maps[n]
      BY <1>1, <1>3 DEF AsksOK, Grows
    <2>4. BatchOK(r)'
      <3>1. \A n \in call[r].from .. Len(maps) : Of(r, n)' = Of(r, n)
        BY <2>3 DEF Of
      <3> QED
        BY <1>1, <1>3, <2>3, <3>1 DEF DoneOK, BatchOK
    <2>5. FailedOK(r)' /\ InvalidOK(r)' /\ NotFoundOK(r)' /\ AnsweredOK(r)'
      BY <1>1, <1>3, <2>3
         DEF DoneOK, FailedOK, InvalidOK, NotFoundOK, AnsweredOK, Grows, Nothing, InGroup
    <2> QED
      BY <1>1, <1>3, <2>1, <2>2, <2>4, <2>5 DEF DoneOK
  <1> QED
    BY <1>1, <1>2, <1>3 DEF CallOK, DoneOK

-----------------------------------------------------------------------------
(* The steps of a call.                                                     *)

Others(r) == \A x \in Call : x # r => call'[x] = call[x]

\* The invariant, rebuilt after a step of one call.
LEMMA CallStep ==
    ASSUME RInv, StoresOK', Grows, NEW r \in Call, ShapeOK', Others(r), CallOK(r)'
    PROVE  RInv'
  <1>1. ASSUME NEW x \in Call PROVE CallOK(x)'
    BY <1>1, RestStays DEF Others
  <1> QED
    BY <1>1 DEF RInv

\* Most steps leave stores and maps alone.
LEMMA StoresStay ==
    ASSUME RInv, UNCHANGED <<stores, maps, now>>, faults' \in {faults, faults + 1}
    PROVE  StoresOK' /\ Grows
  <1>1. UNCHANGED <<items, settled, ssm, stray, changes, maps, now>>
    BY DEF stores
  <1>2. StoresOK
    BY DEF RInv
  <1>3. StoresOK'
    BY <1>1, <1>2 DEF StoresOK
  <1>4. Len(maps) \in Nat /\ \A t \in Tenant : Len(items[t]) \in Nat /\ settled[t] \in Nat
    BY <1>2 DEF StoresOK
  <1> QED
    BY <1>1, <1>2, <1>3, <1>4 DEF StoresOK, Grows

LEMMA FaultFacts ==
    ASSUME RInv, Fault
    PROVE  faults' \in {faults, faults + 1} /\ faults' > 0
  BY DEF RInv, StoresOK, Fault

LEMMA Answers ==
    ASSUME RInv, NEW r \in Call, NEW status, NEW answer, Answer(r, status, answer)
    PROVE  /\ ShapeOK' /\ Others(r)
           /\ call'[r].phase = "done" /\ call'[r].status = status /\ call'[r].answer = answer
           /\ call'[r].op = call[r].op /\ call'[r].token = call[r].token
           /\ call'[r].keys = call[r].keys /\ call'[r].tenant = call[r].tenant
           /\ call'[r].from = call[r].from /\ call'[r].base = call[r].base
           /\ call'[r].at = call[r].at /\ call'[r].read = call[r].read
  <1>1. call' = [call EXCEPT ![r].phase = "done", ![r].status = status, ![r].answer = answer]
    BY DEF Answer
  <1>2. call'[r] = [call[r] EXCEPT !.phase = "done", !.status = status, !.answer = answer]
    BY <1>1 DEF RInv, ShapeOK
  <1>3. ShapeOK' /\ Others(r)
    BY <1>1 DEF RInv, ShapeOK, Fields, Others
  <1> QED
    BY <1>2, <1>3 DEF RInv, ShapeOK, Fields

\* The end of a call: what is left to show is what the properties say of it.
LEMMA Ends ==
    ASSUME RInv, StoresOK', Grows, NEW r \in Call, NEW status \in Statuses, NEW answer,
           Answer(r, status, answer), Phase(r) \notin {"unborn", "done"},
           VerifiedOK(r)', OwnOK(r)', BatchOK(r)', FailedOK(r)', InvalidOK(r)', NotFoundOK(r)',
           AnsweredOK(r)'
    PROVE  RInv'
  <1>1. Phase(r)' = "done" /\ call'[r].status \in Statuses /\ ShapeOK' /\ Others(r)
    BY Answers DEF Phase
  <1>2. AsksOK(r)'
    <2>1. AsksOK(r) /\ StoresOK
      BY DEF RInv, CallOK
    <2>2. /\ Len(maps) \in Nat /\ Len(maps') \in Nat /\ Len(maps) <= Len(maps')
          /\ \A t \in Tenant : settled[t] \in Nat /\ settled'[t] \in Nat
                                /\ settled[t] <= settled'[t]
      BY <2>1 DEF StoresOK, Grows
    <2> QED
      BY <1>1, <2>1, <2>2, Answers DEF AsksOK
  <1>3. PlaceOK(r)' /\ DoneOK(r)'
    BY <1>1 DEF PlaceOK, DoneOK
  <1> QED
    BY <1>1, <1>2, <1>3, CallStep DEF CallOK

\* A call comes: the refresh, or with whatever token and keys.
LEMMA ArriveRInv ==
    ASSUME RInv, NEW r \in Call, NEW op, NEW token \in Token \union {None}, NEW keys,
           \/ op = "refreshConfig"
           \/ op = "retrieveConfig" /\ \E key \in Key : keys = <<key>>
           \/ op = "retrieveConfigs" /\ keys \in Batches,
           Arrive(r, op, token, keys)
    PROVE  RInv'
  <1> DEFINE arrived == [Unborn EXCEPT !.op = op, !.token = token, !.keys = keys,
                                       !.from = Len(maps), !.phase = "verifying"]
  <1>1. UNCHANGED <<stores, maps, now, faults>> /\ StoresOK
    BY DEF Arrive, RInv
  <1>2. StoresOK' /\ Grows
    BY <1>1, StoresStay
  <1>3. PICK phase \in {"loading", "verifying", "done"} :
          /\ call' = [call EXCEPT ![r] =
                        IF phase = "loading" THEN [arrived EXCEPT !.phase = "loading"]
                        ELSE IF phase = "verifying" THEN arrived
                        ELSE [arrived EXCEPT !.phase = "done", !.status = "UNAUTHENTICATED"]]
          /\ phase = "loading" <=> op = "refreshConfig"
          /\ phase = "done" <=> op # "refreshConfig" /\ token = None
    <2>1. CASE op = "refreshConfig"
      BY <2>1 DEF Arrive
    <2>2. CASE op # "refreshConfig" /\ token # None
      BY <2>2 DEF Arrive
    <2>3. CASE op # "refreshConfig" /\ token = None
      BY <2>3 DEF Arrive
    <2> QED
      BY <2>1, <2>2, <2>3
  <1>4. /\ arrived.phase = "verifying" /\ arrived.op = op /\ arrived.token = token
        /\ arrived.keys = keys /\ arrived.from = Len(maps) /\ arrived.base = settled
        /\ arrived.status = None /\ DOMAIN arrived = Fields
    BY DEF Unborn, Fields
  <1> HIDE DEF arrived
  <1>5. call'[r] = IF phase = "loading" THEN [arrived EXCEPT !.phase = "loading"]
                   ELSE IF phase = "verifying" THEN arrived
                   ELSE [arrived EXCEPT !.phase = "done", !.status = "UNAUTHENTICATED"]
    BY <1>3 DEF RInv, ShapeOK
  <1>6. ShapeOK' /\ Others(r)
    BY <1>3, <1>4, <1>5 DEF RInv, ShapeOK, Others
  <1>7. /\ call'[r].phase = phase /\ call'[r].op = op /\ call'[r].token = token
        /\ call'[r].keys = keys /\ call'[r].from = Len(maps) /\ call'[r].base = settled
        /\ call'[r].status = IF phase = "done" THEN "UNAUTHENTICATED" ELSE None
    <2>1. CASE phase = "loading"
      BY <1>4, <1>5, <2>1 DEF Fields
    <2>2. CASE phase = "verifying"
      BY <1>4, <1>5, <2>2 DEF Fields
    <2>3. CASE phase = "done"
      BY <1>4, <1>5, <2>3 DEF Fields
    <2> QED
      BY <1>3, <2>1, <2>2, <2>3
  <1>8. AsksOK(r)'
    <2>1. Len(maps) \in Nat /\ Len(maps) # 0 /\ maps' = maps /\ settled' = settled
      BY <1>1 DEF StoresOK, stores
    <2>2. \A t \in Tenant : settled[t] \in Nat /\ 1 <= settled[t]
      BY <1>1 DEF StoresOK
    <2> QED
      BY <1>7, <2>1, <2>2 DEF AsksOK
  <1>9. PlaceOK(r)'
    BY <1>3, <1>7 DEF PlaceOK, Phase
  <1>10. DoneOK(r)'
    <2> SUFFICES ASSUME phase = "done" PROVE DoneOK(r)'
      BY <1>7 DEF DoneOK, Phase
    <2>1. VerifiedOK(r)'
      BY <1>3, <1>7 DEF VerifiedOK, Genuine
    <2>2. /\ OwnOK(r)' /\ BatchOK(r)' /\ FailedOK(r)' /\ InvalidOK(r)' /\ NotFoundOK(r)'
          /\ AnsweredOK(r)'
      BY <1>7 DEF OwnOK, BatchOK, FailedOK, InvalidOK, NotFoundOK, AnsweredOK
    <2> QED
      BY <1>7, <2>1, <2>2, StatusesFacts DEF DoneOK
  <1> QED
    BY <1>2, <1>6, <1>8, <1>9, <1>10, CallStep DEF CallOK

\* A call that is turned away.
LEMMA RefusedRInv ==
    ASSUME RInv, NEW r \in Call, Phase(r) = "verifying", Throw(r, "UnauthorizedException"),
           UNCHANGED <<stores, maps, now>>, faults' \in {faults, faults + 1},
           ~Genuine(call[r].token) \/ now >= call[r].token.exp \/ faults' > 0
    PROVE  RInv'
  <1>1. Answer(r, "UNAUTHENTICATED", None) /\ StoresOK' /\ Grows
    BY StatusFacts, StoresStay DEF Throw
  <1>2. VerifiedOK(r)'
    BY <1>1, Answers DEF VerifiedOK
  <1>3. /\ OwnOK(r)' /\ BatchOK(r)' /\ FailedOK(r)' /\ InvalidOK(r)' /\ NotFoundOK(r)'
        /\ AnsweredOK(r)'
    BY <1>1, Answers DEF OwnOK, BatchOK, FailedOK, InvalidOK, NotFoundOK, AnsweredOK
  <1> QED
    BY <1>1, <1>2, <1>3, StatusesFacts, Ends

LEMMA VerifyRInv ==
    ASSUME RInv, NEW r \in Call, Verify(r) \/ NoSigningKey(r)
    PROVE  RInv'
  <1> DEFINE token == call[r].token
  <1>1. /\ Phase(r) = "verifying" /\ UNCHANGED <<stores, maps, now>>
        /\ AsksOK(r) /\ PlaceOK(r) /\ StoresOK
    BY DEF Verify, NoSigningKey, RInv, CallOK
  <1>2. /\ token # None /\ token.exp \in Nat /\ token.use \in {"id", "access", "refresh"}
        /\ now \in Nat
    BY <1>1, TokenFacts DEF AsksOK, PlaceOK, StoresOK
  <1>3. CASE NoSigningKey(r)
    BY <1>1, <1>3, FaultFacts, RefusedRInv DEF NoSigningKey
  <1>4. CASE Verify(r) /\ ~(token.signed /\ now < token.exp /\ ClaimsHold(token))
    <2>1. Throw(r, "UnauthorizedException") /\ faults' = faults
      BY <1>4 DEF Verify
    <2>2. ~Genuine(token) \/ now >= token.exp
      BY <1>2, <1>4 DEF Genuine, ClaimsHold
    <2> QED
      BY <1>1, <2>1, <2>2, RefusedRInv
  <1>5. CASE Verify(r) /\ token.signed /\ now < token.exp /\ ClaimsHold(token)
    <2>1. Admit(r, token) /\ faults' = faults
      BY <1>5 DEF Verify, TenantAccessGuard
    <2>2. StoresOK' /\ Grows
      BY <1>1, <2>1, StoresStay
    <2>3. call'[r] = [call[r] EXCEPT !.phase = "admitted", !.tenant = token.tenant, !.at = now]
      BY <2>1 DEF Admit, RInv, ShapeOK
    <2>4. ShapeOK' /\ Others(r)
      BY <2>1 DEF Admit, RInv, ShapeOK, Fields, Others
    <2>5. /\ call'[r].phase = "admitted" /\ call'[r].tenant = token.tenant /\ call'[r].at = now
          /\ call'[r].op = call[r].op /\ call'[r].token = token /\ call'[r].keys = call[r].keys
          /\ call'[r].from = call[r].from /\ call'[r].base = call[r].base
          /\ call'[r].status = call[r].status
      BY <2>3 DEF RInv, ShapeOK, Fields
    <2>6. Genuine(token)
      BY <1>2, <1>5 DEF Genuine, ClaimsHold
    <2>7. PlaceOK(r)' /\ DoneOK(r)'
      BY <1>1, <1>5, <2>5, <2>6 DEF PlaceOK, DoneOK, Phase, Passed
    <2>8. AsksOK(r)'
      BY <1>1, <2>5 DEF AsksOK, Phase, stores
    <2> QED
      BY <2>2, <2>4, <2>7, <2>8, CallStep DEF CallOK
  <1> QED
    BY <1>3, <1>4, <1>5
-----------------------------------------------------------------------------
(* The handlers.                                                            *)

\* An answer of a handler, which only calls get to that are past the guards.
LEMMA Handled ==
    ASSUME RInv, NEW r \in Call, Phase(r) \in {"admitted", "querying"},
           NEW status \in Statuses, status # "UNAUTHENTICATED", NEW answer,
           Answer(r, status, answer), UNCHANGED <<stores, maps, now>>,
           faults' \in {faults, faults + 1},
           OwnOK(r)', BatchOK(r)', FailedOK(r)', InvalidOK(r)', NotFoundOK(r)', AnsweredOK(r)'
    PROVE  RInv'
  <1>1. StoresOK' /\ Grows
    BY StoresStay
  <1>2. Passed(r)
    BY DEF RInv, CallOK, PlaceOK
  <1>3. VerifiedOK(r)'
    BY <1>2, Answers DEF VerifiedOK, Passed
  <1> QED
    BY <1>1, <1>3, Ends

\* What is served, and the load it came with.
LEMMA ServedFacts ==
    ASSUME RInv, NEW r \in Call, Phase(r) # "unborn"
    PROVE  /\ Last(maps) = maps[Len(maps)] /\ Len(maps) \in call[r].from .. Len(maps)
           /\ maps[Len(maps)] \in Maps
  <1>1. maps \in Seq(Maps) /\ maps # <<>> /\ call[r].from \in 1 .. Len(maps)
    BY DEF RInv, StoresOK, CallOK, AsksOK
  <1> QED
    BY <1>1 DEF Last

LEMMA RetrieveConfigRInv ==
    ASSUME RInv, NEW r \in Call, RetrieveConfig(r)
    PROVE  RInv'
  <1>1. /\ Phase(r) = "admitted" /\ call[r].op = "retrieveConfig"
        /\ UNCHANGED <<stores, maps, now>> /\ faults' = faults
    BY DEF RetrieveConfig
  <1>2. PICK key \in Key : call[r].keys = <<key>>
    BY <1>1 DEF RInv, CallOK, AsksOK
  <1>3. call[r].keys[1] = key /\ Range(call[r].keys) = {key}
    BY <1>2 DEF Range
  <1>4. CASE key = "empty"
    <2>1. Answer(r, "UNKNOWN", None)
      BY <1>1, <1>3, <1>4, StatusFacts DEF RetrieveConfig, Throw
    <2>2. /\ OwnOK(r)' /\ BatchOK(r)' /\ FailedOK(r)' /\ InvalidOK(r)' /\ NotFoundOK(r)'
          /\ AnsweredOK(r)'
      BY <1>1, <1>2, <1>4, <2>1, Answers
         DEF OwnOK, BatchOK, FailedOK, InvalidOK, NotFoundOK, AnsweredOK
    <2> QED
      BY <1>1, <2>1, <2>2, StatusesFacts, Handled
  <1>5. CASE key # "empty" /\ ~KeyValid(key)
    <2>1. Answer(r, "INVALID_ARGUMENT", None)
      BY <1>1, <1>3, <1>5, StatusFacts DEF RetrieveConfig, Throw
    <2>2. key = "other"
      BY <1>2, <1>5 DEF Key, KeyValid
    <2>3. /\ OwnOK(r)' /\ BatchOK(r)' /\ FailedOK(r)' /\ InvalidOK(r)' /\ NotFoundOK(r)'
          /\ AnsweredOK(r)'
      BY <1>1, <1>3, <2>1, <2>2, Answers
         DEF OwnOK, BatchOK, FailedOK, InvalidOK, NotFoundOK, AnsweredOK
    <2> QED
      BY <1>1, <2>1, <2>3, StatusesFacts, Handled
  <1>6. CASE key = "tenant"
    <2>1. call' = [call EXCEPT ![r].phase = "querying"]
      BY <1>1, <1>3, <1>6 DEF RetrieveConfig, KeyValid, getStrategy
    <2>2. StoresOK' /\ Grows
      BY <1>1, StoresStay
    <2>3. ShapeOK' /\ Others(r)
      BY <2>1 DEF RInv, ShapeOK, Fields, Others
    <2>4. /\ call'[r].phase = "querying" /\ call'[r].op = call[r].op
          /\ call'[r].token = call[r].token /\ call'[r].keys = call[r].keys
          /\ call'[r].tenant = call[r].tenant /\ call'[r].at = call[r].at
          /\ call'[r].from = call[r].from /\ call'[r].base = call[r].base
          /\ call'[r].status = call[r].status
      <3>1. call'[r] = [call[r] EXCEPT !.phase = "querying"]
        BY <2>1 DEF RInv, ShapeOK
      <3> QED
        BY <3>1 DEF RInv, ShapeOK, Fields
    <2>5. AsksOK(r) /\ PlaceOK(r)
      BY DEF RInv, CallOK
    <2>6. AsksOK(r)' /\ PlaceOK(r)' /\ DoneOK(r)'
      BY <1>1, <1>2, <1>6, <2>4, <2>5 DEF AsksOK, PlaceOK, DoneOK, Passed, Phase, stores
    <2> QED
      BY <2>2, <2>3, <2>6, CallStep DEF CallOK
  <1>7. CASE key \in Name
    <2> DEFINE content == maps[Len(maps)].groups
    <2>1. /\ key # "empty" /\ key # "tenant" /\ KeyValid(key)
          /\ call[r].keys # <<"tenant">>
      BY <1>2, <1>7, KeyAssumption DEF KeyValid
    <2>2. GetParameter(r, key)
      BY <1>1, <1>3, <2>1 DEF RetrieveConfig, getStrategy
    <2>3. /\ Last(maps).groups = content /\ Len(maps) \in call[r].from .. Len(maps)
          /\ content \in Content
      BY <1>1, ServedFacts DEF Maps
    <2>4. CASE \A p \in DOMAIN content : content[p] = Absent
      <3>1. Answer(r, "INVALID_ARGUMENT", None)
        BY <2>2, <2>3, <2>4, StatusFacts DEF GetParameter, Throw
      <3>2. content = Nothing
        BY <2>3, <2>4 DEF Content, Nothing
      <3>3. /\ OwnOK(r)' /\ BatchOK(r)' /\ FailedOK(r)' /\ InvalidOK(r)' /\ NotFoundOK(r)'
            /\ AnsweredOK(r)'
        BY <1>1, <1>3, <1>7, <2>3, <3>1, <3>2, Answers
           DEF OwnOK, BatchOK, FailedOK, InvalidOK, NotFoundOK, AnsweredOK, Nothing
      <3> QED
        BY <1>1, <3>1, <3>3, StatusesFacts, Handled
    <2>5. CASE ~(\A p \in DOMAIN content : content[p] = Absent) /\ InGroup(content, key) = {}
      <3>1. Answer(r, "NOT_FOUND", None)
        BY <2>2, <2>3, <2>5, StatusFacts DEF GetParameter, Throw
      <3>2. /\ OwnOK(r)' /\ BatchOK(r)' /\ FailedOK(r)' /\ InvalidOK(r)' /\ NotFoundOK(r)'
            /\ AnsweredOK(r)'
        BY <1>1, <1>3, <2>1, <2>3, <2>5, <3>1, Answers
           DEF OwnOK, BatchOK, FailedOK, InvalidOK, NotFoundOK, AnsweredOK, InGroup
      <3> QED
        BY <1>1, <3>1, <3>2, StatusesFacts, Handled
    <2>6. CASE ~(\A p \in DOMAIN content : content[p] = Absent) /\ InGroup(content, key) # {}
      <3>1. PICK t \in InGroup(content, key) : Answer(r, "OK", content[<<t, key>>])
        BY <2>2, <2>3, <2>6 DEF GetParameter
      <3>2. /\ OwnOK(r)' /\ BatchOK(r)' /\ FailedOK(r)' /\ InvalidOK(r)' /\ NotFoundOK(r)'
            /\ AnsweredOK(r)'
        <4>1. \E answer : Answer(r, "OK", answer)
          BY <3>1
        <4>2. PICK answer : Answer(r, "OK", answer)
          BY <4>1
        <4> QED
          BY <1>1, <2>1, <4>2, Answers
             DEF OwnOK, BatchOK, FailedOK, InvalidOK, NotFoundOK, AnsweredOK
      <3>3. PICK answer : answer = content[<<t, key>>]
        OBVIOUS
      <3> QED
        BY <1>1, <3>1, <3>2, <3>3, StatusesFacts, Handled
    <2> QED
      BY <2>4, <2>5, <2>6
  <1> QED
    BY <1>2, <1>4, <1>5, <1>6, <1>7 DEF Key, KeyValid

LEMMA RetrieveConfigsRInv ==
    ASSUME RInv, NEW r \in Call, RetrieveConfigs(r)
    PROVE  RInv'
  <1> DEFINE keys == call[r].keys
             t == call[r].tenant
  <1>1. /\ Phase(r) = "admitted" /\ call[r].op = "retrieveConfigs"
        /\ UNCHANGED <<stores, maps, now>> /\ faults' = faults
    BY DEF RetrieveConfigs
  <1>2. keys \in Seq(Key \ {"empty"}) /\ t = call[r].token.tenant
    BY <1>1, BatchesAssumption DEF RInv, CallOK, AsksOK, PlaceOK, Passed
  <1>3. Len(keys) \in Nat /\ Range(keys) \subseteq Name \union {"tenant", "other"}
    BY <1>2 DEF Range, Key
  <1>4. /\ Last(maps) = maps[Len(maps)] /\ Len(maps) \in call[r].from .. Len(maps)
        /\ maps' = maps
    BY <1>1, ServedFacts
  <1>5. CASE keys = <<>>
    <2>1. Answer(r, "UNKNOWN", None)
      BY <1>5, StatusFacts DEF RetrieveConfigs, Throw
    <2>2. /\ OwnOK(r)' /\ BatchOK(r)' /\ FailedOK(r)' /\ InvalidOK(r)' /\ NotFoundOK(r)'
          /\ AnsweredOK(r)'
      BY <1>1, <1>5, <2>1, Answers
         DEF OwnOK, BatchOK, FailedOK, InvalidOK, NotFoundOK, AnsweredOK
    <2> QED
      BY <1>1, <2>1, <2>2, StatusesFacts, Handled
  <1>6. CASE keys # <<>> /\ ~KeysValid(keys)
    <2>1. Answer(r, "INVALID_ARGUMENT", None)
      BY <1>6, StatusFacts DEF RetrieveConfigs, Throw
    <2>2. "other" \in Range(keys) \/ (Len(keys) > 1 /\ "tenant" \in Range(keys))
      <3>1. Len(keys) \in Nat /\ Len(keys) # 0
        BY <1>2, <1>6, EmptySeq
      <3>2. CASE Len(keys) = 1
        <4>1. ~(Range(keys) \subseteq Name \union {"tenant"})
          BY <1>6, <3>2 DEF KeysValid
        <4> QED
          BY <1>3, <4>1
      <3>3. CASE Len(keys) # 1
        <4>1. ~(Range(keys) \subseteq Name)
          BY <1>6, <3>3 DEF KeysValid
        <4>2. Len(keys) > 1
          <5>1. \A n \in Nat : n # 0 /\ n # 1 => n > 1
            OBVIOUS
          <5> QED
            BY <3>1, <3>3, <5>1, Zenon
        <4> QED
          BY <1>3, <4>1, <4>2
      <3> QED
        BY <3>2, <3>3
    <2>3. /\ OwnOK(r)' /\ BatchOK(r)' /\ FailedOK(r)' /\ InvalidOK(r)' /\ NotFoundOK(r)'
          /\ AnsweredOK(r)'
      BY <1>1, <2>1, <2>2, Answers
         DEF OwnOK, BatchOK, FailedOK, InvalidOK, NotFoundOK, AnsweredOK
    <2> QED
      BY <1>1, <2>1, <2>3, StatusesFacts, Handled
  <1>7. CASE keys # <<>> /\ KeysValid(keys)
    <2>1. keys[1] \in Range(keys) /\ 1 \in DOMAIN keys
      BY <1>2, <1>7, EmptySeq DEF Range
    <2>2. CASE keys[1] = "tenant"
      <3>1. Answer(r, "UNKNOWN", None)
        BY <1>7, <2>2, StatusFacts DEF RetrieveConfigs, Throw, getStrategy
      <3>2. keys = <<"tenant">>
        <4>1. Len(keys) = 1
          BY <1>7, <2>1, <2>2, KeyAssumption DEF KeysValid
        <4> QED
          BY <1>2, <2>2, <4>1
      <3>3. FailedOK(r)'
        <4>1. /\ call'[r].op = "retrieveConfigs" /\ call'[r].keys = keys
              /\ call'[r].status = "UNKNOWN"
          BY <1>1, <3>1, Answers
        <4> QED
          BY <3>2, <4>1 DEF FailedOK
      <3>4. OwnOK(r)' /\ BatchOK(r)' /\ InvalidOK(r)' /\ NotFoundOK(r)' /\ AnsweredOK(r)'
        BY <1>1, <3>1, Answers DEF OwnOK, BatchOK, InvalidOK, NotFoundOK, AnsweredOK
      <3> QED
        BY <1>1, <3>1, <3>3, <3>4, StatusesFacts, Handled
    <2>3. CASE keys[1] # "tenant" /\ \E k \in Range(keys) : Lookup(t, k) = Absent
      <3>1. Answer(r, "NOT_FOUND", None)
        BY <1>7, <2>3, StatusFacts DEF RetrieveConfigs, Throw, getStrategy
      <3>2. \E k \in Range(keys) : Of(r, Len(maps))[k] = Absent
        BY <1>2, <1>4, <2>3 DEF Of, Lookup
      <3>3. BatchOK(r)'
        BY <1>4, <3>1, <3>2, Answers DEF BatchOK, Of
      <3>4. OwnOK(r)' /\ FailedOK(r)' /\ InvalidOK(r)' /\ NotFoundOK(r)' /\ AnsweredOK(r)'
        BY <1>1, <3>1, Answers DEF OwnOK, FailedOK, InvalidOK, NotFoundOK, AnsweredOK
      <3> QED
        BY <1>1, <3>1, <3>3, <3>4, StatusesFacts, Handled
    <2>4. CASE keys[1] # "tenant" /\ ~\E k \in Range(keys) : Lookup(t, k) = Absent
      <3>1. Answer(r, "OK", [k \in Range(keys) |-> Lookup(t, k)])
        BY <1>7, <2>4 DEF RetrieveConfigs, getStrategy
      <3>2. PICK answer : answer = [k \in Range(keys) |-> Lookup(t, k)]
        OBVIOUS
      <3>3. answer = Of(r, Len(maps)) /\ \A k \in Range(keys) : Of(r, Len(maps))[k] # Absent
        BY <1>2, <1>4, <2>4, <3>2 DEF Of, Lookup
      <3>4. Answer(r, "OK", answer)
        BY <3>1, <3>2
      <3>5. BatchOK(r)'
        <4>1. /\ call'[r].status = "OK" /\ call'[r].answer = answer
              /\ call'[r].keys = keys /\ call'[r].token = call[r].token
              /\ call'[r].from = call[r].from
          BY <3>4, Answers
        <4>2. \A n : Of(r, n)' = Of(r, n)
          BY <1>4, <4>1 DEF Of
        <4> QED
          BY <1>4, <3>3, <4>1, <4>2 DEF BatchOK
      <3>6. AnsweredOK(r)'
        <4>1. Range(keys) \subseteq Name
          <5>1. CASE Len(keys) = 1
            <6>1. Range(keys) = {keys[1]}
              BY <1>2, <5>1 DEF Range
            <6> QED
              BY <1>7, <2>4, <5>1, <6>1 DEF KeysValid
          <5>2. CASE Len(keys) # 1
            BY <1>7, <5>2 DEF KeysValid
          <5> QED
            BY <5>1, <5>2
        <4> QED
          BY <1>1, <3>4, <4>1, Answers DEF AnsweredOK
      <3>7. OwnOK(r)' /\ FailedOK(r)' /\ InvalidOK(r)' /\ NotFoundOK(r)'
        BY <1>1, <3>4, Answers DEF OwnOK, FailedOK, InvalidOK, NotFoundOK
      <3> QED
        BY <1>1, <3>4, <3>5, <3>6, <3>7, StatusesFacts, Handled
    <2> QED
      BY <2>2, <2>3, <2>4
  <1> QED
    BY <1>5, <1>6, <1>7

LEMMA QueryRInv ==
    ASSUME RInv, NEW r \in Call, Query(r)
    PROVE  RInv'
  <1> DEFINE t == call[r].tenant
  <1>1. /\ Phase(r) = "querying" /\ UNCHANGED <<stores, maps, now>> /\ faults' = faults
    BY DEF Query
  <1>2. /\ call[r].op = "retrieveConfig" /\ call[r].keys = <<"tenant">>
        /\ t = call[r].token.tenant /\ t \in Tenant
    <2>1. AsksOK(r) /\ PlaceOK(r)
      BY DEF RInv, CallOK
    <2> QED
      BY <1>1, <2>1, TokenFacts DEF AsksOK, PlaceOK, Passed, Genuine, Phase
  <1>3. PICK n \in settled[t] .. Len(items[t]) :
          IF items[t][n] THEN Answer(r, "OK", [tenant |-> t, version |-> n])
          ELSE Throw(r, "NOT_FOUND_ERROR")
    BY DEF Query
  <1>4. n \in call[r].base[t] .. Len(items[t]) /\ items' = items
    BY <1>1, <1>2 DEF RInv, StoresOK, CallOK, AsksOK, stores
  <1>5. call[r].keys[1] = "tenant" /\ "tenant" \notin Name
    BY <1>2, KeyAssumption
  <1>6. CASE items[t][n]
    <2>1. PICK answer : answer = [tenant |-> t, version |-> n]
      OBVIOUS
    <2>2. Answer(r, "OK", answer) /\ answer.tenant = t /\ answer.version = n
      BY <1>3, <1>6, <2>1
    <2>3. OwnOK(r)'
      BY <1>2, <1>4, <1>6, <2>2, Answers DEF OwnOK
    <2>4. BatchOK(r)' /\ FailedOK(r)' /\ InvalidOK(r)' /\ NotFoundOK(r)' /\ AnsweredOK(r)'
      BY <1>2, <2>2, Answers DEF BatchOK, FailedOK, InvalidOK, NotFoundOK, AnsweredOK
    <2> QED
      BY <1>1, <2>2, <2>3, <2>4, StatusesFacts, Handled
  <1>7. CASE ~items[t][n]
    <2>1. Answer(r, "NOT_FOUND", None)
      BY <1>3, <1>7, StatusFacts DEF Throw
    <2>2. OwnOK(r)'
      BY <1>2, <1>4, <1>7, <2>1, Answers DEF OwnOK
    <2>3. BatchOK(r)' /\ FailedOK(r)' /\ InvalidOK(r)' /\ NotFoundOK(r)' /\ AnsweredOK(r)'
      BY <1>2, <1>5, <2>1, Answers DEF BatchOK, FailedOK, InvalidOK, NotFoundOK, AnsweredOK
    <2> QED
      BY <1>1, <2>1, <2>2, <2>3, StatusesFacts, Handled
  <1> QED
    BY <1>6, <1>7

LEMMA QueryFailsRInv ==
    ASSUME RInv, NEW r \in Call, QueryFails(r)
    PROVE  RInv'
  <1>1. /\ Phase(r) = "querying" /\ Answer(r, "UNKNOWN", None)
        /\ UNCHANGED <<stores, maps, now>> /\ faults' \in {faults, faults + 1} /\ faults' > 0
    BY FaultFacts, StatusFacts DEF QueryFails, Throw
  <1>2. call[r].op = "retrieveConfig" /\ call[r].keys = <<"tenant">>
    BY <1>1 DEF RInv, CallOK, PlaceOK
  <1>3. FailedOK(r)'
    BY <1>1, <1>2, Answers DEF FailedOK
  <1>4. OwnOK(r)' /\ BatchOK(r)' /\ InvalidOK(r)' /\ NotFoundOK(r)' /\ AnsweredOK(r)'
    BY <1>1, Answers DEF OwnOK, BatchOK, InvalidOK, NotFoundOK, AnsweredOK
  <1> QED
    BY <1>1, <1>3, <1>4, StatusesFacts, Handled

\* The end of a refresh, of which the properties that are about keys say nothing.
LEMMA Refreshed ==
    ASSUME RInv, NEW r \in Call, Phase(r) \in {"loading", "loaded"},
           NEW status \in Statuses, status \notin {"UNAUTHENTICATED", "NOT_FOUND"},
           NEW answer, Answer(r, status, answer), StoresOK', Grows,
           FailedOK(r)', InvalidOK(r)', AnsweredOK(r)'
    PROVE  RInv'
  <1>1. call[r].op = "refreshConfig"
    BY DEF RInv, CallOK, PlaceOK
  <1>2. VerifiedOK(r)' /\ OwnOK(r)' /\ BatchOK(r)' /\ NotFoundOK(r)'
    BY <1>1, Answers DEF VerifiedOK, OwnOK, BatchOK, NotFoundOK
  <1> QED
    BY <1>2, Ends

LEMMA LoadFailsRInv ==
    ASSUME RInv, NEW r \in Call, LoadFails(r)
    PROVE  RInv'
  <1>1. /\ Phase(r) = "loading" /\ Answer(r, "INTERNAL", None)
        /\ UNCHANGED <<stores, maps, now>> /\ faults' \in {faults, faults + 1} /\ faults' > 0
    BY FaultFacts, StatusFacts DEF LoadFails, Throw
  <1>2. StoresOK' /\ Grows /\ call[r].op = "refreshConfig"
    BY <1>1, StoresStay DEF RInv, CallOK, PlaceOK
  <1>3. FailedOK(r)' /\ InvalidOK(r)' /\ AnsweredOK(r)'
    BY <1>1, <1>2, Answers DEF FailedOK, InvalidOK, AnsweredOK
  <1> QED
    BY <1>1, <1>2, <1>3, StatusesFacts, Refreshed

LEMMA LoadRInv ==
    ASSUME RInv, NEW r \in Call, Load(r)
    PROVE  RInv'
  <1>1. /\ Phase(r) = "loading" /\ UNCHANGED <<stores, maps, now>> /\ faults' = faults
        /\ call' = [call EXCEPT ![r].phase = "loaded",
                                ![r].read = [content |-> ssm, stray |-> stray]]
    BY DEF Load
  <1>2. /\ StoresOK' /\ Grows
        /\ [content |-> ssm, stray |-> stray] \in [content : Content, stray : Strays]
    BY <1>1, StoresStay DEF RInv, StoresOK
  <1>3. ShapeOK' /\ Others(r)
    BY <1>1 DEF RInv, ShapeOK, Fields, Others
  <1>4. /\ call'[r].phase = "loaded" /\ call'[r].op = call[r].op
        /\ call'[r].read = [content |-> ssm, stray |-> stray]
        /\ call'[r].token = call[r].token /\ call'[r].keys = call[r].keys
        /\ call'[r].from = call[r].from /\ call'[r].base = call[r].base
        /\ call'[r].status = call[r].status
    <2>1. call'[r] = [call[r] EXCEPT !.phase = "loaded",
                                     !.read = [content |-> ssm, stray |-> stray]]
      BY <1>1 DEF RInv, ShapeOK
    <2> QED
      BY <2>1 DEF RInv, ShapeOK, Fields
  <1>5. AsksOK(r) /\ PlaceOK(r)
    BY DEF RInv, CallOK
  <1>6. AsksOK(r)' /\ PlaceOK(r)' /\ DoneOK(r)'
    BY <1>1, <1>2, <1>4, <1>5 DEF AsksOK, PlaceOK, DoneOK, Passed, Phase, stores
  <1> QED
    BY <1>2, <1>3, <1>6, CallStep DEF CallOK

\* A load that leaves a pair of maps behind the others.
LEMMA MapsGrow ==
    ASSUME RInv, NEW pair \in Maps, maps' = Append(maps, pair),
           UNCHANGED <<stores, now, faults>>
    PROVE  StoresOK' /\ Grows /\ maps'[Len(maps')] = pair
  <1>1. StoresOK /\ UNCHANGED <<items, settled, ssm, stray, changes, now, faults>>
    BY DEF RInv, stores
  <1>2. /\ maps' \in Seq(Maps) /\ maps' # <<>> /\ Len(maps') = Len(maps) + 1
        /\ \A n \in 1 .. Len(maps) : maps'[n] = maps[n]
        /\ maps'[Len(maps')] = pair
    BY <1>1 DEF StoresOK
  <1>3. StoresOK'
    BY <1>1, <1>2 DEF StoresOK
  <1>4. /\ Len(maps) \in Nat /\ now \in Nat /\ faults \in Nat
        /\ \A t \in Tenant : Len(items[t]) \in Nat /\ settled[t] \in Nat
    BY <1>1 DEF StoresOK
  <1> QED
    BY <1>1, <1>2, <1>3, <1>4 DEF Grows

LEMMA CommitRInv ==
    ASSUME RInv, NEW r \in Call, Commit(r)
    PROVE  RInv'
  <1> DEFINE read == call[r].read
  <1>1. Phase(r) = "loaded" /\ UNCHANGED <<stores, now, faults>>
    BY DEF Commit
  <1>2. /\ call[r].op = "refreshConfig" /\ read.content \in Content
        /\ call[r].from \in 1 .. Len(maps) /\ StoresOK
    BY <1>1 DEF RInv, CallOK, PlaceOK, AsksOK
  <1>3. CASE /\ read.stray = "none" /\ maps' = Append(maps, Both(read.content))
             /\ Answer(r, "OK", None)
    <2>1. Both(read.content) \in Maps
      BY <1>2 DEF Both, Maps
    <2>2. /\ StoresOK' /\ Grows /\ maps'[Len(maps')] = Both(read.content)
      BY <1>1, <1>3, <2>1, MapsGrow
    <2>3. Len(maps') \in call[r].from .. Len(maps')
      BY <1>2, <2>2 DEF StoresOK, Grows
    <2>4. FailedOK(r)' /\ InvalidOK(r)' /\ AnsweredOK(r)'
      BY <1>2, <1>3, <2>2, <2>3, Answers DEF FailedOK, InvalidOK, AnsweredOK
    <2> QED
      BY <1>1, <1>3, <2>2, <2>4, StatusesFacts, Refreshed
  <1>4. CASE /\ read.stray = "refused"
             /\ maps' = Append(maps, [Last(maps) EXCEPT !.groups = read.content])
             /\ Throw(r, "VALIDATION_ERROR")
    <2>1. Answer(r, "INVALID_ARGUMENT", None)
      BY <1>4, StatusFacts DEF Throw
    <2>2. [Last(maps) EXCEPT !.groups = read.content] \in Maps
      BY <1>1, <1>2, ServedFacts DEF Maps
    <2>3. StoresOK' /\ Grows
      BY <1>1, <1>4, <2>2, MapsGrow
    <2>4. FailedOK(r)' /\ InvalidOK(r)' /\ AnsweredOK(r)'
      BY <1>2, <1>4, <2>1, Answers DEF FailedOK, InvalidOK, AnsweredOK
    <2> QED
      BY <1>1, <2>1, <2>3, <2>4, StatusesFacts, Refreshed
  <1>5. CASE read.stray = "inherited" /\ maps' = maps /\ Throw(r, "Error")
    <2>1. Answer(r, "UNKNOWN", None) /\ StoresOK' /\ Grows
      BY <1>1, <1>5, StatusFacts, StoresStay DEF Throw
    <2>2. FailedOK(r)' /\ InvalidOK(r)' /\ AnsweredOK(r)'
      BY <1>2, <1>5, <2>1, Answers DEF FailedOK, InvalidOK, AnsweredOK
    <2> QED
      BY <1>1, <2>1, <2>2, StatusesFacts, Refreshed
  <1> QED
    BY <1>3, <1>4, <1>5 DEF Commit

-----------------------------------------------------------------------------
(* What happens outside, and the whole.                                     *)

LEMMA OutsideStep ==
    ASSUME RInv, StoresOK', Grows, UNCHANGED call
    PROVE  RInv'
  <1>1. ShapeOK'
    BY DEF RInv, ShapeOK
  <1>2. ASSUME NEW r \in Call PROVE CallOK(r)'
    BY RestStays
  <1> QED
    BY <1>1, <1>2 DEF RInv

\* What Grows needs to know of the numbers.
LEMMA Numbers ==
    ASSUME StoresOK
    PROVE  /\ Len(maps) \in Nat /\ now \in Nat /\ faults \in Nat /\ changes \in Nat
           /\ \A t \in Tenant : Len(items[t]) \in Nat /\ settled[t] \in Nat
  BY BoundsAssumption DEF StoresOK

LEMMA ChangeItemRInv ==
    ASSUME RInv, NEW t \in Tenant, NEW active \in BOOLEAN, ChangeItem(t, active)
    PROVE  RInv'
  <1>1. StoresOK /\ UNCHANGED <<settled, ssm, stray, maps, now, faults, call>>
    BY DEF RInv, ChangeItem
  <1>2. /\ changes' \in 0 .. MaxChanges
        /\ items' = [items EXCEPT ![t] = Append(items[t], active)]
    BY <1>1, Numbers, BoundsAssumption DEF ChangeItem
  <1>3. ASSUME NEW x \in Tenant
        PROVE  /\ items'[x] \in Seq(BOOLEAN) /\ Len(items[x]) <= Len(items'[x])
               /\ \A n \in 1 .. Len(items[x]) : items'[x][n] = items[x][n]
    <2>1. items[x] \in Seq(BOOLEAN)
      BY <1>1 DEF StoresOK
    <2>2. CASE x = t
      <3>1. items'[x] = Append(items[x], active)
        BY <1>1, <1>2, <2>2 DEF StoresOK
      <3> QED
        BY <2>1, <3>1
    <2>3. CASE x # t
      <3>1. items'[x] = items[x]
        BY <1>1, <1>2, <2>3 DEF StoresOK
      <3> QED
        BY <2>1, <3>1
    <2> QED
      BY <2>2, <2>3
  <1>4. items' \in [Tenant -> Seq(BOOLEAN)]
    BY <1>1, <1>2, <1>3 DEF StoresOK
  <1>5. \A x \in Tenant : settled'[x] \in 1 .. Len(items'[x])
    <2>1. ASSUME NEW x \in Tenant PROVE settled'[x] \in 1 .. Len(items'[x])
      <3>1. /\ settled[x] \in 1 .. Len(items[x]) /\ items[x] \in Seq(BOOLEAN)
            /\ settled'[x] = settled[x]
        BY <1>1 DEF StoresOK
      <3>2. Len(items[x]) <= Len(items'[x]) /\ Len(items'[x]) \in Nat /\ Len(items[x]) \in Nat
        BY <1>3, <3>1
      <3> QED
        BY <3>1, <3>2
    <2> QED
      BY <2>1
  <1>6. StoresOK'
    BY <1>1, <1>2, <1>4, <1>5 DEF StoresOK
  <1>7. Grows
    BY <1>1, <1>3, Numbers DEF Grows
  <1> QED
    BY <1>1, <1>6, <1>7, OutsideStep

LEMMA SettleRInv ==
    ASSUME RInv, NEW t \in Tenant, Settle(t)
    PROVE  RInv'
  <1>1. /\ StoresOK /\ UNCHANGED <<items, ssm, stray, changes, maps, now, faults, call>>
        /\ settled[t] < Len(items[t]) /\ settled' = [settled EXCEPT ![t] = @ + 1]
    BY DEF RInv, Settle
  <1>2. ASSUME NEW x \in Tenant
        PROVE  settled'[x] \in 1 .. Len(items[x]) /\ settled[x] <= settled'[x]
    <2>1. settled[x] \in Nat /\ settled[x] \in 1 .. Len(items[x]) /\ Len(items[x]) \in Nat
      BY <1>1 DEF StoresOK
    <2>2. settled'[x] = IF x = t THEN settled[x] + 1 ELSE settled[x]
      BY <1>1 DEF StoresOK
    <2> QED
      BY <1>1, <2>1, <2>2
  <1>3. StoresOK'
    BY <1>1, <1>2 DEF StoresOK
  <1>4. Grows
    BY <1>1, <1>2, Numbers DEF Grows
  <1> QED
    BY <1>1, <1>3, <1>4, OutsideStep

LEMMA ChangeParameterRInv ==
    ASSUME RInv, NEW p \in Tenant \X Name, ChangeParameter(p)
    PROVE  RInv'
  <1>1. StoresOK /\ UNCHANGED <<items, settled, stray, maps, now, faults, call>>
    BY DEF RInv, ChangeParameter
  <1>2. PICK v \in {Absent, changes + 1} : ssm' = [ssm EXCEPT ![p] = v]
    BY DEF ChangeParameter
  <1>3. changes' \in 0 .. MaxChanges /\ v \in Older .. MaxChanges
    BY <1>1, <1>2, Numbers, BoundsAssumption DEF ChangeParameter, Absent, Older
  <1>4. StoresOK'
    BY <1>1, <1>2, <1>3 DEF StoresOK, Content
  <1>5. Grows
    BY <1>1, Numbers DEF Grows
  <1> QED
    BY <1>1, <1>4, <1>5, OutsideStep

LEMMA ChangeStrayRInv ==
    ASSUME RInv, NEW kind \in Strays, ChangeStray(kind)
    PROVE  RInv'
  <1>1. /\ StoresOK /\ UNCHANGED <<items, settled, ssm, maps, now, faults, call>>
        /\ stray' = kind /\ changes' \in 0 .. MaxChanges
    BY Numbers, BoundsAssumption DEF RInv, ChangeStray, StoresOK
  <1>2. StoresOK' /\ Grows
    BY <1>1, Numbers DEF StoresOK, Grows
  <1> QED
    BY <1>1, <1>2, OutsideStep

LEMMA TimeRInv ==
    ASSUME RInv, Tick \/ ForgetKey
    PROVE  RInv'
  <1>1. /\ StoresOK /\ UNCHANGED <<items, settled, ssm, stray, changes, maps, faults, call>>
        /\ now' \in {now, now + 1}
    BY DEF RInv, Tick, ForgetKey, stores
  <1>2. StoresOK' /\ Grows
    BY <1>1, Numbers DEF StoresOK, Grows
  <1> QED
    BY <1>1, <1>2, OutsideStep

LEMMA InitRInv ==
    ASSUME Init
    PROVE  RInv
  <1>1. /\ Nothing \in Content /\ [p \in Tenant \X Name |-> Older] \in Content
        /\ [p \in Tenant \X Name |-> 0] \in Content
    BY BoundsAssumption DEF Nothing, Content, Absent, Older
  <1>2. StoresOK
    <2>1. maps \in Seq(Maps) /\ maps # <<>>
      <3>1. PICK pair \in Maps : maps = <<pair>>
        BY <1>1 DEF Init, Both, Maps
      <3> QED
        BY <3>1
    <2>2. \A t \in Tenant : items[t] = <<TRUE>> /\ settled[t] = 1
      BY DEF Init
    <2>3. <<TRUE>> \in Seq(BOOLEAN) /\ Len(<<TRUE>>) = 1
      OBVIOUS
    <2> QED
      BY <1>1, <2>1, <2>2, <2>3, BoundsAssumption DEF Init, StoresOK, Strays
  <1>3. ShapeOK
    BY DEF Init, ShapeOK, Unborn, Fields
  <1>4. ASSUME NEW r \in Call PROVE CallOK(r)
    <2>1. call[r].phase = "unborn" /\ call[r].status = None
      BY DEF Init, Unborn
    <2> QED
      BY <2>1 DEF CallOK, AsksOK, PlaceOK, DoneOK, Phase
  <1> QED
    BY <1>2, <1>3, <1>4 DEF RInv

LEMMA NextRInv == RInv /\ [Next]_rvars => RInv'
  <1> SUFFICES ASSUME RInv, [Next]_rvars PROVE RInv'
    OBVIOUS
  <1>1. CASE \E r \in Call : Arrives(r)
    <2>1. PICK r \in Call : Arrives(r)
      BY <1>1
    <2>2. CASE Arrive(r, "refreshConfig", None, <<>>)
      BY <2>2, ArriveRInv
    <2>3. CASE \E token \in Token \union {None} : \E key \in Key :
                   Arrive(r, "retrieveConfig", token, <<key>>)
      BY <2>3, ArriveRInv
    <2>4. CASE \E token \in Token \union {None} : \E keys \in Batches :
                   Arrive(r, "retrieveConfigs", token, keys)
      BY <2>4, ArriveRInv
    <2> QED
      BY <2>1, <2>2, <2>3, <2>4 DEF Arrives
  <1>2. ASSUME NEW r \in Call, Step(r) \/ NoSigningKey(r) \/ QueryFails(r) \/ LoadFails(r)
        PROVE  RInv'
    BY <1>2, VerifyRInv, RetrieveConfigRInv, RetrieveConfigsRInv, QueryRInv, QueryFailsRInv,
       LoadRInv, LoadFailsRInv, CommitRInv DEF Step
  <1>3. ASSUME NEW t \in Tenant, Settle(t) \/ \E active \in BOOLEAN : ChangeItem(t, active)
        PROVE  RInv'
    BY <1>3, SettleRInv, ChangeItemRInv
  <1>4. CASE \E p \in Tenant \X Name : ChangeParameter(p)
    BY <1>4, ChangeParameterRInv
  <1>7. CASE \E kind \in Strays : ChangeStray(kind)
    BY <1>7, ChangeStrayRInv
  <1>5. CASE Tick \/ ForgetKey
    BY <1>5, TimeRInv
  <1>6. CASE UNCHANGED rvars
    <2>1. UNCHANGED <<stores, maps, now, faults, call>>
      BY <1>6 DEF rvars, stores
    <2> QED
      BY <2>1, StoresStay, OutsideStep
  <1> QED
    BY <1>1, <1>2, <1>3, <1>4, <1>5, <1>6, <1>7 DEF Next

LEMMA RInvHolds == Spec => []RInv
  <1> QED
    BY InitRInv, NextRInv, PTL DEF Spec

-----------------------------------------------------------------------------
\* The type invariant: versions, contents and the clock are of their types, a call
\* has its tenant once the guards have admitted it, and a status of the filter's when
\* it is done.
THEOREM TypeCorrect == Spec => []TypeOK
  <1>1. RInv => TypeOK
    <2> SUFFICES ASSUME RInv PROVE TypeOK
      OBVIOUS
    <2>1. /\ \A t \in Tenant : items[t] \in Seq(BOOLEAN) /\ settled[t] \in 1 .. Len(items[t])
          /\ ssm \in Content /\ stray \in Strays /\ maps \in Seq(Maps) /\ maps # <<>>
      BY DEF RInv, StoresOK
    <2>2. ASSUME NEW r \in Call
          PROVE  /\ Phase(r) \in {"unborn", "verifying", "admitted", "querying", "loading",
                                   "loaded", "done"}
                 /\ Phase(r) \in {"admitted", "querying"} => call[r].tenant \in Tenant
                 /\ call[r].status \in IF Done(r) THEN Statuses ELSE {None}
      BY TokenFacts DEF RInv, CallOK, AsksOK, PlaceOK, DoneOK, Passed, Genuine, Done
    <2> QED
      BY <2>1, <2>2 DEF TypeOK
  <1> QED
    BY <1>1, RInvHolds, PTL

\* CognitoJwtGuard and the handlers behind it: whoever gets an answer, an error of a
\* handler included, had a token that was signed by the pool, named his tenant and
\* had not expired when it was verified; and nobody is turned away without a cause.
THEOREM OnlyVerifiedAreServed == Spec => []OnlyVerifiedCallersAreServed
  <1>1. RInv => OnlyVerifiedCallersAreServed
    <2> SUFFICES ASSUME RInv, NEW r \in Call, Done(r), call[r].op # "refreshConfig"
                 PROVE  IF call[r].status = "UNAUTHENTICATED"
                        THEN ~Genuine(call[r].token) \/ now >= call[r].token.exp \/ faults > 0
                        ELSE Passed(r)
      BY DEF OnlyVerifiedCallersAreServed, Genuine, Passed
    <2> QED
      BY DEF RInv, CallOK, DoneOK, VerifiedOK, Done
  <1> QED
    BY <1>1, RInvHolds, PTL

\* getConfigurationByTenant: a caller who asks for tenant_config_ gets the item of the
\* tenant in his token, active in the version he gets, which is not older than what
\* every replica had when he asked; and NOT_FOUND only for a version not active.
THEOREM OwnActiveServed == Spec => []OwnActiveConfiguration
  <1>1. RInv => OwnActiveConfiguration
    <2> SUFFICES ASSUME RInv, NEW r \in Call, Done(r), call[r].op = "retrieveConfig",
                        call[r].keys = <<"tenant">>
                 PROVE  LET t == call[r].token.tenant
                            since == call[r].base[t] .. Len(items[t])
                        IN  /\ call[r].status = "OK" =>
                                   /\ call[r].answer.tenant = t
                                   /\ call[r].answer.version \in {n \in since : items[t][n]}
                            /\ call[r].status = "NOT_FOUND" => \E n \in since : ~items[t][n]
      BY DEF OwnActiveConfiguration
    <2> QED
      BY DEF RInv, CallOK, DoneOK, OwnOK, Done
  <1> QED
    BY <1>1, RInvHolds, PTL

\* getConfigs of SSMConfigStrategy, beside refreshes: all the values of a batch are of
\* one load, one that was served while the call ran, and are the caller's tenant's.
THEOREM BatchesAreOfOneLoad == Spec => []BatchIsOfOneLoad
  <1>1. RInv => BatchIsOfOneLoad
    <2> SUFFICES ASSUME RInv, NEW r \in Call, Done(r), call[r].op = "retrieveConfigs"
                 PROVE  /\ call[r].status = "OK" =>
                               \E n \in call[r].from .. Len(maps) :
                                   /\ call[r].answer = Of(r, n)
                                   /\ \A k \in Range(call[r].keys) : Of(r, n)[k] # Absent
                        /\ call[r].status = "NOT_FOUND" =>
                               \E n \in call[r].from .. Len(maps) :
                                   \E k \in Range(call[r].keys) : Of(r, n)[k] = Absent
      BY DEF BatchIsOfOneLoad, Of
    <2> QED
      BY DEF RInv, CallOK, DoneOK, BatchOK, Done
  <1> QED
    BY <1>1, RInvHolds, PTL

\* The exception filter: a client is told UNKNOWN, INVALID_ARGUMENT, NOT_FOUND or
\* INTERNAL only for the causes listed, and OK of a refresh only if both maps were
\* replaced by what it read.
THEOREM ErrorsAreExplained == Spec => []ErrorsHaveTheirCause
  <1>1. RInv => ErrorsHaveTheirCause
    <2> SUFFICES ASSUME RInv PROVE ErrorsHaveTheirCause
      OBVIOUS
    <2>1. ASSUME NEW r \in Call, Done(r)
          PROVE  /\ FailedOK(r) /\ InvalidOK(r) /\ NotFoundOK(r) /\ AnsweredOK(r)
                 /\ \A n \in call[r].from .. Len(maps) :
                       n \in DOMAIN maps /\ call[r].from <= n /\ n <= Len(maps)
      <3>1. call[r].from \in 1 .. Len(maps) /\ maps \in Seq(Maps)
        BY <2>1 DEF RInv, StoresOK, CallOK, AsksOK, Done
      <3> QED
        BY <2>1, <3>1 DEF RInv, CallOK, DoneOK, Done
    <2>2. ASSUME NEW r \in Call, Done(r), call[r].status = "INVALID_ARGUMENT"
          PROVE  \/ "other" \in Range(call[r].keys)
                 \/ /\ call[r].op = "retrieveConfigs"
                    /\ Len(call[r].keys) > 1 /\ "tenant" \in Range(call[r].keys)
                 \/ /\ call[r].op = "retrieveConfig" /\ call[r].keys[1] \in Name
                    /\ \E n \in DOMAIN maps :
                          (call[r].from <= n /\ n <= Len(maps)) /\ maps[n].groups = Nothing
                 \/ call[r].op = "refreshConfig" /\ call[r].read.stray = "refused"
      BY <2>1, <2>2 DEF InvalidOK
    <2>3. ASSUME NEW r \in Call, Done(r), call[r].status = "NOT_FOUND",
                 call[r].op = "retrieveConfig", call[r].keys[1] \in Name
          PROVE  \E n \in DOMAIN maps : /\ call[r].from <= n /\ n <= Len(maps)
                                        /\ InGroup(maps[n].groups, call[r].keys[1]) = {}
      BY <2>1, <2>3 DEF NotFoundOK
    <2>4. ASSUME NEW r \in Call, Done(r), call[r].status = "OK", call[r].op = "refreshConfig"
          PROVE  \E n \in DOMAIN maps : /\ call[r].from <= n /\ n <= Len(maps)
                                        /\ maps[n] = Both(call[r].read.content)
      BY <2>1, <2>4 DEF AnsweredOK
    <2> QED
      BY <2>1, <2>2, <2>3, <2>4 DEF ErrorsHaveTheirCause, FailedOK, AnsweredOK
  <1> QED
    BY <1>1, RInvHolds, PTL
=============================================================================

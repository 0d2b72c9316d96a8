------------------------- MODULE OrderServiceProofs -------------------------
(* Theorems about OrderService, for any number of tenants, requests,        *)
(* gateways and changes.                                                    *)
EXTENDS OrderService, SequenceTheorems, FiniteSetTheorems, WellFoundedInduction, TLAPS

\* The fields of a request; nothing is assumed of the values of most of them.
Fields == {"phase", "kind", "tenant", "amount", "target", "body", "missing", "reply", "failed",
           "checked", "known", "answer"}

ShapeOK == DOMAIN req = Request /\ \A r \in Request : DOMAIN req[r] = Fields

StoreOK ==
    /\ stored \in [Tenant -> Config \union {None}]
    /\ updates \in 0 .. MaxUpdates

\* Under the key of the payment gateways there is one of their configurations.
CacheOK ==
    /\ cache \in [Key -> Config \union {Data, None}]
    /\ cache[Payment] \in Config \union {None}

\* What a request that has come keeps of its question.
AsksOK(r) ==
    Phase(r) # "unborn" =>
        /\ req[r].kind \in Kinds
        /\ req[r].tenant \in Tenant
        /\ req[r].amount \in Amounts
        /\ req[r].target \in OrderId \union {None}
        /\ req[r].body \in Body

\* Its fetches: the answer under way fits the key it was asked for.
FetchOK(r) ==
    /\ Phase(r) \in {"unborn", "fetching", "answered", "loaded", "validated", "done"}
    /\ Phase(r) \in {"fetching", "answered"} <=> req[r].missing # {}
    /\ Phase(r) = "answered" =>
          req[r].reply \in {Error} \union (IF Keys[At(r)] = Payment THEN Config
                                           ELSE {Data})
    /\ Phase(r) = "validated" => req[r].kind = "create"
    /\ req[r].missing \subseteq DOMAIN Keys
    /\ req[r].failed \in BOOLEAN
    /\ req[r].known \in 0 .. Len(orders)

\* There is no answer before the end.
AnswerOK(r) == Phase(r) # "done" => req[r].answer = None

RequestOK(r) == AsksOK(r) /\ FetchOK(r) /\ AnswerOK(r)

IInv ==
    /\ ShapeOK /\ StoreOK /\ CacheOK
    /\ orders \in Seq(Order)
    /\ \A r \in Request : RequestOK(r)

\* What a step of request r leaves alone.
Others(r) == \A x \in Request : x # r => req'[x] = req[x]

-----------------------------------------------------------------------------
(* Types.                                                                   *)

LEMMA KeyFacts == Payment \in Key /\ Payment = "tenant_config_payment-gateway"
  BY DEF Payment, Key, Keys

\* The invariant, rebuilt after a step of one request.
LEMMA RequestStep ==
    ASSUME IInv, NEW r \in Request,
           ShapeOK', Others(r), RequestOK(r)', CacheOK', UNCHANGED <<stored, updates>>,
           orders' \in Seq(Order), Len(orders) <= Len(orders')
    PROVE  IInv'
  <1>1. StoreOK'
    BY DEF IInv, StoreOK
  <1>2. ASSUME NEW x \in Request PROVE RequestOK(x)'
    <2>1. CASE x = r
      BY <2>1
    <2>2. CASE x # r
      <3>1. req'[x] = req[x] /\ RequestOK(x)
        BY <2>2 DEF Others, IInv
      <3>2. Len(orders) \in Nat /\ Len(orders') \in Nat
        BY DEF IInv
      <3> QED
        BY <3>1, <3>2 DEF RequestOK, AsksOK, FetchOK, AnswerOK, Phase, At
    <2> QED
      BY <2>1, <2>2
  <1> QED
    BY <1>1, <1>2 DEF IInv

LEMMA InitIInv == Init => IInv
  <1> SUFFICES ASSUME Init PROVE IInv
    OBVIOUS
  <1>1. ShapeOK
    BY DEF Init, ShapeOK, Fields, Unborn, NewRequest
  <1>2. StoreOK
    BY MaxUpdatesAssumption DEF Init, StoreOK
  <1>3. CacheOK
    BY KeyFacts DEF Init, CacheOK
  <1>4. orders \in Seq(Order) /\ Len(orders) = 0
    BY DEF Init
  <1>5. ASSUME NEW r \in Request PROVE RequestOK(r)
    <2>1. req[r] = [NewRequest("findAll", None, 0, None, NoBody) EXCEPT !.known = 0]
      BY DEF Init, Unborn
    <2>2. /\ Phase(r) = "unborn" /\ req[r].missing = {} /\ req[r].failed = FALSE
          /\ req[r].known = 0 /\ req[r].answer = None
      BY <2>1 DEF NewRequest, Phase
    <2>3. AsksOK(r) /\ AnswerOK(r)
      BY <2>2 DEF AsksOK, AnswerOK
    <2>4. req[r].failed \in BOOLEAN
      BY <2>2, Zenon
    <2>5. FetchOK(r)
      BY <2>2, <2>4, <1>4 DEF FetchOK
    <2> QED
      BY <2>3, <2>5 DEF RequestOK
  <1> QED
    BY <1>1, <1>2, <1>3, <1>4, <1>5 DEF IInv

\* A request comes: with a question, nothing fetched and nothing answered.
LEMMA EnterIInv ==
    ASSUME IInv, NEW r \in Request, NEW k \in Kinds, NEW t \in Tenant, NEW a \in Amounts,
           NEW id \in OrderId \union {None}, NEW b \in Bodies, Enter(r, k, t, a, id, b)
    PROVE  IInv' /\ Others(r)
  <1>1. PICK missing \in SUBSET (DOMAIN Keys) : req' = [req EXCEPT ![r] =
                          [NewRequest(k, t, a, id, b) EXCEPT
                             !.phase = IF missing = {} THEN "loaded" ELSE "fetching",
                             !.missing = missing]]
    BY DEF Enter
  <1>2. req'[r] = [NewRequest(k, t, a, id, b) EXCEPT
                      !.phase = IF missing = {} THEN "loaded" ELSE "fetching",
                      !.missing = missing]
    BY <1>1 DEF IInv, ShapeOK
  <1>3. Others(r) /\ ShapeOK'
    BY <1>1, <1>2 DEF Others, IInv, ShapeOK, Fields, NewRequest
  <1>4. RequestOK(r)'
    <2>1. Len(orders) \in Nat /\ orders' = orders
      BY DEF IInv, Enter
    <2> QED
      BY <1>2, <2>1, BodiesAssumption
         DEF RequestOK, AsksOK, FetchOK, AnswerOK, Phase, NewRequest
  <1>5. CacheOK' /\ orders' \in Seq(Order) /\ Len(orders) <= Len(orders')
    BY DEF IInv, CacheOK, Enter
  <1> QED
    BY <1>3, <1>4, <1>5, RequestStep DEF Enter

\* What the steps of a request's handler have in common.
LEMMA HandlerIInv ==
    ASSUME IInv, NEW r \in Request, Phase(r) # "unborn",
           NEW p \in {"loaded", "fetching", "answered", "validated", "done"},
           ShapeOK', Others(r), CacheOK', UNCHANGED <<stored, updates>>,
           orders' \in Seq(Order), Len(orders) <= Len(orders'),
           req'[r].phase = p,
           req'[r].kind = req[r].kind, req'[r].tenant = req[r].tenant,
           req'[r].amount = req[r].amount, req'[r].target = req[r].target,
           req'[r].body = req[r].body,
           req'[r].known = req[r].known, req'[r].failed \in BOOLEAN,
           p \in {"fetching", "answered"} <=> req'[r].missing # {},
           req'[r].missing \subseteq DOMAIN Keys,
           p = "answered" =>
               req'[r].reply \in {Error} \union (IF Keys[At(r)'] = Payment
                                                THEN Config ELSE {Data}),
           p = "validated" => req[r].kind = "create",
           p # "done" => req'[r].answer = None
    PROVE  IInv'
  <1>1. Len(orders) \in Nat /\ Len(orders') \in Nat /\ RequestOK(r)
    BY DEF IInv
  <1>2. AsksOK(r)' /\ AnswerOK(r)'
    BY <1>1 DEF RequestOK, AsksOK, AnswerOK, Phase
  <1>3. FetchOK(r)'
    BY <1>1 DEF RequestOK, FetchOK, Phase
  <1> QED
    BY <1>2, <1>3, RequestStep DEF RequestOK

LEMMA AnswerIInv ==
    ASSUME IInv, NEW r \in Request, Answer(r)
    PROVE  IInv' /\ Others(r)
  <1>1. PICK reply \in {Error} \union (IF Keys[At(r)] # Payment THEN {Data}
                                        ELSE IF stored[req[r].tenant] # None
                                        THEN {stored[req[r].tenant]} ELSE {}) :
            req' = [req EXCEPT ![r].phase = "answered", ![r].reply = reply]
    BY DEF Answer
  <1>2. RequestOK(r) /\ Phase(r) = "fetching"
    BY DEF Answer, IInv
  <1>3. reply \in {Error} \union (IF Keys[At(r)] = Payment THEN Config ELSE {Data})
    BY <1>1, <1>2 DEF IInv, StoreOK, RequestOK, AsksOK
  <1>4. /\ ShapeOK' /\ Others(r)
        /\ req'[r] = [req[r] EXCEPT !.phase = "answered", !.reply = reply]
    BY <1>1 DEF IInv, ShapeOK, Fields, Others
  <1>5. /\ CacheOK' /\ UNCHANGED <<stored, updates>>
        /\ orders' \in Seq(Order) /\ Len(orders) <= Len(orders')
    BY DEF Answer, IInv, CacheOK
  <1>6. /\ req'[r].phase = "answered" /\ req'[r].reply = reply
        /\ req'[r].kind = req[r].kind /\ req'[r].tenant = req[r].tenant
        /\ req'[r].amount = req[r].amount /\ req'[r].target = req[r].target
        /\ req'[r].body = req[r].body
        /\ req'[r].known = req[r].known /\ req'[r].failed = req[r].failed
        /\ req'[r].missing = req[r].missing /\ req'[r].answer = req[r].answer
    BY <1>4 DEF IInv, ShapeOK, Fields
  <1>7. At(r)' = At(r)
    BY <1>6 DEF At
  <1> QED
    BY <1>2, <1>3, <1>4, <1>5, <1>6, <1>7, HandlerIInv
       DEF RequestOK, AsksOK, FetchOK, AnswerOK

LEMMA ReceiveIInv ==
    ASSUME IInv, NEW r \in Request, Receive(r)
    PROVE  IInv' /\ Others(r)
  <1> DEFINE key == Keys[At(r)]
             rest == req[r].missing \ {At(r)}
             reply == req[r].reply
             phase == IF rest = {} THEN "loaded" ELSE "fetching"
             failed == req[r].failed \/ (key = Payment /\ reply = Error)
  <1>1. /\ Phase(r) = "answered" /\ RequestOK(r)
        /\ cache' = IF reply = Error THEN cache ELSE [cache EXCEPT ![key] = reply]
        /\ req' = [req EXCEPT ![r].phase = phase, ![r].missing = rest, ![r].reply = None,
                               ![r].failed = @ \/ (key = Payment /\ reply = Error)]
        /\ UNCHANGED <<stored, updates, orders>>
    BY DEF Receive, IInv
  <1>2. req'[r] = [req[r] EXCEPT !.phase = phase, !.missing = rest, !.reply = None,
                                 !.failed = @ \/ (key = Payment /\ reply = Error)]
    BY <1>1 DEF IInv, ShapeOK
  <1> HIDE DEF key, rest, reply, phase
  <1>3. ShapeOK' /\ Others(r)
    BY <1>1 DEF IInv, ShapeOK, Fields, Others
  <1>4. /\ req'[r].phase = phase /\ req'[r].missing = rest /\ req'[r].failed \in BOOLEAN
        /\ req'[r].kind = req[r].kind /\ req'[r].tenant = req[r].tenant
        /\ req'[r].amount = req[r].amount /\ req'[r].target = req[r].target
        /\ req'[r].body = req[r].body
        /\ req'[r].known = req[r].known /\ req'[r].answer = req[r].answer
    BY <1>1, <1>2 DEF IInv, ShapeOK, Fields, RequestOK, FetchOK
  <1>5. CacheOK'
    <2>1. reply \in {Error} \union (IF key = Payment THEN Config ELSE {Data})
      BY <1>1 DEF RequestOK, FetchOK, key, reply
    <2> QED
      BY <1>1, <2>1, KeyFacts DEF IInv, CacheOK
  <1>6. phase \in {"loaded", "fetching"} /\ (phase = "fetching" <=> rest # {})
    BY DEF phase
  <1>7. req[r].answer = None
    BY <1>1 DEF RequestOK, AnswerOK
  <1>8. orders' \in Seq(Order) /\ Len(orders) <= Len(orders')
    BY <1>1 DEF IInv
  <1>9. rest \subseteq DOMAIN Keys
    BY <1>1 DEF RequestOK, FetchOK, rest
  <1> QED
    BY <1>1, <1>3, <1>4, <1>5, <1>6, <1>7, <1>8, <1>9, HandlerIInv

\* The end of a request: its phase and its answer.
LEMMA ReplyStep ==
    ASSUME IInv, NEW r \in Request, NEW a, Reply(r, a)
    PROVE  /\ ShapeOK' /\ Others(r)
           /\ req'[r].phase = "done" /\ req'[r].answer = a
           /\ req'[r].kind = req[r].kind /\ req'[r].tenant = req[r].tenant
           /\ req'[r].amount = req[r].amount /\ req'[r].target = req[r].target
           /\ req'[r].body = req[r].body
           /\ req'[r].known = req[r].known /\ req'[r].failed = req[r].failed
           /\ req'[r].missing = req[r].missing /\ req'[r].checked = req[r].checked
  <1>1. req' = [req EXCEPT ![r].phase = "done", ![r].answer = a]
    BY DEF Reply
  <1>2. req'[r] = [req[r] EXCEPT !.phase = "done", !.answer = a]
    BY <1>1 DEF IInv, ShapeOK
  <1>3. ShapeOK' /\ Others(r)
    BY <1>1 DEF IInv, ShapeOK, Fields, Others
  <1> QED
    BY <1>2, <1>3 DEF IInv, ShapeOK, Fields

\* A request that ends without touching the cache.
LEMMA EndIInv ==
    ASSUME IInv, NEW r \in Request, NEW a, Reply(r, a), Phase(r) \in {"loaded", "validated"},
           UNCHANGED <<stored, updates, cache>>,
           orders' \in Seq(Order), Len(orders) <= Len(orders')
    PROVE  IInv' /\ Others(r)
  <1>1. RequestOK(r) /\ req[r].missing = {}
    BY DEF IInv, RequestOK, FetchOK
  <1>2. CacheOK'
    BY DEF IInv, CacheOK
  <1> QED
    BY <1>1, <1>2, ReplyStep, HandlerIInv DEF RequestOK, FetchOK

LEMMA ValidateIInv ==
    ASSUME IInv, NEW r \in Request, Validate(r)
    PROVE  IInv' /\ Others(r)
  <1>1. /\ Phase(r) = "loaded" /\ req[r].kind = "create" /\ RequestOK(r)
        /\ UNCHANGED <<stored, updates, cache, orders>>
    BY DEF Validate, IInv
  <1>2. orders' \in Seq(Order) /\ Len(orders) <= Len(orders')
    BY <1>1 DEF IInv
  <1>3. CASE Reply(r, Error)
    BY <1>1, <1>2, <1>3, EndIInv
  <1>4. CASE req' = [req EXCEPT ![r].phase = "validated", ![r].checked = cache[Payment] # None]
    <2>1. req'[r] = [req[r] EXCEPT !.phase = "validated", !.checked = cache[Payment] # None]
      BY <1>4 DEF IInv, ShapeOK
    <2>2. ShapeOK' /\ Others(r)
      BY <1>4 DEF IInv, ShapeOK, Fields, Others
    <2>3. /\ req'[r].phase = "validated" /\ req'[r].missing = req[r].missing
          /\ req'[r].kind = req[r].kind /\ req'[r].tenant = req[r].tenant
          /\ req'[r].amount = req[r].amount /\ req'[r].target = req[r].target
          /\ req'[r].body = req[r].body
          /\ req'[r].known = req[r].known /\ req'[r].failed = req[r].failed
          /\ req'[r].answer = req[r].answer
      BY <2>1 DEF IInv, ShapeOK, Fields
    <2>4. CacheOK'
      BY <1>1 DEF IInv, CacheOK
    <2>5. req[r].missing = {} /\ req[r].answer = None /\ req[r].failed \in BOOLEAN
      BY <1>1 DEF RequestOK, FetchOK, AnswerOK
    <2> QED
      BY <1>1, <1>2, <2>2, <2>3, <2>4, <2>5, HandlerIInv
  <1> QED
    BY <1>3, <1>4 DEF Validate

\* The order that create pushes is the request's own, with what the body gives.
LEMMA PushStep ==
    ASSUME IInv, NEW r \in Request, Push(r)
    PROVE  \E order \in Order :
              /\ order.by = r
              /\ order.id = Spread(req[r].body.id, r)
              /\ order.tenant = Spread(req[r].body.tenant, req[r].tenant)
              /\ orders' = Append(orders, order)
              /\ Reply(r, order)
              /\ Phase(r) = "validated" /\ req[r].kind = "create"
              /\ UNCHANGED <<stored, updates, cache>>
  <1> DEFINE config == cache[Payment]
             order == [by |-> r, id |-> Spread(req[r].body.id, r),
                       tenant |-> Spread(req[r].body.tenant, req[r].tenant),
                       amount |-> req[r].amount,
                       gateway |-> IF config = None \/ config.gateway = None
                                   THEN Default ELSE config.gateway,
                       config |-> config]
  <1>1. RequestOK(r) /\ Phase(r) = "validated" /\ config \in Config \union {None}
    BY DEF Push, IInv, CacheOK
  <1>2. order.gateway \in Gateway \union {Default}
    BY <1>1 DEF Config
  <1>3. order.id \in OrderId /\ order.tenant \in Tenant \union {Blank}
    BY <1>1 DEF RequestOK, AsksOK, Body, Spread, OrderId
  <1>4. order \in Order
    BY <1>1, <1>2, <1>3 DEF RequestOK, AsksOK, Order
  <1>5. req[r].kind = "create"
    BY <1>1 DEF RequestOK, FetchOK
  <1>6. /\ order.by = r /\ order.id = Spread(req[r].body.id, r)
        /\ order.tenant = Spread(req[r].body.tenant, req[r].tenant)
        /\ orders' = Append(orders, order) /\ Reply(r, order)
        /\ UNCHANGED <<stored, updates, cache>>
    BY DEF Push
  <1> QED
    BY <1>1, <1>4, <1>5, <1>6

LEMMA PushIInv ==
    ASSUME IInv, NEW r \in Request, Push(r)
    PROVE  IInv' /\ Others(r)
  <1>1. PICK order \in Order : /\ orders' = Append(orders, order) /\ Reply(r, order)
                               /\ Phase(r) = "validated"
                               /\ UNCHANGED <<stored, updates, cache>>
    BY PushStep
  <1>2. orders' \in Seq(Order) /\ Len(orders) <= Len(orders')
    BY <1>1 DEF IInv
  <1> QED
    BY <1>1, <1>2, EndIInv

LEMMA FindIInv ==
    ASSUME IInv, NEW r \in Request, FindAll(r) \/ FindOne(r)
    PROVE  IInv' /\ Others(r)
  <1>1. PICK a : Reply(r, a)
    BY DEF FindAll, FindOne
  <1>2. Phase(r) = "loaded" /\ UNCHANGED <<stored, updates, cache, orders>>
    BY DEF FindAll, FindOne
  <1>3. orders' \in Seq(Order) /\ Len(orders) <= Len(orders')
    BY <1>2 DEF IInv
  <1> QED
    BY <1>1, <1>2, <1>3, EndIInv

\* What happens to the stored configurations does not touch a request.
LEMMA StoreIInv ==
    ASSUME IInv,
           \/ \E t \in Tenant : Deactivate(t)
           \/ \E t \in Tenant, g \in Gateway \union {None}, m \in Amounts : UpdateConfig(t, g, m)
    PROVE  IInv' /\ UNCHANGED <<cache, orders, req>>
  <1>1. UNCHANGED <<cache, orders, req>>
    BY DEF Deactivate, UpdateConfig
  <1>2. StoreOK'
    <2>1. CASE \E t \in Tenant : Deactivate(t)
      BY <2>1, MaxUpdatesAssumption DEF IInv, StoreOK, Deactivate
    <2>2. ASSUME NEW t \in Tenant, NEW g \in Gateway \union {None}, NEW m \in Amounts,
                 UpdateConfig(t, g, m)
          PROVE  StoreOK'
      <3>1. [of |-> t, gateway |-> g, min |-> m] \in Config
        BY DEF Config
      <3> QED
        BY <2>2, <3>1, MaxUpdatesAssumption DEF IInv, StoreOK, UpdateConfig
    <2> QED
      BY <2>1, <2>2
  <1>3. ASSUME NEW r \in Request PROVE RequestOK(r)'
    <2>1. RequestOK(r) /\ At(r)' = At(r)
      BY <1>1 DEF IInv, At
    <2> QED
      BY <1>1, <2>1 DEF RequestOK, AsksOK, FetchOK, AnswerOK, Phase
  <1> QED
    BY <1>1, <1>2, <1>3 DEF IInv, ShapeOK, CacheOK

LEMMA NextIInv == IInv /\ [Next]_ovars => IInv'
  <1> SUFFICES ASSUME IInv, [Next]_ovars PROVE IInv'
    OBVIOUS
  <1>1. CASE UNCHANGED ovars
    BY <1>1
       DEF ovars, IInv, ShapeOK, StoreOK, CacheOK, RequestOK, AsksOK, FetchOK, AnswerOK, Phase, At
  <1>2. ASSUME NEW r \in Request, Enters(r) PROVE IInv'
    BY <1>2, EnterIInv DEF Enters
  <1>3. ASSUME NEW r \in Request, Answer(r) \/ Step(r) PROVE IInv'
    BY <1>3, AnswerIInv, ReceiveIInv, ValidateIInv, PushIInv, FindIInv DEF Step
  <1> QED
    BY <1>1, <1>2, <1>3, StoreIInv DEF Next

\* Requests, their fetches and the cache are always what their parts expect.
THEOREM TypeCorrect == Spec => []TypeOK
  <1>1. IInv => TypeOK
    BY DEF IInv, StoreOK, CacheOK, RequestOK, FetchOK, TypeOK
  <1> QED
    BY <1>1, InitIInv, NextIInv, PTL DEF Spec

-----------------------------------------------------------------------------
(* What clients find in the answers.                                        *)

\* A step of request r that neither ends it nor touches the orders.
Quiet(r) ==
    /\ Phase(r) # "done" /\ Phase(r)' # "done"
    /\ Others(r)
    /\ orders' = orders

Rejects(r) ==
    /\ Phase(r) = "loaded" /\ req[r].kind = "create"
    /\ Reply(r, Error)
    /\ orders' = orders

\* A step is quiet, or one of the four ways in which a request ends.
LEMMA StepCases ==
    ASSUME IInv, [Next]_ovars
    PROVE  \/ UNCHANGED <<orders, req>>
           \/ \E r \in Request :
                 Quiet(r) \/ Rejects(r) \/ Push(r) \/ FindAll(r) \/ FindOne(r)
  <1>1. CASE UNCHANGED ovars
    BY <1>1 DEF ovars
  <1>2. CASE \/ \E t \in Tenant : Deactivate(t)
             \/ \E t \in Tenant, g \in Gateway \union {None}, m \in Amounts : UpdateConfig(t, g, m)
    BY <1>2, StoreIInv
  <1>3. ASSUME NEW r \in Request, Enters(r) PROVE Quiet(r)
    <2>1. PICK k \in Kinds, t \in Tenant, a \in Amounts, id \in OrderId \union {None},
              b \in Bodies : Enter(r, k, t, a, id, b)
      BY <1>3 DEF Enters
    <2>2. PICK missing : req' = [req EXCEPT ![r] =
                            [NewRequest(k, t, a, id, b) EXCEPT
                               !.phase = IF missing = {} THEN "loaded" ELSE "fetching",
                               !.missing = missing]]
      BY <2>1 DEF Enter
    <2>3. req'[r] = [NewRequest(k, t, a, id, b) EXCEPT
                        !.phase = IF missing = {} THEN "loaded" ELSE "fetching",
                        !.missing = missing]
      BY <2>2 DEF IInv, ShapeOK
    <2>4. req'[r].phase \in {"loaded", "fetching"}
      BY <2>3 DEF NewRequest
    <2> QED
      BY <2>1, <2>4, EnterIInv DEF Enter, Quiet, Phase
  <1>4. ASSUME NEW r \in Request, Answer(r) \/ Receive(r) PROVE Quiet(r)
    <2>1. req'[r].phase \in {"answered", "loaded", "fetching"}
      <3>1. CASE Answer(r)
        <4>1. PICK reply : req' = [req EXCEPT ![r].phase = "answered", ![r].reply = reply]
          BY <3>1 DEF Answer
        <4> QED
          BY <4>1 DEF IInv, ShapeOK, Fields
      <3>2. CASE Receive(r)
        <4>0. PICK missing : missing = req[r].missing \ {At(r)}
          OBVIOUS
        <4>1. PICK phase \in {"loaded", "fetching"} :
                req' = [req EXCEPT
                          ![r].phase = phase, ![r].missing = missing, ![r].reply = None,
                          ![r].failed = @ \/ (Keys[At(r)] = Payment
                                               /\ req[r].reply = Error)]
          BY <3>2, <4>0 DEF Receive
        <4> QED
          BY <4>1 DEF IInv, ShapeOK, Fields
      <3> QED
        BY <1>4, <3>1, <3>2
    <2> QED
      BY <1>4, <2>1, AnswerIInv, ReceiveIInv DEF Answer, Receive, Quiet, Phase
  <1>5. ASSUME NEW r \in Request, Validate(r) PROVE Quiet(r) \/ Rejects(r)
    <2>1. CASE Reply(r, Error)
      BY <1>5, <2>1 DEF Validate, Rejects
    <2>2. CASE req' = [req EXCEPT ![r].phase = "validated", ![r].checked = cache[Payment] # None]
      <3>1. req'[r].phase = "validated"
        BY <2>2 DEF IInv, ShapeOK, Fields
      <3> QED
        BY <1>5, <3>1, ValidateIInv DEF Validate, Quiet, Phase
    <2> QED
      BY <1>5, <2>1, <2>2 DEF Validate
  <1> QED
    BY <1>1, <1>2, <1>3, <1>4, <1>5 DEF Next, Step

OrdersBy(r) == {i \in DOMAIN orders : orders[i].by = r}

Accepted(r) == Phase(r) = "done" /\ req[r].kind = "create" /\ req[r].answer # Error

\* Before a request ends, and if it is not accepted, no order is its own.
OneOrder(r) ==
    /\ Accepted(r) => \E i : OrdersBy(r) = {i}
    /\ ~Accepted(r) => OrdersBy(r) = {}

LEMMA StepOneOrder ==
    ASSUME IInv, [Next]_ovars, \A r \in Request : OneOrder(r)
    PROVE  \A r \in Request : OneOrder(r)'
  <1>1. CASE UNCHANGED <<orders, req>>
    BY <1>1 DEF OneOrder, Accepted, OrdersBy, Phase
  <1>2. ASSUME NEW r \in Request, Others(r), orders' = orders,
               Phase(r) # "done", ~Accepted(r)'
        PROVE  \A x \in Request : OneOrder(x)'
    <2>1. ~Accepted(r) /\ \A x \in Request : OrdersBy(x)' = OrdersBy(x)
      BY <1>2 DEF Accepted, OrdersBy
    <2>2. OneOrder(r)'
      BY <1>2, <2>1 DEF OneOrder
    <2>3. ASSUME NEW x \in Request, x # r PROVE OneOrder(x)'
      BY <1>2, <2>1, <2>3 DEF OneOrder, Accepted, Others, Phase
    <2> QED
      BY <2>2, <2>3
  <1>3. ASSUME NEW r \in Request, Quiet(r) PROVE \A x \in Request : OneOrder(x)'
    BY <1>2, <1>3 DEF Quiet, Accepted
  <1>4. ASSUME NEW r \in Request, Rejects(r) PROVE \A x \in Request : OneOrder(x)'
    BY <1>2, <1>4, ReplyStep DEF Rejects, Accepted, Phase
  <1>5. ASSUME NEW r \in Request, FindAll(r) \/ FindOne(r)
        PROVE  \A x \in Request : OneOrder(x)'
    <2>1. PICK a : Reply(r, a)
      BY <1>5 DEF FindAll, FindOne
    <2>2. orders' = orders /\ Phase(r) = "loaded" /\ req[r].kind # "create"
      BY <1>5 DEF FindAll, FindOne
    <2> QED
      BY <1>2, <2>1, <2>2, ReplyStep DEF Accepted, Phase
  <1>6. ASSUME NEW r \in Request, Push(r) PROVE \A x \in Request : OneOrder(x)'
    <2>1. PICK order \in Order :
              /\ order.by = r
              /\ orders' = Append(orders, order)
              /\ Reply(r, order)
              /\ Phase(r) = "validated" /\ req[r].kind = "create"
      BY <1>6, PushStep
    <2>2. /\ DOMAIN orders' = 1 .. Len(orders) + 1 /\ DOMAIN orders = 1 .. Len(orders)
          /\ \A i \in 1 .. Len(orders) : orders'[i] = orders[i]
          /\ orders'[Len(orders) + 1] = order /\ Len(orders) \in Nat
      BY <2>1 DEF IInv
    <2>3. ASSUME NEW x \in Request, x # r PROVE OneOrder(x)'
      <3>1. OrdersBy(x)' = OrdersBy(x)
        BY <2>1, <2>2, <2>3 DEF OrdersBy
      <3>2. req'[x] = req[x]
        BY <2>1, <2>3, ReplyStep DEF Others
      <3> QED
        BY <3>1, <3>2 DEF OneOrder, Accepted, Phase
    <2>4. OneOrder(r)'
      <3>1. OrdersBy(r) = {}
        BY <2>1 DEF OneOrder, Accepted
      <3>2. OrdersBy(r)' = {Len(orders) + 1}
        BY <2>1, <2>2, <3>1 DEF OrdersBy
      <3>3. Accepted(r)'
        BY <2>1, ReplyStep, ErrorAssumption DEF Accepted, Phase
      <3> QED
        BY <3>2, <3>3 DEF OneOrder
    <2> QED
      BY <2>3, <2>4
  <1> QED
    BY <1>1, <1>3, <1>4, <1>5, <1>6, StepCases

\* However requests interleave, a create that is accepted has one order in the
\* list, and no other request has one.
THEOREM CreatesAddOne == Spec => []OneOrderPerCreate
  <1> DEFINE Inv == IInv /\ \A r \in Request : OneOrder(r)
  <1>1. Init => Inv
    BY InitIInv DEF Init, OneOrder, Accepted, OrdersBy, Phase, Unborn, NewRequest
  <1>2. Inv /\ [Next]_ovars => Inv'
    BY NextIInv, StepOneOrder
  <1>3. Inv => OneOrderPerCreate
    BY FS_EmptySet, FS_Singleton
       DEF OneOrder, Accepted, OrdersBy, OneOrderPerCreate, Done
  <1> QED
    BY <1>1, <1>2, <1>3, PTL DEF Spec

\* A set of numbers that is not empty has a least one: the induction of this module.
LEMMA Least == ASSUME NEW T \in SUBSET Nat, T # {} PROVE \E n \in T : \A m \in T : n <= m
  <1> DEFINE R == OpToRel(<, Nat)
  <1>1. IsWellFoundedOn(R, Nat)
    BY NatLessThanWellFounded
  <1>2. R = {ss \in Nat \X Nat : ss[1] < ss[2]}
    BY DEF OpToRel
  <1> HIDE DEF R
  <1>3. PICK x \in T : \A y \in T : ~(<<y, x>> \in R)
    BY <1>1, WFMin
  <1>4. \A y \in T : ~(y < x)
    BY <1>2, <1>3
  <1> QED
    BY <1>4

\* What findOne answers: the oldest order that fits, if there is one.
First(r, answer) ==
    \/ answer = Error /\ \A i \in DOMAIN orders : ~Fits(r, orders[i])
    \/ \E i \in DOMAIN orders :
          /\ answer = orders[i] /\ Fits(r, orders[i])
          /\ \A j \in 1 .. i - 1 : ~Fits(r, orders[j])

LEMMA FindOneStep ==
    ASSUME IInv, NEW r \in Request, FindOne(r)
    PROVE  \E answer : Reply(r, answer) /\ First(r, answer)
  <1> DEFINE fits == {i \in DOMAIN orders : Fits(r, orders[i])}
             first == CHOOSE i \in fits : \A j \in fits : i <= j
             answer == IF fits = {} THEN Error ELSE orders[first]
  <1>1. Reply(r, answer)
    BY DEF FindOne
  <1>2. DOMAIN orders = 1 .. Len(orders) /\ Len(orders) \in Nat
    BY DEF IInv
  <1>3. CASE fits = {}
    BY <1>1, <1>3 DEF First
  <1>4. CASE fits # {}
    <2>1. \E i \in fits : \A j \in fits : i <= j
      <3>1. fits \in SUBSET Nat
        BY <1>2
      <3> HIDE DEF fits
      <3> QED
        BY <1>4, <3>1, Least
    <2>2. first \in fits /\ \A j \in fits : first <= j
      <3> HIDE DEF fits
      <3> QED
        BY <2>1
    <2>3. ASSUME NEW j \in 1 .. first - 1 PROVE ~Fits(r, orders[j])
      <3>1. first \in 1 .. Len(orders)
        BY <1>2, <2>2
      <3>2. j \in DOMAIN orders /\ ~(first <= j)
        BY <1>2, <3>1
      <3> HIDE DEF first
      <3> QED
        BY <2>2, <3>2
    <2>4. first \in DOMAIN orders /\ Fits(r, orders[first])
      BY <2>2
    <2>5. answer = orders[first]
      BY <1>4
    <2>6. First(r, answer)
      <3> HIDE DEF first, answer
      <3> QED
        BY <2>3, <2>4, <2>5 DEF First
    <2> QED
      BY <1>1, <2>6
  <1> QED
    BY <1>3, <1>4

-----------------------------------------------------------------------------
(* The order book.                                                          *)

Asked == [r \in Request |->
             IF Phase(r) = "unborn" THEN None
             ELSE [kind |-> req[r].kind, tenant |-> req[r].tenant, target |-> req[r].target,
                   body |-> req[r].body]]

Told == [r \in Request |-> req[r].answer]

\* An order whose id is a uuid has it from the request that made it: so it is new.
IdOK(i) == orders[i].id \in Request => orders[i].by = orders[i].id

BookInv ==
    /\ IInv
    /\ \A r \in Request : OneOrder(r)
    /\ \A i \in DOMAIN orders : IdOK(i)

LEMMA BookInductive == (Init => BookInv) /\ (BookInv /\ [Next]_ovars => BookInv')
  <1>1. Init => BookInv
    BY InitIInv DEF Init, BookInv, OneOrder, Accepted, OrdersBy, Phase, Unborn, NewRequest
  <1>2. ASSUME BookInv, [Next]_ovars PROVE BookInv'
    <2>1. IInv' /\ \A r \in Request : OneOrder(r)'
      BY <1>2, NextIInv, StepOneOrder DEF BookInv
    <2>2. CASE orders' = orders
      BY <1>2, <2>1, <2>2 DEF BookInv, IdOK
    <2>3. ASSUME NEW r \in Request, Push(r) PROVE BookInv'
      <3>1. PICK order \in Order : /\ order.by = r /\ orders' = Append(orders, order)
                                   /\ order.id = Spread(req[r].body.id, r)
        BY <1>2, <2>3, PushStep DEF BookInv
      <3>2. order.id \in Request => order.id = r
        <4>1. req[r].body.id \in GivenId \union {None}
          BY <1>2, <2>3 DEF BookInv, IInv, RequestOK, AsksOK, Body, Push
        <4> QED
          BY <3>1, <4>1, GivenIdAssumption DEF Spread
      <3>3. ASSUME NEW i \in DOMAIN orders' PROVE IdOK(i)'
        <4>1. i = Len(orders) + 1 \/ (i \in DOMAIN orders /\ orders'[i] = orders[i])
          BY <1>2, <3>1, <3>3 DEF BookInv, IInv
        <4>2. orders'[Len(orders) + 1] = order
          BY <1>2, <3>1 DEF BookInv, IInv
        <4> QED
          BY <1>2, <3>1, <3>2, <4>1, <4>2 DEF BookInv, IdOK
      <3> QED
        BY <2>1, <3>3 DEF BookInv
    <2> QED
      BY <1>2, <2>2, <2>3, StepCases DEF BookInv, Quiet, Rejects, FindAll, FindOne
  <1> QED
    BY <1>1, <1>2

\* Where the client of a request sees no step.
LEMMA SameQuestion ==
    ASSUME NEW r \in Request, Others(r), Phase(r) # "unborn", Phase(r)' # "unborn",
           req'[r].kind = req[r].kind, req'[r].tenant = req[r].tenant,
           req'[r].target = req[r].target, req'[r].body = req[r].body
    PROVE  Asked' = Asked
  BY DEF Asked, Others, Phase

LEMMA OneAnswer ==
    ASSUME NEW r \in Request, Others(r)
    PROVE  Told' = [Told EXCEPT ![r] = req'[r].answer]
  BY DEF Told, Others

\* A request that has come and is not done waits, as the book has it.
LEMMA WaitsInBook ==
    ASSUME IInv, NEW r \in Request, Phase(r) \notin {"unborn", "done"}
    PROVE  Book!Waits(r, req[r].kind) /\ Asked[r].tenant = req[r].tenant
                                      /\ Asked[r].target = req[r].target
                                      /\ Asked[r].body = req[r].body
  <1>1. AsksOK(r) /\ req[r].answer = None
    BY DEF IInv, RequestOK, AnswerOK
  <1>2. [kind |-> req[r].kind, tenant |-> req[r].tenant, target |-> req[r].target,
         body |-> req[r].body] \in Question
    BY <1>1 DEF AsksOK, Question
  <1>3. Asked[r] = [kind |-> req[r].kind, tenant |-> req[r].tenant, target |-> req[r].target,
                    body |-> req[r].body]
    BY DEF Asked
  <1>4. Asked[r] # None /\ Told[r] = None
    BY <1>1, <1>2, <1>3, QuestionAssumption DEF Told
  <1> QED
    BY <1>3, <1>4 DEF Book!Waits, Asked, Told

\* An answer, for a client: it is told, and all questions stay as they are.
LEMMA TellsInBook ==
    ASSUME IInv, NEW r \in Request, Phase(r) # "unborn", NEW a, Reply(r, a)
    PROVE  Book!Tell(r, a) /\ Others(r)
  <1>1. Asked' = Asked /\ Told' = [Told EXCEPT ![r] = a] /\ Others(r)
    BY ReplyStep, SameQuestion, OneAnswer DEF Phase
  <1> QED
    BY <1>1 DEF Book!Tell, Asked, Told

LEMMA EnterAsks ==
    ASSUME IInv, NEW r \in Request, NEW k \in Kinds, NEW t \in Tenant, NEW a \in Amounts,
           NEW id \in OrderId \union {None}, NEW b \in Bodies, Enter(r, k, t, a, id, b)
    PROVE  Book!Ask(r)
  <1>1. PICK missing \in SUBSET (DOMAIN Keys) : req' = [req EXCEPT ![r] =
                          [NewRequest(k, t, a, id, b) EXCEPT
                             !.phase = IF missing = {} THEN "loaded" ELSE "fetching",
                             !.missing = missing]]
    BY DEF Enter
  <1>2. req'[r] = [NewRequest(k, t, a, id, b) EXCEPT
                      !.phase = IF missing = {} THEN "loaded" ELSE "fetching",
                      !.missing = missing]
    BY <1>1 DEF IInv, ShapeOK
  <1>3. /\ req'[r].phase # "unborn" /\ req'[r].kind = k /\ req'[r].tenant = t
        /\ req'[r].target = id /\ req'[r].body = b /\ req'[r].answer = None
    BY <1>2 DEF NewRequest
  <1>4. Others(r) /\ Phase(r) = "unborn" /\ req[r].answer = None /\ UNCHANGED orders
    BY EnterIInv DEF Enter, IInv, RequestOK, AnswerOK
  <1>5. Asked[r] = None
    BY <1>4 DEF Asked
  <1>6. Told' = Told
    BY <1>3, <1>4 DEF Told, Others
  <1>7. Asked' = [Asked EXCEPT ![r] = [kind |-> k, tenant |-> t, target |-> id, body |-> b]]
    BY <1>3, <1>4 DEF Asked, Others, Phase
  <1>8. [kind |-> k, tenant |-> t, target |-> id, body |-> b] \in Question
    BY BodiesAssumption DEF Question
  <1>9. r \in DOMAIN Asked /\ Asked'[r] = [kind |-> k, tenant |-> t, target |-> id, body |-> b]
    BY <1>7 DEF Asked
  <1> QED
    BY <1>9, <1>4, <1>5, <1>6, <1>7, <1>8 DEF Book!Ask, Asked, Told

\* Fetches are invisible.
LEMMA FetchStutters ==
    ASSUME IInv, NEW r \in Request, Answer(r) \/ Receive(r)
    PROVE  Asked' = Asked /\ Told' = Told /\ orders' = orders
  <1>1. CASE Answer(r)
    <2>1. PICK reply : req' = [req EXCEPT ![r].phase = "answered", ![r].reply = reply]
      BY <1>1 DEF Answer
    <2>2. req'[r] = [req[r] EXCEPT !.phase = "answered", !.reply = reply]
      BY <2>1 DEF IInv, ShapeOK
    <2>3. /\ req'[r].phase = "answered" /\ req'[r].kind = req[r].kind
          /\ req'[r].tenant = req[r].tenant /\ req'[r].target = req[r].target
          /\ req'[r].body = req[r].body /\ req'[r].answer = req[r].answer
      BY <2>2 DEF IInv, ShapeOK, Fields
    <2>4. Others(r) /\ Phase(r) = "fetching" /\ UNCHANGED orders
      BY <1>1, AnswerIInv DEF Answer
    <2> QED
      BY <2>3, <2>4, SameQuestion DEF Phase, Told, Others
  <1>2. CASE Receive(r)
    <2>0. PICK missing : missing = req[r].missing \ {At(r)}
      OBVIOUS
    <2>1. PICK phase \in {"loaded", "fetching"} :
            req' = [req EXCEPT ![r].phase = phase, ![r].missing = missing, ![r].reply = None,
                       ![r].failed = @ \/ (Keys[At(r)] = Payment /\ req[r].reply = Error)]
      BY <1>2, <2>0 DEF Receive
    <2>2. req'[r] = [req[r] EXCEPT !.phase = phase, !.missing = missing, !.reply = None,
                       !.failed = @ \/ (Keys[At(r)] = Payment /\ req[r].reply = Error)]
      BY <2>1 DEF IInv, ShapeOK
    <2>3. /\ req'[r].phase = phase /\ req'[r].kind = req[r].kind
          /\ req'[r].tenant = req[r].tenant /\ req'[r].target = req[r].target
          /\ req'[r].body = req[r].body /\ req'[r].answer = req[r].answer
      BY <2>2 DEF IInv, ShapeOK, Fields
    <2>4. Others(r) /\ Phase(r) = "answered" /\ UNCHANGED orders
      BY <1>2, ReceiveIInv DEF Receive
    <2>5. Phase(r) # "unborn" /\ Phase(r)' # "unborn"
      BY <2>1, <2>3, <2>4 DEF Phase
    <2>6. Asked' = Asked
      BY <2>3, <2>4, <2>5, SameQuestion
    <2> QED
      BY <2>3, <2>4, <2>6 DEF Told, Others
  <1> QED
    BY <1>1, <1>2

LEMMA ValidateInBook ==
    ASSUME IInv, NEW r \in Request, Validate(r)
    PROVE  Book!Refuse(r) \/ (Asked' = Asked /\ Told' = Told /\ orders' = orders)
  <1>1. Phase(r) = "loaded" /\ req[r].kind = "create" /\ orders' = orders
    BY DEF Validate
  <1>2. CASE Reply(r, Error)
    BY <1>1, <1>2, WaitsInBook, TellsInBook DEF Book!Refuse
  <1>3. CASE req' = [req EXCEPT ![r].phase = "validated", ![r].checked = cache[Payment] # None]
    <2>1. req'[r] = [req[r] EXCEPT !.phase = "validated", !.checked = cache[Payment] # None]
      BY <1>3 DEF IInv, ShapeOK
    <2>2. /\ req'[r].phase = "validated" /\ req'[r].kind = req[r].kind
          /\ req'[r].tenant = req[r].tenant /\ req'[r].target = req[r].target
          /\ req'[r].body = req[r].body /\ req'[r].answer = req[r].answer
      BY <2>1 DEF IInv, ShapeOK, Fields
    <2>3. Others(r)
      BY ValidateIInv
    <2> QED
      BY <1>1, <2>2, <2>3, SameQuestion DEF Phase, Told, Others
  <1> QED
    BY <1>2, <1>3 DEF Validate

LEMMA PushInBook ==
    ASSUME BookInv, NEW r \in Request, Push(r)
    PROVE  Book!Accept(r)
  <1>1. PICK order \in Order :
            /\ order.by = r
            /\ order.id = Spread(req[r].body.id, r)
            /\ order.tenant = Spread(req[r].body.tenant, req[r].tenant)
            /\ orders' = Append(orders, order)
            /\ Reply(r, order)
            /\ Phase(r) = "validated" /\ req[r].kind = "create"
    BY PushStep DEF BookInv
  <1>2. /\ Book!Waits(r, "create") /\ Book!Tell(r, order)
        /\ Asked[r].tenant = req[r].tenant /\ Asked[r].body = req[r].body
    BY <1>1, WaitsInBook, TellsInBook DEF BookInv
  <1>3. Told'[r] = order
    BY <1>1, ReplyStep DEF Told, BookInv
  <1>4. order.tenant = IF Asked[r].body.tenant = None THEN Asked[r].tenant
                       ELSE Asked[r].body.tenant
    BY <1>1, <1>2 DEF Spread
  <1>5. IF Asked[r].body.id = None THEN \A n \in DOMAIN orders : orders[n].id # order.id
                                   ELSE order.id = Asked[r].body.id
    <2>1. ASSUME req[r].body.id = None, NEW n \in DOMAIN orders, orders[n].id = r PROVE FALSE
      <3>1. orders[n].by = r
        BY <2>1 DEF BookInv, IdOK
      <3>2. OrdersBy(r) = {}
        BY <1>1 DEF BookInv, OneOrder, Accepted
      <3> QED
        BY <3>1, <3>2 DEF OrdersBy
    <2> QED
      BY <1>1, <1>2, <2>1 DEF Spread
  <1>6. Book!Tell(r, Told'[r]) /\ orders' = Append(orders, Told'[r])
    BY <1>1, <1>2, <1>3 DEF Book!Tell
  <1> QED
    BY <1>1, <1>2, <1>3, <1>4, <1>5, <1>6 DEF Book!Accept, Asked, Told

LEMMA FindAllInBook ==
    ASSUME IInv, NEW r \in Request, FindAll(r)
    PROVE  Book!List(r)
  <1>1. /\ Phase(r) = "loaded" /\ req[r].kind = "findAll" /\ orders' = orders
        /\ Reply(r, OfTenant(orders, req[r].tenant))
    BY DEF FindAll
  <1>2. Book!Waits(r, "findAll") /\ Asked[r].tenant = req[r].tenant
    BY <1>1, WaitsInBook
  <1>3. Book!OfTenant(orders, req[r].tenant) = OfTenant(orders, req[r].tenant)
    BY DEF Book!OfTenant, OfTenant
  <1>4. PICK answer : answer = OfTenant(orders, req[r].tenant)
    OBVIOUS
  <1>5. Book!Tell(r, answer)
    BY <1>1, <1>4, TellsInBook
  <1>6. Book!Tell(r, Book!OfTenant(orders, Asked[r].tenant))
    BY <1>2, <1>3, <1>4, <1>5 DEF Book!Tell
  <1> QED
    BY <1>1, <1>2, <1>6 DEF Book!List, Asked

LEMMA FindOneInBook ==
    ASSUME IInv, NEW r \in Request, FindOne(r)
    PROVE  Book!Find(r)
  <1>1. PICK answer : Reply(r, answer) /\ First(r, answer)
    BY FindOneStep
  <1>2. Phase(r) = "loaded" /\ req[r].kind = "findOne" /\ orders' = orders
    BY DEF FindOne
  <1>3. /\ Book!Waits(r, "findOne") /\ Asked[r].tenant = req[r].tenant
        /\ Asked[r].target = req[r].target
    BY <1>2, WaitsInBook
  <1>4. Book!Tell(r, answer)
    BY <1>1, <1>2, TellsInBook
  <1>5. CASE answer = Error /\ \A i \in DOMAIN orders : ~Fits(r, orders[i])
    <2>1. Book!Tell(r, Error)
      BY <1>4, <1>5
    <2>2. \A i \in DOMAIN orders :
             ~(orders[i].id = Asked[r].target /\ orders[i].tenant = Asked[r].tenant)
      BY <1>3, <1>5 DEF Fits
    <2> QED
      BY <1>2, <1>3, <2>1, <2>2 DEF Book!Find, Asked
  <1>6. ASSUME NEW i \in DOMAIN orders, answer = orders[i], Fits(r, orders[i]),
               \A j \in 1 .. i - 1 : ~Fits(r, orders[j])
        PROVE  Book!Find(r)
    <2>1. Book!Tell(r, orders[i])
      BY <1>4, <1>6 DEF Book!Tell
    <2>2. /\ orders[i].id = Asked[r].target /\ orders[i].tenant = Asked[r].tenant
          /\ \A j \in 1 .. i - 1 :
                ~(orders[j].id = Asked[r].target /\ orders[j].tenant = Asked[r].tenant)
      BY <1>3, <1>6 DEF Fits
    <2>3. \E n \in DOMAIN orders :
             /\ orders[n].id = Asked[r].target /\ orders[n].tenant = Asked[r].tenant
             /\ \A j \in 1 .. n - 1 :
                   ~(orders[j].id = Asked[r].target /\ orders[j].tenant = Asked[r].tenant)
             /\ Book!Tell(r, orders[n])
      BY <1>6, <2>1, <2>2 DEF Book!Tell
    <2> QED
      BY <1>2, <1>3, <2>3, Zenon DEF Book!Find, Asked
  <1> QED
    BY <1>1, <1>5, <1>6 DEF First

LEMMA NextInBook == BookInv /\ [Next]_ovars => [Book!BNext]_(Book!bvars)
  <1> SUFFICES ASSUME BookInv, [Next]_ovars PROVE [Book!BNext]_(Book!bvars)
    OBVIOUS
  <1>1. CASE UNCHANGED ovars
    BY <1>1 DEF ovars, Book!bvars, Phase
  <1>2. CASE \/ \E t \in Tenant : Deactivate(t)
             \/ \E t \in Tenant, g \in Gateway \union {None}, m \in Amounts : UpdateConfig(t, g, m)
    BY <1>2, StoreIInv DEF BookInv, Book!bvars, Phase
  <1>3. ASSUME NEW r \in Request, Enters(r) PROVE Book!BNext
    BY <1>3, EnterAsks DEF BookInv, Enters, Book!BNext
  <1>4. ASSUME NEW r \in Request, Answer(r) \/ Receive(r) PROVE UNCHANGED Book!bvars
    BY <1>4, FetchStutters DEF BookInv, Book!bvars, Asked, Told
  <1>5. ASSUME NEW r \in Request, Validate(r) PROVE [Book!BNext]_(Book!bvars)
    BY <1>5, ValidateInBook DEF BookInv, Book!BNext, Book!bvars, Asked, Told
  <1>6. ASSUME NEW r \in Request, Push(r) \/ FindAll(r) \/ FindOne(r) PROVE Book!BNext
    BY <1>6, PushInBook, FindAllInBook, FindOneInBook DEF BookInv, Book!BNext
  <1> QED
    BY <1>1, <1>2, <1>3, <1>4, <1>5, <1>6 DEF Next, Step

\* Whatever is fetched, cached or fails, clients see a book of orders: each
\* request takes effect in one step, and nothing else changes the book.
THEOREM BookKept == Spec => ImplementsOrderBook
  <1>1. Init => Book!BInit
    BY DEF Init, Book!BInit, Unborn, NewRequest, Phase
  <1> QED
    BY <1>1, BookInductive, NextInBook, PTL DEF Spec, ImplementsOrderBook, Book!BSpec

-----------------------------------------------------------------------------
(* The book only grows: what was true of its beginning stays true.          *)

LEMMA OrdersGrow ==
    ASSUME IInv, [Next]_ovars
    PROVE  /\ Len(orders) <= Len(orders')
           /\ \A n \in 0 .. Len(orders) : SubSeq(orders', 1, n) = SubSeq(orders, 1, n)
           /\ \A i \in 1 .. Len(orders) : orders'[i] = orders[i]
  <1>1. CASE orders' = orders
    BY <1>1 DEF IInv
  <1>2. ASSUME NEW order \in Order, orders' = Append(orders, order)
        PROVE  /\ Len(orders) <= Len(orders')
               /\ \A n \in 0 .. Len(orders) : SubSeq(orders', 1, n) = SubSeq(orders, 1, n)
               /\ \A i \in 1 .. Len(orders) : orders'[i] = orders[i]
    <2>1. /\ orders \in Seq(Order) /\ Len(orders) \in Nat
          /\ Len(orders') = Len(orders) + 1
          /\ \A i \in 1 .. Len(orders) : orders'[i] = orders[i] /\ orders[i] \in Order
      BY <1>2 DEF IInv
    <2>2. ASSUME NEW n \in 0 .. Len(orders)
          PROVE  SubSeq(orders', 1, n) = SubSeq(orders, 1, n)
      <3>1. n \in Int /\ \A i \in 1 .. n : orders'[i] = orders[i] /\ orders[i] \in Order
        BY <2>1
      <3>2. /\ SubSeq(orders, 1, n) \in Seq(Order)
            /\ Len(SubSeq(orders, 1, n)) = IF 1 <= n THEN n - 1 + 1 ELSE 0
            /\ \A i \in 1 .. n - 1 + 1 : SubSeq(orders, 1, n)[i] = orders[1 + i - 1]
        BY <3>1, SubSeqProperties
      <3>3. /\ SubSeq(orders', 1, n) \in Seq(Order)
            /\ Len(SubSeq(orders', 1, n)) = IF 1 <= n THEN n - 1 + 1 ELSE 0
            /\ \A i \in 1 .. n - 1 + 1 : SubSeq(orders', 1, n)[i] = orders'[1 + i - 1]
        BY <3>1, SubSeqProperties
      <3>4. \A i \in 1 .. Len(SubSeq(orders', 1, n)) :
               SubSeq(orders', 1, n)[i] = SubSeq(orders, 1, n)[i]
        BY <2>1, <3>1, <3>2, <3>3
      <3> QED
        BY <3>2, <3>3, <3>4, SeqEqual
    <2> QED
      BY <2>1, <2>2
  <1> QED
    BY <1>1, <1>2, StepCases, PushStep DEF Quiet, Rejects, FindAll, FindOne

\* A request that is done stays as it is.
LEMMA DoneStays ==
    ASSUME IInv, [Next]_ovars, NEW r \in Request, Phase(r) = "done"
    PROVE  req'[r] = req[r]
  <1>1. ASSUME NEW x \in Request, Others(x), Phase(x) # "done" PROVE req'[r] = req[r]
    BY <1>1 DEF Others
  <1>2. ASSUME NEW x \in Request,
               Rejects(x) \/ Push(x) \/ FindAll(x) \/ FindOne(x)
        PROVE  Others(x) /\ Phase(x) # "done"
    BY <1>2, ReplyStep, PushIInv, FindIInv DEF Rejects, Push, FindAll, FindOne
  <1> QED
    BY <1>1, <1>2, StepCases DEF Quiet

ListOK(r) ==
    Phase(r) = "done" /\ req[r].kind = "findAll" =>
        \E n \in req[r].known .. Len(orders) :
            req[r].answer = OfTenant(SubSeq(orders, 1, n), req[r].tenant)

FoundOK(r) ==
    Phase(r) = "done" /\ req[r].kind = "findOne" =>
        IF req[r].answer = Error
        THEN \A i \in 1 .. req[r].known : ~Fits(r, orders[i])
        ELSE \E i \in DOMAIN orders :
                /\ req[r].answer = orders[i] /\ Fits(r, orders[i])
                /\ \A j \in 1 .. i - 1 : ~Fits(r, orders[j])

\* What holds of the answer of a request that is done goes on to hold.
LEMMA AnswersLast ==
    ASSUME IInv, [Next]_ovars, NEW r \in Request, Phase(r) = "done", ListOK(r), FoundOK(r)
    PROVE  ListOK(r)' /\ FoundOK(r)'
  <1>1. /\ req'[r] = req[r]
        /\ Len(orders) \in Nat /\ Len(orders') \in Nat
        /\ req[r].known \in 0 .. Len(orders)
        /\ DOMAIN orders = 1 .. Len(orders) /\ DOMAIN orders' = 1 .. Len(orders')
    BY DoneStays, NextIInv DEF IInv, RequestOK, FetchOK
  <1>2. ListOK(r)'
    <2> SUFFICES ASSUME req[r].kind = "findAll"
                 PROVE  ListOK(r)'
      BY <1>1 DEF ListOK
    <2>1. PICK n \in req[r].known .. Len(orders) :
              req[r].answer = OfTenant(SubSeq(orders, 1, n), req[r].tenant)
      BY DEF ListOK
    <2>2. SubSeq(orders', 1, n) = SubSeq(orders, 1, n) /\ n \in req[r].known .. Len(orders')
      BY <1>1, OrdersGrow
    <2> QED
      BY <1>1, <2>1, <2>2 DEF ListOK
  <1>3. FoundOK(r)'
    <2> SUFFICES ASSUME req[r].kind = "findOne" PROVE FoundOK(r)'
      BY <1>1 DEF FoundOK
    <2>1. /\ Len(orders) <= Len(orders')
          /\ \A i \in 1 .. Len(orders) : /\ orders'[i] = orders[i]
                                         /\ Fits(r, orders[i])' <=> Fits(r, orders[i])
      BY <1>1, OrdersGrow DEF Fits
    <2>2. CASE req[r].answer = Error
      BY <1>1, <2>1, <2>2 DEF FoundOK
    <2>3. CASE req[r].answer # Error
      <3>1. PICK i \in DOMAIN orders :
              /\ req[r].answer = orders[i] /\ Fits(r, orders[i])
              /\ \A j \in 1 .. i - 1 : ~Fits(r, orders[j])
        BY <2>3 DEF FoundOK
      <3>2. i \in DOMAIN orders' /\ \A j \in 1 .. i - 1 : j \in 1 .. Len(orders)
        BY <1>1, <2>1
      <3> QED
        BY <1>1, <2>1, <2>3, <3>1, <3>2 DEF FoundOK
    <2> QED
      BY <2>2, <2>3
  <1> QED
    BY <1>2, <1>3

\* The step that ends a request gives it such an answer.
LEMMA AnswersRight ==
    ASSUME IInv, [Next]_ovars, NEW r \in Request, Phase(r) # "done"
    PROVE  ListOK(r)' /\ FoundOK(r)'
  <1>1. CASE Phase(r)' # "done"
    BY <1>1 DEF ListOK, FoundOK
  <1>2. CASE Phase(r)' = "done"
    <2>1. Rejects(r) \/ Push(r) \/ FindAll(r) \/ FindOne(r)
      <3>1. ASSUME NEW x \in Request, x # r, Others(x) PROVE FALSE
        BY <1>2, <3>1 DEF Others, Phase
      <3>2. ASSUME NEW x \in Request,
                   Rejects(x) \/ Push(x) \/ FindAll(x) \/ FindOne(x)
            PROVE  Others(x)
        BY <3>2, ReplyStep, PushIInv, FindIInv DEF Rejects
      <3> QED
        BY <1>2, <3>1, <3>2, StepCases DEF Quiet, Phase
    <2>2. CASE Rejects(r) \/ Push(r)
      <3>1. req'[r].kind = "create"
        BY <2>2, ReplyStep, PushStep DEF Rejects
      <3> QED
        BY <3>1 DEF ListOK, FoundOK
    <2>3. CASE FindAll(r)
      <3>1. PICK answer : /\ answer = OfTenant(orders, req[r].tenant)
                          /\ Reply(r, answer)
        BY <2>3 DEF FindAll
      <3>2. /\ orders' = orders /\ req'[r].kind = "findAll" /\ req'[r].answer = answer
            /\ req'[r].tenant = req[r].tenant /\ req'[r].known = req[r].known
        BY <2>3, <3>1, ReplyStep DEF FindAll
      <3>3. SubSeq(orders, 1, Len(orders)) = orders
        BY SubSeqFull DEF IInv
      <3>4. Len(orders) \in req[r].known .. Len(orders)
        BY DEF IInv, RequestOK, FetchOK
      <3> QED
        BY <3>1, <3>2, <3>3, <3>4 DEF ListOK, FoundOK
    <2>4. CASE FindOne(r)
      <3>1. PICK answer : Reply(r, answer) /\ First(r, answer)
        BY <2>4, FindOneStep
      <3>2. /\ orders' = orders /\ req'[r].kind = "findOne" /\ req'[r].answer = answer
            /\ req'[r].tenant = req[r].tenant /\ req'[r].known = req[r].known
            /\ req'[r].target = req[r].target
        BY <2>4, <3>1, ReplyStep DEF FindOne
      <3>3. /\ DOMAIN orders = 1 .. Len(orders) /\ req[r].known \in 0 .. Len(orders)
            /\ Len(orders) \in Nat /\ \A i \in DOMAIN orders : orders[i] # Error
        BY ErrorAssumption DEF IInv, RequestOK, FetchOK
      <3>4. FoundOK(r)'
        BY <3>1, <3>2, <3>3 DEF FoundOK, First, Fits
      <3>5. ListOK(r)'
        BY <3>2 DEF ListOK
      <3> QED
        BY <3>4, <3>5
    <2> QED
      BY <2>1, <2>2, <2>3, <2>4
  <1> QED
    BY <1>1, <1>2

AnswersInv == IInv /\ \A r \in Request : ListOK(r) /\ FoundOK(r)

LEMMA AnswersInductive == (Init => AnswersInv) /\ (AnswersInv /\ [Next]_ovars => AnswersInv')
  <1>1. Init => AnswersInv
    BY InitIInv DEF Init, AnswersInv, ListOK, FoundOK, Phase, Unborn, NewRequest
  <1>2. ASSUME AnswersInv, [Next]_ovars PROVE AnswersInv'
    BY <1>2, NextIInv, AnswersLast, AnswersRight DEF AnswersInv
  <1> QED
    BY <1>1, <1>2

\* A list is the tenant's part of the book at one moment after the request came.
THEOREM ListsAreOfOneMoment == Spec => []ListsAreCurrent
  <1>1. AnswersInv => ListsAreCurrent
    BY DEF AnswersInv, ListOK, ListsAreCurrent, Done
  <1> QED
    BY <1>1, AnswersInductive, PTL DEF Spec

\* findOne finds an order of the tenant that was there, the oldest with the id, and
\* nobody else's.
THEOREM OwnOrdersAreFound == Spec => []OwnOrderIsFound
  <1>1. AnswersInv => OwnOrderIsFound
    BY DEF AnswersInv, FoundOK, OwnOrderIsFound, Done, Fits
  <1> QED
    BY <1>1, AnswersInductive, PTL DEF Spec

-----------------------------------------------------------------------------
(* Orders without a configuration.                                          *)

\* What is known of the payment-gateway entry on the way to an order: it is cached,
\* or still to be fetched, or the request's own fetch of it has failed.
EntryOK(r) ==
    /\ Phase(r) \in {"fetching", "answered"} =>
          cache[Payment] # None \/ 1 \in req[r].missing \/ req[r].failed
    /\ Phase(r) \in {"loaded", "validated"} => cache[Payment] # None \/ req[r].failed
    /\ Phase(r) = "validated" => req[r].checked \/ req[r].failed

\* An order belongs to a request that is done with it.
StampOK(i) ==
    /\ Phase(orders[i].by) = "done"
    /\ orders[i].config = None \/ ~req[orders[i].by].checked => req[orders[i].by].failed

EntryInv ==
    /\ IInv
    /\ \A r \in Request : EntryOK(r)
    /\ \A i \in DOMAIN orders : StampOK(i)

LEMMA KeysFacts ==
    DOMAIN Keys = 1 .. 3 /\ Payment = Keys[1] /\ Keys[2] # Payment /\ Keys[3] # Payment
  BY DEF Keys, Payment

\* An entry, once cached, stays.
LEMMA EntryStays ==
    ASSUME IInv, [Next]_ovars
    PROVE  cache[Payment] # None => cache'[Payment] # None
  <1>1. CASE UNCHANGED cache
    BY <1>1
  <1>2. ASSUME NEW r \in Request, Receive(r), cache[Payment] # None
        PROVE  cache'[Payment] # None
    <2>1. req[r].reply \in {Error} \union (IF Keys[At(r)] = Payment THEN Config ELSE {Data})
      BY <1>2 DEF IInv, RequestOK, FetchOK, Receive
    <2>2. cache' = IF req[r].reply = Error THEN cache
                   ELSE [cache EXCEPT ![Keys[At(r)]] = req[r].reply]
      BY <1>2 DEF Receive
    <2> QED
      BY <1>2, <2>1, <2>2, ConfigAssumption, KeyFacts DEF IInv, CacheOK
  <1> QED
    BY <1>1, <1>2
       DEF Next, ovars, Step, Deactivate, UpdateConfig, Enters, Enter, Answer, Validate, Push,
           FindAll, FindOne

\* The request that steps has to have such an entry; the others keep theirs.
LEMMA EntryStep ==
    ASSUME EntryInv, [Next]_ovars, NEW r \in Request, Others(r), EntryOK(r)',
           orders' = orders, Phase(r) # "done"
    PROVE  EntryInv'
  <1>1. ASSUME NEW x \in Request, x # r PROVE EntryOK(x)'
    <2>1. EntryOK(x) /\ req'[x] = req[x]
      BY <1>1 DEF EntryInv, Others
    <2> QED
      BY <2>1, EntryStays DEF EntryInv, EntryOK, Phase
  <1>2. ASSUME NEW i \in DOMAIN orders' PROVE StampOK(i)'
    <2>1. orders[i].by \in Request /\ StampOK(i)
      <3>1. i \in DOMAIN orders /\ orders[i] \in Order
        BY <1>2 DEF EntryInv, IInv
      <3> QED
        BY <3>1 DEF EntryInv, Order
    <2>2. req'[orders[i].by] = req[orders[i].by]
      BY <2>1 DEF StampOK, Others
    <2> QED
      BY <2>1, <2>2 DEF StampOK, Phase
  <1> QED
    BY <1>1, <1>2, NextIInv DEF EntryInv

LEMMA EntryEnter ==
    ASSUME EntryInv, [Next]_ovars, NEW r \in Request, Enters(r)
    PROVE  EntryInv'
  <1>1. PICK k \in Kinds, t \in Tenant, a \in Amounts, id \in OrderId \union {None},
              b \in Bodies : Enter(r, k, t, a, id, b)
    BY DEF Enters
  <1> DEFINE missing == {i \in DOMAIN Keys : cache[Keys[i]] = None}
  <1>2. req'[r] = [NewRequest(k, t, a, id, b) EXCEPT
                      !.phase = IF missing = {} THEN "loaded" ELSE "fetching",
                      !.missing = missing]
    BY <1>1 DEF Enter, EntryInv, IInv, ShapeOK
  <1>3. cache[Payment] = None => 1 \in missing
    BY KeysFacts
  <1> HIDE DEF missing
  <1>4. /\ req'[r].phase = IF missing = {} THEN "loaded" ELSE "fetching"
        /\ req'[r].missing = missing
    BY <1>2 DEF NewRequest
  <1>5. EntryOK(r)'
    BY <1>1, <1>3, <1>4 DEF Enter, EntryOK, Phase
  <1> QED
    BY <1>1, <1>5, EnterIInv, EntryStep DEF Enter, EntryInv

LEMMA EntryAnswer ==
    ASSUME EntryInv, [Next]_ovars, NEW r \in Request, Answer(r)
    PROVE  EntryInv'
  <1>1. PICK reply : req' = [req EXCEPT ![r].phase = "answered", ![r].reply = reply]
    BY DEF Answer
  <1>2. req'[r] = [req[r] EXCEPT !.phase = "answered", !.reply = reply]
    BY <1>1 DEF EntryInv, IInv, ShapeOK
  <1>3. /\ req'[r].phase = "answered" /\ req'[r].missing = req[r].missing
        /\ req'[r].failed = req[r].failed
    BY <1>2 DEF EntryInv, IInv, ShapeOK, Fields
  <1>4. EntryOK(r)'
    BY <1>3 DEF Answer, EntryInv, EntryOK, Phase
  <1> QED
    BY <1>4, AnswerIInv, EntryStep DEF Answer, EntryInv

\* The fetch of the entry fills the cache or is noted as failed; another fetch leaves
\* the entry to be fetched.
LEMMA EntryReceive ==
    ASSUME EntryInv, [Next]_ovars, NEW r \in Request, Receive(r)
    PROVE  EntryInv'
  <1> DEFINE rest == req[r].missing \ {At(r)}
             failed == req[r].failed \/ (Keys[At(r)] = Payment /\ req[r].reply = Error)
  <1>1. /\ cache' = IF req[r].reply = Error THEN cache
                    ELSE [cache EXCEPT ![Keys[At(r)]] = req[r].reply]
        /\ req' = [req EXCEPT
                     ![r].phase = IF rest = {} THEN "loaded" ELSE "fetching",
                     ![r].missing = rest, ![r].reply = None,
                     ![r].failed = @ \/ (Keys[At(r)] = Payment /\ req[r].reply = Error)]
        /\ Phase(r) = "answered" /\ orders' = orders
    BY DEF Receive
  <1>2. req'[r] = [req[r] EXCEPT !.phase = IF rest = {} THEN "loaded" ELSE "fetching",
                     !.missing = rest, !.reply = None,
                     !.failed = @ \/ (Keys[At(r)] = Payment /\ req[r].reply = Error)]
    BY <1>1 DEF EntryInv, IInv, ShapeOK
  <1>3. /\ req'[r].phase = IF rest = {} THEN "loaded" ELSE "fetching"
        /\ req'[r].missing = rest /\ (req'[r].failed <=> failed)
    BY <1>2 DEF EntryInv, IInv, ShapeOK, Fields
  <1>4. cache'[Payment] # None \/ 1 \in rest \/ failed
    <2>1. req[r].reply \in {Error} \union (IF Keys[At(r)] = Payment THEN Config ELSE {Data})
      BY <1>1 DEF EntryInv, IInv, RequestOK, FetchOK
    <2>2. cache[Payment] # None \/ 1 \in req[r].missing \/ req[r].failed
      BY <1>1 DEF EntryInv, EntryOK
    <2>3. CASE At(r) = 1
      BY <1>1, <2>1, <2>3, KeysFacts, KeyFacts, ConfigAssumption DEF EntryInv, IInv, CacheOK
    <2>4. CASE At(r) # 1
      BY <2>2, <2>4, EntryStays DEF EntryInv
    <2> QED
      BY <2>3, <2>4
  <1> HIDE DEF rest, failed
  <1>5. EntryOK(r)'
    BY <1>3, <1>4 DEF EntryOK, Phase
  <1> QED
    BY <1>1, <1>5, ReceiveIInv, EntryStep DEF EntryInv

LEMMA EntryValidate ==
    ASSUME EntryInv, [Next]_ovars, NEW r \in Request, Validate(r)
    PROVE  EntryInv'
  <1>1. /\ Phase(r) = "loaded" /\ orders' = orders /\ cache' = cache
        /\ cache[Payment] # None \/ req[r].failed
    BY DEF Validate, EntryInv, EntryOK
  <1>2. CASE Reply(r, Error)
    <2>1. req'[r].phase = "done"
      BY <1>2, ReplyStep DEF EntryInv
    <2> QED
      BY <1>1, <2>1, ValidateIInv, EntryStep DEF EntryInv, EntryOK, Phase
  <1>3. CASE req' = [req EXCEPT ![r].phase = "validated", ![r].checked = cache[Payment] # None]
    <2>1. req'[r] = [req[r] EXCEPT !.phase = "validated", !.checked = cache[Payment] # None]
      BY <1>3 DEF EntryInv, IInv, ShapeOK
    <2>2. /\ req'[r].phase = "validated" /\ req'[r].failed = req[r].failed
          /\ req'[r].checked <=> cache[Payment] # None
      BY <2>1 DEF EntryInv, IInv, ShapeOK, Fields
    <2>3. EntryOK(r)'
      BY <1>1, <2>2 DEF EntryOK, Phase
    <2> QED
      BY <1>1, <2>3, ValidateIInv, EntryStep DEF EntryInv
  <1> QED
    BY <1>2, <1>3 DEF Validate

LEMMA EntryPush ==
    ASSUME EntryInv, [Next]_ovars, NEW r \in Request, Push(r)
    PROVE  EntryInv'
  <1>1. PICK order \in Order :
            /\ order.by = r /\ order.config = cache[Payment]
            /\ orders' = Append(orders, order)
            /\ Reply(r, order)
            /\ Phase(r) = "validated" /\ cache' = cache
    BY PushStep DEF EntryInv, Push, IInv
  <1>2. /\ req'[r].phase = "done" /\ req'[r].failed = req[r].failed
        /\ req'[r].checked = req[r].checked /\ Others(r)
    BY <1>1, ReplyStep DEF EntryInv
  <1>3. ASSUME NEW x \in Request PROVE EntryOK(x)'
    BY <1>1, <1>2, <1>3 DEF EntryInv, EntryOK, Phase, Others
  <1>4. ASSUME NEW i \in DOMAIN orders' PROVE StampOK(i)'
    <2>1. CASE i = Len(orders) + 1
      <3>1. orders'[i] = order
        BY <1>1, <2>1 DEF EntryInv, IInv
      <3>2. cache[Payment] = None \/ ~req[r].checked => req[r].failed
        BY <1>1 DEF EntryInv, EntryOK
      <3> QED
        BY <1>1, <1>2, <3>1, <3>2 DEF StampOK, Phase
    <2>2. CASE i # Len(orders) + 1
      <3>1. i \in DOMAIN orders /\ orders'[i] = orders[i]
        BY <1>1, <1>4, <2>2 DEF EntryInv, IInv
      <3>2. orders[i].by \in Request /\ StampOK(i)
        <4>1. orders[i] \in Order
          BY <3>1 DEF EntryInv, IInv
        <4> QED
          BY <3>1, <4>1 DEF EntryInv, Order
      <3>3. req'[orders[i].by] = req[orders[i].by]
        BY <1>1, <1>2, <3>2 DEF StampOK, Others
      <3> QED
        BY <3>1, <3>2, <3>3 DEF StampOK, Phase
    <2> QED
      BY <2>1, <2>2
  <1> QED
    BY <1>3, <1>4, NextIInv DEF EntryInv

LEMMA EntryFind ==
    ASSUME EntryInv, [Next]_ovars, NEW r \in Request, FindAll(r) \/ FindOne(r)
    PROVE  EntryInv'
  <1>1. PICK a : Reply(r, a)
    BY DEF FindAll, FindOne
  <1>2. Phase(r) = "loaded" /\ orders' = orders /\ req'[r].phase = "done"
    BY <1>1, ReplyStep DEF FindAll, FindOne, EntryInv
  <1> QED
    BY <1>2, FindIInv, EntryStep DEF EntryInv, EntryOK, Phase

LEMMA EntryInductive == (Init => EntryInv) /\ (EntryInv /\ [Next]_ovars => EntryInv')
  <1>1. Init => EntryInv
    BY InitIInv DEF Init, EntryInv, EntryOK, StampOK, Phase, Unborn, NewRequest
  <1>2. ASSUME EntryInv, UNCHANGED <<cache, orders, req>>, IInv' PROVE EntryInv'
    BY <1>2 DEF EntryInv, EntryOK, StampOK, Phase
  <1>3. ASSUME EntryInv, [Next]_ovars PROVE EntryInv'
    BY <1>2, <1>3, NextIInv, StoreIInv, EntryEnter, EntryAnswer, EntryReceive, EntryValidate,
       EntryPush, EntryFind
       DEF EntryInv, Next, Step, ovars
  <1> QED
    BY <1>1, <1>3

\* An order is created without a configuration, or unchecked, only by a request whose
\* own fetch of it failed.
THEOREM UncheckedFetchFailed == Spec => []NoConfigMeansFetchFailed
  <1>1. EntryInv => NoConfigMeansFetchFailed
    BY DEF EntryInv, StampOK, NoConfigMeansFetchFailed
  <1> QED
    BY <1>1, EntryInductive, PTL DEF Spec

-----------------------------------------------------------------------------
(* What OfTenant keeps of a list.                                          *)

\* f is the function `kept` of OfTenant, up to m.
Keeps(f, list, t, m) ==
    f = [n \in 0 .. m |->
           IF n = 0 THEN <<>>
           ELSE IF list[n].tenant = t THEN Append(f[n - 1], list[n]) ELSE f[n - 1]]

LEMMA SomeKeeps ==
    ASSUME NEW S, NEW list \in Seq(S), NEW t
    PROVE  \E f : Keeps(f, list, t, Len(list))
  <1> DEFINE T == {m \in 0 .. Len(list) : ~\E f : Keeps(f, list, t, m)}
  <1>1. Len(list) \in Nat
    OBVIOUS
  <1>2. CASE T = {}
    BY <1>1, <1>2
  <1>3. CASE T # {}
    <2>1. PICK m \in T : \A k \in T : m <= k
      <3>1. T \in SUBSET Nat
        BY <1>1
      <3> HIDE DEF T
      <3> QED
        BY <1>3, <3>1, Least
    <2>2. CASE m = 0
      <3>1. Keeps([n \in 0 .. 0 |-> <<>>], list, t, 0)
        BY DEF Keeps
      <3> QED
        BY <2>1, <2>2, <3>1
    <2>3. CASE m # 0
      <3>1. m \in Nat /\ m - 1 \in 0 .. Len(list) /\ ~(m <= m - 1)
        BY <1>1, <2>1, <2>3
      <3>2. PICK f : Keeps(f, list, t, m - 1)
        BY <2>1, <3>1
      <3> DEFINE last == IF list[m].tenant = t THEN Append(f[m - 1], list[m]) ELSE f[m - 1]
                 g == [n \in 0 .. m |-> IF n = m THEN last ELSE f[n]]
      <3>3. ASSUME NEW n \in 0 .. m
            PROVE  g[n] = IF n = 0 THEN <<>>
                          ELSE IF list[n].tenant = t THEN Append(g[n - 1], list[n]) ELSE g[n - 1]
        <4>1. CASE n = m
          BY <2>3, <3>1, <4>1
        <4>2. CASE n # m /\ n # 0
          <5>1. n \in 0 .. m - 1 /\ n - 1 \in 0 .. m /\ n - 1 # m
            BY <3>1, <4>2
          <5>2. f[n] = IF list[n].tenant = t THEN Append(f[n - 1], list[n]) ELSE f[n - 1]
            BY <3>2, <4>2, <5>1 DEF Keeps
          <5>3. g[n] = f[n] /\ g[n - 1] = f[n - 1]
            BY <4>2, <5>1
          <5> HIDE DEF g
          <5> QED
            BY <4>2, <5>2, <5>3
        <4>3. CASE n # m /\ n = 0
          <5>1. 0 \in 0 .. m - 1
            BY <3>1, <4>3
          <5>2. f[0] = <<>>
            BY <3>2, <5>1 DEF Keeps
          <5> QED
            BY <4>3, <5>2
        <4> QED
          BY <4>1, <4>2, <4>3
      <3>4. g = [n \in 0 .. m |-> g[n]]
        OBVIOUS
      <3> HIDE DEF g
      <3>5. Keeps(g, list, t, m)
        BY <3>3, <3>4 DEF Keeps
      <3> QED
        BY <2>1, <3>5
    <2> QED
      BY <2>2, <2>3
  <1> QED
    BY <1>2, <1>3

\* What is in a list.
Elements(s) == {s[k] : k \in DOMAIN s}

\* The part of a list that OfTenant keeps is a list, and its elements are the tenant's
\* elements of the list, all of them.
LEMMA KeptElements ==
    ASSUME NEW S, NEW list \in Seq(S), NEW t
    PROVE  /\ OfTenant(list, t) \in Seq(S)
           /\ Elements(OfTenant(list, t)) = {e \in Elements(list) : e.tenant = t}
  <1> DEFINE f == CHOOSE f : Keeps(f, list, t, Len(list))
             Part(n) == {e \in {list[i] : i \in 1 .. n} : e.tenant = t}
             T == {n \in 0 .. Len(list) : ~(f[n] \in Seq(S) /\ Elements(f[n]) = Part(n))}
  <1>1. Keeps(f, list, t, Len(list)) /\ OfTenant(list, t) = f[Len(list)]
    <2>1. \E g : Keeps(g, list, t, Len(list))
      BY SomeKeeps
    <2>2. OfTenant(list, t) = f[Len(list)]
      BY DEF OfTenant, Keeps
    <2> QED
      BY <2>1, <2>2
  <1>2. Len(list) \in Nat /\ DOMAIN list = 1 .. Len(list) /\ \A i \in DOMAIN list : list[i] \in S
    OBVIOUS
  <1> HIDE DEF f
  <1>3. CASE T = {}
    <2>1. Len(list) \in 0 .. Len(list) /\ Len(list) \notin T
      <3>1. Len(list) \in 0 .. Len(list)
        BY <1>2
      <3> HIDE DEF T
      <3> QED
        BY <1>3, <3>1
    <2>2. f[Len(list)] \in Seq(S) /\ Elements(f[Len(list)]) = Part(Len(list))
      BY <2>1
    <2>3. Part(Len(list)) = {e \in Elements(list) : e.tenant = t}
      BY <1>2 DEF Elements
    <2> QED
      BY <1>1, <2>2, <2>3
  <1>4. CASE T # {}
    <2>1. PICK m \in T : \A k \in T : m <= k
      <3>1. T \in SUBSET Nat
        BY <1>2
      <3> HIDE DEF T
      <3> QED
        BY <1>4, <3>1, Least
    <2>2. CASE m = 0
      <3>1. f[0] = <<>>
        BY <1>1, <1>2 DEF Keeps
      <3>2. Part(0) = {}
        OBVIOUS
      <3>3. Elements(<<>>) = {} /\ <<>> \in Seq(S)
        BY DEF Elements
      <3>4. m \in T => ~(f[m] \in Seq(S) /\ Elements(f[m]) = Part(m))
        OBVIOUS
      <3> HIDE DEF T, Part
      <3> QED
        BY <2>1, <2>2, <3>1, <3>2, <3>3, <3>4
    <2>3. CASE m # 0
      <3>1. m \in 1 .. Len(list) /\ m - 1 \in 0 .. Len(list) /\ ~(m <= m - 1) /\ list[m] \in S
        BY <1>2, <2>1, <2>3
      <3>2. f[m - 1] \in Seq(S) /\ Elements(f[m - 1]) = Part(m - 1)
        BY <2>1, <3>1
      <3>3. f[m] = IF list[m].tenant = t THEN Append(f[m - 1], list[m]) ELSE f[m - 1]
        <4>1. m \in 0 .. Len(list) /\ m # 0
          BY <1>2, <3>1
        <4> QED
          BY <1>1, <4>1 DEF Keeps
      <3>4. Part(m) = Part(m - 1) \union (IF list[m].tenant = t THEN {list[m]} ELSE {})
        BY <3>1
      <3>5. Elements(Append(f[m - 1], list[m])) = Elements(f[m - 1]) \union {list[m]}
        <4>1. ASSUME NEW s \in Seq(S), NEW e \in S
              PROVE  Elements(Append(s, e)) = Elements(s) \union {e}
          <5>1. /\ Len(s) \in Nat /\ DOMAIN s = 1 .. Len(s)
                /\ DOMAIN Append(s, e) = 1 .. Len(s) + 1
                /\ \A k \in 1 .. Len(s) : Append(s, e)[k] = s[k]
                /\ Append(s, e)[Len(s) + 1] = e
            OBVIOUS
          <5>2. 1 .. Len(s) + 1 = (1 .. Len(s)) \union {Len(s) + 1}
            BY <5>1
          <5> QED
            BY <5>1, <5>2 DEF Elements
        <4> QED
          BY <3>1, <3>2, <4>1
      <3>6. f[m] \in Seq(S) /\ Elements(f[m]) = Part(m)
        <4> HIDE DEF Part
        <4> QED
          BY <3>1, <3>2, <3>3, <3>4, <3>5
      <3> QED
        BY <2>1, <3>6
    <2> QED
      BY <2>2, <2>3
  <1> QED
    BY <1>3, <1>4
=============================================================================

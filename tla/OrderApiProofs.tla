--------------------------- MODULE OrderApiProofs ---------------------------
(* Theorems about OrderApi: behind the guards the handlers do what           *)
(* OrderService says, so what is proved of it holds of every HTTP request.   *)
EXTENDS OrderApi, OrderServiceProofs

Entered(r) == Phase(r) # "unborn"

\* Where a request stands on its way, where its handler stands, and what the handler
\* has been given of it.
LinkOK(r) ==
    /\ http[r].phase \in {"unborn", "verifying", "admitted", "handling", "done"}
    /\ http[r].phase \in {"unborn", "verifying", "admitted"} => ~Entered(r)
    /\ http[r].phase = "handling" => Phase(r) \notin {"unborn", "done"}
    /\ http[r].phase = "done" => Phase(r) \in {"unborn", "done"}
    /\ http[r].phase # "unborn" => Asks(r) \in Http
    /\ http[r].phase \in {"verifying", "admitted", "handling"} \/ Entered(r) =>
          Asks(r).kind # "health" /\ Asks(r).header # None
    /\ Entered(r) =>
          /\ req[r].kind = Asks(r).kind
          /\ req[r].tenant = Asks(r).header.token.tenant
          /\ Asks(r).kind = "create" => req[r].body = Asks(r).body
          /\ ~(Asks(r).kind = "create" /\ Asks(r).broken # {})

\* What can leave an order unchecked.
Cause(r) ==
    \/ faults > 0
    \/ now >= Exp(r)
    \/ stored[req[r].tenant] = None \/ updates > 0

\* A fetch of the payment-gateway configuration that failed had a cause.
CauseOK(r) ==
    /\ req[r].failed /\ Entered(r) => Cause(r)
    /\ Phase(r) = "answered" /\ req[r].reply = Error /\ Keys[At(r)] = Payment => Cause(r)

\* A request that is past the guards has convinced them.
Passed(r) ==
    /\ Asks(r).header.token.genuine
    /\ http[r].at < Exp(r)
    /\ TenantAccessGuard(Asks(r))

\* StatusTells, with the handler's acceptance for the order in the book.
StatusOK(r) ==
    Answered(r) /\ Asks(r).kind # "health" =>
        LET bad == Asks(r).header = None \/ ~Asks(r).header.token.genuine
        IN  CASE Status(r) = 401 -> ~Entered(r) /\ (bad \/ now >= Exp(r) \/ faults > 0)
              [] Status(r) = 403 -> ~Entered(r) /\ ~bad /\ ~TenantAccessGuard(Asks(r))
              [] OTHER ->
                   /\ Status(r) \in {200, 201, 400}
                   /\ ~bad /\ Passed(r)
                   /\ Status(r) = 400 <=>
                         \/ Asks(r).kind = "create" /\ Asks(r).broken # {}
                         \/ Done(r) /\ req[r].answer = Error
                   /\ Status(r) = 201 <=> Accepted(r)

PassedOK(r) == http[r].phase \in {"admitted", "handling"} => Passed(r)

ApiOK(r) == LinkOK(r) /\ CauseOK(r) /\ PassedOK(r) /\ StatusOK(r)

AInv ==
    /\ IInv
    /\ DOMAIN http = Request
    /\ \A r \in Request : DOMAIN http[r] = DOMAIN Unasked
    /\ now \in 0 .. MaxTime /\ faults \in 0 .. MaxFaults
    /\ \A r \in Request : ApiOK(r)

-----------------------------------------------------------------------------
LEMMA AsksFacts ==
    ASSUME NEW asks \in Http, asks.header # None
    PROVE  /\ asks.header.token \in Token
           /\ asks.header.token.tenant \in Tenant /\ asks.header.token.exp \in Nat
           /\ asks.header.token.genuine \in BOOLEAN
           /\ extractToken(asks.header) = asks.header.token
  BY HttpAssumption, TokenAssumption DEF Header, extractToken

LEMMA LaidStatus ==
    ASSUME NEW class, NEW status, NEW messages
    PROVE  Laid(Exception(class, status, messages)).status = status
  BY DEF Laid, Exception

LEMMA InitAInv == ApiInit => AInv
  <1> SUFFICES ASSUME ApiInit PROVE AInv
    OBVIOUS
  <1>1. IInv /\ Init
    BY InitIInv DEF ApiInit
  <1>2. \A r \in Request : Phase(r) = "unborn"
    BY <1>1 DEF Init, Phase, Unborn, NewRequest
  <1>3. \A r \in Request : http[r] = Unasked /\ http[r].phase = "unborn"
    BY DEF ApiInit, Unasked
  <1>4. ASSUME NEW r \in Request PROVE ApiOK(r)
    BY <1>2, <1>3 DEF ApiOK, LinkOK, CauseOK, PassedOK, StatusOK, Entered, Answered
  <1> QED
    BY <1>1, <1>3, <1>4, ApiBoundsAssumption DEF ApiInit, AInv

\* Time passes, faults and changes are counted: a cause stays one.
Grows ==
    /\ now <= now' /\ faults <= faults'
    /\ now' \in 0 .. MaxTime /\ faults' \in 0 .. MaxFaults
    /\ UNCHANGED <<stored, updates>> \/ updates' > 0

LEMMA CauseStays ==
    ASSUME AInv, Grows, NEW r \in Request, Entered(r), Cause(r),
           http'[r].asks = http[r].asks, req'[r].tenant = req[r].tenant
    PROVE  Cause(r)'
  <1>1. Exp(r) \in Nat /\ Exp(r)' = Exp(r)
    BY AsksFacts DEF AInv, ApiOK, LinkOK, Entered, Exp, Asks
  <1>2. updates \in Nat
    BY MaxUpdatesAssumption DEF AInv, IInv, StoreOK
  <1> QED
    BY <1>1, <1>2 DEF Cause, Grows, AInv

\* A request that does not step.
LEMMA RestStays ==
    ASSUME AInv, Grows, NEW r \in Request, http'[r] = http[r], req'[r] = req[r]
    PROVE  ApiOK(r)'
  <1>1. LinkOK(r)'
    BY DEF AInv, ApiOK, LinkOK, Entered, Phase, Asks
  <1>2. CauseOK(r)'
    <2>1. At(r)' = At(r) /\ (Phase(r) # "unborn" /\ Cause(r) => Cause(r)')
      BY CauseStays DEF At, Entered
    <2> QED
      BY <2>1 DEF AInv, ApiOK, CauseOK, Entered, Phase
  <1>3. PassedOK(r)'
    BY DEF AInv, ApiOK, PassedOK, Passed, Exp, Asks, TenantAccessGuard
  <1>4. StatusOK(r)'
    BY AsksFacts
       DEF AInv, ApiOK, LinkOK, StatusOK, Answered, Status, Passed, Exp, Asks, TenantAccessGuard,
           Grows, Entered, Phase, Accepted, Done
  <1> QED
    BY <1>1, <1>2, <1>3, <1>4 DEF ApiOK

-----------------------------------------------------------------------------
(* The steps.                                                               *)

\* What a step of request r leaves alone on the HTTP side.
HttpOthers(r) ==
    /\ DOMAIN http' = Request /\ DOMAIN http'[r] = DOMAIN Unasked
    /\ \A x \in Request : x # r => http'[x] = http[x]

\* The invariant, rebuilt after a step of one request.
LEMMA ApiStep ==
    ASSUME AInv, NEW r \in Request, [Next]_ovars, Others(r), HttpOthers(r), Grows, ApiOK(r)'
    PROVE  AInv'
  <1>1. IInv'
    BY NextIInv DEF AInv
  <1>2. ASSUME NEW x \in Request PROVE ApiOK(x)' /\ DOMAIN http'[x] = DOMAIN Unasked
    BY <1>2, RestStays DEF Others, HttpOthers, AInv
  <1> QED
    BY <1>1, <1>2 DEF AInv, Grows, HttpOthers

\* Before it enters its handler a request touches nothing but its own record.
LEMMA BeforeHandler ==
    ASSUME AInv, NEW r \in Request, UNCHANGED <<ovars, now>>, faults' \in {faults, faults + 1},
           faults' \in 0 .. MaxFaults
    PROVE  [Next]_ovars /\ Others(r) /\ Grows /\ Phase(r)' = Phase(r) /\ req' = req
  BY DEF ovars, Others, Grows, AInv, Phase

LEMMA Responds ==
    ASSUME AInv, NEW r \in Request, NEW response, Respond(r, response)
    PROVE  /\ HttpOthers(r)
           /\ http'[r].phase = "done" /\ http'[r].response = response
           /\ http'[r].asks = http[r].asks /\ http'[r].at = http[r].at
  <1>1. http' = [http EXCEPT ![r].phase = "done", ![r].response = response]
    BY DEF Respond
  <1>2. http'[r] = [http[r] EXCEPT !.phase = "done", !.response = response]
    BY <1>1 DEF AInv
  <1>3. DOMAIN http[r] = {"phase", "asks", "at", "asked", "response"}
    BY DEF AInv, Unasked
  <1> QED
    BY <1>1, <1>2, <1>3 DEF AInv, HttpOthers, Unasked

LEMMA Throws ==
    ASSUME AInv, NEW r \in Request, NEW class, NEW status, NEW messages,
           Throw(r, class, status, messages)
    PROVE  /\ HttpOthers(r)
           /\ http'[r].phase = "done" /\ http'[r].response.status = status
           /\ http'[r].asks = http[r].asks /\ http'[r].at = http[r].at
  BY Responds, LaidStatus DEF Throw

LEMMA ArriveAInv ==
    ASSUME AInv, NEW r \in Request, NEW asks \in Http, Arrive(r, asks)
    PROVE  AInv'
  <1>1. /\ http[r].phase = "unborn" /\ UNCHANGED <<ovars, now, faults>>
        /\ Phase(r) = "unborn" /\ DOMAIN http[r] = {"phase", "asks", "at", "asked", "response"}
    BY DEF Arrive, AInv, ApiOK, LinkOK, Entered, Unasked
  <1>2. [Next]_ovars /\ Others(r) /\ Grows /\ Phase(r)' = "unborn"
    BY <1>1, BeforeHandler DEF AInv
  <1>3. CASE asks.kind = "health"
    <2>1. http' = [[http EXCEPT ![r].asks = asks]
                     EXCEPT ![r].phase = "done", ![r].response = OK("health")]
      BY <1>3 DEF Arrive
    <2>2. HttpOthers(r) /\ http'[r].phase = "done" /\ http'[r].asks = asks
      BY <1>1, <2>1 DEF AInv, HttpOthers, Unasked
    <2>3. ApiOK(r)'
      BY <1>2, <1>3, <2>2
         DEF ApiOK, LinkOK, CauseOK, PassedOK, StatusOK, Entered, Asks, Answered
    <2> QED
      BY <1>2, <2>2, <2>3, ApiStep
  <1>4. CASE asks.kind # "health" /\ extractToken(asks.header) = None
    <2> DEFINE body == Laid(Exception(<<"nest", "Unauthorized">>, 401, <<"token">>))
    <2>1. http' = [[http EXCEPT ![r].asks = asks]
                     EXCEPT ![r].phase = "done", ![r].response = body]
      BY <1>4 DEF Arrive
    <2>2. body.status = 401
      BY LaidStatus
    <2> HIDE DEF body
    <2>3. /\ HttpOthers(r) /\ http'[r].phase = "done" /\ http'[r].asks = asks
          /\ http'[r].response.status = 401
      BY <1>1, <2>1, <2>2 DEF AInv, HttpOthers, Unasked
    <2>4. asks.header = None
      BY <1>4, AsksFacts, TokenAssumption
    <2>5. ApiOK(r)'
      BY <1>2, <2>3, <2>4
         DEF ApiOK, LinkOK, CauseOK, PassedOK, StatusOK, Status, Entered, Asks, Answered
    <2> QED
      BY <1>2, <2>3, <2>5, ApiStep
  <1>5. CASE asks.kind # "health" /\ extractToken(asks.header) # None
    <2>1. http' = [[http EXCEPT ![r].asks = asks] EXCEPT ![r].phase = "verifying"]
      BY <1>5 DEF Arrive
    <2>2. HttpOthers(r) /\ http'[r].phase = "verifying" /\ http'[r].asks = asks
      BY <1>1, <2>1 DEF AInv, HttpOthers, Unasked
    <2>3. asks.header # None
      BY <1>5 DEF extractToken
    <2>4. ApiOK(r)'
      BY <1>2, <1>5, <2>2, <2>3
         DEF ApiOK, LinkOK, CauseOK, PassedOK, StatusOK, Entered, Asks, Answered
    <2> QED
      BY <1>2, <2>2, <2>4, ApiStep
  <1> QED
    BY <1>3, <1>4, <1>5

\* Refused by the guards.
LEMMA RefusedAInv ==
    ASSUME AInv, NEW r \in Request, http[r].phase = "verifying", NEW status \in {401, 403},
           NEW class, NEW messages, Throw(r, class, status, messages),
           UNCHANGED <<ovars, now>>, faults' \in {faults, faults + 1}, faults' \in 0 .. MaxFaults,
           status = 401 => ~Asks(r).header.token.genuine \/ now >= Exp(r) \/ faults' > 0,
           status = 403 => Asks(r).header.token.genuine /\ ~TenantAccessGuard(Asks(r))
    PROVE  AInv'
  <1>1. LinkOK(r) /\ Phase(r) = "unborn"
    BY DEF AInv, ApiOK, LinkOK, Entered
  <1>2. [Next]_ovars /\ Others(r) /\ Grows /\ Phase(r)' = "unborn"
    BY <1>1, BeforeHandler
  <1>3. /\ HttpOthers(r) /\ http'[r].phase = "done" /\ http'[r].response.status = status
        /\ http'[r].asks = http[r].asks
    BY Throws
  <1>4. LinkOK(r)' /\ CauseOK(r)' /\ PassedOK(r)'
    BY <1>1, <1>2, <1>3 DEF LinkOK, CauseOK, PassedOK, Entered, Asks
  <1>5. Asks(r).header # None
    BY <1>1 DEF LinkOK
  <1>6. StatusOK(r)'
    BY <1>1, <1>2, <1>3, <1>5 DEF StatusOK, Status, Entered, Asks, Exp, Answered, TenantAccessGuard
  <1> QED
    BY <1>2, <1>3, <1>4, <1>6, ApiStep DEF ApiOK

LEMMA VerifyAInv ==
    ASSUME AInv, NEW r \in Request, Verify(r) \/ NoSigningKey(r)
    PROVE  AInv'
  <1> DEFINE token == Asks(r).header.token
  <1>1. /\ http[r].phase = "verifying" /\ LinkOK(r) /\ Phase(r) = "unborn"
        /\ UNCHANGED <<ovars, now>> /\ faults \in Nat /\ faults \in 0 .. MaxFaults
    BY ApiBoundsAssumption DEF Verify, NoSigningKey, AInv, ApiOK, LinkOK, Entered
  <1>2. token.exp \in Nat /\ now \in Nat
    BY <1>1, AsksFacts, ApiBoundsAssumption DEF LinkOK, AInv
  <1>3. CASE NoSigningKey(r)
    <2>1. /\ Throw(r, <<"nest", "Unauthorized">>, 401, <<"token">>)
          /\ faults' = faults + 1 /\ faults' \in 0 .. MaxFaults /\ faults' > 0
      BY <1>1, <1>3, ApiBoundsAssumption DEF NoSigningKey, Fault
    <2> QED
      BY <1>1, <2>1, RefusedAInv
  <1>4. CASE Verify(r) /\ ~(token.genuine /\ now < token.exp)
    <2>1. Throw(r, <<"nest", "Unauthorized">>, 401, <<"token">>) /\ faults' = faults
      BY <1>4 DEF Verify
    <2>2. ~Asks(r).header.token.genuine \/ now >= Exp(r)
      BY <1>2, <1>4 DEF Exp
    <2> QED
      BY <1>1, <2>1, <2>2, RefusedAInv
  <1>5. CASE /\ Verify(r) /\ token.genuine /\ now < token.exp
             /\ ~TenantAccessGuard(Asks(r))
    <2>1. Throw(r, <<"nest", "Forbidden">>, 403, <<"tenant">>) /\ faults' = faults
      BY <1>5 DEF Verify
    <2> QED
      BY <1>1, <1>5, <2>1, RefusedAInv
  <1>6. CASE /\ Verify(r) /\ token.genuine /\ now < token.exp
             /\ TenantAccessGuard(Asks(r))
    <2>1. http' = [http EXCEPT ![r].phase = "admitted", ![r].at = now] /\ faults' = faults
      BY <1>6 DEF Verify
    <2>2. DOMAIN http[r] = {"phase", "asks", "at", "asked", "response"}
      BY DEF AInv, Unasked
    <2>3. /\ HttpOthers(r) /\ http'[r].phase = "admitted" /\ http'[r].at = now
          /\ http'[r].asks = http[r].asks
      BY <2>1, <2>2 DEF AInv, HttpOthers, Unasked
    <2>4. [Next]_ovars /\ Others(r) /\ Grows /\ Phase(r)' = "unborn"
      BY <1>1, <2>1, BeforeHandler
    <2>5. LinkOK(r)' /\ CauseOK(r)' /\ StatusOK(r)'
      BY <1>1, <2>3, <2>4 DEF LinkOK, CauseOK, StatusOK, Entered, Asks, Answered
    <2>6. PassedOK(r)'
      BY <1>6, <2>3 DEF PassedOK, Passed, Exp, Asks, TenantAccessGuard
    <2> QED
      BY <2>3, <2>4, <2>5, <2>6, ApiStep DEF ApiOK
  <1> QED
    BY <1>3, <1>4, <1>5, <1>6

\* The handler is called, for what came and for the tenant of the token.
LEMMA HandleAInv ==
    ASSUME AInv, NEW r \in Request, Handle(r)
    PROVE  AInv' /\ [Next]_ovars
  <1> DEFINE asks == Asks(r)
  <1>1. /\ http[r].phase = "admitted" /\ LinkOK(r) /\ PassedOK(r) /\ Phase(r) = "unborn"
        /\ asks \in Http /\ asks.kind # "health" /\ asks.header # None
        /\ UNCHANGED <<now, faults>> /\ faults \in 0 .. MaxFaults /\ IInv
    BY DEF Handle, AInv, ApiOK, LinkOK, Entered
  <1>2. CASE asks.kind = "create" /\ asks.broken # {}
    <2>1. Throw(r, <<"filters", "BadRequest">>, 400, Broken(r)) /\ UNCHANGED ovars
      BY <1>2 DEF Handle
    <2>2. [Next]_ovars /\ Others(r) /\ Grows /\ Phase(r)' = "unborn"
      BY <1>1, <2>1, BeforeHandler
    <2>3. /\ HttpOthers(r) /\ http'[r].phase = "done" /\ http'[r].response.status = 400
          /\ http'[r].asks = http[r].asks /\ http'[r].at = http[r].at
      BY <2>1, Throws
    <2>4. LinkOK(r)' /\ CauseOK(r)' /\ PassedOK(r)'
      BY <1>1, <2>2, <2>3 DEF LinkOK, CauseOK, PassedOK, Entered, Asks
    <2>5. StatusOK(r)'
      BY <1>1, <1>2, <2>2, <2>3
         DEF StatusOK, Status, PassedOK, Passed, Entered, Asks, Exp, Answered, Accepted, Done,
             TenantAccessGuard
    <2> QED
      BY <2>2, <2>3, <2>4, <2>5, ApiStep DEF ApiOK
  <1>3. CASE ~(asks.kind = "create" /\ asks.broken # {})
    <2> DEFINE t == asks.header.token.tenant
               body == IF asks.kind = "create" THEN asks.body ELSE NoBody
    <2>1. /\ Enter(r, asks.kind, t, asks.amount, asks.target, body)
          /\ http' = [http EXCEPT ![r].phase = "handling", ![r].asked = now]
      BY <1>3 DEF Handle, CurrentTenant
    <2>2. /\ asks.kind \in Kinds /\ t \in Tenant /\ asks.amount \in Amounts
          /\ asks.target \in OrderId \union {None} /\ body \in Bodies
          /\ (asks.kind # "create" => asks.amount = 0 /\ body = NoBody)
          /\ (asks.kind = "findOne" <=> asks.target # None)
      BY <1>1, HttpAssumption, AsksFacts, BodiesAssumption
    <2>3. IInv' /\ Others(r) /\ [Next]_ovars /\ UNCHANGED <<stored, updates>>
      <3> HIDE DEF asks, t, body
      <3>1. Enters(r)
        BY <2>1, <2>2 DEF Enters
      <3>2. [Next]_ovars
        BY <3>1 DEF Next
      <3>3. IInv' /\ Others(r)
        BY <1>1, <2>1, <2>2, EnterIInv
      <3> QED
        BY <2>1, <3>2, <3>3 DEF Enter
    <2>4. /\ req'[r].phase \in {"loaded", "fetching"} /\ req'[r].kind = asks.kind
          /\ req'[r].tenant = t /\ req'[r].failed = FALSE /\ req'[r].body = body
      <3>1. PICK missing \in SUBSET (DOMAIN Keys) : req' = [req EXCEPT ![r] =
                   [NewRequest(asks.kind, t, asks.amount, asks.target, body) EXCEPT
                      !.phase = IF missing = {} THEN "loaded" ELSE "fetching",
                      !.missing = missing]]
        BY <2>1 DEF Enter
      <3>2. req'[r] = [NewRequest(asks.kind, t, asks.amount, asks.target, body) EXCEPT
                         !.phase = IF missing = {} THEN "loaded" ELSE "fetching",
                         !.missing = missing]
        BY <1>1, <3>1 DEF IInv, ShapeOK
      <3> QED
        BY <3>2 DEF NewRequest
    <2>5. DOMAIN http[r] = {"phase", "asks", "at", "asked", "response"}
      BY DEF AInv, Unasked
    <2>6. /\ HttpOthers(r) /\ http'[r].phase = "handling" /\ http'[r].at = http[r].at
          /\ http'[r].asks = http[r].asks
      BY <2>1, <2>5 DEF AInv, HttpOthers, Unasked
    <2>7. LinkOK(r)' /\ CauseOK(r)' /\ StatusOK(r)'
      BY <1>1, <1>3, <2>4, <2>6 DEF LinkOK, CauseOK, StatusOK, Entered, Phase, Asks, Answered
    <2>8. PassedOK(r)'
      BY <1>1, <2>6 DEF PassedOK, Passed, Exp, Asks, TenantAccessGuard
    <2>9. Grows
      BY <1>1, <2>3 DEF Grows, AInv
    <2> QED
      BY <2>3, <2>6, <2>7, <2>8, <2>9, ApiStep DEF ApiOK
  <1> QED
    BY <1>2, <1>3

\* While the handler is at work: what is left to show of a request.
LEMMA HandlerAInv ==
    ASSUME AInv, NEW r \in Request, [Next]_ovars, Others(r), HttpOthers(r),
           http[r].phase = "handling", http'[r].phase = "handling",
           http'[r].asks = http[r].asks, http'[r].at = http[r].at,
           req'[r].phase \notin {"unborn", "done"}, req'[r].kind = req[r].kind,
           req'[r].tenant = req[r].tenant, req'[r].body = req[r].body, Grows, CauseOK(r)'
    PROVE  AInv'
  <1>1. LinkOK(r)' /\ StatusOK(r)'
    BY DEF AInv, ApiOK, LinkOK, StatusOK, Entered, Phase, Asks, Answered
  <1>2. PassedOK(r)'
    BY DEF AInv, ApiOK, PassedOK, Passed, Exp, Asks, TenantAccessGuard
  <1> QED
    BY <1>1, <1>2, ApiStep DEF ApiOK

\* A fetch that fails has one of its causes.
LEMMA FetchedAInv ==
    ASSUME AInv, NEW r \in Request, Fetched(r)
    PROVE  AInv' /\ [Next]_ovars
  <1>1. /\ Answer(r) /\ Phase(r) = "fetching" /\ http[r].phase = "handling" /\ LinkOK(r)
        /\ UNCHANGED <<now, http, stored, updates>> /\ CauseOK(r) /\ IInv
    BY DEF Fetched, Answer, AInv, ApiOK
  <1>2. [Next]_ovars /\ Others(r)
    BY <1>1, AnswerIInv DEF Next
  <1>3. /\ req'[r].phase = "answered" /\ req'[r].kind = req[r].kind
        /\ req'[r].tenant = req[r].tenant /\ req'[r].failed = req[r].failed
        /\ req'[r].missing = req[r].missing /\ req'[r].body = req[r].body
    <2>1. PICK reply : req' = [req EXCEPT ![r].phase = "answered", ![r].reply = reply]
      BY <1>1 DEF Answer
    <2>2. req'[r] = [req[r] EXCEPT !.phase = "answered", !.reply = reply]
      BY <1>1, <2>1 DEF IInv, ShapeOK
    <2> QED
      BY <1>1, <2>2 DEF IInv, ShapeOK, Fields
  <1>4. faults' \in {faults, faults + 1} /\ faults' \in 0 .. MaxFaults /\ Grows
    <2>1. faults' = faults \/ Fault
      BY DEF Fetched
    <2> QED
      BY <1>1, <2>1, ApiBoundsAssumption DEF Fault, AInv, Grows
  <1>5. HttpOthers(r)
    BY <1>1 DEF HttpOthers, AInv
  <1>6. extractToken(createAuthMetadata(Asks(r).header)) = Asks(r).header.token
    <2>1. Asks(r).header \in [bearer : BOOLEAN, token : Token]
      BY <1>1, HttpAssumption DEF LinkOK, Header
    <2>2. createAuthMetadata(Asks(r).header) \in [bearer : BOOLEAN, token : Token]
      BY <2>1 DEF createAuthMetadata
    <2> QED
      BY <2>1, <2>2, HttpAssumption DEF createAuthMetadata, extractToken
  <1>7. Asks(r).header.token # None /\ Exp(r) \in Nat /\ now \in Nat
    BY <1>1, AsksFacts, TokenAssumption, ApiBoundsAssumption DEF LinkOK, AInv, Exp
  <1>8. req'[r].reply = Error /\ Keys[At(r)] = Payment => Cause(r)'
    <2> SUFFICES ASSUME req'[r].reply = Error, Keys[At(r)] = Payment PROVE Cause(r)'
      OBVIOUS
    <2>1. \/ ~(now < Asks(r).header.token.exp)
          \/ stored[req[r].tenant] = None
          \/ Fault
      BY <1>6, <1>7 DEF Fetched
    <2>2. CASE Fault
      BY <2>2, ApiBoundsAssumption DEF Fault, Cause, AInv
    <2>3. CASE ~(now < Asks(r).header.token.exp)
      BY <1>1, <1>7, <2>3 DEF Cause, Exp, Asks
    <2>4. CASE stored[req[r].tenant] = None
      BY <1>1, <1>3, <2>4 DEF Cause
    <2> QED
      BY <2>1, <2>2, <2>3, <2>4
  <1>9. CauseOK(r)'
    <2>1. At(r)' = At(r)
      BY <1>3 DEF At
    <2>2. req'[r].failed => Cause(r)'
      BY <1>1, <1>3, <1>4, CauseStays DEF CauseOK, Entered
    <2> QED
      BY <1>8, <2>1, <2>2 DEF CauseOK
  <1> QED
    BY <1>1, <1>2, <1>3, <1>4, <1>5, <1>9, HandlerAInv

LEMMA ResumeAInv ==
    ASSUME AInv, NEW r \in Request, Resume(r)
    PROVE  AInv' /\ [Next]_ovars
  <1> DEFINE rest == req[r].missing \ {At(r)}
             failed == req[r].failed \/ (Keys[At(r)] = Payment /\ req[r].reply = Error)
  <1>1. /\ Receive(r) /\ Phase(r) = "answered" /\ LinkOK(r) /\ CauseOK(r) /\ IInv
        /\ UNCHANGED <<now, faults, stored, updates>> /\ http[r].phase = "handling"
    BY DEF Resume, Receive, AInv, ApiOK, LinkOK, Entered
  <1>2. [Next]_ovars /\ Others(r)
    BY <1>1, ReceiveIInv DEF Next, Step
  <1>3. /\ req'[r].phase \in {"loaded", "fetching"} /\ req'[r].kind = req[r].kind
        /\ req'[r].tenant = req[r].tenant /\ (req'[r].failed <=> failed)
        /\ req'[r].body = req[r].body
    <2>1. req' = [req EXCEPT
                    ![r].phase = IF rest = {} THEN "loaded" ELSE "fetching",
                    ![r].missing = rest, ![r].reply = None,
                    ![r].failed = @ \/ (Keys[At(r)] = Payment /\ req[r].reply = Error)]
      BY <1>1 DEF Receive
    <2>2. req'[r] = [req[r] EXCEPT
                       !.phase = IF rest = {} THEN "loaded" ELSE "fetching",
                       !.missing = rest, !.reply = None,
                       !.failed = @ \/ (Keys[At(r)] = Payment /\ req[r].reply = Error)]
      BY <1>1, <2>1 DEF IInv, ShapeOK
    <2> QED
      BY <1>1, <2>2 DEF IInv, ShapeOK, Fields
  <1>4. Grows
    BY <1>1 DEF Grows, AInv
  <1>5. PICK asked : http' = [http EXCEPT ![r].asked = asked]
    BY DEF Resume
  <1>6. /\ HttpOthers(r) /\ http'[r].phase = http[r].phase
        /\ http'[r].asks = http[r].asks /\ http'[r].at = http[r].at
    <2>1. DOMAIN http[r] = {"phase", "asks", "at", "asked", "response"}
      BY DEF AInv, Unasked
    <2> QED
      BY <1>5, <2>1 DEF AInv, HttpOthers, Unasked
  <1>7. CauseOK(r)'
    <2>1. failed => Cause(r)
      BY <1>1 DEF CauseOK, Entered
    <2>2. Cause(r) => Cause(r)'
      BY <1>1, <1>3, <1>4, <1>6, CauseStays DEF Entered
    <2> QED
      BY <1>3, <2>1, <2>2 DEF CauseOK, Phase
  <1> QED
    BY <1>1, <1>2, <1>3, <1>4, <1>6, <1>7, HandlerAInv

\* The response says what the handler has said.
LEMMA WorkAInv ==
    ASSUME AInv, NEW r \in Request, Work(r)
    PROVE  AInv' /\ [Next]_ovars
  <1>1. /\ Validate(r) \/ Push(r) \/ FindAll(r) \/ FindOne(r)
        /\ LinkOK(r) /\ CauseOK(r) /\ PassedOK(r) /\ IInv
        /\ UNCHANGED <<now, faults, stored, updates>>
    BY DEF Work, Validate, Push, FindAll, FindOne, AInv, ApiOK
  <1>2. [Next]_ovars /\ Others(r)
    BY <1>1, ValidateIInv, PushIInv, FindIInv DEF Next, Step
  <1>3. http[r].phase = "handling" /\ Phase(r) \in {"loaded", "validated"}
    BY <1>1 DEF LinkOK, Validate, Push, FindAll, FindOne, Entered
  <1>4. /\ req'[r].phase \in {"validated", "done"} /\ req'[r].kind = req[r].kind
        /\ req'[r].tenant = req[r].tenant /\ req'[r].failed = req[r].failed
        /\ req'[r].body = req[r].body
    <2>1. CASE req' = [req EXCEPT ![r].phase = "validated", ![r].checked = cache[Payment] # None]
      <3>1. req'[r] = [req[r] EXCEPT !.phase = "validated", !.checked = cache[Payment] # None]
        BY <1>1, <2>1 DEF IInv, ShapeOK
      <3> QED
        BY <1>1, <3>1 DEF IInv, ShapeOK, Fields
    <2>2. ASSUME NEW a, Reply(r, a)
          PROVE  /\ req'[r].phase \in {"validated", "done"} /\ req'[r].kind = req[r].kind
                 /\ req'[r].tenant = req[r].tenant /\ req'[r].failed = req[r].failed
                 /\ req'[r].body = req[r].body
      BY <1>1, <2>2, ReplyStep
    <2> QED
      BY <1>1, <2>1, <2>2, PushStep DEF Validate, FindAll, FindOne
  <1>5. Grows
    BY <1>1 DEF Grows, AInv
  <1>6. req'[r].failed => Cause(r)' \/ Cause(r)
    BY <1>1, <1>3, <1>4 DEF CauseOK, Entered
  <1>7. CASE req'[r].phase # "done"
    <2>1. UNCHANGED http /\ HttpOthers(r)
      BY <1>7 DEF Work, HttpOthers, AInv, Phase
    <2>2. CauseOK(r)'
      BY <1>3, <1>4, <1>5, <1>6, <2>1, CauseStays DEF CauseOK, Entered, Phase
    <2> QED
      BY <1>2, <1>3, <1>4, <1>5, <1>7, <2>1, <2>2, HandlerAInv
  <1>8. CASE req'[r].phase = "done"
    <2>1. PICK status \in {200, 201, 400} :
            /\ HttpOthers(r) /\ http'[r].phase = "done" /\ http'[r].response.status = status
            /\ http'[r].asks = http[r].asks /\ http'[r].at = http[r].at
            /\ status = 400 <=> req'[r].answer = Error
            /\ status = 201 <=> req'[r].answer # Error /\ Asks(r).kind = "create"
      <3>1. CASE req'[r].answer = Error
        <4>1. Throw(r, <<"nest", "BadRequest">>, 400, <<"order">>)
          BY <1>8, <3>1 DEF Work
        <4> QED
          BY <3>1, <4>1, Throws
      <3>2. CASE req'[r].answer # Error
        <4>1. Respond(r, OK(Asks(r).kind))
          BY <1>8, <3>2 DEF Work
        <4>2. OK(Asks(r).kind).status = IF Asks(r).kind = "create" THEN 201 ELSE 200
          BY DEF OK
        <4> QED
          BY <3>2, <4>1, <4>2, Responds
      <3> QED
        BY <3>1, <3>2
    <2>2. CauseOK(r)'
      BY <1>3, <1>4, <1>5, <1>6, <1>8, <2>1, CauseStays DEF CauseOK, Entered, Phase
    <2>3. LinkOK(r)' /\ PassedOK(r)'
      BY <1>1, <1>3, <1>4, <1>8, <2>1 DEF LinkOK, PassedOK, Entered, Phase, Asks
    <2>4. StatusOK(r)'
      <3>1. Passed(r) /\ Asks(r).header # None /\ Asks(r).header.token.genuine
        BY <1>1, <1>3 DEF PassedOK, Passed, LinkOK
      <3>2. Passed(r)' /\ Asks(r)' = Asks(r) /\ Status(r)' = status
        BY <2>1, <3>1 DEF Passed, Exp, Asks, Status, TenantAccessGuard
      <3>3. ~(Asks(r).kind = "create" /\ Asks(r).broken # {}) /\ req'[r].kind = Asks(r).kind
        BY <1>1, <1>3, <1>4 DEF LinkOK, Entered
      <3>4. Done(r)' /\ (Accepted(r)' <=> req'[r].kind = "create" /\ req'[r].answer # Error)
        BY <1>8 DEF Done, Accepted, Phase
      <3> QED
        BY <2>1, <3>1, <3>2, <3>3, <3>4 DEF StatusOK
    <2> QED
      BY <1>2, <1>5, <2>1, <2>2, <2>3, <2>4, ApiStep DEF ApiOK
  <1> QED
    BY <1>4, <1>7, <1>8

\* A step of no request.
LEMMA RestAInv ==
    ASSUME AInv, IInv', UNCHANGED <<http, req>>, Grows
    PROVE  AInv'
  <1>1. \A r \in Request : ApiOK(r)'
    BY RestStays
  <1> QED
    BY <1>1 DEF AInv, Grows

LEMMA NextAInv == AInv /\ [ApiNext]_avars => AInv' /\ [Next]_ovars
  <1> SUFFICES ASSUME AInv, [ApiNext]_avars PROVE AInv' /\ [Next]_ovars
    OBVIOUS
  <1>1. CASE UNCHANGED avars \/ Tick
    <2>1. [Next]_ovars /\ UNCHANGED <<ovars, http, req>>
      BY <1>1 DEF avars, ovars, Tick
    <2>2. Grows
      BY <1>1, ApiBoundsAssumption DEF avars, ovars, Tick, Grows, AInv
    <2> QED
      BY <2>1, <2>2, NextIInv, RestAInv DEF AInv
  <1>2. CASE /\ \/ \E t \in Tenant : Deactivate(t)
                \/ \E t \in Tenant, g \in Gateway \union {None}, m \in Amounts :
                      UpdateConfig(t, g, m)
             /\ UNCHANGED <<now, faults, http>>
    <2>1. [Next]_ovars
      BY <1>2 DEF Next
    <2>2. IInv' /\ UNCHANGED <<http, req>> /\ updates' > 0
      <3>1. IInv' /\ UNCHANGED <<http, req>>
        BY <1>2, StoreIInv DEF AInv
      <3>2. updates' = updates + 1
        BY <1>2 DEF Deactivate, UpdateConfig
      <3>3. updates \in Nat
        BY MaxUpdatesAssumption DEF AInv, IInv, StoreOK
      <3> QED
        BY <3>1, <3>2, <3>3
    <2>3. Grows
      BY <1>2, <2>2 DEF Grows, AInv
    <2> QED
      BY <2>1, <2>2, <2>3, RestAInv
  <1>3. ASSUME NEW r \in Request,
               \/ \E asks \in Http : Arrive(r, asks)
               \/ Verify(r) \/ NoSigningKey(r)
        PROVE  AInv' /\ [Next]_ovars
    <2>1. UNCHANGED ovars
      BY <1>3 DEF Arrive, Verify, NoSigningKey
    <2> QED
      BY <1>3, <2>1, ArriveAInv, VerifyAInv
  <1>4. ASSUME NEW r \in Request, Handle(r) \/ Fetched(r) \/ Resume(r) \/ Work(r)
        PROVE  AInv' /\ [Next]_ovars
    BY <1>4, HandleAInv, FetchedAInv, ResumeAInv, WorkAInv
  <1> QED
    BY <1>1, <1>2, <1>3, <1>4 DEF ApiNext

-----------------------------------------------------------------------------
(* The theorems.                                                            *)

\* Behind guards and pipe the handlers do what OrderService says and nothing else:
\* what is proved of OrderService holds of the requests that come in by HTTP.
THEOREM HandlersBehindGuards == ApiSpec => Spec
  <1>1. ApiInit => Init
    BY DEF ApiInit
  <1> QED
    BY <1>1, InitAInv, NextAInv, PTL DEF ApiSpec, Spec

\* The requests that come in by HTTP keep the book of orders.
THEOREM ApiKeepsBook == ApiSpec => ImplementsOrderBook
  BY HandlersBehindGuards, BookKept

\* The health endpoint answers, whatever comes with the request.
HealthOK(r) == Answered(r) /\ Asks(r).kind = "health" => Status(r) = 200

\* A request that comes is answered at once or goes on to be verified.
LEMMA ArriveStep ==
    ASSUME AInv, NEW r \in Request, NEW asks \in Http, Arrive(r, asks)
    PROVE  /\ HttpOthers(r) /\ http'[r].asks = asks
           /\ http'[r].phase = "done" =>
                 http'[r].response.status = IF asks.kind = "health" THEN 200 ELSE 401
           /\ asks.kind = "health" => http'[r].phase = "done"
  <1>1. DOMAIN http[r] = {"phase", "asks", "at", "asked", "response"}
    BY DEF AInv, Unasked
  <1>2. CASE asks.kind = "health" \/ extractToken(asks.header) = None
    <2>1. PICK response :
            /\ http' = [[http EXCEPT ![r].asks = asks]
                          EXCEPT ![r].phase = "done", ![r].response = response]
            /\ response = IF asks.kind = "health" THEN OK("health")
                          ELSE Laid(Exception(<<"nest", "Unauthorized">>, 401, <<"token">>))
      BY <1>2 DEF Arrive
    <2>2. HttpOthers(r) /\ http'[r].asks = asks /\ http'[r].phase = "done"
          /\ http'[r].response = response
      BY <1>1, <2>1 DEF AInv, HttpOthers, Unasked
    <2>3. response.status = IF asks.kind = "health" THEN 200 ELSE 401
      BY <2>1, LaidStatus DEF OK
    <2> QED
      BY <2>2, <2>3
  <1>3. CASE asks.kind # "health" /\ extractToken(asks.header) # None
    <2>1. http' = [[http EXCEPT ![r].asks = asks] EXCEPT ![r].phase = "verifying"]
      BY <1>3 DEF Arrive
    <2>2. HttpOthers(r) /\ http'[r].asks = asks /\ http'[r].phase = "verifying"
      BY <1>1, <2>1 DEF AInv, HttpOthers, Unasked
    <2> QED
      BY <1>3, <2>2
  <1> QED
    BY <1>2, <1>3

\* The steps of a request that is under way touch nothing else on the HTTP side.
LEMMA LaterSteps ==
    ASSUME AInv, NEW r \in Request,
           \/ Verify(r) \/ NoSigningKey(r) \/ Handle(r) \/ Resume(r)
           \/ Work(r) /\ ~UNCHANGED http
    PROVE  /\ http[r].phase \in {"verifying", "admitted", "handling"}
           /\ HttpOthers(r) /\ http'[r].asks = http[r].asks
  <1>1. http[r].phase \in {"verifying", "admitted", "handling"}
    <2>1. LinkOK(r)
      BY DEF AInv, ApiOK
    <2> QED
      BY <2>1
         DEF LinkOK, Entered, Verify, NoSigningKey, Handle, Resume, Receive, Work, Validate, Push,
             FindAll, FindOne
  <1>2. CASE \/ \E response : Respond(r, response)
             \/ \E class, status, messages : Throw(r, class, status, messages)
    BY <1>1, <1>2, Responds, Throws
  <1>3. CASE \/ http' = [http EXCEPT ![r].phase = "admitted", ![r].at = now]
             \/ http' = [http EXCEPT ![r].phase = "handling", ![r].asked = now]
             \/ \E asked : http' = [http EXCEPT ![r].asked = asked]
    <2>1. DOMAIN http[r] = {"phase", "asks", "at", "asked", "response"}
      BY DEF AInv, Unasked
    <2> QED
      BY <1>1, <1>3, <2>1 DEF AInv, HttpOthers, Unasked
  <1>4. \/ \E response : Respond(r, response)
        \/ \E class, status, messages : Throw(r, class, status, messages)
        \/ http' = [http EXCEPT ![r].phase = "admitted", ![r].at = now]
        \/ http' = [http EXCEPT ![r].phase = "handling", ![r].asked = now]
        \/ \E asked : http' = [http EXCEPT ![r].asked = asked]
    BY DEF Verify, NoSigningKey, Handle, Resume, Work
  <1> QED
    BY <1>1, <1>2, <1>3, <1>4

LEMMA HealthStays ==
    ASSUME AInv, [ApiNext]_avars, \A r \in Request : HealthOK(r)
    PROVE  \A r \in Request : HealthOK(r)'
  <1>1. ASSUME NEW r \in Request, HttpOthers(r), HealthOK(r)'
        PROVE  \A x \in Request : HealthOK(x)'
    <2>1. ASSUME NEW x \in Request, x # r PROVE HealthOK(x)'
      BY <1>1, <2>1 DEF HttpOthers, HealthOK, Answered, Asks, Status
    <2> QED
      BY <1>1, <2>1
  <1>2. CASE UNCHANGED http
    BY <1>2 DEF HealthOK, Answered, Asks, Status
  <1>3. ASSUME NEW r \in Request, NEW asks \in Http, Arrive(r, asks)
        PROVE  HttpOthers(r) /\ HealthOK(r)'
    BY <1>3, ArriveStep DEF HealthOK, Answered, Asks, Status
  <1>4. ASSUME NEW r \in Request, http[r].phase \in {"verifying", "admitted", "handling"},
               HttpOthers(r), http'[r].asks = http[r].asks
        PROVE  HealthOK(r)'
    BY <1>4 DEF AInv, ApiOK, LinkOK, HealthOK, Asks
  <1>5. ASSUME NEW r \in Request,
               \/ Verify(r) \/ NoSigningKey(r) \/ Handle(r) \/ Resume(r)
               \/ Work(r) /\ ~UNCHANGED http
        PROVE  HttpOthers(r) /\ HealthOK(r)'
    BY <1>4, <1>5, LaterSteps
  <1> QED
    BY <1>1, <1>2, <1>3, <1>5 DEF ApiNext, Fetched, Tick, avars

\* The phases of a request and of its handler belong together.
THEOREM ApiTypeCorrect == ApiSpec => []ApiTypeOK
  <1> DEFINE Healthy == \A r \in Request : HealthOK(r)
  <1>1. ApiInit => Healthy
    BY DEF ApiInit, Unasked, HealthOK, Answered
  <1>2. AInv /\ Healthy => ApiTypeOK
    BY DEF AInv, ApiOK, LinkOK, StatusOK, HealthOK, ApiTypeOK, Entered, Answered
  <1>3. AInv /\ Healthy /\ [ApiNext]_avars => Healthy'
    BY HealthStays
  <1> QED
    BY <1>1, <1>2, <1>3, InitAInv, NextAInv, PTL DEF ApiSpec

\* The status of a response tells what became of the request.
THEOREM StatusIsTrue == ApiSpec => []StatusTells
  <1> DEFINE Books == \A r \in Request : OneOrder(r)
  <1>1. ApiInit => Books
    BY DEF ApiInit, Init, OneOrder, Accepted, OrdersBy, Phase, Unborn, NewRequest
  <1>2. AInv /\ Books /\ [ApiNext]_avars => Books'
    BY NextAInv, StepOneOrder DEF AInv
  <1>3. AInv /\ Books => StatusTells
    <2> SUFFICES ASSUME AInv, Books, NEW r \in Request, Answered(r), Asks(r).kind # "health"
                 PROVE  LET asks == Asks(r)
                            bad == asks.header = None \/ ~asks.header.token.genuine
                        IN  CASE Status(r) = 401 -> bad \/ now >= Exp(r) \/ faults > 0
                              [] Status(r) = 403 ->
                                   /\ ~bad /\ ~asks.header.token.admin
                                   /\ extractRequestedTenantId(asks)
                                         \notin {None, asks.header.token.tenant}
                              [] OTHER ->
                                   /\ ~bad /\ http[r].at < Exp(r)
                                   /\ \/ asks.header.token.admin
                                      \/ extractRequestedTenantId(asks)
                                            \in {None, asks.header.token.tenant}
                                   /\ Status(r) = 400 <=>
                                         \/ asks.kind = "create" /\ asks.broken # {}
                                         \/ Done(r) /\ req[r].answer = Error
                                   /\ Status(r) = 201 <=> \E i \in DOMAIN orders : orders[i].by = r
      BY DEF StatusTells
    <2>1. StatusOK(r)
      BY DEF AInv, ApiOK
    <2>2. Accepted(r) <=> \E i \in DOMAIN orders : orders[i].by = r
      BY DEF OneOrder, OrdersBy
    <2> QED
      BY <2>1, <2>2 DEF StatusOK, Passed, TenantAccessGuard
  <1> QED
    BY <1>1, <1>2, <1>3, InitAInv, NextAInv, PTL DEF ApiSpec

\* An order is the tenant's its body names, and otherwise its request's.
OwnerOK(i) ==
    LET r == orders[i].by
    IN  /\ r \in Request /\ Phase(r) = "done" /\ req[r].kind = "create"
        /\ orders[i].tenant = Spread(req[r].body.tenant, req[r].tenant)

LEMMA OwnersStay ==
    ASSUME IInv, [Next]_ovars, \A i \in DOMAIN orders : OwnerOK(i)
    PROVE  \A i \in DOMAIN orders' : OwnerOK(i)'
  <1>1. ASSUME NEW i \in DOMAIN orders, orders'[i] = orders[i] PROVE OwnerOK(i)'
    BY <1>1, DoneStays DEF OwnerOK, Phase
  <1>2. CASE orders' = orders
    BY <1>1, <1>2
  <1>3. ASSUME NEW r \in Request, Push(r) PROVE \A i \in DOMAIN orders' : OwnerOK(i)'
    <2>1. PICK order \in Order :
              /\ order.by = r
              /\ order.tenant = Spread(req[r].body.tenant, req[r].tenant)
              /\ orders' = Append(orders, order) /\ Reply(r, order) /\ req[r].kind = "create"
      BY <1>3, PushStep
    <2>2. /\ req'[r].phase = "done" /\ req'[r].tenant = req[r].tenant
          /\ req'[r].body = req[r].body /\ req'[r].kind = "create"
      BY <2>1, ReplyStep
    <2>3. ASSUME NEW i \in DOMAIN orders', i \notin DOMAIN orders PROVE OwnerOK(i)'
      <3>1. orders'[i] = order
        BY <2>1, <2>3 DEF IInv
      <3> QED
        BY <2>1, <2>2, <3>1 DEF OwnerOK, Phase
    <2>4. \A i \in DOMAIN orders : orders'[i] = orders[i]
      BY <2>1 DEF IInv
    <2> QED
      BY <1>1, <2>3, <2>4
  <1> QED
    BY <1>2, <1>3
       DEF Next, Step, Enters, Enter, Answer, Receive, Validate, FindAll, FindOne, Deactivate,
           UpdateConfig, ovars

\* An order without a configuration, or unchecked, has one of three causes.
THEOREM UncheckedIsExplained == ApiSpec => []UncheckedHasACause
  <1> DEFINE Owners == \A i \in DOMAIN orders : OwnerOK(i)
  <1>1. AInv /\ EntryInv /\ Owners => UncheckedHasACause
    <2> SUFFICES ASSUME AInv, EntryInv, Owners, NEW i \in DOMAIN orders,
                        orders[i].config = None \/ ~req[orders[i].by].checked
                 PROVE  \/ faults > 0
                        \/ now >= Exp(orders[i].by)
                        \/ stored[req[orders[i].by].tenant] = None \/ updates > 0
      BY DEF UncheckedHasACause
    <2>1. OwnerOK(i) /\ req[orders[i].by].failed
      BY DEF EntryInv, StampOK
    <2>2. CauseOK(orders[i].by)
      BY <2>1 DEF OwnerOK, AInv, ApiOK
    <2> QED
      BY <2>1, <2>2 DEF CauseOK, Cause, Entered, OwnerOK
  <1>2. ApiInit => Owners
    BY DEF ApiInit, Init
  <1>3. AInv /\ Owners /\ [ApiNext]_avars => Owners'
    BY NextAInv, OwnersStay DEF AInv
  <1> QED
    BY <1>1, <1>2, <1>3, InitAInv, NextAInv, EntryInductive, PTL DEF ApiSpec, ApiInit

\* A request that its handler is done with has passed the guards.
LEMMA DonePassed ==
    ASSUME AInv, NEW r \in Request, Done(r)
    PROVE  Passed(r)
  <1>1. LinkOK(r) /\ StatusOK(r) /\ Entered(r)
    BY DEF AInv, ApiOK, Done, Entered
  <1>2. Answered(r) /\ Asks(r).kind # "health"
    BY <1>1 DEF LinkOK, Entered, Done, Answered
  <1> QED
    BY <1>1, <1>2 DEF StatusOK

\* Only an administrator creates an order for another tenant, the one its body names; an
\* order may be no tenant's; and what is shown is the token's tenant's.
THEOREM OthersAreAdministrators == ApiSpec => []NobodyActsForOthers
  <1> DEFINE Owners == \A i \in DOMAIN orders : OwnerOK(i)
  <1>1. AInv /\ AnswersInv /\ Owners => NobodyActsForOthers
    <2> SUFFICES ASSUME AInv, AnswersInv, Owners, NEW r \in Request, Entered(r)
                 PROVE  LET token == Asks(r).header.token
                            shown == IF ~Done(r) \/ req[r].answer = Error
                                           \/ req[r].kind = "create" THEN {}
                                     ELSE IF req[r].kind = "findAll" THEN Range(req[r].answer)
                                     ELSE {req[r].answer}
                        IN  /\ \A o \in shown : o.tenant = token.tenant
                            /\ \A i \in DOMAIN orders :
                                  orders[i].by = r /\ orders[i].tenant # token.tenant =>
                                      /\ orders[i].tenant = Asks(r).body.tenant
                                      /\ token.admin \/ orders[i].tenant = Blank
      BY DEF NobodyActsForOthers, Entered
    <2> DEFINE t == req[r].tenant
    <2>1. /\ t = Asks(r).header.token.tenant /\ req[r].kind \in {"create", "findAll", "findOne"}
          /\ LinkOK(r) /\ Asks(r) \in Http
      BY KindsAssumption DEF AInv, ApiOK, LinkOK, IInv, RequestOK, AsksOK, Entered
    <2>2. ASSUME NEW i \in DOMAIN orders, orders[i].by = r, orders[i].tenant # t
          PROVE  /\ orders[i].tenant = Asks(r).body.tenant
                 /\ Asks(r).header.token.admin \/ orders[i].tenant = Blank
      <3>1. OwnerOK(i) /\ Done(r) /\ req[r].kind = "create"
        BY <2>2 DEF OwnerOK, Done
      <3>2. Asks(r).body.tenant # None /\ orders[i].tenant = Asks(r).body.tenant
        BY <2>1, <2>2, <3>1 DEF OwnerOK, Spread, LinkOK
      <3>3. Asks(r).body.tenant \in Tenant \union {Blank}
        BY <2>1, <3>2, HttpAssumption, BodiesAssumption DEF Body
      <3>4. TenantAccessGuard(Asks(r))
        BY <3>1, DonePassed DEF Passed
      <3> QED
        BY <2>1, <2>2, <3>2, <3>3, <3>4 DEF TenantAccessGuard, extractRequestedTenantId
    <2>3. ASSUME Done(r), req[r].answer # Error, req[r].kind = "findAll",
                 NEW o \in Range(req[r].answer)
          PROVE  o.tenant = t
      <3>1. PICK n \in req[r].known .. Len(orders) :
              req[r].answer = OfTenant(SubSeq(orders, 1, n), t)
        BY <2>3 DEF AnswersInv, ListOK, Done
      <3>2. PICK list, u : list = SubSeq(orders, 1, n) /\ u = t
        OBVIOUS
      <3>3. list \in Seq(Order)
        BY <3>2 DEF AInv, IInv, RequestOK, FetchOK
      <3>4. Elements(OfTenant(list, u)) = {e \in Elements(list) : e.tenant = u}
        BY <3>3, KeptElements
      <3>5. req[r].answer = OfTenant(list, u)
        BY <3>1, <3>2
      <3>6. o \in Elements(OfTenant(list, u))
        BY <2>3, <3>5 DEF Range, Elements
      <3> QED
        BY <3>2, <3>4, <3>6
    <2>4. ASSUME Done(r), req[r].answer # Error, req[r].kind = "findOne"
          PROVE  req[r].answer.tenant = t
      BY <2>4 DEF AnswersInv, FoundOK, Done, Fits
    <2> HIDE DEF t
    <2> QED
      BY <2>1, <2>2, <2>3, <2>4
  <1>2. ApiInit => Owners
    BY DEF ApiInit, Init
  <1>3. AInv /\ Owners /\ [ApiNext]_avars => Owners'
    BY NextAInv, OwnersStay DEF AInv
  <1>4. AInv /\ AnswersInv /\ [ApiNext]_avars => AnswersInv'
    BY NextAInv, AnswersInductive
  <1> QED
    BY <1>1, <1>2, <1>3, <1>4, InitAInv, NextAInv, AnswersInductive, PTL DEF ApiSpec, ApiInit

-----------------------------------------------------------------------------
(* What a response names.                                                    *)

\* The pipe's exception is that of libs/filters, and its filter is asked before
\* AllExceptionsFilter.
LEMMA PipesFilter == FilterOf(<<"filters", "BadRequest">>) = "BadRequest"
  <1> DEFINE class == <<"filters", "BadRequest">>
             fits == {n \in DOMAIN Providers : Catches(Providers[n], class)}
  <1>1. DOMAIN Providers = 1 .. 6
    BY DEF Providers
  <1>2. /\ Providers[1] = "All" /\ Providers[2] = "BadRequest" /\ Providers[3] = "Forbidden"
        /\ Providers[4] = "InternalServerError" /\ Providers[5] = "NotFound"
        /\ Providers[6] = "Unauthorized"
    BY DEF Providers
  <1>3. /\ Catches("All", class) /\ Catches("BadRequest", class)
        /\ ~Catches("Forbidden", class) /\ ~Catches("InternalServerError", class)
        /\ ~Catches("NotFound", class) /\ ~Catches("Unauthorized", class)
    BY DEF Catches
  <1>4. fits = {1, 2}
    <2> HIDE DEF class
    <2>1. 1 .. 6 = {1, 2, 3, 4, 5, 6}
      OBVIOUS
    <2> QED
      BY <1>1, <1>2, <1>3, <2>1
  <1>5. Max({1, 2}) = 2
    BY DEF Max
  <1> QED
    BY <1>2, <1>4, <1>5 DEF FilterOf

\* SetToSeq leaves nothing out.
LEMMA SetToSeqRange ==
    ASSUME NEW S, IsFiniteSet(S)
    PROVE  Range(SetToSeq(S)) = S
  <1> DEFINE n == Cardinality(S)
             f == SetToSeq(S)
  <1>1. n \in Nat /\ IsFiniteSet(1 .. n) /\ Cardinality(1 .. n) = n
    BY FS_CardinalityType, FS_Interval
  <1>2. f \in Injection(1 .. n, S)
    <2>1. \E g \in [1 .. n -> S] : IsInjective(g)
      BY FS_CardinalityType DEF ExistsBijection, Bijection, Injection
    <2>2. f \in [1 .. n -> S] /\ IsInjective(f)
      BY <2>1 DEF SetToSeq
    <2> HIDE DEF f
    <2> QED
      BY <2>2 DEF Injection
  <1> HIDE DEF f
  <1>3. f \in Surjection(1 .. n, S)
    BY <1>1, <1>2, FS_Injection
  <1>4. Range(f) = S
    BY <1>3 DEF Surjection, Range
  <1> QED
    BY <1>4 DEF f

\* ErrorsTellAll, of one request.
ErrorsOK(r) ==
    Answered(r) /\ Phase(r) = "unborn" /\ Status(r) = 400 =>
        Range(http[r].response.messages) = Asks(r).broken

LEMMA ErrorsStay ==
    ASSUME AInv, [ApiNext]_avars, \A r \in Request : ErrorsOK(r)
    PROVE  \A r \in Request : ErrorsOK(r)'
  <1>1. [Next]_ovars
    BY NextAInv
  <1>2. ASSUME NEW x \in Request, http'[x] = http[x] PROVE ErrorsOK(x)'
    <2>1. Answered(x) /\ Phase(x)' = "unborn" => Phase(x) = "unborn"
      BY <1>1, DoneStays DEF AInv, ApiOK, LinkOK, Answered, Phase
    <2> QED
      BY <1>2, <2>1 DEF ErrorsOK, Answered, Status, Asks
  <1>3. ASSUME NEW r \in Request, HttpOthers(r), ErrorsOK(r)'
        PROVE  \A x \in Request : ErrorsOK(x)'
    BY <1>2, <1>3 DEF HttpOthers
  <1>4. CASE UNCHANGED http
    BY <1>2, <1>4
  <1>5. ASSUME NEW r \in Request, NEW asks \in Http, Arrive(r, asks)
        PROVE  HttpOthers(r) /\ ErrorsOK(r)'
    BY <1>5, ArriveStep DEF ErrorsOK, Answered, Status
  <1>6. ASSUME NEW r \in Request, Verify(r) \/ NoSigningKey(r)
        PROVE  HttpOthers(r) /\ ErrorsOK(r)'
    <2>1. \/ http' = [http EXCEPT ![r].phase = "admitted", ![r].at = now]
          \/ \E class, messages : Throw(r, class, 401, messages)
          \/ \E class, messages : Throw(r, class, 403, messages)
      BY <1>6 DEF Verify, NoSigningKey
    <2>2. CASE http' = [http EXCEPT ![r].phase = "admitted", ![r].at = now]
      <3>1. http'[r].phase = "admitted"
        BY <2>2 DEF AInv, Unasked
      <3> QED
        BY <1>6, <3>1, LaterSteps DEF ErrorsOK, Answered
    <2>3. ASSUME NEW status \in {401, 403}, NEW class, NEW messages,
                 Throw(r, class, status, messages)
          PROVE  ErrorsOK(r)'
      BY <2>3, Throws DEF ErrorsOK, Status
    <2> QED
      BY <1>6, <2>1, <2>2, <2>3, LaterSteps
  <1>7. ASSUME NEW r \in Request, Handle(r) PROVE HttpOthers(r) /\ ErrorsOK(r)'
    <2>1. CASE Asks(r).kind = "create" /\ Asks(r).broken # {}
      <3>1. PICK messages : messages = Broken(r)
        OBVIOUS
      <3>2. Throw(r, <<"filters", "BadRequest">>, 400, messages)
        BY <1>7, <2>1, <3>1 DEF Handle
      <3>3. http'[r].response.messages = messages /\ http'[r].asks = http[r].asks
        <4>1. Respond(r, Laid(Exception(<<"filters", "BadRequest">>, 400, messages)))
          BY <3>2 DEF Throw
        <4>2. Laid(Exception(<<"filters", "BadRequest">>, 400, messages)).messages = messages
          BY PipesFilter DEF Laid, Exception
        <4> QED
          BY <4>1, <4>2, Responds
      <3>4. Range(messages) = Asks(r).broken
        <4>1. LinkOK(r) /\ http[r].phase = "admitted"
          BY <1>7 DEF AInv, ApiOK, Handle
        <4>2. PICK broken : broken = Asks(r).broken
          OBVIOUS
        <4>3. IsFiniteSet(broken)
          <5>1. broken \in SUBSET Constraint
            BY <4>1, <4>2, HttpAssumption DEF LinkOK
          <5> QED
            BY <5>1, ConstraintAssumption, FS_Subset
        <4> QED
          BY <3>1, <4>2, <4>3, SetToSeqRange DEF Broken
      <3> QED
        BY <1>7, <3>3, <3>4, LaterSteps DEF ErrorsOK, Asks
    <2>2. CASE ~(Asks(r).kind = "create" /\ Asks(r).broken # {})
      <3>1. http' = [http EXCEPT ![r].phase = "handling", ![r].asked = now]
        BY <1>7, <2>2 DEF Handle
      <3>2. http'[r].phase = "handling"
        BY <3>1 DEF AInv, Unasked
      <3> QED
        BY <1>7, <3>2, LaterSteps DEF ErrorsOK, Answered
    <2> QED
      BY <2>1, <2>2
  <1>8. ASSUME NEW r \in Request, Resume(r) \/ (Work(r) /\ ~UNCHANGED http)
        PROVE  HttpOthers(r) /\ ErrorsOK(r)'
    <2>1. CASE Resume(r)
      <3>1. PICK asked : http' = [http EXCEPT ![r].asked = asked]
        BY <2>1 DEF Resume
      <3>2. http[r].phase # "done"
        BY <1>8, LaterSteps
      <3>3. http'[r].phase = http[r].phase
        BY <3>1 DEF AInv, Unasked
      <3> QED
        BY <1>8, <3>2, <3>3, LaterSteps DEF ErrorsOK, Answered
    <2>2. CASE Work(r) /\ ~UNCHANGED http
      <3>1. req'[r].phase = "done"
        BY <2>2 DEF Work
      <3> QED
        BY <1>8, <3>1, LaterSteps DEF ErrorsOK, Phase
    <2> QED
      BY <1>8, <2>1, <2>2
  <1> QED
    BY <1>3, <1>4, <1>5, <1>6, <1>7, <1>8 DEF ApiNext, Fetched, Tick, avars

\* Every constraint a body breaks is named in the response.
THEOREM ErrorsAreComplete == ApiSpec => []ErrorsTellAll
  <1> DEFINE Errors == \A r \in Request : ErrorsOK(r)
  <1>1. ApiInit => Errors
    BY DEF ApiInit, Unasked, ErrorsOK, Answered
  <1>2. AInv /\ Errors /\ [ApiNext]_avars => Errors'
    BY ErrorsStay
  <1>3. Errors => ErrorsTellAll
    BY DEF ErrorsOK, ErrorsTellAll
  <1> QED
    BY <1>1, <1>2, <1>3, InitAInv, NextAInv, PTL DEF ApiSpec
=============================================================================

------------------------------ MODULE OrderApi ------------------------------
(* The HTTP side of the order-service, composed with the handlers of        *)
(* OrderService and with the config-service's verdict on the token they     *)
(* forward: guards, validation pipe, handler, exception filter.             *)
(*                                                                          *)
(* The token is verified when a request comes, and again by the config-     *)
(* service for each of the fetches that follow; between two of them it may  *)
(* expire.  The caller is then still served, without a configuration.       *)
EXTENDS OrderService, SequencesExt

CONSTANTS
    Token,      \* tokens, see TokenAssumption
    Http,       \* bound: the HTTP requests that are made, see HttpAssumption
    Constraint, \* the constraints of CreateOrderDto a body can break
    MaxTime,    \* bound: the clock
    MaxFaults   \* bound: failed fetches, of signing keys or of configurations

\* `genuine`: signed by the pool, for a use that is allowed, with a tenant (Retrieval
\* looks at these one by one).  `admin`: by its role or by its groups.
ASSUME TokenAssumption ==
    /\ Token \subseteq [tenant : Tenant, admin : BOOLEAN, genuine : BOOLEAN, exp : Nat]
    /\ None \notin Token

\* The header is a token, after the word Bearer or bare, or there is none.  `query` is
\* the tenant the query names, `body` what the body says of tenant and id, `broken` what
\* is wrong with it.
Header == [bearer : BOOLEAN, token : Token] \union {None}
\* `amount` is 0 and `target` None where the request has none.
ASSUME HttpAssumption ==
    /\ None \notin [bearer : BOOLEAN, token : Token]
    /\ \A asks \in Http : asks.kind # "create" => asks.amount = 0
    /\ \A asks \in Http : asks.kind = "findOne" <=> asks.target # None
    /\ Http \subseteq [kind : Kinds \union {"health"}, header : Header,
                       query : Tenant \union {None}, body : Bodies, broken : SUBSET Constraint,
                       amount : Amounts, target : OrderId \union {None}]
ASSUME ConstraintAssumption == IsFiniteSet(Constraint)
ASSUME ApiBoundsAssumption == MaxTime \in Nat /\ MaxFaults \in Nat

VARIABLES now, faults, http

avars == <<ovars, now, faults, http>>

\* A request: what came, when its token was verified, when the fetch under way began,
\* and the response.
Unasked == [phase |-> "unborn", asks |-> None, at |-> 0, asked |-> 0, response |-> None]

Asks(r) == http[r].asks
Exp(r) == Asks(r).header.token.exp

-----------------------------------------------------------------------------
(* Exceptions and filters.                                                  *)

\* What is thrown, with the library its class is from: the guards and OrdersService
\* throw Nest's exceptions, the pipe that of libs/filters, which has the same name.
Exception(class, status, messages) == [class |-> class, status |-> status, messages |-> messages]

\* Mutant: AllExceptionsFilter is registered last.
MutProvidersAllLast ==
    <<"BadRequest", "Forbidden", "InternalServerError", "NotFound", "Unauthorized", "All">>

\* The filters of app.module.ts, in its order.
Providers ==
    <<"All", "BadRequest", "Forbidden", "InternalServerError", "NotFound", "Unauthorized">>

\* The classes each filter declares with @Catch.
Catches(filter, class) ==
    CASE filter = "All" -> TRUE
      [] filter = "NotFound" -> class = <<"nest", "NotFound">>
      [] OTHER -> class = <<"filters", filter>>

\* Nest asks the filter that was registered last first.
FilterOf(class) ==
    LET fits == {n \in DOMAIN Providers : Catches(Providers[n], class)}
    IN  Providers[Max(fits)]

\* AllExceptionsFilter has `exception.message`, the first one, BadRequestExceptionFilter
\* all of them.
Laid(exception) ==
    [status |-> exception.status,
     messages |-> IF FilterOf(exception.class) = "All" THEN SubSeq(exception.messages, 1, 1)
                  ELSE exception.messages]

Respond(r, response) ==
    http' = [http EXCEPT ![r].phase = "done", ![r].response = response]

Throw(r, class, status, messages) == Respond(r, Laid(Exception(class, status, messages)))

OK(kind) == [status |-> IF kind = "create" THEN 201 ELSE 200, messages |-> <<>>]

-----------------------------------------------------------------------------
(* The guards and the pipe.                                                 *)

\* Express' request has a `get` of its own, so the branch meant for gRPC reads the
\* header: with the word Bearer or without.
extractToken(header) == IF header = None THEN None ELSE header.token

\* A request comes.  The health endpoint is public; without a token a request ends here.
Arrive(r, asks) ==
    /\ http[r].phase = "unborn"
    /\ LET arrived == [http EXCEPT ![r].asks = asks]
           answer(response) == [arrived EXCEPT ![r].phase = "done", ![r].response = response]
       IN  http' = IF asks.kind = "health" THEN answer(OK("health"))
                   ELSE IF extractToken(asks.header) = None
                   THEN answer(Laid(Exception(<<"nest", "Unauthorized">>, 401, <<"token">>)))
                   ELSE [arrived EXCEPT ![r].phase = "verifying"]
    /\ UNCHANGED <<ovars, now, faults>>

\* Mutant: the query is looked at before the body.
MutExtractQueryFirst(asks) == IF asks.query # None THEN asks.query ELSE asks.body.tenant

\* The tenant a request names: what the body says counts unless it is blank.
extractRequestedTenantId(asks) ==
    IF asks.body.tenant \in Tenant THEN asks.body.tenant ELSE asks.query

\* Mutant: only the body is looked at.
MutTenantAccessGuardBody(asks) ==
    \/ asks.header.token.admin
    \/ asks.kind # "create"
    \/ extractRequestedTenantId(asks) \in {None, asks.header.token.tenant}

\* TenantAccessGuard: administrators pass, others unless they name another tenant.
TenantAccessGuard(asks) ==
    \/ asks.header.token.admin
    \/ extractRequestedTenantId(asks) \in {None, asks.header.token.tenant}

\* The signing key is there: the two guards.
Verify(r) ==
    LET token == Asks(r).header.token
    IN  /\ http[r].phase = "verifying"
        /\ IF ~(token.genuine /\ now < token.exp)
           THEN Throw(r, <<"nest", "Unauthorized">>, 401, <<"token">>)
           ELSE IF ~TenantAccessGuard(Asks(r))
           THEN Throw(r, <<"nest", "Forbidden">>, 403, <<"tenant">>)
           ELSE http' = [http EXCEPT ![r].phase = "admitted", ![r].at = now]
        /\ UNCHANGED <<ovars, now, faults>>

Fault == faults < MaxFaults /\ faults' = faults + 1

\* The signing key could not be fetched.
NoSigningKey(r) ==
    /\ http[r].phase = "verifying"
    /\ Fault
    /\ Throw(r, <<"nest", "Unauthorized">>, 401, <<"token">>)
    /\ UNCHANGED <<ovars, now>>

\* CurrentTenant: what the guard has taken from the token, whatever the request names
\* and whoever asks.
CurrentTenant(asks) == asks.header.token.tenant

\* CustomValidationPipe: every broken constraint becomes a message.
Broken(r) == SetToSeq(Asks(r).broken)

\* The pipe, and the handler up to its first await.  Only create has a body; the pipe
\* takes nothing out of it.
Handle(r) ==
    /\ http[r].phase = "admitted"
    /\ IF Asks(r).kind = "create" /\ Asks(r).broken # {}
       THEN /\ Throw(r, <<"filters", "BadRequest">>, 400, Broken(r))
            /\ UNCHANGED ovars
       ELSE /\ Enter(r, Asks(r).kind, CurrentTenant(Asks(r)), Asks(r).amount, Asks(r).target,
                    IF Asks(r).kind = "create" THEN Asks(r).body ELSE NoBody)
            /\ http' = [http EXCEPT ![r].phase = "handling", ![r].asked = now]
    /\ UNCHANGED <<now, faults>>

-----------------------------------------------------------------------------
(* The handler, with the config-service at the other end of its fetches.    *)

\* Mutant: the word Bearer is put before every header.
MutCreateAuthMetadata(header) ==
    IF header.bearer THEN [bearer |-> TRUE, token |-> None] ELSE [header EXCEPT !.bearer = TRUE]

\* createAuthMetadata: the caller's header, with the word Bearer if it has none.
createAuthMetadata(header) == [header EXCEPT !.bearer = TRUE]

\* The config-service answers a fetch.  It gives a configuration only to a token that
\* still held at some moment of the call, and fails if the token had expired, if there
\* is nothing to find, or if the call did not get through.
Fetched(r) ==
    LET key == Keys[At(r)]
        token == extractToken(createAuthMetadata(Asks(r).header))
        Holds(time) == IF token = None THEN FALSE ELSE time < token.exp
        absent == key # Payment \/ stored[req[r].tenant] = None
    IN  /\ http[r].phase = "handling"
        /\ Answer(r)
        /\ \/ req'[r].reply # Error /\ Holds(http[r].asked) /\ UNCHANGED faults
           \/ req'[r].reply = Error /\ (~Holds(now) \/ absent) /\ UNCHANGED faults
           \/ req'[r].reply = Error /\ Fault
        /\ UNCHANGED <<now, http>>

\* fetchConfig has its answer, and the next fetch begins.
Resume(r) ==
    /\ Receive(r)
    /\ http' = [http EXCEPT ![r].asked = IF req'[r].missing = {} THEN 0 ELSE now]
    /\ UNCHANGED <<now, faults>>

\* Mutant: the response does not wait for what validateOrder says.
MutWorkUnawaited(r) ==
    /\ Validate(r) \/ Push(r) \/ FindAll(r) \/ FindOne(r)
    /\ Respond(r, OK(Asks(r).kind))
    /\ UNCHANGED <<now, faults>>

\* The handler goes on; what it throws is Nest's BadRequestException.
Work(r) ==
    /\ Validate(r) \/ Push(r) \/ FindAll(r) \/ FindOne(r)
    /\ IF req'[r].phase # "done" THEN UNCHANGED http
       ELSE IF req'[r].answer = Error
       THEN Throw(r, <<"nest", "BadRequest">>, 400, <<"order">>)
       ELSE Respond(r, OK(Asks(r).kind))
    /\ UNCHANGED <<now, faults>>

Tick ==
    /\ now < MaxTime
    /\ now' = now + 1
    /\ UNCHANGED <<ovars, faults, http>>

-----------------------------------------------------------------------------
ApiInit ==
    /\ Init
    /\ now = 0
    /\ faults = 0
    /\ http = [r \in Request |-> Unasked]

ApiNext ==
    \/ \E r \in Request :
          \/ \E asks \in Http : Arrive(r, asks)
          \/ Verify(r) \/ NoSigningKey(r) \/ Handle(r) \/ Fetched(r) \/ Resume(r) \/ Work(r)
    \/ /\ \/ \E t \in Tenant : Deactivate(t)
          \/ \E t \in Tenant, g \in Gateway \union {None}, m \in Amounts : UpdateConfig(t, g, m)
       /\ UNCHANGED <<now, faults, http>>
    \/ Tick

ApiSpec == ApiInit /\ [][ApiNext]_avars

-----------------------------------------------------------------------------
(* Properties.                                                              *)

Answered(r) == http[r].phase = "done"
Status(r) == http[r].response.status

\* The phases of the request and of its handler belong together.
ApiTypeOK ==
    /\ now \in 0 .. MaxTime /\ faults \in 0 .. MaxFaults
    /\ \A r \in Request :
          /\ http[r].phase \in {"unborn", "verifying", "admitted", "handling", "done"}
          /\ http[r].phase = "handling" <=> Phase(r) \notin {"unborn", "done"}
          /\ Answered(r) => Status(r) \in {200, 201, 400, 401, 403}

\* The status tells what became of a request.  401: there was no token that held when
\* it was looked at, and nothing the config-service says of it later.  403: somebody who
\* is no administrator names another tenant.  400: the body is broken, or the handler
\* refused.  Otherwise the handler has answered; an order exists exactly for a 201.
StatusTells ==
    \A r \in Request : Answered(r) /\ Asks(r).kind # "health" =>
        LET asks == Asks(r)
            bad == asks.header = None \/ ~asks.header.token.genuine
        IN  CASE Status(r) = 401 -> bad \/ now >= Exp(r) \/ faults > 0
              [] Status(r) = 403 -> /\ ~bad /\ ~asks.header.token.admin
                                    /\ extractRequestedTenantId(asks)
                                          \notin {None, asks.header.token.tenant}
              [] OTHER ->
                   /\ ~bad /\ http[r].at < Exp(r)
                   /\ \/ asks.header.token.admin
                      \/ extractRequestedTenantId(asks) \in {None, asks.header.token.tenant}
                   /\ Status(r) = 400 <=>
                         \/ asks.kind = "create" /\ asks.broken # {}
                         \/ Done(r) /\ req[r].answer = Error
                   /\ Status(r) = 201 <=> \E i \in DOMAIN orders : orders[i].by = r

\* Only an administrator creates an order for another tenant, and only for the one its
\* body names; anybody may create one that is no tenant's.  Whoever asks, only orders of
\* the token's tenant are shown (the guard looks into the body first and then into the
\* query, create lets the body win, the handlers are passed the token's tenant).
NobodyActsForOthers ==
    \A r \in Request : Phase(r) # "unborn" =>
        LET token == Asks(r).header.token
            shown == IF ~Done(r) \/ req[r].answer = Error \/ req[r].kind = "create" THEN {}
                     ELSE IF req[r].kind = "findAll" THEN Range(req[r].answer)
                     ELSE {req[r].answer}
        IN  /\ \A o \in shown : o.tenant = token.tenant
            /\ \A i \in DOMAIN orders :
                  orders[i].by = r /\ orders[i].tenant # token.tenant =>
                      /\ orders[i].tenant = Asks(r).body.tenant
                      /\ token.admin \/ orders[i].tenant = Blank

\* README: tenantId is never accepted from a request, and always extracted from a
\* validated token (create spreads the body over the tenant of the token).
OrderTenantIsTokens ==
    \A i \in DOMAIN orders : orders[i].tenant = Asks(orders[i].by).header.token.tenant

\* An order is created without a configuration, or without having been checked against
\* one, only if a fetch failed to get through, the token expired while the order was
\* on its way, or the tenant had no active configuration for a moment.
UncheckedHasACause ==
    \A i \in DOMAIN orders :
        LET r == orders[i].by
        IN  orders[i].config = None \/ ~req[r].checked =>
                \/ faults > 0
                \/ now >= Exp(r)
                \/ stored[req[r].tenant] = None \/ updates > 0

\* Every constraint a body breaks is named in the response.
ErrorsTellAll ==
    \A r \in Request : Answered(r) /\ Phase(r) = "unborn" /\ Status(r) = 400 =>
        Range(http[r].response.messages) = Asks(r).broken
=============================================================================

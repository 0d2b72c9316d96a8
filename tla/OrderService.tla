---------------------------- MODULE OrderService ----------------------------
(* The order-service: concurrent HTTP requests that share one cache of      *)
(* configurations (ConfigClientService.configCache) and one list of orders  *)
(* (OrdersService.orders).                                                  *)
(*                                                                          *)
(* A request runs alone until it awaits; what it does between two awaits is *)
(* one action here.  It decides on entry which configurations are missing,  *)
(* fetches these one after the other from the config-service, and goes on   *)
(* whether they came or not.                                                *)
EXTENDS Integers, Sequences, FiniteSets

CONSTANTS
    Tenant,      \* tenants with an authenticated user
    Request,     \* the requests of a run, each made at most once
    Gateway,     \* names of payment gateways
    GivenId,     \* ids a body may give its order; none of them is a uuid made here
    Blank,       \* a tenantId in a body that is no tenant's: the empty string, null
    Bodies,      \* bound: what bodies say of the tenant and the id, see BodiesAssumption
    Kinds,       \* bound: the kinds of request that are made
    Amounts,     \* amounts of orders, and minima of configurations
    None,        \* no value
    Error,       \* a call that failed, an answer that is a BadRequestException
    Data,        \* what is fetched for the other keys: it decides nothing about an order
    MaxUpdates,  \* bound: changes to the stored payment-gateway configurations
    Default      \* the gateway name 'default'

ASSUME NoneAssumption ==
    /\ None \notin Gateway /\ Default \notin Gateway
    /\ None \notin Tenant \union GivenId \union {Blank} /\ Blank \notin Tenant
ASSUME GivenIdAssumption == GivenId \intersect Request = {}
ASSUME KindsAssumption == Kinds \subseteq {"create", "findAll", "findOne"}
ASSUME AmountsAssumption == Amounts \subseteq Nat /\ 0 \in Amounts
ASSUME MaxUpdatesAssumption == MaxUpdates \in Nat

\* The configurations ensureConfigsLoaded wants, in the order it fetches them.
Keys == <<"tenant_config_payment-gateway", "tenant_config_api-settings",
          "param_config_api-key">>
Key == {Keys[i] : i \in 1 .. Len(Keys)}
Payment == Keys[1]

\* What validateOrder and create read of a payment-gateway configuration: the
\* smallest amount, 0 when there is no rule, and the first gateway, if any.
\* `of` is the tenant it was stored for.
Config == [of : Tenant, gateway : Gateway \union {None}, min : Amounts]

VARIABLES
    stored,   \* DynamoDB: tenant -> its active payment-gateway configuration, or None
    updates,  \* changes made to `stored`
    cache,    \* configCache: key -> the data last set for it, None when there is none
    orders,   \* OrdersService.orders
    req       \* request -> where it stands

ovars == <<stored, updates, cache, orders, req>>

\* An id is a uuid, called by the request it was made for, or one that a body gave
\* (a body that repeats the uuid of another order is as one that repeats a given id).
OrderId == Request \union GivenId

\* The properties of a body that CreateOrderDto does not have, and that the pipe leaves
\* where they are.
Body == [tenant : Tenant \union {Blank, None}, id : GivenId \union {None}]
NoBody == [tenant |-> None, id |-> None]
ASSUME BodiesAssumption == Bodies \subseteq Body /\ NoBody \in Bodies

\* `config` is the entry the gateway was taken from: a history variable, like
\* `failed`, `checked` and `known` of a request.
Order == [by : Request, id : OrderId, tenant : Tenant \union {Blank}, amount : Amounts,
          gateway : Gateway \union {Default}, config : Config \union {None}]

ASSUME ErrorAssumption == Error \notin Order
ASSUME ConfigAssumption == None \notin Config

\* A request: what it asks (`tenant` is the token's, `body` what a create says besides
\* the amount, `target` the id findOne asks for), the keys it
\* still has to fetch, the config-service's answer to the fetch under way, whether
\* its fetch of the payment-gateway configuration failed, whether it was validated
\* against one, the number of orders there were when it entered, and its answer.
NewRequest(k, t, a, id, b) ==
    [phase |-> "unborn", kind |-> k, tenant |-> t, amount |-> a, target |-> id, body |-> b,
     missing |-> {}, reply |-> None, failed |-> FALSE, checked |-> FALSE,
     known |-> Len(orders), answer |-> None]

Unborn == [NewRequest("findAll", None, 0, None, NoBody) EXCEPT !.known = 0]

Phase(r) == req[r].phase

Question == [kind : Kinds, tenant : Tenant, target : OrderId \union {None}, body : Body]
ASSUME QuestionAssumption == None \notin Question

-----------------------------------------------------------------------------
(* DynamoDB, behind the config-service.                                     *)

\* The payment-gateway configuration of a tenant is written or deactivated.
UpdateConfig(t, g, m) ==
    /\ updates < MaxUpdates
    /\ stored[t] # [of |-> t, gateway |-> g, min |-> m]
    /\ updates' = updates + 1
    /\ stored' = [stored EXCEPT ![t] =
                    [of |-> t, gateway |-> g, min |-> m]]
    /\ UNCHANGED <<cache, orders, req>>

Deactivate(t) ==
    /\ updates < MaxUpdates
    /\ stored[t] # None
    /\ updates' = updates + 1
    /\ stored' = [stored EXCEPT ![t] = None]
    /\ UNCHANGED <<cache, orders, req>>

-----------------------------------------------------------------------------
(* The requests.                                                            *)

\* An authenticated request for tenant t reaches its handler, which runs up to
\* its first await: ensureConfigsLoaded reads the three cache entries and lists
\* what is missing.  What is filled in later does not shorten that list.
Enter(r, k, t, a, id, b) ==
    LET missing == {i \in DOMAIN Keys : cache[Keys[i]] = None}
    IN  /\ Phase(r) = "unborn"
        /\ req' = [req EXCEPT ![r] =
                     [NewRequest(k, t, a, id, b) EXCEPT
                        !.phase = IF missing = {} THEN "loaded" ELSE "fetching",
                        !.missing = missing]]
        /\ UNCHANGED <<stored, updates, cache, orders>>

\* Fetches come one after the other, in the order of Keys.
At(r) == CHOOSE i \in req[r].missing : \A j \in req[r].missing : i <= j

\* The config-service answers the fetch of request r with what it finds for
\* the tenant of the forwarded token, or fails: the tenant has no such
\* configuration, the token has expired, the call did not get through.
Answer(r) ==
    LET key == Keys[At(r)]
        t == req[r].tenant
    IN  /\ Phase(r) = "fetching"
        /\ \E reply \in {Error} \union
                        (IF key # Payment THEN {Data}
                         ELSE IF stored[t] # None THEN {stored[t]} ELSE {}) :
              req' = [req EXCEPT ![r].phase = "answered", ![r].reply = reply]
        /\ UNCHANGED <<stored, updates, cache, orders>>

\* Mutant: the fetch after the last is awaited too.
MutReceiveOneMore(r) ==
    /\ Phase(r) = "answered"
    /\ cache' = IF req[r].reply = Error THEN cache
                ELSE [cache EXCEPT ![Keys[At(r)]] = req[r].reply]
    /\ req' = [req EXCEPT ![r].phase = "fetching", ![r].reply = None,
                          ![r].missing = @ \ {At(r)}]
    /\ UNCHANGED <<stored, updates, orders>>

\* Mutant: a failed fetch removes the entry that is cached.
MutReceiveEvicts(r) ==
    LET key == Keys[At(r)]
        rest == req[r].missing \ {At(r)}
        reply == req[r].reply
    IN  /\ Phase(r) = "answered"
        /\ cache' = [cache EXCEPT ![key] = IF reply = Error THEN None ELSE reply]
        /\ req' = [req EXCEPT
                     ![r].phase = IF rest = {} THEN "loaded" ELSE "fetching",
                     ![r].missing = rest,
                     ![r].reply = None,
                     ![r].failed = @ \/ (key = Payment /\ reply = Error)]
        /\ UNCHANGED <<stored, updates, orders>>

\* The answer reaches fetchConfig: data is cached under the key alone, an error
\* is logged by ensureConfigsLoaded and forgotten.
Receive(r) ==
    LET key == Keys[At(r)]
        rest == req[r].missing \ {At(r)}
        reply == req[r].reply
    IN  /\ Phase(r) = "answered"
        /\ cache' = IF reply = Error THEN cache ELSE [cache EXCEPT ![key] = reply]
        /\ req' = [req EXCEPT
                     ![r].phase = IF rest = {} THEN "loaded" ELSE "fetching",
                     ![r].missing = rest,
                     ![r].reply = None,
                     ![r].failed = @ \/ (key = Payment /\ reply = Error)]
        /\ UNCHANGED <<stored, updates, orders>>

Reply(r, a) == req' = [req EXCEPT ![r].phase = "done", ![r].answer = a]

\* Mutant: the order is pushed before its amount is checked.
MutValidateLate(r) ==
    /\ Phase(r) = "loaded" /\ req[r].kind = "create"
    /\ IF cache[Payment] # None /\ req[r].amount < cache[Payment].min
       THEN /\ Reply(r, Error)
            /\ orders' = Append(orders, [by |-> r, id |-> r, tenant |-> req[r].tenant,
                                         amount |-> req[r].amount, gateway |-> Default,
                                         config |-> cache[Payment]])
       ELSE /\ req' = [req EXCEPT ![r].phase = "validated", ![r].checked = cache[Payment] # None]
            /\ UNCHANGED orders
    /\ UNCHANGED <<stored, updates, cache>>

\* validateOrder, on whatever payment-gateway entry the cache holds now.
Validate(r) ==
    /\ Phase(r) = "loaded" /\ req[r].kind = "create"
    /\ IF cache[Payment] # None /\ req[r].amount < cache[Payment].min
       THEN Reply(r, Error)
       ELSE req' = [req EXCEPT ![r].phase = "validated", ![r].checked = cache[Payment] # None]
    /\ UNCHANGED <<stored, updates, cache, orders>>

\* A property of the order after `...createOrderDto`: what the body gives wins.
Spread(given, own) == IF given = None THEN own ELSE given

\* The rest of create: the cache is read again and the order is stamped.  The body is
\* spread over the fresh uuid and the tenant of the token.
Push(r) ==
    LET config == cache[Payment]
        order == [by |-> r, id |-> Spread(req[r].body.id, r),
                  tenant |-> Spread(req[r].body.tenant, req[r].tenant),
                  amount |-> req[r].amount,
                  gateway |-> IF config = None \/ config.gateway = None
                              THEN Default ELSE config.gateway,
                  config |-> config]
    IN  /\ Phase(r) = "validated"
        /\ orders' = Append(orders, order)
        /\ Reply(r, order)
        /\ UNCHANGED <<stored, updates, cache>>

\* The elements of a list that are the tenant's, in their order.
OfTenant(list, t) ==
    LET kept[n \in 0 .. Len(list)] ==
            IF n = 0 THEN <<>>
            ELSE IF list[n].tenant = t THEN Append(kept[n - 1], list[n]) ELSE kept[n - 1]
    IN  kept[Len(list)]

\* Mutant: the whole list is returned.
MutFindAllUnfiltered(r) ==
    /\ Phase(r) = "loaded" /\ req[r].kind = "findAll"
    /\ Reply(r, orders)
    /\ UNCHANGED <<stored, updates, cache, orders>>

\* Mutant: the order is looked up by its id alone.
MutFitsAnyTenant(r, order) == order.id = req[r].target

\* An order findOne is after.
Fits(r, order) == order.id = req[r].target /\ order.tenant = req[r].tenant

\* findAll filters the list once the configurations have been seen to.
FindAll(r) ==
    /\ Phase(r) = "loaded" /\ req[r].kind = "findAll"
    /\ Reply(r, OfTenant(orders, req[r].tenant))
    /\ UNCHANGED <<stored, updates, cache, orders>>

\* findOne answers with the first order that fits.
FindOne(r) ==
    LET fits == {i \in DOMAIN orders : Fits(r, orders[i])}
        first == CHOOSE i \in fits : \A j \in fits : i <= j
    IN  /\ Phase(r) = "loaded" /\ req[r].kind = "findOne"
        /\ Reply(r, IF fits = {} THEN Error ELSE orders[first])
        /\ UNCHANGED <<stored, updates, cache, orders>>

-----------------------------------------------------------------------------
Init ==
    /\ stored \in [Tenant -> Config \union {None}]
    /\ \A t \in Tenant : stored[t] # None => stored[t].of = t
    /\ updates = 0
    /\ cache = [k \in Key |-> None]
    /\ orders = <<>>
    /\ req = [r \in Request |-> Unborn]

Enters(r) ==
    \E k \in Kinds, t \in Tenant, a \in Amounts, id \in OrderId \union {None}, b \in Bodies :
        /\ k # "create" => a = 0 /\ b = NoBody
        /\ k = "findOne" <=> id # None
        /\ Enter(r, k, t, a, id, b)

Step(r) == Receive(r) \/ Validate(r) \/ Push(r) \/ FindAll(r) \/ FindOne(r)

Next ==
    \/ \E t \in Tenant : Deactivate(t)
    \/ \E t \in Tenant, g \in Gateway \union {None}, m \in Amounts : UpdateConfig(t, g, m)
    \/ \E r \in Request : Enters(r) \/ Answer(r) \/ Step(r)

Spec == Init /\ [][Next]_ovars

-----------------------------------------------------------------------------
(* Properties.                                                              *)

Done(r) == Phase(r) = "done"

TypeOK ==
    /\ stored \in [Tenant -> Config \union {None}]
    /\ updates \in 0 .. MaxUpdates
    /\ cache \in [Key -> Config \union {Data, None}]
    /\ orders \in Seq(Order)
    /\ \A r \in Request :
          /\ Phase(r) \in {"unborn", "fetching", "answered", "loaded",
                           "validated", "done"}
          /\ Phase(r) \in {"fetching", "answered"} <=> req[r].missing # {}
          /\ req[r].missing \subseteq DOMAIN Keys
          /\ req[r].failed \in BOOLEAN
          /\ req[r].known \in 0 .. Len(orders)

\* An order is created without a configuration, or without having been checked
\* against one, only by a request whose own fetch of it failed: once an entry is
\* cached it stays, also between validateOrder and the second read in create.
NoConfigMeansFetchFailed ==
    \A i \in DOMAIN orders :
        LET r == orders[i].by
        IN  orders[i].config = None \/ ~req[r].checked => req[r].failed

\* A list of orders is exactly the tenant's part of what the list held at some
\* moment after the request entered: every order created before is in it, no
\* order of another tenant is, and none twice (the filter runs after the
\* configurations have been fetched, not before).
ListsAreCurrent ==
    \A r \in Request :
        Done(r) /\ req[r].kind = "findAll" =>
            \E n \in req[r].known .. Len(orders) :
                req[r].answer = OfTenant(SubSeq(orders, 1, n), req[r].tenant)

\* findOne finds an order of the tenant that existed when it was called, and answers
\* with nobody else's.  Where bodies have given several orders of a tenant one id it is
\* the oldest of them: the others cannot be had (the spread in create, Array.find).
OwnOrderIsFound ==
    \A r \in Request :
        LET Own(i) == orders[i].id = req[r].target /\ orders[i].tenant = req[r].tenant
        IN  Done(r) /\ req[r].kind = "findOne" =>
                IF req[r].answer = Error
                THEN \A i \in 1 .. req[r].known : ~Own(i)
                ELSE \E i \in DOMAIN orders :
                        /\ req[r].answer = orders[i] /\ Own(i)
                        /\ \A j \in 1 .. i - 1 : ~Own(j)

\* Each successful create adds one order, and a rejected one adds none, however
\* the requests interleave.
OneOrderPerCreate ==
    \A r \in Request :
        Cardinality({i \in DOMAIN orders : orders[i].by = r})
            = IF Done(r) /\ req[r].kind = "create" /\ req[r].answer # Error THEN 1 ELSE 0

\* Clients see a book of orders: each request takes effect in one step, however many
\* awaits it has and whatever the others do meanwhile; an order has the tenant and the
\* id its body gives, and otherwise the token's tenant and an id no other order has.
Book == INSTANCE OrderBook
    WITH Client <- Request, Entry <- Order, Nothing <- None, Refused <- Error,
         book <- orders, told <- [r \in Request |-> req[r].answer],
         asked <- [r \in Request |->
                     IF Phase(r) = "unborn" THEN None
                     ELSE [kind |-> req[r].kind, tenant |-> req[r].tenant,
                           target |-> req[r].target, body |-> req[r].body]]

ImplementsOrderBook == Book!BSpec

\* README of the order-service: the payment gateway of a response is the one in
\* the tenant's configuration, and each tenant gets its own configurations.
OrdersUseOwnConfig ==
    \A i \in DOMAIN orders :
        orders[i].config # None => orders[i].config.of = req[orders[i].by].tenant

\* README of the order-service: amounts are validated with the minimum of the
\* configuration the order is created from.
OrderMeetsItsMinimum ==
    \A i \in DOMAIN orders :
        orders[i].config # None => orders[i].amount >= orders[i].config.min
=============================================================================

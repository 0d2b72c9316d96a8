----------------------------- MODULE MCOrderApi -----------------------------
(* OrderApi on small instances.  Users and administrators of both tenants,   *)
(* with tokens that expire at the first tick.                                *)
EXTENDS OrderApi, TLC

CONSTANTS t1, t2, r1, r2, g1, c1, c2, x

UserOf(t) == [tenant |-> t, admin |-> FALSE, genuine |-> TRUE, exp |-> 1]
AdminOf(t) == [UserOf(t) EXCEPT !.admin = TRUE]
ForgedBy(t) == [UserOf(t) EXCEPT !.genuine = FALSE]
Tokens == UNION {{UserOf(t), AdminOf(t), ForgedBy(t)} : t \in Tenant}

\* A body names a tenant, or the id x, or both, or neither.
BodiesOf(tenants) == [tenant : tenants \union {None}, id : {x, None}]
AllBodies == BodiesOf(Tenant \union {Blank})

Get(kind, token) ==
    [kind |-> kind, header |-> [bearer |-> TRUE, token |-> token], query |-> None,
     body |-> NoBody, broken |-> {}, amount |-> 0,
     target |-> IF kind = "findOne" THEN x ELSE None]

\* An administrator's create, with a bare token, names the other tenant.  A user's gives an
\* id, or names the other tenant, hidden from a guard that would look at the query first.
CreatesOf(t, other) ==
    LET create == Get("create", UserOf(t))
    IN  {[create EXCEPT !.body.id = x],
         [create EXCEPT !.broken = {c1, c2}],
         [create EXCEPT !.amount = 1, !.header = [bearer |-> FALSE, token |-> AdminOf(t)],
                        !.body = [tenant |-> other, id |-> None]],
         [create EXCEPT !.query = t, !.body.tenant = other]}

RequestsOf(t) ==
    LET other == CHOOSE u \in Tenant : u # t
        find == Get("findOne", UserOf(t))
    IN  CreatesOf(t, other)
            \union {Get("findAll", UserOf(t)), Get("findAll", ForgedBy(t)),
                    find, [find EXCEPT !.query = other]}

Requests ==
    UNION {RequestsOf(t) : t \in Tenant}
        \union {[Get(kind, None) EXCEPT !.header = None] : kind \in {"health", "findAll"}}

\* What the administrators of two tenants may send, when there is nothing to fetch.
AdminRequests ==
    {[Get("create", AdminOf(t)) EXCEPT !.body.tenant = u] : t \in Tenant, u \in Tenant \union {None}}

Symmetry == Permutations(Tenant) \union Permutations(Request)
=============================================================================

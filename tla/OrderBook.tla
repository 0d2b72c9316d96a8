------------------------------ MODULE OrderBook ------------------------------
(* What the order-service promises its clients, whatever it fetches, caches *)
(* or fails to fetch: a book of orders that only grows, and requests that   *)
(* take effect in one step between the question and the answer.  Which      *)
(* orders are refused is not promised.                                      *)
EXTENDS Integers, Sequences

CONSTANTS Client,    \* requests
          Entry,     \* orders, with the client `by` which, the `tenant` for whom, an `id`
          Question,  \* what is asked: its `kind`, the asking `tenant`, the `target` id of
                     \* findOne, the `tenant` and `id` the `body` of a create gives
          Nothing,   \* no question, no answer, nothing given
          Refused

VARIABLES book,   \* the orders, oldest first
          asked,  \* client -> its question
          told    \* client -> its answer

bvars == <<book, asked, told>>

BInit ==
    /\ book = <<>>
    /\ asked = [c \in Client |-> Nothing]
    /\ told = [c \in Client |-> Nothing]

Ask(c) ==
    /\ asked[c] = Nothing
    /\ UNCHANGED <<book, told>>
    /\ asked'[c] \in Question
    /\ asked' = [asked EXCEPT ![c] = asked'[c]]

Waits(c, kind) == told[c] = Nothing /\ asked[c] # Nothing /\ asked[c].kind = kind

Tell(c, answer) == told' = [told EXCEPT ![c] = answer] /\ UNCHANGED asked

\* The order has what the body gives; otherwise the tenant who asks, and a new id.
Accept(c) ==
    LET body == asked[c].body
        e == told'[c]
    IN  /\ Waits(c, "create")
        /\ e \in Entry
        /\ e.by = c
        /\ e.tenant = IF body.tenant = Nothing THEN asked[c].tenant ELSE body.tenant
        /\ IF body.id = Nothing THEN \A n \in DOMAIN book : book[n].id # e.id
                                ELSE e.id = body.id
        /\ book' = Append(book, e)
        /\ Tell(c, e)

Refuse(c) == Waits(c, "create") /\ UNCHANGED book /\ Tell(c, Refused)

\* The elements of a list that are the tenant's, in their order.
OfTenant(list, t) ==
    LET kept[n \in 0 .. Len(list)] ==
            IF n = 0 THEN <<>>
            ELSE IF list[n].tenant = t THEN Append(kept[n - 1], list[n]) ELSE kept[n - 1]
    IN  kept[Len(list)]

\* The tenant's orders of this moment, in their order.
List(c) ==
    /\ Waits(c, "findAll")
    /\ Tell(c, OfTenant(book, asked[c].tenant))
    /\ UNCHANGED book

\* The oldest of the tenant's orders that have the id now, if there is one.
Find(c) ==
    LET Fits(n) == book[n].id = asked[c].target /\ book[n].tenant = asked[c].tenant
    IN  /\ Waits(c, "findOne")
        /\ \/ \E n \in DOMAIN book :
                 Fits(n) /\ (\A m \in 1 .. n - 1 : ~Fits(m)) /\ Tell(c, book[n])
           \/ (\A n \in DOMAIN book : ~Fits(n)) /\ Tell(c, Refused)
        /\ UNCHANGED book

BNext == \E c \in Client : Ask(c) \/ Accept(c) \/ Refuse(c) \/ List(c) \/ Find(c)

BSpec == BInit /\ [][BNext]_bvars
=============================================================================

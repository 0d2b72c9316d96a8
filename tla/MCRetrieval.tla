---------------------------- MODULE MCRetrieval ----------------------------
(* Two tenants and four tokens: one that expires, one that lasts, one of     *)
(* another pool and one without a tenant.                                    *)
EXTENDS Retrieval, TLC

CONSTANTS t1, t2, n1, n2

Tokens == {[tenant |-> t1, signed |-> TRUE, use |-> "id", exp |-> 1],
           [tenant |-> t2, signed |-> TRUE, use |-> "access", exp |-> 2],
           [tenant |-> t2, signed |-> FALSE, use |-> "id", exp |-> 2],
           [tenant |-> None, signed |-> TRUE, use |-> "id", exp |-> 2]}
KeyLists == {<<>>, <<n1, n2>>, <<"tenant">>, <<n1, "tenant">>, <<"other">>}
Symmetry == Permutations(Call)
=============================================================================

--------------------------- MODULE MCOrderService ---------------------------
(* OrderService on small instances.                                         *)
EXTENDS OrderService, TLC

CONSTANTS t1, t2, r1, r2, g1, g2

\* Bodies with nothing that CreateOrderDto does not have.
PlainBodies == {NoBody}

Symmetry == Permutations({t1, t2}) \union Permutations({r1, r2})
            \union Permutations({g1, g2})
=============================================================================

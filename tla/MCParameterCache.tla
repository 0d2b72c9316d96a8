-------------------------- MODULE MCParameterCache --------------------------
(* ParameterCache on small instances.                                       *)
EXTENDS ParameterCache

CONSTANTS v1, v2, l1, l2

\* The path of parameter 1 is a prefix of the path of parameter 2, which SSM
\* lists after it; and paths that have nothing to do with each other.  In the cfg
\* parameter 2 ends in a refused segment and parameter 3 has a service with an
\* inherited name: only an answer without both is committed.
PrefixFirst == {<<1, 2>>}
FlatPaths == {}
=============================================================================

------------------------- MODULE MCRefreshPipeline -------------------------
(* RefreshPipeline on small instances.                                      *)
EXTENDS RefreshPipeline

CONSTANTS i1, i2
=============================================================================

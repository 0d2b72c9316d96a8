---------------------------- MODULE MCParamMaps ----------------------------
(* ParamMaps on small sets of paths.                                        *)
EXTENDS ParamMaps

\* Two tenants with a service and a key of the same names, as they are seeded.
SeededPaths == {<<"config-service", t, "dev", "api", k>> :
                    t \in {"acme", "globex"}, k \in {"api-key", "endpoint"}}

\* Values at every depth of one branch, keys that need another one, short and
\* long paths, refused and inherited names.
MixedPaths ==
    {<<"config-service", "acme", "dev", "api", "api-key">>,
     <<"config-service", "globex", "dev", "api", "api-key">>,
     <<"config-service", "acme", "dev", "api", "v2", "api-key">>,
     <<"config-service", "acme", "dev", "api", "v2">>,
     <<"config-service", "acme", "dev", "api">>,
     <<"config-service", "acme">>,
     <<"config-service", "globex", "dev", "toString", "v2">>,
     <<"config-service", "globex", "dev", "constructor">>,
     <<"config-service", "globex", "dev", "api", "prototype">>}
=============================================================================

--------------------------- MODULE MCSidecarProxy ---------------------------
EXTENDS SidecarProxy, TLC
CONSTANTS r1, r2, j1, sa1, sa2, ml1, oc1, oc2, k1, k2, kfp, dh, uh
MCReqs == {r1, r2}
Sym == Permutations(MCReqs)
MCRepository == <<"org", "repo">>
MCPaths == {<<"api", "v1", "evaluations", "jobs">>, <<"api", "v1", "evaluations">>,
            <<"api", "2.0", "mlflow">>, <<"api", "3.0", "mlflow", "runs">>, <<"api", "2.0", "mlflowx">>,
            <<"v2", "org", "repo", "blobs">>, <<"v2", "ac", "org", "repo">>, <<"org", "repo", "">>,
            <<"v1", "", "completions">>}
Key(c, p) == [class |-> c, prefix |-> p]
MCSecrets == {Key("single", NoKey) :> k1 @@ Key("sa", kfp) :> Empty @@ Key("url", kfp) :> uh
                @@ Key("api", kfp) :> k2}
MCAuths == {[kind |-> "placeholder"], [kind |-> "explicit"],
            [kind |-> "ref", key |-> Key("single", NoKey)], [kind |-> "ref", key |-> Key("sa", kfp)],
            [kind |-> "ref", key |-> Key("api", kfp)], [kind |-> "ref", key |-> Key("url", kfp)]}
MCSettings == {[local |-> FALSE, mlflow |-> TRUE,  model |-> FALSE, oci |-> "off", static |-> TRUE],
               [local |-> FALSE, mlflow |-> FALSE, model |-> TRUE,  oci |-> "off", static |-> FALSE],
               [local |-> FALSE, mlflow |-> FALSE, model |-> FALSE, oci |-> "ok",  static |-> FALSE],
               [local |-> FALSE, mlflow |-> FALSE, model |-> TRUE,  oci |-> "noauth", static |-> FALSE],
               [local |-> TRUE,  mlflow |-> FALSE, model |-> FALSE, oci |-> "off", static |-> FALSE]}
MCSa == <<sa1, sa2>>
MCMl == <<ml1>>
MCOci == <<oc1, oc2>>
=============================================================================

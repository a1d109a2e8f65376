---------------------------- MODULE MCJobObjects ----------------------------
(* Requests for TLC: one slice varies the pod, one the hardware, one the       *)
(* names; the other fields of a slice have one value.                          *)
EXTENDS JobObjects

CONSTANTS p1, p2, t1, t2, h1, h2, dh

MCKeyPrefixes == {p1, p2}
MCTokens == {t1, t2}
MCHosts == {h1, h2, dh}

Key(c, p) == [class |-> c, prefix |-> p]
single == Key("single", NoKey)
hfToken == Key("hf-token", NoKey)
Sec(pairs) == [k \in {x[1] : x \in pairs} |-> CHOOSE v \in {x[2] : x \in pairs} : <<k, v>> \in pairs]

MCUserSecrets ==
  {Sec({<<single, t1>>}), Sec({<<single, Empty>>, <<hfToken, t2>>}), Sec({<<hfToken, t2>>}),
   Sec({<<Key("api", p1), t1>>, <<Key("url", p1), h1>>, <<Key("sa", p2), Empty>>}),
   Sec({<<Key("sa", p1), t1>>, <<Key("url", p1), h1>>, <<Key("api", p2), t2>>, <<Key("url", p2), h2>>}),
   Sec({<<Key("url", p1), h1>>, <<Key("api", p2), t1>>}),
   Sec({<<Key("url", p1), t2>>, <<Key("api", p1), t1>>})}

Direct0 == [mode |-> "none", cpu |-> "unset", gpuName |-> FALSE, gpuCount |-> 0,
            dra |-> FALSE, queue |-> FALSE]
Provider0 == [gpuCount |-> 0, gpuName |-> FALSE, dra |-> FALSE, selector |-> FALSE,
              env |-> {"EVALHUB_MODE", "OTEL_EXPORTER_OTLP_ENDPOINT"}]
ID0   == <<"a", "b", "-", "c", "d">>
GUID0 == <<"0", "1", "2", "3", "4">>

Base == [provider |-> Provider0, hw |-> Direct0, jobHW |-> Direct0, queue |-> FALSE, valid |-> TRUE,
         sidecarQuantities |-> "ok",
         instance |-> TRUE, mlflow |-> FALSE, oci |-> FALSE, modelURL |-> FALSE, auth |-> FALSE,
         testData |-> "none", dataSecret |-> FALSE, claims |-> <<>>, initImage |-> TRUE,
         caPath |-> FALSE, otel |-> FALSE, id |-> ID0, guid |-> GUID0]

PodSlice ==
  {[Base EXCEPT !.instance = i, !.mlflow = m, !.oci = o, !.modelURL = a[1], !.auth = a[2],
                !.testData = d, !.dataSecret = x[1], !.claims = x[2], !.initImage = y[1],
                !.caPath = y[2], !.otel = o] :
     i \in BOOLEAN, m \in BOOLEAN, o \in BOOLEAN,
     a \in {<<FALSE, TRUE>>, <<TRUE, FALSE>>, <<TRUE, TRUE>>},
     d \in {"none", "s3", "s3root", "git", "hf", "pvc"},
     x \in {<<FALSE, <<>>>>, <<TRUE, <<"c1", "c2", "c1">>>>},
     y \in {<<TRUE, FALSE>>, <<TRUE, TRUE>>, <<FALSE, FALSE>>}}

DirectHardware ==
  {[mode |-> "direct", cpu |-> c, gpuName |-> x[1], gpuCount |-> x[2], dra |-> x[3], queue |-> q] :
     c \in {"unset", "ok", "bad"}, q \in BOOLEAN,
     x \in {<<FALSE, 0, FALSE>>, <<TRUE, 0, FALSE>>, <<FALSE, 2, FALSE>>, <<TRUE, 2, FALSE>>,
            <<FALSE, 0, TRUE>>}}
HardwareSlice ==
  {[Base EXCEPT !.provider = [gpuCount |-> n, gpuName |-> g, dra |-> d, selector |-> s, env |-> {}],
                !.hw = w, !.queue = q] :
     n \in 0..1, g \in BOOLEAN, d \in BOOLEAN, s \in BOOLEAN, q \in BOOLEAN,
     w \in DirectHardware \cup {Direct0, [Direct0 EXCEPT !.mode = "profile"]}}
Ident(t, c) == [type |-> t, count |-> c]
MCProfiles ==
  {[disabled |-> d, identifiers |-> i, scheduling |-> x[1], queueName |-> x[2], selector |-> x[3],
    tolerations |-> x[4]] :
     d \in BOOLEAN,
     i \in {<<>>, <<Ident("CPU", 1)>>, <<Ident("CPU", NoNumber)>>, <<Ident("Accelerator", 1)>>,
            <<Ident("Accelerator", 1), Ident("Accelerator", Unset)>>,
            <<Ident("Accelerator", NoNumber)>>, <<Ident("CPU", 1), Ident("Accelerator", 0)>>},
     x \in {<<"none", FALSE, FALSE, FALSE>>, <<"Node", FALSE, TRUE, TRUE>>,
            <<"Queue", TRUE, FALSE, FALSE>>, <<"Queue", FALSE, FALSE, FALSE>>}}

MCJobIDs == {ID0, <<"a">>, <<"a", "b", "c", "d", "e">>, <<"_", "_">>, <<"a", "-", "-", "-", "-">>,
             <<"a", "-", "0", "1">>}
MCGUIDs == {GUID0, <<"0", "1", "2", "-", "4">>, <<"1", "1", "2", "3", "4">>}
NameSlice == {[Base EXCEPT !.id = i, !.guid = g] : i \in MCJobIDs, g \in MCGUIDs}

FallbackSlice ==
  {[Base EXCEPT !.hw = a, !.jobHW = b] :
     a \in {Direct0, [Direct0 EXCEPT !.mode = "direct", !.dra = TRUE]},
     b \in {[Direct0 EXCEPT !.mode = "profile"],
            [Direct0 EXCEPT !.mode = "direct", !.gpuName = TRUE, !.gpuCount = 2]}}

MCRequests == PodSlice \cup FallbackSlice \cup HardwareSlice \cup NameSlice \cup {[Base EXCEPT !.valid = FALSE],
                                                  [Base EXCEPT !.sidecarQuantities = "bad"]}

MCspecSuffix == <<"-", "s">>
MCmodelRefSuffix == <<"-", "m", "r">>
MCnetpolSuffix == <<"-", "n", "p">>
=============================================================================

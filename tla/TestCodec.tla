----------------------------- MODULE TestCodec -----------------------------
(***************************************************************************)
(* How a test case is written to its file and read back, in YAML and in    *)
(* JSON: pkg/platform/yaml/testdb/util.go.                                 *)
(*                                                                         *)
(* A test case is [tc, rev, ref, kind, noise, custom, description, fields]: *)
(* which capture it is, how often it was changed, the asset of its request *)
(* body, its kind, its noisy fields, its other assertions, whether it is   *)
(* described, and the response fields as [name, time] (time: the value is  *)
(* a date).  A document is the same without the fields' times.             *)
(***************************************************************************)
EXTENDS Naturals

Common(t) == [tc |-> t.tc, rev |-> t.rev, ref |-> t.ref, kind |-> t.kind, fields |-> t.fields]

\* Headers and body members under one set of names.
FlattenHTTPResponse(t) == t.fields

FindNoisyFields(fields) == {f.name : f \in {g \in fields : g.time}}

\* The noise is a further assertion of the document; custom assertions are
\* only kept for HTTP.
HTTPNoise(t) == t.noise \cup FindNoisyFields(FlattenHTTPResponse(t))

buildHTTPSchema(t) == [noise |-> HTTPNoise(t), custom |-> t.custom, description |-> t.description]
HTTPSpecYAML(t) == [noise |-> HTTPNoise(t), custom |-> t.custom, description |-> t.description]

buildGrpcSpec(t) == [noise |-> t.noise, custom |-> {}, description |-> FALSE]
GrpcSpecYAML(t) == [noise |-> t.noise, custom |-> {}, description |-> FALSE]

EncodeTestcaseJSON(t) == IF t.kind = "HTTP" THEN buildHTTPSchema(t) ELSE buildGrpcSpec(t)
EncodeTestcase(t) == IF t.kind = "HTTP" THEN HTTPSpecYAML(t) ELSE GrpcSpecYAML(t)

EncodeTest(format, t) ==
    [common |-> Common(t),
     spec |-> IF format = "json" THEN EncodeTestcaseJSON(t) ELSE EncodeTestcase(t)]

\* The noise assertion is expanded into the test case's noise and also stays
\* an assertion.
expandAssertionsJSON(spec) == [noise |-> spec.noise, custom |-> spec.custom]
ExpandAssertionsYAML(spec) == [noise |-> spec.noise, custom |-> spec.custom]

DecodeWith(doc, assertions) ==
    [tc |-> doc.common.tc, rev |-> doc.common.rev, ref |-> doc.common.ref, kind |-> doc.common.kind,
     fields |-> doc.common.fields, noise |-> assertions.noise, custom |-> assertions.custom,
     description |-> doc.spec.description]

DecodeJSON(doc) == DecodeWith(doc, expandAssertionsJSON(doc.spec))
Decode(doc) == DecodeWith(doc, ExpandAssertionsYAML(doc.spec))

DecodeTest(format, doc) == IF format = "json" THEN DecodeJSON(doc) ELSE Decode(doc)
=============================================================================

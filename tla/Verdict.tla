---- MODULE Verdict ----
(***************************************************************************)
(* The verdict on the tests of a set: http.Match, MatchSchema and          *)
(* AssertionMatch, grpc.Match, and the replayer's CompareHTTPResp,         *)
(* compareHTTPRespForReplay and CompareGRPCResp around them.  The tests of *)
(* a set are compared one after another; the configured noise map and the  *)
(* templated values are shared by all of them.                             *)
(*                                                                         *)
(* A scene is [cfg, tests].  cfg holds the configured noise (global: its   *)
(* body and header maps and which of the two sections exist; set: the same *)
(* for this test set, or absent), the flags of the run and the templates.  *)
(* The scenes come in named families.                                      *)
(***************************************************************************)
EXTENDS JsonMatch

CONSTANT Scenes

VARIABLES scene, done, global, templates, verdicts

vars == <<scene, done, global, templates, verdicts>>

Init ==
    /\ \E family \in DOMAIN Scenes : scene \in Scenes[family]
    /\ done = 0
    /\ global = scene.cfg.global
    /\ templates = scene.cfg.templates
    /\ verdicts = <<>>

----------------------------------------------------------------------------
(* Noise of one comparison. *)

\* LeftJoinNoise: the sections of the test set over the global ones.
LeftJoinNoise(g, s) == [body |-> s.body @@ g.body, header |-> s.header @@ g.header]

HasSetNoise == scene.cfg.set # <<>>

\* httpNoiseConfig: a deep copy of the global map, joined with the test set's.
HttpNoiseConfig ==
    IF HasSetNoise THEN LeftJoinNoise(global, scene.cfg.set[1])
    ELSE [body |-> global.body, header |-> global.header]

\* The test's own body and header noise, written over the configured one.
TestNoise(cfg, tc) == [body |-> tc.noise.body @@ cfg.body, header |-> tc.noise.header @@ cfg.header]

\* "body" is a noise entry of the test, or the configuration names "*".
BodyNoisy(cfg, tc) == tc.noise.whole \/ <<"*">> \in DOMAIN cfg.body

----------------------------------------------------------------------------
(* http.Match *)

\* A body left out of the recording is compared by its size alone.
SizeNormal(tc, act) == tc.exp.skipped => tc.exp.size = act.size
LiveBody(tc, act) == IF tc.exp.skipped THEN Leaf("plain", "") ELSE act.body

\* The first comparison of the bodies.
BodyNormal(tc, body, noisy, noise) ==
    /\ SizeNormal(tc, tc.act)
    /\ IF ~noisy /\ IsJSON(body) /\ IsJSON(tc.exp.body)
       THEN SameJSON(tc.exp.body, body, noise.body, scene.cfg.ignoreOrdering)
       ELSE \/ ~scene.cfg.compareAll /\ ~IsJSON(body)
            \/ noisy
            \/ tc.exp.body = body

\* Headers that differ, Content-Length forgiven when the bodies agree.
HeaderDiffs(tc, act, noise, bodyNormal) ==
    AbnormalHeaders(tc.exp.headers, act.headers, noise.header)
        \ (IF bodyNormal THEN {"content-length"} ELSE {})

\* The second look at bodies that differ: JSON after CompareResponses, any
\* other text as it is.
BodyMismatch(tc, body, noise, tpl) ==
    IF IsJSON(body) /\ IsJSON(tc.exp.body)
    THEN ~SameJSON(Normalized(tc.exp.body, body, "", tpl), body, noise.body,
                   scene.cfg.ignoreOrdering)
    ELSE tc.exp.body # body

\* The templates that the second look assigns.
TemplatesAfter(tc, body, tpl) ==
    IF IsJSON(body) /\ IsJSON(tc.exp.body)
    THEN LET w == TemplatedLeaves(tc.exp.body, body, "", tpl)
         IN  [n \in DOMAIN tpl |->
                IF \E x \in w : x.name = n THEN (CHOOSE x \in w : x.name = n).value ELSE tpl[n]]
    ELSE tpl

\* The categories and the risk of a mismatch.
FailureInfo(tc, body, noise, tpl, status, headers, mismatch) ==
    LET json == IsJSON(body) /\ IsJSON(tc.exp.body)
        assess == Assessment(Normalized(tc.exp.body, body, "", tpl), body, noise.body)
        header == IF headers = {} THEN 0 ELSE IF "content-type" \in headers THEN 3 ELSE 2
        bodyRisk == IF ~mismatch THEN 0 ELSE IF json THEN assess.risk ELSE 3
    IN  [risk |-> MaxRisk(MaxRisk(IF status THEN 0 ELSE 3, header), bodyRisk),
         categories |-> (IF status THEN {} ELSE {"StatusCodeChanged"})
                          \cup (IF headers = {} THEN {} ELSE {"HeaderChanged"})
                          \cup (IF ~mismatch THEN {}
                                ELSE IF json THEN {assess.category} ELSE {"SchemaBroken"})]

\* Match without the assertions: whether the test passes, what it reports and
\* the templates it leaves.
MatchHTTP(tc, cfg, tpl) ==
    LET noisy == BodyNoisy(cfg, tc)
        noise == TestNoise(cfg, tc)
        body == LiveBody(tc, tc.act)
        normal == BodyNormal(tc, body, noisy, noise)
        headers == HeaderDiffs(tc, tc.act, noise, normal)
        status == tc.exp.status = tc.act.status
        pass == normal /\ headers = {} /\ status
        mismatch == ~normal /\ BodyMismatch(tc, body, noise, tpl)
        info == FailureInfo(tc, body, noise, tpl, status, headers, mismatch)
    IN  [pass |-> pass \/ (status /\ headers = {} /\ ~mismatch /\ SizeNormal(tc, tc.act)),
         info |-> IF pass THEN [risk |-> 0, categories |-> {}] ELSE info,
         headers |-> headers,
         templates |-> IF pass \/ normal THEN tpl ELSE TemplatesAfter(tc, body, tpl)]

----------------------------------------------------------------------------
(* AssertionMatch: one operator per assertion, on the live response. *)

StatusCode(x, act) == x.want = act.status

\* A class is given as its first digit, 2 for "2xx", or as a status code of it.
\* The response's class is computed from the constant 200, not from its status.
ClassOf(want) == IF want < 10 THEN want ELSE want \div 100
StatusCodeClass(x, act) == ClassOf(x.want) = 200 \div 100
StatusCodeIn(x, act) == act.status \in x.want
HeaderEqual(x, act) == \A h \in DOMAIN x.want : h \in DOMAIN act.headers /\ act.headers[h] = x.want[h]
HeaderExists(x, act) == x.want \subseteq DOMAIN act.headers
JsonEqual(x, tc, act) == tc.exp.body = act.body
JsonContains(x, act) == ContainsRecursive(act.body, x.want)

Asserted(x, tc, act) ==
    \/ x.name = "status_code" /\ StatusCode(x, act)
    \/ x.name = "status_code_class" /\ StatusCodeClass(x, act)
    \/ x.name = "status_code_in" /\ StatusCodeIn(x, act)
    \/ x.name = "header_equal" /\ HeaderEqual(x, act)
    \/ x.name = "header_exists" /\ HeaderExists(x, act)
    \/ x.name = "json_equal" /\ JsonEqual(x, tc, act)
    \/ x.name = "json_contains" /\ JsonContains(x, act)

\* A test with assertions of its own is judged by them alone.  The body that
\* Match cleared for a skipped recording stays cleared.
Match(tc, cfg, tpl) ==
    LET m == MatchHTTP(tc, cfg, tpl)
        act == [tc.act EXCEPT !.body = LiveBody(tc, tc.act)]
    IN  IF tc.asserts = <<>> THEN m
        ELSE [m EXCEPT !.pass = \A i \in DOMAIN tc.asserts : Asserted(tc.asserts[i], tc, act),
                       !.info = [risk |-> 0, categories |-> {}],
                       !.headers = {}]

\* MatchSchema: status, types and keys of the body, presence of the headers.
MatchSchema(tc) ==
    LET body == LiveBody(tc, tc.act)
    IN  /\ SizeNormal(tc, tc.act)
        /\ tc.exp.status = tc.act.status
        /\ IF IsJSON(tc.exp.body) /\ IsJSON(body)
           THEN SchemaMatch(tc.exp.body, body)
           ELSE tc.exp.body = body
        /\ DOMAIN tc.exp.headers \subseteq DOMAIN tc.act.headers

----------------------------------------------------------------------------
(* The replayer's comparison. *)

\* hasOnlyContentLengthDiff: the one header that differs is Content-Length,
\* present on both sides.
OnlyContentLengthDiff(tc, m) ==
    /\ m.headers = {"content-length"}
    /\ "content-length" \in DOMAIN tc.exp.headers
    /\ "content-length" \in DOMAIN tc.act.headers

\* qualifiesForHTTPResponseSchemaAdditionPass.
AdditionPass(tc, m) ==
    \/ m.info.risk = 1 /\ m.info.categories = {"SchemaAdded"}
    \/ m.info.categories = {"SchemaAdded", "HeaderChanged"} /\ OnlyContentLengthDiff(tc, m)

Next1 == scene.tests[done + 1]

Record(pass) ==
    verdicts' = Append(verdicts, [pass |-> pass, templates |-> templates])

\* compareHTTPRespForReplay.  With failure logs on, a silent comparison of a
\* copy comes first, and the printing one only when that has failed.
CompareForReplay(tc, cfg) ==
    \E first \in {Match(tc, cfg, templates)} :
    \E again \in {Match(tc, cfg, IF scene.cfg.emit THEN first.templates ELSE templates)} :
        LET silent == scene.cfg.emit /\ (first.pass \/ AdditionPass(tc, first))
            m == IF silent THEN first ELSE again
        IN  /\ Record(m.pass \/ AdditionPass(tc, m))
            /\ templates' = m.templates

CompareHTTPResp ==
    /\ done < Len(scene.tests) /\ Next1.kind = "http"
    /\ IF scene.cfg.schemaMatch
       THEN Record(MatchSchema(Next1)) /\ UNCHANGED templates
       ELSE CompareForReplay(Next1, HttpNoiseConfig)
    /\ done' = done + 1
    /\ UNCHANGED <<scene, global>>

----------------------------------------------------------------------------
(* grpc.Match *)

\* Decoded data: JSON on both sides, or text blocks in any order.
DecodedNormal(tc, noise) ==
    IF IsJSON(tc.exp.data) /\ IsJSON(tc.act.data)
    THEN SameJSON(NormalizeForNoise(tc.exp.data, noise), NormalizeForNoise(tc.act.data, noise),
                  noise, scene.cfg.ignoreOrdering)
    ELSE /\ IsJSON(tc.exp.data) = IsJSON(tc.act.data)
         /\ Canonical(tc.exp.data.list) = Canonical(tc.act.data.list)

\* The differences found before the noise is applied to them.  The content
\* type counts up to its "+".
Differences(tc, noise) ==
    (IF tc.exp.status # tc.act.status THEN {":status"} ELSE {})
    \cup (IF tc.exp.ctype # tc.act.ctype THEN {"content-type"} ELSE {})
    \cup (IF tc.exp.flag # tc.act.flag THEN {"compression_flag"} ELSE {})
    \cup (IF DecodedNormal(tc, noise) THEN {} ELSE {"decoded_data"})
    \cup (IF tc.exp.len # tc.act.len /\ ~DecodedNormal(tc, noise)
          THEN {"message_length"} ELSE {})

\* Differences that a noise entry names are dropped; whether the test matched
\* is decided here, before the trailer's grpc-status is compared.
MatchGRPC(tc, noise) ==
    \A d \in Differences(tc, noise.body) :
        IF d \in {":status", "content-type"} THEN d \in DOMAIN noise.header
        ELSE <<d>> \in DOMAIN noise.body

\* CompareGRPCResp hands the configured map itself to Match, which writes the
\* test's noise into the sections that exist; a test set's noise is joined
\* into a copy.
CompareGRPCResp ==
    /\ done < Len(scene.tests) /\ Next1.kind = "grpc"
    /\ LET tc == Next1
           cfg == IF HasSetNoise THEN LeftJoinNoise(global, scene.cfg.set[1]) ELSE global
           noise == TestNoise(cfg, tc)
       IN  /\ Record(MatchGRPC(tc, noise))
           /\ global' = IF HasSetNoise THEN global
                        ELSE [global EXCEPT
                                !.body = IF "body" \in global.sections THEN noise.body ELSE @,
                                !.header = IF "header" \in global.sections THEN noise.header ELSE @]
    /\ done' = done + 1
    /\ UNCHANGED <<scene, templates>>

Next == CompareHTTPResp \/ CompareGRPCResp

Spec == Init /\ [][Next]_vars

----------------------------------------------------------------------------
(* What a verdict means. *)

\* The noise of the earlier gRPC tests of the set, which stays in the
\* configured sections when the test set has no noise of its own.
Inherited(i, section) ==
    IF HasSetNoise \/ section \notin scene.cfg.global.sections THEN {}
    ELSE UNION {DOMAIN scene.tests[j].noise[section] : j \in {j \in 1 .. i - 1 : scene.tests[j].kind = "grpc"}}

\* The noise that hides a difference of test i: the configuration's, its own
\* and what it inherits.
NoiseOf(i) ==
    LET cfg == scene.cfg
        tc == scene.tests[i]
        base == IF HasSetNoise THEN LeftJoinNoise(cfg.global, cfg.set[1]) ELSE cfg.global
    IN  [body |-> DOMAIN tc.noise.body \cup DOMAIN base.body \cup Inherited(i, "body"),
         header |-> DOMAIN tc.noise.header \cup DOMAIN base.header \cup Inherited(i, "header"),
         whole |-> tc.noise.whole \/ <<"*">> \in DOMAIN base.body]

Hidden(noise, p) ==
    \E k \in noise : IF Len(k) = 1 THEN p # <<>> /\ Last(p) = k[1] ELSE Within(k, p)

Bijections(n) == {f \in [1 .. n -> 1 .. n] : \A i, j \in 1 .. n : f[i] = f[j] => i = j}

RECURSIVE Agrees(_, _, _, _, _)

\* The live value keeps everything the recorded one says, noise and templated
\* values aside; new members are allowed.
Agrees(p, e, a, noise, free) ==
    \/ e = a
    \/ Hidden(noise, p)
    \/ e.t \in Scalars /\ e.a \in free
    \/ /\ e.t = "str" /\ a.t = "str" /\ {e.a, a.a} \subseteq DOMAIN Reading
       /\ Agrees(p, Reading[e.a], Reading[a.a], noise, free)
    \/ /\ e.t = "obj"
       /\ \A k \in DOMAIN e.kids :
             \/ Hidden(noise, Append(p, k))
             \/ k \in DOMAIN a.kids /\ Agrees(Append(p, k), e.kids[k], a.kids[k], noise, free)
    \/ /\ e.t = "arr" /\ a.t = "arr" /\ Len(e.list) = Len(a.list)
       /\ \E f \in Bijections(Len(e.list)) :
             /\ scene.cfg.ignoreOrdering \/ \A i \in DOMAIN f : f[i] = i
             /\ \A i \in DOMAIN f : Agrees(p, e.list[i], a.list[f[i]], noise, free)

HeadersAgree(e, a, noise) ==
    "header" \notin noise => \A h \in (DOMAIN e \cup DOMAIN a) \ ({"content-length"} \cup noise) :
        h \in DOMAIN e /\ h \in DOMAIN a /\ e[h] = a[h]

HttpAgrees(i, free) ==
    LET tc == scene.tests[i]
        noise == NoiseOf(i)
    IN  /\ tc.exp.status = tc.act.status
        /\ HeadersAgree(tc.exp.headers, tc.act.headers, noise.header)
        /\ \/ noise.whole
           \/ tc.exp.skipped /\ tc.exp.size = tc.act.size
           \/ ~tc.exp.skipped /\ ~IsJSON(tc.act.body) /\ ~scene.cfg.compareAll
           \/ ~tc.exp.skipped /\ Agrees(<<>>, tc.exp.body, tc.act.body, noise.body, free)

\* Not the trailer's grpc-status, which is compared after the verdict.
GrpcAgrees(i) ==
    LET tc == scene.tests[i]
        noise == NoiseOf(i)
    IN  /\ tc.exp.status = tc.act.status
        /\ tc.exp.ctype = tc.act.ctype \/ "content-type" \in noise.header
        /\ \/ IsJSON(tc.exp.data) /\ Agrees(<<>>, tc.exp.data, tc.act.data, noise.body, {})
           \/ ~IsJSON(tc.exp.data) /\ ToSet(tc.exp.data.list) = ToSet(tc.act.data.list)

\* A test passes only when the live response keeps what the recorded one says
\* -- status, headers, every value that is no noise and no templated value --
\* and a response equal to the recorded one passes, whatever tests were
\* compared before it.  Noise is what the configuration and the test call so
\* and, when the test set has no noise of its own, what any earlier gRPC test
\* of the set does: that one wrote it into the shared map.  The status of a
\* gRPC response is the one of its headers, not its trailer's grpc-status.
VerdictsHonest ==
    \A i \in DOMAIN verdicts :
        LET tc == scene.tests[i]
            known == verdicts[i].templates
            free == {known[n] : n \in DOMAIN known}
        IN  /\ tc.exp = tc.act /\ tc.asserts = <<>> => verdicts[i].pass
            /\ verdicts[i].pass /\ tc.asserts = <<>> /\ ~scene.cfg.schemaMatch =>
                  IF tc.kind = "http" THEN HttpAgrees(i, free) ELSE GrpcAgrees(i)
====

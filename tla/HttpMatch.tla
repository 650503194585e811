----------------------------- MODULE HttpMatch ------------------------------
(***************************************************************************)
(* How a replayed HTTP request finds its mock (integrations/http/match.go, *)
(* the set-up in decode.go, schema_noise.go with integrations/schemanoise  *)
(* and integrations/util/obfuscate.go): several connections match against  *)
(* the pools of the mock manager and then claim what they found.           *)
(*                                                                         *)
(* A request is [method, path, query, headers, ctype, body]: path a        *)
(* sequence of segments, query and headers sets of names, body [kind,      *)
(* fields] with fields a function from names to values. A mock is          *)
(* [req, life, noise]: noise are the values its obfuscation patterns match.*)
(***************************************************************************)
EXTENDS Naturals, Sequences, FiniteSets, SequencesExt

CONSTANTS
    Conns,
    Scenes      \* [mocks, perTest, session, script, config]: the recorded
                \* mocks by number, the two pools in order, per connection the
                \* sequence of [of, req] it issues, and the settings
                \* [flaky, urlNoise, bodyNoise, auto, detect, strict, ids, times]

VARIABLES
    scene,
    perTest,            \* the per-test pool: a sequence of mock numbers
    session,            \* the session pool: a sequence of [mock, id]
    learned,            \* per mock: Spec.ReqBodyNoise, a set of fields
    conn,               \* per connection: [pos, pc, pick, noise]
    served              \* set of [c, pos, mock, known]; mock 0 is a miss, known
                        \* the noise of the mock when it was served
vars == <<scene, perTest, session, learned, conn, served>>

Mocks == DOMAIN scene.mocks
Mock(i) == scene.mocks[i]
Cfg == scene.config
Idle(pos) == [pos |-> pos, pc |-> "match", pick |-> 0, noise |-> {}]
Filed(i, id) == [mock |-> i, id |-> id]

Init ==
    /\ scene \in Scenes
    /\ perTest = scene.perTest
    /\ session = [j \in DOMAIN scene.session |-> Filed(scene.session[j], j)]
    /\ learned = [i \in DOMAIN scene.mocks |-> scene.mocks[i].learned]
    /\ conn = [c \in Conns |-> Idle(1)]
    /\ served = {}

-----------------------------------------------------------------------------
(* SchemaMatch and its tests.                                              *)
looksDynamicSegment(s) == s \in Cfg.ids
pathMatchesModuloDynamicSegments(p, q) ==
    /\ Len(p) = Len(q) /\ p # q
    /\ \A i \in DOMAIN p : p[i] = q[i] \/ (looksDynamicSegment(p[i]) /\ looksDynamicSegment(q[i]))
WithoutUrlNoise(p) == [i \in DOMAIN p |-> IF p[i] \in Cfg.urlNoise THEN "{{keploy.urlnoise}}" ELSE p[i]]
MatchURLPath(p, q, autoDynamic) ==
    \/ p = q
    \/ Cfg.urlNoise # {} /\ WithoutUrlNoise(p) = WithoutUrlNoise(q)
    \/ autoDynamic /\ pathMatchesModuloDynamicSegments(p, q)

(* The mock's headers that are not noise are among the request's.          *)
HeadersContainKeys(expected, actual) == (expected \ Cfg.flaky) \subseteq actual
MapsHaveSameKeys(expected, actual) == expected = actual
(* A type is compared when both sides state one.                           *)
mediaTypesOverlap(a, b) == a = "" \/ b = "" \/ a = b
(* Forms and other text look alike; an empty body is text, or nothing.     *)
IsJSON(body) == body.kind \in {"json", "array"}
BodyType(body) == IF IsJSON(body) THEN "json" ELSE "plain"
MatchBodyType(b, body) == BodyType(b) = BodyType(body)

Suits(i, req, autoDynamic) ==
    LET m == Mock(i).req
    IN /\ mediaTypesOverlap(m.ctype, req.ctype)
       /\ MatchBodyType(m.body, req.body)
       /\ MatchURLPath(m.path, req.path, autoDynamic)
       /\ m.method = req.method
       /\ HeadersContainKeys(m.headers, req.headers)
       /\ MapsHaveSameKeys(m.query, req.query)
SchemaMatch(req, pool, autoDynamic) == SelectSeq(pool, LAMBDA i : Suits(i, req, autoDynamic))

-----------------------------------------------------------------------------
(* ExactBodyMatch: the first equal body, else the first that is equal but  *)
(* for what its obfuscation patterns cover.                                *)
IsNoisy(i, v) == v \in Mock(i).noise
(* formBodiesMatchModuloNoise: both values of a field are left out, or     *)
(* neither and they are equal.                                             *)
LeftOut(i, v) == IsNoisy(i, v) \/ v \in Cfg.times
formBodiesMatchModuloNoise(i, f, g) ==
    /\ DOMAIN f = DOMAIN g
    /\ \A k \in DOMAIN f : IF LeftOut(i, f[k]) THEN LeftOut(i, g[k]) ELSE g[k] = f[k]
(* JSONBodyMatchScore: every field that is not noisy is there and equal.   *)
FullScore(i, f, g) == \A k \in DOMAIN f : IsNoisy(i, f[k]) \/ (k \in DOMAIN g /\ g[k] = f[k])
(* Mutant: only the mock's own fields are compared.                        *)
HasExtraNonNoisyKeysNever(f, g) == FALSE
HasExtraNonNoisyKeys(f, g) == ~(DOMAIN g \subseteq DOMAIN f)

NoiseAwareEqual(i, body) ==
    LET b == Mock(i).req.body
    IN /\ Mock(i).noise # {}
       /\ CASE b.kind = "text" -> \E k \in DOMAIN b.fields : IsNoisy(i, b.fields[k])
            [] b.kind = "form" /\ body.kind = "form" -> formBodiesMatchModuloNoise(i, b.fields, body.fields)
            [] b.kind = "json" /\ body.kind = "json" ->
                  FullScore(i, b.fields, body.fields) /\ ~HasExtraNonNoisyKeys(b.fields, body.fields)
            [] OTHER -> FALSE

FirstOf(seq, Test(_)) ==
    IF \E j \in DOMAIN seq : Test(seq[j])
    THEN seq[CHOOSE j \in DOMAIN seq : Test(seq[j]) /\ \A l \in 1 .. j - 1 : ~Test(seq[l])]
    ELSE 0
ExactBodyMatch(body, cands) ==
    LET same == FirstOf(cands, LAMBDA i : Mock(i).req.body = body)
    IN IF same # 0 THEN same ELSE FirstOf(cands, LAMBDA i : NoiseAwareEqual(i, body))

(* PerformBodyMatch: the mock's top-level keys are all in the request. A   *)
(* JSON body that is no object ends the search.                            *)
bodyMatch(i, body) == DOMAIN Mock(i).req.body.fields \subseteq DOMAIN body.fields
unmarshals(i, body) == Mock(i).req.body.kind = "json" /\ body.kind = "json"
PerformBodyMatch(body, cands) ==
    LET before(j) == \A l \in 1 .. j : unmarshals(cands[l], body)
        n == Cardinality({j \in DOMAIN cands : before(j)})
    IN SelectSeq(SubSeq(cands, 1, n), LAMBDA i : bodyMatch(i, body))

-----------------------------------------------------------------------------
(* schemanoise: fields that differ outside the known noise.                *)
KnownNoise(i) == Cfg.bodyNoise \cup learned[i]
(* DetectJSONDrift and formReqBodyNoise: added fields are drift in JSON    *)
(* only; an obfuscated recorded value never is.                            *)
Diff(i, body) ==
    LET f == Mock(i).req.body.fields
        g == body.fields
        added == IF body.kind = "json" THEN DOMAIN g \ DOMAIN f ELSE {}
    IN {k \in DOMAIN f \cup added :
          /\ k \notin KnownNoise(i)
          /\ k \in DOMAIN f => ~IsNoisy(i, f[k]) /\ (k \notin DOMAIN g \/ g[k] # f[k])}
Comparable(i, body) == Mock(i).req.body.kind = body.kind /\ body.kind \in {"json", "form"}
Detect(i, body) == IF Cfg.detect /\ Comparable(i, body) THEN Diff(i, body) ELSE {}
StrictReject(i, body) ==
    IF Comparable(i, body) THEN Diff(i, body) # {} ELSE Mock(i).req.body # body
filterStrictNoiseMatches(cands, body) ==
    IF Cfg.strict THEN SelectSeq(cands, LAMBDA i : ~StrictReject(i, body)) ELSE cands

(* PerformFuzzyMatch ranks by edit distance to the raw request or by       *)
(* shingles; any candidate may come first.                                 *)
PerformFuzzyMatch(cands) == Range(cands)

(* One pass of match over a snapshot of the pools: the numbers it may      *)
(* choose, with what it learned; 0 is a miss.                              *)
Hit(i, detected) == [pick |-> i, detected |-> detected]
Candidates(req) ==
    LET pool == perTest \o [j \in DOMAIN session |-> session[j].mock]
        plain == SchemaMatch(req, pool, FALSE)
    IN IF plain = << >> /\ Cfg.auto THEN SchemaMatch(req, pool, TRUE) ELSE plain
Outcomes(req) ==
    LET cands == Candidates(req)
        exact == ExactBodyMatch(req.body, cands)
        byKeys == filterStrictNoiseMatches(PerformBodyMatch(req.body, cands), req.body)
    IN IF cands = << >> THEN {Hit(0, {})}
       ELSE IF exact # 0 THEN {Hit(exact, {})}
       ELSE IF IsJSON(req.body)
       THEN IF byKeys = << >> THEN {Hit(0, {})}
            ELSE {Hit(i, Detect(i, req.body)) : i \in PerformFuzzyMatch(byKeys)}
       ELSE {Hit(i, Detect(i, req.body)) : i \in PerformFuzzyMatch(cands)}

-----------------------------------------------------------------------------
Todo(c) == conn[c].pos \in DOMAIN scene.script[c]
Request(c) == scene.script[c][conn[c].pos].req

(* A miss is answered with a 502 and ends the connection.                  *)
match(c) ==
    /\ Todo(c) /\ conn[c].pc = "match"
    /\ \E h \in Outcomes(Request(c)) :
        IF h.pick = 0
        THEN /\ served' = served \cup {[c |-> c, pos |-> conn[c].pos, mock |-> 0, known |-> {}]}
             /\ conn' = [conn EXCEPT ![c] = Idle(Len(scene.script[c]) + 1)]
        ELSE /\ conn' = [conn EXCEPT ![c] = [@ EXCEPT !.pc = "update", !.pick = h.pick,
                                    !.noise = learned[h.pick] \cup h.detected]]
             /\ served' = served
    /\ UNCHANGED <<scene, perTest, session, learned>>

Serve(c) ==
    /\ served' = served \cup {[c |-> c, pos |-> conn[c].pos, mock |-> conn[c].pick,
                               known |-> KnownNoise(conn[c].pick)]}
    /\ learned' = [learned EXCEPT ![conn[c].pick] = conn[c].noise]
    /\ conn' = [conn EXCEPT ![c] = Idle(conn[c].pos + 1)]

(* The position in its list that a mock carries as its ID.                 *)
IdOf(i) ==
    LET list == IF Mock(i).life = "session" THEN scene.session ELSE scene.perTest
    IN CHOOSE j \in DOMAIN list : list[j] = i

(* UpdateUnFilteredMock: whatever the session tree has under the mock's ID *)
(* makes way for it.                                                       *)
UpdateUnFilteredMock(c, i) ==
    IF \E j \in DOMAIN session : session[j].id = IdOf(i)
    THEN /\ session' = Append(SelectSeq(session, LAMBDA e : e.id # IdOf(i)), Filed(i, IdOf(i)))
         /\ perTest' = perTest /\ Serve(c)
    ELSE /\ conn' = [conn EXCEPT ![c] = Idle(conn[c].pos)]
         /\ UNCHANGED <<perTest, session, learned, served>>

(* updateMock: a per-test mock is taken out if it is still there; a        *)
(* session mock, and a per-test mock that is gone, is filed anew; when     *)
(* that fails too the search is repeated.                                  *)
updateMock(c) ==
    /\ conn[c].pc = "update"
    /\ LET i == conn[c].pick
       IN IF Mock(i).life = "perTest" /\ i \in Range(perTest)
          THEN perTest' = SelectSeq(perTest, LAMBDA j : j # i) /\ session' = session /\ Serve(c)
          ELSE UpdateUnFilteredMock(c, i)
    /\ UNCHANGED scene

Next == \E c \in Conns : match(c) \/ updateMock(c)
Spec == Init /\ [][Next]_vars

-----------------------------------------------------------------------------
Call(s) == scene.script[s.c][s.pos]
SameEndpoint(m, req) ==
    /\ m.method = req.method /\ m.query = req.query
    /\ Len(m.path) = Len(req.path)
    /\ \A j \in DOMAIN m.path :
          m.path[j] = req.path[j] \/ {m.path[j], req.path[j]} \subseteq Cfg.ids \cup Cfg.urlNoise

(* The body of request req is that of mock i up to obfuscation, timestamps *)
(* and the fields in known.                                                *)
SameBody(i, req, known) ==
    LET f == Mock(i).req.body.fields
    IN /\ DOMAIN f = DOMAIN req.body.fields
       /\ \A k \in DOMAIN f :
             f[k] = req.body.fields[k] \/ f[k] \in Mock(i).noise \cup Cfg.times \/ k \in known

(* PerformBodyMatch gives up at a recorded body that is JSON and no object.*)
Unkeyed(req) == \E i \in Mocks : SameEndpoint(Mock(i).req, req) /\ Mock(i).req.body.kind = "array"

Twice(i) ==
    /\ Mock(i).life = "perTest"
    /\ \E s, t \in served : s # t /\ s.mock = i /\ t.mock = i
(* No session mock has been overwritten.                                   *)
Intact == Range(scene.session) \subseteq {session[j].mock : j \in DOMAIN session}

(* Every request is served a mock of its endpoint, whichever connections   *)
(* compete; when it repeats its recorded call up to obfuscation and        *)
(* timestamps, or when bodies are enforced strictly, a mock of the very    *)
(* same body up to known noise.  A miss needs a recorded body of the       *)
(* endpoint that is JSON and no object.  A per-test mock is served twice   *)
(* only when a session mock has its ID; that is the one way for a session  *)
(* mock to be lost, and of what is served afterwards nothing is claimed.   *)
HttpServed ==
    /\ (~\E i \in Mocks : Twice(i)) =>
          \A s \in served :
             IF s.mock = 0 THEN Unkeyed(Call(s).req)
             ELSE /\ SameEndpoint(Mock(s.mock).req, Call(s).req)
                  /\ (Cfg.strict \/ SameBody(Call(s).of, Call(s).req, {})) => SameBody(s.mock, Call(s).req, s.known)
    /\ \A i \in Mocks : Twice(i) => IdOf(i) \in DOMAIN scene.session
    /\ Intact \/ \E i \in Mocks : Twice(i)
=============================================================================

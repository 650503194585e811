------------------------------ MODULE MCParsers -----------------------------
(***************************************************************************)
(* Model checking of the protocol parsers, the capture of gRPC calls, the  *)
(* memory guard, the replay of test sets and the comparison of responses.  *)
(* The components share no state: which says the one a behaviour is about, *)
(* and the variables of the others stay at "off".                          *)
(***************************************************************************)
EXTENDS Integers, Sequences, FiniteSets, SequencesExt, TLC

CONSTANTS HandshakeSessions, DecodeSessions, CommandSessions, LegacyScenarios,
          MatchScenes, GenericScenes, GrpcScenes, Boxes, VerdictScenes, ReplayConfigs,
          MatchConns, Reading, MaxResetResends, MaxFailAttempts,
          MaxFaults, BuffCap, DecodeCap, ChanCap

VARIABLES which, hSession, hWire, hRec, hMocks, hRep, hKept, hServed, hFaults,
          dSession, dRd, dFw, dReader, dErrs, dCancelled, dMain, dTail, dChan,
          dMissed, dD, dV, cSession, cWin, cPt, cSs, cLedger, cConn, cAnswers, lCfg,
          lWire, lSent, lGot, lState, lDeadline, lFwd, lQueue, lMain,
          lCancelled, lPaused, lMocks, lFaults, mScene, mPerTest, mSession,
          mLearned, mConn, mServed, gScene, gSent, gCh, gStopped,
          gEvents, gStarted, gPair, gIncomplete, gMocks, gOrder, gTier,
          gConn, gServed, wScene, wCtx, wPaused, wOpen, wFwd, wCh, wParser,
          wTable, wStreams, wEmit, wTests, bBox, bLimit, bGuard, bPaused,
          bSinks, bHooks, bApply, bLast, bTicks, rCfg, rStart, rTs, rEnv,
          rUsed, rDb, vScene, vDone, vGlobal, vTemplates, vVerdicts

hvars == <<hSession, hWire, hRec, hMocks, hRep, hKept, hServed, hFaults>>
dvars == <<dSession, dRd, dFw, dReader, dErrs, dCancelled, dMain, dTail,
           dChan, dMissed, dD, dV>>
cvars == <<cSession, cWin, cPt, cSs, cLedger, cConn, cAnswers>>
lvars == <<lCfg, lWire, lSent, lGot, lState, lDeadline, lFwd, lQueue, lMain,
           lCancelled, lPaused, lMocks, lFaults>>
mvars == <<mScene, mPerTest, mSession, mLearned, mConn, mServed>>
gvars == <<gScene, gSent, gCh, gStopped, gEvents, gStarted, gPair,
           gIncomplete, gMocks, gOrder, gTier, gConn, gServed>>
wvars == <<wScene, wCtx, wPaused, wOpen, wFwd, wCh, wParser, wTable, wStreams,
           wEmit, wTests>>
bvars == <<bBox, bLimit, bGuard, bPaused, bSinks, bHooks, bApply, bLast,
           bTicks>>
rvars == <<rCfg, rStart, rTs, rEnv, rUsed, rDb>>
vvars == <<vScene, vDone, vGlobal, vTemplates, vVerdicts>>
vars == <<which, hvars, dvars, cvars, lvars, mvars, gvars, wvars, bvars, rvars, vvars>>

QShape(q) == IF q \in {"ins1", "ins2"} THEN "ins" ELSE q
QWidth(q) == CASE q \in {"ins1", "ins2"} -> 4 [] q = "sel" -> 3 [] OTHER -> 5
QIsDML(q) == q \in {"ins1", "ins2"}

\* Replays of a set of two tests and a stream, and of an ignored set.
MCSets == <<"A", "B">>
MCTestCases == [A |-> <<"t1", "ig", "t2", "st">>, B |-> <<"u">>]

Play(r, u) == [resp |-> r, uses |-> u]
Few == {Play("match", "own"), Play("error", "none")}
Many == Few \cup {Play("match", "other"), Play("diff", "other"), Play("error", "own"),
                  Play("reset", "none"), Play("reset", "own")}

Base == [compose |-> FALSE, instrument |-> TRUE, keepAlive |-> FALSE, mustPass |-> FALSE, retry |-> FALSE,
         strict |-> FALSE, noiseStrict |-> FALSE, prune |-> TRUE, preserve |-> FALSE, mapping |-> TRUE,
         update |-> FALSE, script |-> FALSE, flakyChecks |-> 1, outcomes |-> Many]
MCConfigs ==
    {[Base EXCEPT !.retry = TRUE, !.noiseStrict = TRUE, !.preserve = TRUE,
                  !.outcomes = Many \ {Play("reset", "none"), Play("diff", "other")}],
     [Base EXCEPT !.compose = TRUE, !.mapping = FALSE, !.script = TRUE,
                  !.outcomes = Many \ {Play("match", "other"), Play("error", "own")}],
     [Base EXCEPT !.keepAlive = TRUE, !.strict = TRUE, !.update = TRUE, !.outcomes = Few \cup {Play("diff", "other")}],
     [Base EXCEPT !.mustPass = TRUE, !.outcomes = Few \cup {Play("reset", "own")}],
     [Base EXCEPT !.instrument = FALSE, !.flakyChecks = 2, !.outcomes = Few]}

Handshake == INSTANCE MySqlHandshake WITH Sessions <- HandshakeSessions,
    session <- hSession, wire <- hWire, rec <- hRec, mocks <- hMocks,
    rep <- hRep, kept <- hKept, served <- hServed, faults <- hFaults
DecodePhase == INSTANCE MySqlDecode WITH Sessions <- DecodeSessions,
    session <- dSession, rd <- dRd, fw <- dFw, reader <- dReader,
    errs <- dErrs, cancelled <- dCancelled, main <- dMain, tail <- dTail,
    chan <- dChan, missed <- dMissed, d <- dD, v <- dV
CommandPhase == INSTANCE MySqlCommands WITH Sessions <- CommandSessions,
    Shape <- QShape, Width <- QWidth, IsDML <- QIsDML, session <- cSession,
    win <- cWin, pt <- cPt, ss <- cSs, ledger <- cLedger, conn <- cConn, answers <- cAnswers
Legacy == INSTANCE HttpLegacy WITH Scenarios <- LegacyScenarios, cfg <- lCfg,
    wire <- lWire, sent <- lSent, got <- lGot, state <- lState,
    deadline <- lDeadline, fwd <- lFwd, queue <- lQueue, main <- lMain,
    cancelled <- lCancelled, paused <- lPaused, mocks <- lMocks,
    faults <- lFaults
Match == INSTANCE HttpMatch WITH Conns <- MatchConns, Scenes <- MatchScenes,
    scene <- mScene, perTest <- mPerTest, session <- mSession,
    learned <- mLearned, conn <- mConn, served <- mServed
Raw == INSTANCE Generic WITH Conns <- MatchConns, Scenes <- GenericScenes,
    scene <- gScene, sent <- gSent, ch <- gCh, stopped <- gStopped,
    events <- gEvents, started <- gStarted, pair <- gPair,
    incomplete <- gIncomplete, mocks <- gMocks, order <- gOrder,
    tier <- gTier, conn <- gConn, served <- gServed
GrpcCapture == INSTANCE GrpcIngress WITH Scenes <- GrpcScenes, ChanCap <- 1,
    scene <- wScene, ctx <- wCtx, paused <- wPaused, open <- wOpen,
    fwd <- wFwd, ch <- wCh, parser <- wParser, table <- wTable,
    streams <- wStreams, emit <- wEmit, tests <- wTests
Guard == INSTANCE MemGuard WITH Limits <- {0, 1, 2, 10}, Hooks <- {"h1"},
    MaxFails <- 2, Readings <- 3, box <- bBox, limit <- bLimit,
    guard <- bGuard, paused <- bPaused, sinks <- bSinks, hooks <- bHooks,
    apply <- bApply, last <- bLast, ticks <- bTicks
Run == INSTANCE Replay WITH Sets <- MCSets, TestCases <- MCTestCases,
    Streaming <- {"st"}, Ignored <- {"ig"}, IgnoredSets <- {"B"},
    Configs <- ReplayConfigs, StartupWindow <- 1, cfg <- rCfg,
    start <- rStart, ts <- rTs, env <- rEnv, used <- rUsed, db <- rDb
Verdicts == INSTANCE Verdict WITH Scenes <- VerdictScenes, scene <- vScene,
    done <- vDone, global <- vGlobal, templates <- vTemplates,
    verdicts <- vVerdicts

-----------------------------------------------------------------------------
\* Handshakes: two connections of one or two users, each over TLS or not.
Login(u, s, t, f, m, e) ==
    [user |-> u, ssl |-> s, plugin |-> t[1], switch |-> t[2], auth |-> t[3], final |-> f, mid |-> m, stored |-> e]

Auths == {<<"native", "none", "ok">>, <<"native", "none", "err">>, <<"sha2", "none", "ok">>, <<"sha2", "none", "fast">>,
          <<"sha2", "none", "full">>, <<"other", "none", "ok">>, <<"sha2", "native", "ok">>, <<"native", "sha2", "full">>}

ConnSet == {c \in {Login(u, s, t, f, m, e) :
                      u \in {"a", "b"}, s \in BOOLEAN, t \in Auths, f \in {"OK", "ERR"}, m \in BOOLEAN, e \in BOOLEAN} :
              /\ ~c.ssl => c.stored
              /\ c.auth = "ok" => c.final = "OK"
              /\ c.auth = "err" => c.final = "ERR"}

Valid(x, y) == /\ x.plugin = y.plugin /\ x.user = "a" /\ ~y.mid
               /\ x.mid => x.final = "OK"

LoginPairs == {c \in ConnSet \X ConnSet : Valid(c[1], c[2])}

MCHandshakes ==
    {s \in [path : {"legacy", "v2", "post"}, conns : LoginPairs] :
        /\ s.path # "post" => s.conns[1].stored /\ s.conns[2].stored /\ ~s.conns[1].mid
        /\ s.path = "post" => s.conns[1].ssl /\ s.conns[2].ssl}

\* Command streams: [script, deof, drops, cancel].
Scripts == {<<"QUERY", "PING", "QUERY">>, <<"PREP", "EXEC", "CLOSE">>, <<"BAD", "CLOSE", "PING">>,
            <<"PREP", "QUERY", "EXEC">>, <<"PING", "BAD", "PREP">>, <<"QUERY", "CLOSE", "CLOSE", "PREP", "BAD">>,
            <<"QUERY", "CALL", "PING">>}
Unprepared == <<"EXEC", "QUERY", "PING">>
D(t, e, n, c) == [script |-> t, deof |-> e, drops |-> n, cancel |-> c]

MCDecodes ==
    {D(t, e, 0, FALSE) : t \in Scripts, e \in BOOLEAN}
        \union {D(t, e, 1, FALSE) : t \in Scripts \union {Unprepared}, e \in BOOLEAN}
        \union {D(t, e, 0, TRUE) : t \in {u \in Scripts : Len(u) = 3} \union {Unprepared}, e \in BOOLEAN}

\* Replays of two connections over two test windows.
K(c, w, k, q, p) == [c |-> c, w |-> w, k |-> k, q |-> q, p |-> p]

Reads == <<K(1, 0, "PREP", "sel", 0), K(2, 0, "PREP", "sel", 0), K(1, 1, "EXEC", "sel", 1), K(2, 1, "EXEC", "sel", 2),
           K(1, 1, "QUERY", "ins1", 0), K(2, 1, "QUERY", "ins2", 0), K(1, 2, "EXEC", "sel", 1), K(2, 2, "EXEC", "sel", 1),
           K(1, 2, "CLOSE", "sel", 0)>>
Repeats == <<K(1, 0, "PING", "", 0), K(2, 0, "PING", "", 0), K(1, 1, "QUERY", "sel", 0), K(1, 1, "QUERY", "sel", 0),
             K(2, 1, "PREP", "ins1", 0), K(2, 1, "EXEC", "ins1", 1), K(2, 1, "EXEC", "ins1", 2),
             K(1, 2, "QUERY", "sel", 0), K(2, 2, "EXEC", "ins1", 2)>>
Streams == <<K(1, 0, "QUERY", "BEGIN", 0), K(1, 1, "PREP", "ins1", 0), K(1, 1, "DATA", "", 0), K(1, 1, "EXEC", "ins1", 1),
             K(1, 1, "RESET", "", 0), K(2, 1, "PREP", "sel", 0), K(2, 1, "EXEC", "sel", 1), K(2, 1, "QUERY", "BEGIN", 0),
             K(1, 2, "EXEC", "ins1", 2)>>
Drifted(r) == [i \in DOMAIN r |-> IF r[i].k = "EXEC" /\ r[i].c = 1 /\ r[i].w = 2 THEN [r[i] EXCEPT !.p = 9] ELSE r[i]]

MCCommands ==
    {[rec |-> r, run |-> r, lax |-> l, strict |-> s] :
        r \in {Reads, Repeats, Streams}, l \in BOOLEAN, s \in BOOLEAN}
    \union {[rec |-> r, run |-> Drifted(r), lax |-> l, strict |-> TRUE] :
        r \in {Reads, Streams}, l \in BOOLEAN}
    \union {[rec |-> Repeats, run |-> RemoveAt(Repeats, 4), lax |-> l, strict |-> FALSE] :
        l \in BOOLEAN}

-----------------------------------------------------------------------------
\* Legacy HTTP: heads, bodies and how their ends are marked.
Msg(h, l, f) == [head |-> h, len |-> l, frame |-> f]
Exchange(e, q, p) == [expect |-> e, req |-> q, resp |-> p]
LGet == Exchange(FALSE, Msg(1, 1, "bare"), Msg(1, 2, "length"))
LPost == Exchange(FALSE, Msg(2, 3, "length"), Msg(1, 3, "chunked"))
LPut == Exchange(TRUE, Msg(1, 2, "chunked"), Msg(1, 2, "bare"))
LHead == Exchange(FALSE, Msg(1, 1, "bare"), Msg(2, 2, "bare"))
MCLegacy == {[mode |-> m, exchanges |-> x, faults |-> f] :
                  m \in {"record", "test"}, f \in {0, 1}, x \in {<<LGet, LPost>>, <<LPost, LHead>>, <<LHead, LGet>>, <<LPut, LGet>>}}

-----------------------------------------------------------------------------
\* HTTP matching.
JsonB(f) == [kind |-> "json", fields |-> f]
FormB(f) == [kind |-> "form", fields |-> f]
ArrayB(f) == [kind |-> "array", fields |-> f]
TextB(v) == [kind |-> "text", fields |-> [t |-> v]]
NoBody == [kind |-> "text", fields |-> << >>]
Req(method, path, query, headers, ctype, body) ==
    [method |-> method, path |-> path, query |-> query, headers |-> headers, ctype |-> ctype, body |-> body]
Recorded(req, life, noise, learn) == [req |-> req, life |-> life, noise |-> noise, learned |-> learn]
C0 == [flaky |-> {"traceparent"}, urlNoise |-> {}, bodyNoise |-> {}, auto |-> TRUE, detect |-> TRUE,
       strict |-> FALSE, ids |-> {"1", "2", "3"}, times |-> {"17e8", "18e8"}]
Cs == [C0 EXCEPT !.strict = TRUE, !.detect = FALSE]
Post(b) == Req("POST", <<"pay">>, {}, {"accept", "traceparent"}, "json", b)
PostL(b) == Req("POST", <<"pay">>, {}, {"accept", "x-new"}, "json", b)
Get(p) == Req("GET", p, {"q"}, {"accept"}, "", NoBody)
Form(b) == Req("POST", <<"tok">>, {}, {"accept"}, "form", b)
Asks(i, r) == [of |-> i, req |-> r]
\* obfuscated token in two JSON calls, one with an extra field
ObfMocks == <<Recorded(Post(JsonB([tok |-> "***", amt |-> "5"])), "perTest", {"***"}, {}),
              Recorded(Post(JsonB([tok |-> "***", amt |-> "5", cur |-> "eur"])), "perTest", {"***"}, {}),
              Recorded(Get(<<"u", "1">>), "session", {}, {}),
              Recorded(Post(JsonB([amt |-> "7"])), "perTest", {}, {})>>
Obf == [mocks |-> ObfMocks, perTest |-> <<1, 2, 4>>, session |-> <<3>>,
        script |-> ("a" :> <<Asks(2, PostL(JsonB([tok |-> "t1", amt |-> "5", cur |-> "eur"]))), Asks(3, Get(<<"u", "2">>)), Asks(4, PostL(JsonB([amt |-> "7"])))>>
                 @@ "b" :> <<Asks(1, PostL(JsonB([tok |-> "t2", amt |-> "5"]))), Asks(3, Get(<<"u", "3">>))>>),
        config |-> C0]
\* learned noise enforced strictly; forms with a timestamp
StrictMocks == <<Recorded(Post(JsonB([id |-> "a", amt |-> "5"])), "perTest", {}, {"id"}),
                 Recorded(Post(JsonB([id |-> "b", amt |-> "7"])), "perTest", {}, {"id"}),
                 Recorded(Form(FormB([ts |-> "17e8", g |-> "x"])), "perTest", {"secret"}, {}),
                 Recorded(Form(FormB([ts |-> "17e8", g |-> "y"])), "perTest", {"secret"}, {})>>
Learnt == [mocks |-> StrictMocks, perTest |-> <<1, 2, 3, 4>>, session |-> << >>,
        script |-> ("a" :> <<Asks(2, Post(JsonB([id |-> "z", amt |-> "7"]))), Asks(4, Form(FormB([ts |-> "18e8", g |-> "y"])))>>
                 @@ "b" :> <<Asks(1, Post(JsonB([id |-> "y", amt |-> "5"]))), Asks(3, Form(FormB([ts |-> "18e8", g |-> "x"])))>>),
        config |-> Cs]
\* the same with nothing enforced, and a session mock to learn on
Lenient == [Learnt EXCEPT !.config = C0, !.mocks[1].life = "session", !.perTest = <<2, 3, 4>>, !.session = <<1>>]
\* a call whose body is a JSON array before one that drifts
ListMocks == <<Recorded(Post(ArrayB([e |-> "1"])), "perTest", {}, {}),
               Recorded(Post(JsonB([id |-> "a", amt |-> "5"])), "perTest", {}, {"id"})>>
Arrays == [mocks |-> ListMocks, perTest |-> <<1, 2>>, session |-> << >>,
        script |-> ("a" :> <<Asks(1, Post(ArrayB([e |-> "1"])))>> @@ "b" :> <<Asks(2, Post(JsonB([id |-> "z", amt |-> "5"])))>>),
        config |-> Cs]
\* the same call from both connections
TwinMocks == <<Recorded(Get(<<"u", "1">>), "perTest", {}, {}), Recorded(Get(<<"u", "1">>), "perTest", {}, {}),
               Recorded(Form(TextB("hi")), "session", {}, {}), Recorded(Form(TextB("yo")), "session", {}, {})>>
Twin == [mocks |-> TwinMocks, perTest |-> <<1, 2>>, session |-> <<3, 4>>,
        script |-> ("a" :> <<Asks(1, Get(<<"u", "1">>)), Asks(3, Form(TextB("hi"))), Asks(4, Form(TextB("yo")))>>
                 @@ "b" :> <<Asks(2, Get(<<"u", "2">>)), Asks(3, Form(TextB("hi")))>>),
        config |-> C0]
\* every way of dealing the calls to the two connections
AllAsks(scn) == scn.script["a"] \o scn.script["b"]
Dealt(scn) ==
    LET cs == AllAsks(scn)
        orders == Permutations(DOMAIN cs)
        pick(p, lo, hi) == [i \in 1 .. hi - lo + 1 |-> cs[p[lo + i - 1]]]
    IN {[scn EXCEPT !.script = ("a" :> pick(p, 1, n) @@ "b" :> pick(p, n + 1, Len(cs)))] :
          p \in orders, n \in 1 .. 2}
MCMatches == Dealt(Obf) \cup Dealt(Learnt) \cup Dealt(Lenient) \cup {Arrays} \cup Dealt(Twin)

-----------------------------------------------------------------------------
\* The parser of unknown protocols.
Chunks(q, p) == [q |-> q, p |-> p]
NoScript == ("a" :> << >> @@ "b" :> << >>)
Capture(m, x) == [mode |-> m, exchanges |-> x, near |-> {}, script |-> NoScript]
Repeat(x, near, a, b) == [mode |-> "test", exchanges |-> x, near |-> near, script |-> ("a" :> a @@ "b" :> b)]
Three == <<Chunks(1, 1), Chunks(1, 1), Chunks(2, 1)>>
Alike == {<<1, 2>>, <<2, 1>>}
MCGenerics == {Capture(m, x) : m \in {"legacy", "v2"}, x \in {<<Chunks(1, 1), Chunks(2, 2)>>, <<Chunks(2, 1), Chunks(1, 2), Chunks(1, 1)>>}}
     \cup {Repeat(Three, Alike, a, b) : a \in {<<1, 3>>, <<1>>, <<3, 1>>}, b \in {<<2>>, <<>>}}

-----------------------------------------------------------------------------
\* gRPC exchanges: the frames of both sides and after how many of the
\* client's the application sends each.
Frame(id, kind, endH, endS, after) ==
    [id |-> id, kind |-> kind, endH |-> endH, endS |-> endS, table |-> "small", after |-> after]
Hd(id, after) == Frame(id, "headers", TRUE, FALSE, after)
HdEnd(id, after) == Frame(id, "headers", TRUE, TRUE, after)
Dat(id, after) == Frame(id, "data", FALSE, FALSE, after)
DatEnd(id, after) == Frame(id, "data", FALSE, TRUE, after)
Oth(id, after) == Frame(id, "other", FALSE, FALSE, after)
BadFrame == Frame(0, "bad", FALSE, FALSE, 0)
Wide(f) == [f EXCEPT !.table = "large"]
SetTable(t) == [Frame(0, "settings", FALSE, FALSE, 0) EXCEPT !.table = t]

GrpcScene(c, a, faults, pauses) ==
    [client |-> c, app |-> a, faults |-> faults, pauses |-> pauses, calm |-> faults = 0 /\ pauses = 0]

MCGrpc ==
    {GrpcScene(<<SetTable("large"), Hd(1, 0), Hd(3, 0), DatEnd(1, 0), Oth(1, 0), DatEnd(3, 0)>>,
        <<SetTable("large"), Hd(3, 3), Hd(1, 4), Dat(1, 4), HdEnd(1, 4), HdEnd(3, 5)>>, 0, 0)}
    \cup {GrpcScene(<<Hd(1, 0), Hd(3, 0), DatEnd(1, 0), DatEnd(3, 0)>>,
             <<Hd(3, 2), Hd(1, 3), HdEnd(1, 3), HdEnd(3, 4)>>, n, 1 - n) : n \in {0, 1}}
    \cup {GrpcScene(<<Hd(1, 0), Dat(1, 0), DatEnd(1, 0), Oth(1, 0)>>, <<HdEnd(1, 1)>>, n, n) : n \in {0, 1}}
    \cup {GrpcScene(<<Frame(1, "headers", FALSE, FALSE, 0), Frame(1, "cont", TRUE, FALSE, 0), DatEnd(1, 0)>>,
             <<Hd(1, 2), DatEnd(1, 3), BadFrame>>, n, n) : n \in {1}}
    \cup {GrpcScene(<<Hd(1, 0), DatEnd(1, 0)>>,
             <<Hd(1, 1), Dat(1, 1), Frame(1, "headers", FALSE, TRUE, 2), Frame(1, "cont", TRUE, FALSE, 2)>>, 0, 0)}
    \cup {GrpcScene(<<Hd(1, 0), SetTable("small"), Hd(3, 0), DatEnd(1, 0), DatEnd(3, 0)>>,
             <<Wide(Hd(1, 1)), Hd(3, 3), HdEnd(1, 4), HdEnd(3, 5)>>, 0, 0)}

-----------------------------------------------------------------------------
\* Machines the memory guard may find.
Pod == <<"pod", "ctr">>
Side == <<"pod", "side">>
Mount(v, root, own, procs) ==
    [version |-> v, root |-> root, own |-> own, procs |-> procs,
     dirs |-> {own, <<>>} \cup (IF own = <<>> THEN {} ELSE {<<"pod">>, Side})]

Box(ms, self, pid, ids) == [mounts |-> ms, self |-> self, pidKnown |-> pid, ids |-> ids]
Unlisted == <<"missing">>

\* Whether cgroup.procs can be read and NSpid is known.
Views == {<<TRUE, TRUE>>, <<TRUE, FALSE>>, <<FALSE, TRUE>>}

MCBoxes ==
    {Box(<<Mount(2, <<>>, Pod, x[1])>>, <<Unlisted, s>>, x[2], <<"ctr", "pod">>) : x \in Views, s \in {Pod, <<>>}}
    \cup {Box(<<Mount(2, <<>>, <<>>, x[1]), Mount(1, <<"pod">>, <<"ctr">>, x[1])>>, <<s, <<>>>>, x[2], <<>>) :
            x \in Views, s \in {Pod, <<>>, Unlisted}}
    \cup {Box(<<Mount(1, <<"other">>, Pod, x[1])>>, <<<<>>, Unlisted>>, x[2], ids) : x \in Views, ids \in {<<>>, <<"pod">>}}

-----------------------------------------------------------------------------
\* Responses to compare.
Values == INSTANCE JsonMatch WITH Reading <- <<>>
Str(a) == Values!Leaf("str", a)
Num(a) == Values!Leaf("num", a)
O1(x) == Values!Obj([a |-> x])
O2(x, y) == Values!Obj([a |-> x, b |-> y])
MCReading == [j1 |-> Values!Obj([b |-> Num("1")]), j2 |-> Values!Obj([b |-> Num("2")])]

Scalar == {Str("1"), Str("2"), Num("1"), Values!Leaf("null", "")}
Inner == Scalar \cup {Values!Obj([b |-> x]) : x \in {Str("1"), Num("2")}}
ListsOf(X) == {Values!Arr(<<x, y>>) : x, y \in X}
Lists == ListsOf({Num("1"), Num("2")}) \cup ListsOf({Values!Obj([b |-> Num("1")]), Values!Obj([b |-> Num("2")])})
Bodies == {O1(x) : x \in Inner} \cup {O2(x, y) : x \in Scalar, y \in {Num("1"), Str("2")}}
          \cup {O1(x) : x \in Lists} \cup {Values!Leaf("plain", "t"), Values!Leaf("plain", "u")}

Noises == {<<>>, <<"a">> :> {}, <<"a", "b">> :> {}, <<"a", "b">> :> {"1"}}
Quiet == [body |-> <<>>, header |-> <<>>, whole |-> FALSE]
Global == [body |-> <<>>, header |-> <<>>, sections |-> {"body", "header"}]
Cfg == [global |-> Global, set |-> <<>>, ignoreOrdering |-> FALSE, compareAll |-> FALSE,
        schemaMatch |-> FALSE, emit |-> TRUE, templates |-> <<>>]

Headers(l) == ("content-length" :> l) @@ ("content-type" :> "json")
Resp(b) == [status |-> 200, headers |-> Headers("9"), body |-> b, skipped |-> FALSE, size |-> 9]
Http(e, a) == [kind |-> "http", exp |-> e, act |-> a, noise |-> Quiet, asserts |-> <<>>]
Rpc(d) == [status |-> "200", ctype |-> "grpc", flag |-> 0, len |-> 5, data |-> d, grpcStatus |-> 0]
Grpc(e, a) == [kind |-> "grpc", exp |-> e, act |-> a, noise |-> Quiet, asserts |-> <<>>]
One(c, t) == [cfg |-> c, tests |-> <<t>>]

NoArrays == {b \in Bodies : "a" \in DOMAIN b.kids => b.kids["a"].t # "arr"}

(* every pair of bodies, under each noise *)
Pairs == {One([Cfg EXCEPT !.compareAll = c],
              [Http(Resp(e), Resp(a)) EXCEPT !.noise.body = n]) :
            c \in BOOLEAN, n \in Noises, e, a \in NoArrays}
(* arrays, in order or not *)
Orders == {One([Cfg EXCEPT !.ignoreOrdering = io],
               [Http(Resp(e), Resp(a)) EXCEPT !.noise.body = n]) :
             io \in BOOLEAN, n \in Noises, e, a \in {O1(x) : x \in Lists}}

(* statuses, headers, sizes and the section switches of the configuration *)
Answers == {[Resp(b) EXCEPT !.status = s, !.headers = h, !.size = z] :
              b \in {O1(Num("1")), O1(Num("2"))}, s \in {200, 500}, z \in {9, 10},
              h \in {Headers("9"), Headers("8"), "content-type" :> "text"}}
Shapes == {One([Cfg EXCEPT !.emit = em, !.schemaMatch = sm],
               [Http([e EXCEPT !.skipped = sk, !.body = IF sk THEN Values!Leaf("plain", "") ELSE @], a)
                   EXCEPT !.noise = n]) :
             em, sm, sk \in BOOLEAN, e \in {Resp(O1(Num("1")))}, a \in Answers,
             n \in {Quiet, [Quiet EXCEPT !.whole = TRUE],
                    [Quiet EXCEPT !.header = "content-type" :> {"json"}],
                    [Quiet EXCEPT !.header = "header" :> {}]}}

(* templates: two tests in a row whose recorded values are templated *)
Templated == {[cfg |-> [Cfg EXCEPT !.templates = [tok |-> "1"], !.emit = em],
               tests |-> <<Http(Resp(O2(x, y)), Resp(O2(u, v))), Http(Resp(O1(z)), Resp(O1(w)))>>] :
                em \in BOOLEAN, x \in {Str("1"), Num("1")}, y \in {Num("1"), Num("2")},
                u, v \in {Str("3"), Num("1"), Num("2")}, z \in {Str("1"), Str("3")}, w \in {Str("1"), Str("3")}}

(* assertions *)
Asserted(n, w) == [name |-> n, want |-> w]
Asserts == {One(Cfg, [Http(Resp(O1(Num("1"))), a) EXCEPT !.asserts = <<x>>]) : a \in Answers,
              x \in {Asserted("status_code", 200), Asserted("status_code_in", {200, 201}),
                     Asserted("status_code_class", 2), Asserted("status_code_class", 204), Asserted("status_code_class", 5), Asserted("header_exists", {"content-length"}),
                     Asserted("header_equal", "content-type" :> "json"),
                     Asserted("json_equal", ""), Asserted("json_contains", O1(Num("1")))}}

(* gRPC: a test with its own noise before others, with and without noise *)
(* of the test set, and a changed grpc-status                            *)
Text(s) == [Values!Leaf("plain", "") EXCEPT !.list = s]
Block(h, i) == [head |-> h, inner |-> i]
Texts == {Text(<<Block("1", <<>>), Block("2", <<Block("3", <<>>)>>)>>), Text(<<Block("2", <<Block("3", <<>>)>>), Block("1", <<>>)>>),
          Text(<<Block("1", <<>>)>>)}
Data == Texts \cup {O1(Num("1")), O1(Num("2")), O1(Str("j1")), O1(Str("j2")), Values!Obj([b |-> Num("1")])}
SetNoise == <<[body |-> <<>>, header |-> <<>>]>>
Calls == {[cfg |-> [Cfg EXCEPT !.set = sn, !.global.sections = sections],
           tests |-> <<[Grpc(Rpc(d), Rpc(e)) EXCEPT !.noise.body = t[1], !.act.len = t[2], !.act.grpcStatus = g],
                       Grpc(Rpc(O1(Num("1"))), Rpc(x)), Http(Resp(O1(Num("1"))), Resp(x))>>] :
            sn \in {<<>>, SetNoise}, sections \in {{}, {"body", "header"}}, g \in {0, 5},
            d \in Data, e \in {O1(Num("1")), O1(Str("j2")), Text(<<Block("1", <<>>)>>)},
            t \in (Noises \X {5}) \cup {<< <<>>, 6 >>}, x \in {O1(Num("1")), O1(Num("2"))}}
         \cup {One(Cfg, [Grpc(Rpc(d), [Rpc(e) EXCEPT !.ctype = c, !.flag = f]) EXCEPT
                           !.noise.header = h]) :
                 d, e \in Data, c \in {"grpc", "text"}, f \in {0, 1},
                 h \in {<<>>, "content-type" :> {}}}

MCVerdicts == [pairs |-> Pairs, orders |-> Orders, shapes |-> Shapes, templated |-> Templated,
               asserts |-> Asserts, calls |-> Calls]

(* an added field, a changed value and a changed Content-Length *)
MCAdditions ==
    [additions |-> {One(Cfg, Http(Resp(O1(x)), [Resp(O2(y, Num("1"))) EXCEPT !.headers = Headers(l)])) :
        x, y \in Scalar, l \in {"8", "9"}}]

\* A component the run leaves out.
MCNone == {}

-----------------------------------------------------------------------------
OffHandshake ==
    /\ hSession = "off" /\ hWire = "off" /\ hRec = "off" /\ hMocks = "off"
    /\ hRep = "off" /\ hKept = "off" /\ hServed = "off" /\ hFaults = "off"
OffDecodePhase ==
    /\ dSession = "off" /\ dRd = "off" /\ dFw = "off" /\ dReader = "off"
    /\ dErrs = "off" /\ dCancelled = "off" /\ dMain = "off" /\ dTail = "off"
    /\ dChan = "off" /\ dMissed = "off" /\ dD = "off" /\ dV = "off"
OffCommandPhase ==
    /\ cSession = "off" /\ cWin = "off" /\ cPt = "off" /\ cSs = "off"
    /\ cLedger = "off" /\ cConn = "off" /\ cAnswers = "off"
OffLegacy ==
    /\ lCfg = "off" /\ lWire = "off" /\ lSent = "off" /\ lGot = "off"
    /\ lState = "off" /\ lDeadline = "off" /\ lFwd = "off" /\ lQueue = "off"
    /\ lMain = "off" /\ lCancelled = "off" /\ lPaused = "off"
    /\ lMocks = "off" /\ lFaults = "off"
OffMatch ==
    /\ mScene = "off" /\ mPerTest = "off" /\ mSession = "off"
    /\ mLearned = "off" /\ mConn = "off"
    /\ mServed = "off"
OffRaw ==
    /\ gScene = "off" /\ gSent = "off" /\ gCh = "off" /\ gStopped = "off"
    /\ gEvents = "off" /\ gStarted = "off" /\ gPair = "off"
    /\ gIncomplete = "off" /\ gMocks = "off" /\ gTier = "off"
    /\ gOrder = "off" /\ gConn = "off" /\ gServed = "off"
OffGrpcCapture ==
    /\ wScene = "off" /\ wCtx = "off" /\ wPaused = "off" /\ wOpen = "off"
    /\ wFwd = "off" /\ wCh = "off" /\ wParser = "off" /\ wTable = "off"
    /\ wStreams = "off" /\ wEmit = "off" /\ wTests = "off"
OffGuard ==
    /\ bBox = "off" /\ bLimit = "off" /\ bGuard = "off" /\ bPaused = "off"
    /\ bSinks = "off" /\ bHooks = "off" /\ bApply = "off" /\ bLast = "off"
    /\ bTicks = "off"
OffRun ==
    /\ rCfg = "off" /\ rStart = "off" /\ rTs = "off" /\ rEnv = "off"
    /\ rUsed = "off" /\ rDb = "off"
OffVerdicts ==
    /\ vScene = "off" /\ vDone = "off" /\ vGlobal = "off"
    /\ vTemplates = "off" /\ vVerdicts = "off"

Init ==
    \/ /\ which = "handshake" /\ Handshake!Init
       /\ OffDecodePhase /\ OffCommandPhase /\ OffLegacy /\ OffMatch /\ OffRaw /\ OffGrpcCapture /\ OffGuard /\ OffRun /\ OffVerdicts
    \/ /\ which = "decode" /\ DecodePhase!Init
       /\ OffHandshake /\ OffCommandPhase /\ OffLegacy /\ OffMatch /\ OffRaw /\ OffGrpcCapture /\ OffGuard /\ OffRun /\ OffVerdicts
    \/ /\ which = "commands" /\ CommandPhase!Init
       /\ OffHandshake /\ OffDecodePhase /\ OffLegacy /\ OffMatch /\ OffRaw /\ OffGrpcCapture /\ OffGuard /\ OffRun /\ OffVerdicts
    \/ /\ which = "legacy" /\ Legacy!Init
       /\ OffHandshake /\ OffDecodePhase /\ OffCommandPhase /\ OffMatch /\ OffRaw /\ OffGrpcCapture /\ OffGuard /\ OffRun /\ OffVerdicts
    \/ /\ which = "match" /\ Match!Init
       /\ OffHandshake /\ OffDecodePhase /\ OffCommandPhase /\ OffLegacy /\ OffRaw /\ OffGrpcCapture /\ OffGuard /\ OffRun /\ OffVerdicts
    \/ /\ which = "generic" /\ Raw!Init
       /\ OffHandshake /\ OffDecodePhase /\ OffCommandPhase /\ OffLegacy /\ OffMatch /\ OffGrpcCapture /\ OffGuard /\ OffRun /\ OffVerdicts
    \/ /\ which = "grpc" /\ GrpcCapture!Init
       /\ OffHandshake /\ OffDecodePhase /\ OffCommandPhase /\ OffLegacy /\ OffMatch /\ OffRaw /\ OffGuard /\ OffRun /\ OffVerdicts
    \/ /\ which = "guard" /\ Guard!Init
       /\ OffHandshake /\ OffDecodePhase /\ OffCommandPhase /\ OffLegacy /\ OffMatch /\ OffRaw /\ OffGrpcCapture /\ OffRun /\ OffVerdicts
    \/ /\ which = "replay" /\ Run!Init
       /\ OffHandshake /\ OffDecodePhase /\ OffCommandPhase /\ OffLegacy /\ OffMatch /\ OffRaw /\ OffGrpcCapture /\ OffGuard /\ OffVerdicts
    \/ /\ which = "verdict" /\ Verdicts!Init
       /\ OffHandshake /\ OffDecodePhase /\ OffCommandPhase /\ OffLegacy /\ OffMatch /\ OffRaw /\ OffGrpcCapture /\ OffGuard /\ OffRun

Next ==
    \/ /\ which = "handshake" /\ Handshake!Next
       /\ UNCHANGED <<which, dvars, cvars, lvars, mvars, gvars, wvars, bvars, rvars, vvars>>
    \/ /\ which = "decode" /\ DecodePhase!Next
       /\ UNCHANGED <<which, hvars, cvars, lvars, mvars, gvars, wvars, bvars, rvars, vvars>>
    \/ /\ which = "commands" /\ CommandPhase!Next
       /\ UNCHANGED <<which, hvars, dvars, lvars, mvars, gvars, wvars, bvars, rvars, vvars>>
    \/ /\ which = "legacy" /\ Legacy!Next
       /\ UNCHANGED <<which, hvars, dvars, cvars, mvars, gvars, wvars, bvars, rvars, vvars>>
    \/ /\ which = "match" /\ Match!Next
       /\ UNCHANGED <<which, hvars, dvars, cvars, lvars, gvars, wvars, bvars, rvars, vvars>>
    \/ /\ which = "generic" /\ Raw!Next
       /\ UNCHANGED <<which, hvars, dvars, cvars, lvars, mvars, wvars, bvars, rvars, vvars>>
    \/ /\ which = "grpc" /\ GrpcCapture!Next
       /\ UNCHANGED <<which, hvars, dvars, cvars, lvars, mvars, gvars, bvars, rvars, vvars>>
    \/ /\ which = "guard" /\ Guard!Next
       /\ UNCHANGED <<which, hvars, dvars, cvars, lvars, mvars, gvars, wvars, rvars, vvars>>
    \/ /\ which = "replay" /\ Run!Next
       /\ UNCHANGED <<which, hvars, dvars, cvars, lvars, mvars, gvars, wvars, bvars, vvars>>
    \/ /\ which = "verdict" /\ Verdicts!Next
       /\ UNCHANGED <<which, hvars, dvars, cvars, lvars, mvars, gvars, wvars, bvars, rvars>>

Spec == Init /\ [][Next]_vars

-----------------------------------------------------------------------------
(* A MySQL login is never answered as another user's, and gets an answer   *)
(* a recorded login of its user got when the mocks that compete for it     *)
(* were recorded as it was.                                                *)
HandshakeReplays == which = "handshake" => Handshake!HandshakeReplays

(* The two MySQL command recorders make the same mocks of a stream up to   *)
(* its first procedure call; on shutdown the chunks already forwarded are  *)
(* decoded, and after a packet it never saw the legacy recorder finds the  *)
(* commands again.                                                         *)
CommandsRecorded ==
    which = "decode" => DecodePhase!TailKept /\ DecodePhase!Resyncs /\ DecodePhase!PathsAgree

(* A replayed MySQL command gets the answer of its own recording, and      *)
(* equal commands get theirs in the recorded order.                        *)
CommandsAnswered ==
    which = "commands" => CommandPhase!OwnAnswer /\ CommandPhase!RecordedOrder

(* The legacy HTTP recorder passes every unit on once and in order, and    *)
(* each mock holds one whole request and the response to it; only headers  *)
(* split by the end of the connection are repeated and not completed, and  *)
(* only a response that end delimits is cut short.                         *)
LegacyFaithful == which = "legacy" => Legacy!LegacyFaithful

(* A replayed HTTP request is served a mock of its endpoint, and of its    *)
(* own body when it repeats a recorded call or bodies are enforced, until  *)
(* a per-test mock is served twice; only then a session mock can be lost,  *)
(* and only one with the same ID.                                          *)
HttpServed == which = "match" => Match!HttpServed

(* An exchange of an unknown protocol is recorded with its request and the *)
(* first chunk of its response when its chunks are paired in the order     *)
(* they were exchanged; otherwise no chunk is recorded twice or out of its *)
(* order.  In test mode each request gets its own mock.                    *)
GenericKept == which = "generic" => Raw!GenericKept

(* A gRPC call becomes one test case with its own frames, whole, unless a  *)
(* header block of it is misread.                                          *)
GrpcFaithful == which = "grpc" => GrpcCapture!GrpcFaithful

(* The guard reads its own container's usage, its pressure state follows   *)
(* what it reads, and the manager and the hooks that were registered when  *)
(* the state was last applied were told it.                                *)
GuardSound == which = "guard" => Guard!GuardSound

(* The counters of a report add up, exit code 0 means that every set       *)
(* passed or that the run was cut short, a set passes with tests not run   *)
(* only after a failing call, and no consumed mock is offered again.       *)
RunAccounted ==
    which = "replay" => Run!CountsAddUp /\ Run!ExitHonest /\ Run!ConsumedAccounted

(* Pruning keeps the mocks that passing tests consumed.                    *)
PruneSafe == [][which = "replay" => Run!PrunesUnneeded]_vars

(* A test passes only when the response keeps what the recorded one says   *)
(* up to noise -- its own, the configuration's and, without noise of the   *)
(* test set, what earlier gRPC tests left in the shared map -- and always  *)
(* when it equals the recorded one.                                        *)
VerdictsHonest == which = "verdict" => Verdicts!VerdictsHonest
=============================================================================

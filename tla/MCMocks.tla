------------------------------- MODULE MCMocks ------------------------------
(***************************************************************************)
(* Model checking of what keeps mocks and tests: the file stores, the      *)
(* agent's pool of mocks, the attribution of mock errors to tests, the     *)
(* supervised recording of a stream and the DNS server.  The components    *)
(* share no state: which says the one a behaviour is about, and the        *)
(* variables of the others stay at "off".                                  *)
(***************************************************************************)
EXTENDS Integers, Sequences, FiniteSets, TLC

CONSTANTS Callers, MockStores, MockCalls, TestScenes, TestCalls, MaxIndex, MaxClaims,
          PoolConns, PoolCalls,
          ErrTests, ChanCap, MaxPending, MaxMisses, MaxFaults,
          RecordScenarios, ChanBuf,
          Queries, Questions, Resolvers, MaxPools

VARIABLES which, mStore, mFiles, mLock, mCall, mIdCounter, mCalls, mCancelled,
          mOwed, tScene, tTests, tAssets, tDocs, tProc, tLastIndex, tCalls,
          tOwedTests, tOwedDocs, pMode, pAt, pTest, pSwap, pPlan, pStartup,
          pFiltered, pUnfiltered, pWindow,
          pFirstWindowStart, pSortCounter, pConsumed, pLedger, pMpc, pCand,
          pPick, pTree, pCalls, pServed, eChan, eHeld, eDraining, eWindow,
          ePending, eTest, eReports, eSent, eFaults, sCfg, sSent, sFwd, sClosed,
          sStaged, sHand, sOut, sTees, sStreams, sParser, sIncomplete, sWatch, sCtx,
          sMain, sSeen, sEmitted, sFaults, dCache, dPool, dRecorded,
          dSession, dSetter, dQuery, dEmitted, dAnswered

mvars == <<mStore, mFiles, mLock, mCall, mIdCounter, mCalls, mCancelled,
           mOwed>>
tvars == <<tScene, tTests, tAssets, tDocs, tProc, tLastIndex, tCalls,
           tOwedTests, tOwedDocs>>
pvars == <<pMode, pAt, pTest, pSwap, pPlan, pStartup, pFiltered, pUnfiltered,
           pWindow, pFirstWindowStart,
           pSortCounter, pConsumed, pLedger, pMpc, pCand, pPick, pTree, pCalls,
           pServed>>
evars == <<eChan, eHeld, eDraining, eWindow, ePending, eTest, eReports, eSent,
           eFaults>>
svars == <<sCfg, sSent, sFwd, sClosed, sStaged, sHand, sOut, sTees, sStreams,
           sParser, sIncomplete, sWatch, sCtx, sMain, sSeen, sEmitted,
           sFaults>>
dvars == <<dCache, dPool, dRecorded, dSession, dSetter, dQuery, dEmitted,
           dAnswered>>
vars == <<which, mvars, tvars, pvars, evars, svars, dvars>>

\* The pool is part of its instance, so it comes first.
(* b is recorded before the first test, p and q during the tests, s is a   *)
(* session mock, z was answered before it was asked.  In the second        *)
(* recording q has no timestamps and p was made between the tests.         *)
PoolWindows == <<<<2, 4>>, <<6, 7>>>>
RecordedInOrder == [m \in {"b", "p", "q", "s", "z"} |->
               CASE m = "b" -> 1 [] m \in {"p", "z"} -> 3 [] m = "q" -> 6 [] OTHER -> 1]
PoolRecordings == {RecordedInOrder, [RecordedInOrder EXCEPT !["p"] = 5, !["q"] = 0]}
PoolPerTest == <<"b", "p", "z", "q">>
PoolSession == <<"s">>
PoolMapping == <<{"p", "b"}, {"q", "s"}>>
\* Where a mapping rules, strictness is not looked at.
PoolModes ==
    LET Setting(mapping, flag, env) == [mapping |-> mapping, flag |-> flag, env |-> env]
    IN  {Setting(FALSE, TRUE, env) : env \in {"unset", "on", "off"}}
            \cup {Setting(FALSE, FALSE, "unset"), Setting(TRUE, TRUE, "unset")}
PoolAccepts == [c \in PoolConns |-> IF c = "c1" THEN {"b", "p", "q", "s"} ELSE {"p", "s"}]

Mocks == INSTANCE MockStore WITH Stores <- MockStores, MaxCalls <- MockCalls,
    store <- mStore, files <- mFiles, lock <- mLock, call <- mCall,
    idCounter <- mIdCounter, calls <- mCalls, cancelled <- mCancelled,
    owed <- mOwed
Set == INSTANCE SetStore WITH Procs <- Callers, Scenes <- TestScenes,
    MaxCalls <- TestCalls, scene <- tScene, tests <- tTests,
    assets <- tAssets, docs <- tDocs, proc <- tProc, lastIndex <- tLastIndex,
    calls <- tCalls, owedTests <- tOwedTests, owedDocs <- tOwedDocs
Pool == INSTANCE MockPool WITH PerTest <- PoolPerTest, Session <- PoolSession,
    Recordings <- PoolRecordings, Skewed <- {"z"}, Windows <- PoolWindows,
    Mapping <- PoolMapping, Modes <- PoolModes,
    Conns <- PoolConns, Accepts <- PoolAccepts, MaxCalls <- PoolCalls,
    mode <- pMode, at <- pAt, test <- pTest, swap <- pSwap, plan <- pPlan,
    startup <- pStartup, filtered <- pFiltered, unfiltered <- pUnfiltered,
    window <- pWindow, firstWindowStart <- pFirstWindowStart,
    sortCounter <- pSortCounter, consumed <- pConsumed, ledger <- pLedger,
    mpc <- pMpc, cand <- pCand, pick <- pPick, globalTree <- pTree, calls <- pCalls,
    served <- pServed
Errors == INSTANCE MockErrors WITH NumTests <- ErrTests, chan <- eChan,
    held <- eHeld, draining <- eDraining, window <- eWindow,
    pending <- ePending, test <- eTest, reports <- eReports, sent <- eSent,
    faults <- eFaults
Stream == INSTANCE RecordStream WITH Scenarios <- RecordScenarios,
    cfg <- sCfg, sent <- sSent, fwd <- sFwd, closed <- sClosed,
    staged <- sStaged, hand <- sHand, out <- sOut, tees <- sTees, streams <- sStreams,
    parser <- sParser, incomplete <- sIncomplete, watch <- sWatch,
    ctx <- sCtx, main <- sMain, seen <- sSeen, emitted <- sEmitted,
    faults <- sFaults
DnsRecord == INSTANCE Dns WITH Sessions <- <<"record", "record">>, cache <- dCache, pool <- dPool,
    recorded <- dRecorded, session <- dSession, setter <- dSetter,
    query <- dQuery, emitted <- dEmitted, answered <- dAnswered
DnsTest == INSTANCE Dns WITH Sessions <- <<"test", "record">>, cache <- dCache, pool <- dPool,
    recorded <- dRecorded, session <- dSession, setter <- dSetter,
    query <- dQuery, emitted <- dEmitted, answered <- dAnswered

-----------------------------------------------------------------------------
Mock(kind, type, time, shape) ==
    [kind |-> kind, parts |-> {"metadata", "request", "response", "times", "connectionID"},
     paths |-> {}, type |-> type, time |-> time, shape |-> shape]

Pruned == Mock("HTTP", "mocks", "test", "known")
Startup == Mock("DNS", "mocks", "startup", "known")
Replayed == Mock("GRPC", "", "replay", "known")
Config == Mock("PostgresV2", "config", "test", "known")
Packet == Mock("MySQL", "connection", "test", "known")
Invalid == Mock("PostgresV3", "mocks", "startup", "nil")

Codec == INSTANCE MockCodec
File(f, ms) ==
    [there |-> TRUE, torn |-> FALSE,
     docs |-> {[name |-> 0, doc |-> d] : d \in UNION {Codec!Encode(f, m) : m \in ms}}]
GobFile(m) == [there |-> TRUE, torn |-> FALSE, docs |-> {[name |-> 0, doc |-> m]}]
Fresh == [f \in {"yaml", "json", "gob"} |-> [there |-> FALSE, torn |-> FALSE, docs |-> {}]]

Store(callers, format, fs, mocks, ops) ==
    [callers |-> callers, format |-> format, strict |-> TRUE, files |-> fs, mocks |-> mocks, ops |-> ops,
     learn |-> {{}, {"p"}}, faults |-> {"write", "rename", "cancel"}]

One == {CHOOSE p \in Callers : TRUE}

MCMockStores ==
    {Store(Callers, "yaml", Fresh, {Pruned, Startup, Invalid}, {"insert", "update", "noise", "delete"}),
     Store(Callers, "json", Fresh, {Replayed, Packet}, {"insert", "update", "noise", "delete"}),
     Store(Callers, "json", [Fresh EXCEPT !["gob"] = GobFile(Startup)], {}, {"update", "noise", "delete"}),
     Store(Callers, "json", [Fresh EXCEPT !["yaml"] = File("yaml", {Startup})],
           {Config}, {"insert", "update", "noise"}),
     [Store(Callers, "json", [Fresh EXCEPT !["yaml"] = File("yaml", {Startup})],
            {Pruned}, {"insert", "update"}) EXCEPT !.faults = {"write"}]}

-----------------------------------------------------------------------------
Test(kind, described) ==
    [tc |-> 0, rev |-> 0, ref |-> 0, kind |-> kind, noise |-> {"header.Etag"}, custom |-> {},
     description |-> described,
     fields |-> {[name |-> "header.Date", time |-> TRUE], [name |-> "body", time |-> FALSE]}]

Scene(procs, format, naming, test, kinds) ==
    [procs |-> procs, format |-> [p \in procs |-> format], naming |-> naming, tests |-> {test},
     kinds |-> kinds, faults |-> {"write", "crash"}]

(* two recorders that store in different formats *)
Mixed(test, kinds) ==
    [Scene(Callers, "yaml", "descriptive", test, kinds) EXCEPT
        !.format = [p \in Callers |-> IF p \in One THEN "yaml" ELSE "json"]]

MCTestScenes ==
    {Scene(Callers, "json", "sequential", Test("gRPC", FALSE), {"insert", "update"}),
     Scene(Callers, "yaml", "descriptive", Test("HTTP", TRUE), {"insert", "update", "assert", "delete", "deleteSet"}),
     Mixed(Test("HTTP", FALSE), {"insert", "update", "delete"}), Mixed(Test("HTTP", FALSE), {"mapping"}),
     Scene(Callers, "json", "descriptive", Test("HTTP", FALSE), {"mapping", "deleteSet"}),
     Scene(One, "yaml", "descriptive", Test("HTTP", FALSE), {"mapping", "report", "deleteSet"})}

-----------------------------------------------------------------------------
Recording(framed, pressure, reqSize, exchanges, faults) ==
    [framed |-> framed, pressure |-> pressure, size |-> [c2d |-> reqSize, d2c |-> 2],
     exchanges |-> exchanges, faults |-> faults]
MCRecordings ==
    {Recording(TRUE, FALSE, 1, 2, 0), Recording(TRUE, FALSE, 2, 1, 1), Recording(TRUE, TRUE, 2, 1, 0)}

-----------------------------------------------------------------------------
MCQuestions ==
    {[name |-> "n", upper |-> FALSE, kind |-> "A"], [name |-> "n", upper |-> TRUE, kind |-> "A"]}
MCResolvers == {[loopback |-> FALSE, self |-> TRUE]}

-----------------------------------------------------------------------------
OffMocks ==
    /\ mStore = "off" /\ mFiles = "off" /\ mLock = "off" /\ mCall = "off"
    /\ mIdCounter = "off" /\ mCalls = "off" /\ mCancelled = "off"
    /\ mOwed = "off"
OffSet ==
    /\ tScene = "off" /\ tTests = "off" /\ tAssets = "off" /\ tDocs = "off"
    /\ tProc = "off" /\ tLastIndex = "off" /\ tCalls = "off"
    /\ tOwedTests = "off" /\ tOwedDocs = "off"
OffPool ==
    /\ pMode = "off" /\ pAt = "off" /\ pTest = "off" /\ pSwap = "off"
    /\ pPlan = "off" /\ pStartup = "off" /\ pFiltered = "off"
    /\ pUnfiltered = "off" /\ pWindow = "off"
    /\ pFirstWindowStart = "off" /\ pSortCounter = "off" /\ pConsumed = "off"
    /\ pLedger = "off" /\ pMpc = "off" /\ pCand = "off" /\ pPick = "off"
    /\ pTree = "off" /\ pCalls = "off" /\ pServed = "off"
OffErrors ==
    /\ eChan = "off" /\ eHeld = "off" /\ eDraining = "off" /\ eWindow = "off"
    /\ ePending = "off" /\ eTest = "off" /\ eReports = "off" /\ eSent = "off"
    /\ eFaults = "off"
OffStream ==
    /\ sCfg = "off" /\ sSent = "off" /\ sFwd = "off" /\ sClosed = "off"
    /\ sStaged = "off" /\ sHand = "off" /\ sOut = "off" /\ sTees = "off" /\ sStreams = "off"
    /\ sParser = "off" /\ sIncomplete = "off" /\ sWatch = "off"
    /\ sCtx = "off" /\ sMain = "off" /\ sSeen = "off" /\ sEmitted = "off"
    /\ sFaults = "off"
OffDns ==
    /\ dCache = "off" /\ dPool = "off" /\ dRecorded = "off"
    /\ dSession = "off" /\ dSetter = "off" /\ dQuery = "off"
    /\ dEmitted = "off" /\ dAnswered = "off"

Init ==
    \/ /\ which = "mocks" /\ Mocks!Init
       /\ OffSet /\ OffPool /\ OffErrors /\ OffStream /\ OffDns
    \/ /\ which = "set" /\ Set!Init
       /\ OffMocks /\ OffPool /\ OffErrors /\ OffStream /\ OffDns
    \/ /\ which = "pool" /\ Pool!Init
       /\ OffMocks /\ OffSet /\ OffErrors /\ OffStream /\ OffDns
    \/ /\ which = "errors" /\ Errors!Init
       /\ OffMocks /\ OffSet /\ OffPool /\ OffStream /\ OffDns
    \/ /\ which = "stream" /\ Stream!Init
       /\ OffMocks /\ OffSet /\ OffPool /\ OffErrors /\ OffDns
    \/ /\ \/ which = "dnsRecord" /\ DnsRecord!Init
          \/ which = "dnsTest" /\ DnsTest!Init
       /\ OffMocks /\ OffSet /\ OffPool /\ OffErrors /\ OffStream

Next ==
    \/ /\ which = "mocks" /\ Mocks!Next
       /\ UNCHANGED <<which, tvars, pvars, evars, svars, dvars>>
    \/ /\ which = "set" /\ Set!Next
       /\ UNCHANGED <<which, mvars, pvars, evars, svars, dvars>>
    \/ /\ which = "pool" /\ Pool!Next
       /\ UNCHANGED <<which, mvars, tvars, evars, svars, dvars>>
    \/ /\ which = "errors" /\ Errors!Next
       /\ UNCHANGED <<which, mvars, tvars, pvars, svars, dvars>>
    \/ /\ which = "stream" /\ Stream!Next
       /\ UNCHANGED <<which, mvars, tvars, pvars, evars, dvars>>
    \/ /\ \/ which = "dnsRecord" /\ DnsRecord!Next
          \/ which = "dnsTest" /\ DnsTest!Next
       /\ UNCHANGED <<which, mvars, tvars, pvars, evars, svars>>

Spec == Init /\ [][Next]_vars

-----------------------------------------------------------------------------
(* A mock that was inserted and not deleted can be read back after every   *)
(* call, failed write or cancelled caller, with the request noise learned  *)
(* since: no rewrite of the file loses another caller's, unless the file   *)
(* has not the configured format and the two take different locks.         *)
MocksKept == which = "mocks" => Mocks!MocksKept /\ Mocks!NoiseKept

(* A test case whose insertion returned is on disk under its own name and  *)
(* a mapping entry in the mapping, wherever processes that share the test  *)
(* set crash; mapping writes that overlap may lose each other's entries,   *)
(* and processes of different formats may hide each other's files.         *)
TestsKept == which = "set" => Set!TestsKept /\ Set!MappingKept

(* A mock match returned to the application is in the consumed list or     *)
(* already with the replayer.                                              *)
ConsumedReported == which = "pool" => Pool!ConsumedReported


(* A lookup never pairs the trees of one test with the window of another.  *)
WindowRead == [][which = "pool" => Pool!ReadsOwnWindow]_vars

(* A mock miss is in the report of the test that caused it, once, and in   *)
(* no other.                                                               *)
MissesAttributed == which = "errors" => Errors!MissesAttributed

(* Framed exchanges are recorded whole and in order as long as the parser  *)
(* has been given a prefix of each direction, whatever pressure, shutdown, *)
(* abort or watchdog cut the stream.                                       *)
FramedIntact == which = "stream" => Stream!FramedIntact

(* A name answered while recording is recorded in that session, unless an  *)
(* earlier session left it in the cache or in the tracker.                 *)
AnswerRecorded ==
    /\ which = "dnsRecord" => DnsRecord!AnswerRecorded
    /\ which = "dnsTest" => DnsTest!AnswerRecorded
=============================================================================

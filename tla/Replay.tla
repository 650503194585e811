------------------------------- MODULE Replay -------------------------------
(***************************************************************************)
(* The replayer: Start and RunTestSet of pkg/service/replay/replay.go with *)
(* the goroutines they start.  Start runs the test sets one after the      *)
(* other, each several times when flakiness is looked for or failing tests *)
(* are deleted; RunTestSet brings the application up, plays the tests      *)
(* against it, writes the report, the mappings and the pruned mocks.  The  *)
(* application, the goroutine that watches it and the user may end things  *)
(* at any moment, and calls to the agent or the disk may fail.             *)
(*                                                                         *)
(* A test's own mock carries the name of the test.  "boot" is a mock used  *)
(* while the application starts, "x" one no mapping names.  Hooks that     *)
(* change no state here, coverage, telemetry and printing are left out.    *)
(***************************************************************************)
EXTENDS Integers, Sequences, FiniteSets, TLC

CONSTANTS
    Sets,          \* the selected test sets, in order
    TestCases,     \* TestCases[s]: the recorded tests of a set, in order
    Streaming,     \* the tests with a streaming response
    Ignored,       \* the tests config.Test.IgnoredTests names
    IgnoredSets,   \* the sets it names as a whole
    Configs,       \* the configurations to consider, each with the outcomes
                   \* playing a test may have under it: records of a response
                   \* ("match", "diff", "error", "reset") and of what it uses
                   \* ("own", "other", "none")
    StartupWindow, \* models.StartupMockTestCaseWindow
    MaxResetResends, MaxFailAttempts,
    MaxFaults      \* bound on what goes wrong: failing calls, an interrupt,
                   \* the application exiting

VARIABLES
    cfg,    \* the configuration of this run
    start,  \* the locals of Start
    ts,     \* the locals of RunTestSet
    env,    \* contexts, application, watcher and the channels between them
    used,   \* the agent's list of consumed mocks
    db      \* results, reports, mocks, mappings and tests on disk

vars == <<cfg, start, ts, env, used, db>>

Range2Set(q) == {q[n] : n \in 1..Len(q)}
AllTests == UNION {Range2Set(TestCases[s]) : s \in Range2Set(Sets)}
Mocks == AllTests \cup {"boot", "x"}
Zero == [success |-> 0, failure |-> 0, obsolete |-> 0, ignored |-> 0]
Plus(a, b) == [k \in DOMAIN a |-> a[k] + b[k]]
set == Sets[start.si]
NoReport == [status |-> "none", total |-> 0, count |-> Zero]
Idle == [pc |-> "idle", status |-> "PASSED", failed |-> FALSE, count |-> Zero, cur |-> Zero,
         todo |-> <<>>, next |-> <<>>, streams |-> <<>>, streaming |-> FALSE, replay |-> 0, resends |-> 0,
         resp |-> "none", seen |-> {}, fetched |-> TRUE, total |-> {}, passing |-> {}, expected |-> <<>>,
         actual |-> <<>>, exitLoop |-> FALSE, loopErr |-> "none", final |-> <<>>,
         spent |-> {}, lost |-> FALSE, whole |-> TRUE]   \* these three are history

Init ==
    /\ cfg \in Configs
    /\ start = [pc |-> "setup", si |-> 1, attempt |-> 1, failLeft |-> MaxFailAttempts,
                result |-> TRUE, setResult |-> FALSE, abort |-> FALSE, first |-> {},
                totals |-> Zero, before |-> Zero, outcome |-> "running"]
    /\ ts = Idle
    /\ env = [ctx |-> TRUE, tsctx |-> TRUE, app |-> "off", appErr |-> "none", watcher |-> "off",
              errStatus |-> "RUNNING", exit |-> 0, faults |-> MaxFaults]
    /\ used = {}
    /\ db = [results |-> <<>>, deleted |-> {},
             report |-> [s \in Range2Set(Sets) |-> NoReport],
             mocks |-> [s \in Range2Set(Sets) |-> Range2Set(TestCases[s]) \cup {"boot", "x"}],
             mapping |-> [s \in Range2Set(Sets) |->
                            IF cfg.mapping THEN [t \in Range2Set(TestCases[s]) |-> {t}] ELSE <<>>]]

\* A call under runTestSetCtx returns or fails, in compose mode perhaps with
\* an error that looks like the application going away.
Fault == env.faults > 0 /\ env' = [env EXCEPT !.faults = @ - 1]
Returns == env.tsctx /\ UNCHANGED env
FailsAs(gone) ==
    \/ ~env.tsctx /\ ~gone /\ UNCHANGED env
    \/ Fault
Fails == FailsAs(FALSE)

Fatal == {"APP_HALTED", "USER_ABORT", "INTERNAL_ERR", "APP_FAULT"}

mapAppErrorToTestSetStatus(e) ==
    CASE e = "command" -> "APP_FAULT" [] e = "internal" -> "INTERNAL_ERR" [] OTHER -> "APP_HALTED"

\* The status an error leads to; the set's own status when nothing is derived.
resolveTestSetStatus(current, derived, gone) ==
    CASE current \in Fatal -> current
      [] current \notin Fatal /\ derived \in Fatal -> derived
      [] current \notin Fatal /\ derived \notin Fatal /\ cfg.compose /\ gone -> "APP_HALTED"
      [] OTHER -> "none"
Resolved(gone, otherwise) ==
    LET s == resolveTestSetStatus(ts.status, env.errStatus, gone)
    IN  IF s = "none" THEN otherwise ELSE s

shouldAbortTestRun(status) ==
    \/ status \in {"APP_HALTED", "APP_FAULT"} /\ ~cfg.compose
    \/ status = "INTERNAL_ERR"

-----------------------------------------------------------------------------
(* The user, the application and the goroutine that watches it.            *)

Interrupt ==
    /\ env.ctx /\ start.pc # "done" /\ env.faults > 0
    /\ env' = [env EXCEPT !.ctx = FALSE, !.tsctx = FALSE, !.faults = @ - 1]
    /\ UNCHANGED <<cfg, start, ts, used, db>>

\* RunApplication returns.  With --keep-app-alive the application belongs to
\* Start's group, whose first error cancels ctx.
AppExits(e) ==
    /\ env.app = "running"
    /\ (e = "canceled") = (IF cfg.keepAlive THEN ~env.ctx ELSE ~env.tsctx)
    /\ e = "canceled" \/ env.faults > 0
    /\ LET left == IF e = "canceled" THEN env.faults ELSE env.faults - 1
       IN
       env' = IF cfg.keepAlive
              THEN [env EXCEPT !.app = "off", !.ctx = @ /\ e \in {"none", "canceled"},
                               !.tsctx = @ /\ e \in {"none", "canceled"}, !.faults = left]
              ELSE [env EXCEPT !.app = "off", !.faults = left,
                       !.errStatus = IF e = "canceled" THEN @ ELSE mapAppErrorToTestSetStatus(e),
                       !.appErr = IF e \in {"none", "canceled"} THEN @ ELSE e]
    /\ UNCHANGED <<cfg, start, ts, used, db>>

Watcher ==
    /\ env.watcher = "waiting"
    /\ \/ /\ env.appErr # "none"
          /\ env' = [env EXCEPT !.watcher = "off", !.appErr = "none", !.exit = @ + 1, !.tsctx = FALSE,
                                !.errStatus = mapAppErrorToTestSetStatus(env.appErr)]
       \/ /\ ~env.tsctx
          /\ env' = [env EXCEPT !.watcher = "off", !.exit = @ + 1, !.errStatus = "USER_ABORT"]
    /\ UNCHANGED <<cfg, start, ts, used, db>>

-----------------------------------------------------------------------------
(* RunTestSet up to the first test.                                        *)

At(pc) == ts.pc = pc
Goto(pc) == ts' = [ts EXCEPT !.pc = pc]
Return(status, failed) == ts' = [ts EXCEPT !.pc = "defer", !.status = status, !.failed = failed]
tests == SelectSeq(TestCases[set], LAMBDA t : t \notin db.deleted)
IsStream(t) == t \in Streaming

\* GetTestCases; a set without tests or ignored as a whole ends here.
GetTestCases ==
    /\ At("load")
    /\ \/ Fails /\ Return("FAILED", TRUE) /\ UNCHANGED <<db, start>>
       \/ /\ Returns /\ tests = <<>>
          /\ Return("NO_TESTS_TO_RUN", FALSE)
          /\ db' = [db EXCEPT !.report[set] = [NoReport EXCEPT !.status = "NO_TESTS_TO_RUN"]]
          /\ UNCHANGED start
       \/ /\ Returns /\ tests # <<>> /\ set \in IgnoredSets
          /\ Return("IGNORED", FALSE)
          /\ LET r == [status |-> "IGNORED", total |-> Len(tests),
                       count |-> [Zero EXCEPT !.ignored = Len(tests)]]
             IN  /\ db' = [db EXCEPT !.report[set] = r]
                 /\ start' = [start EXCEPT !.totals = Plus(@, r.count)]
       \/ /\ Returns /\ tests # <<>> /\ set \notin IgnoredSets
          /\ Goto("conf") /\ UNCHANGED <<db, start>>
    /\ UNCHANGED <<cfg, used>>

\* The set's configuration and its pre-script.
ReadConf ==
    /\ At("conf")
    /\ \/ Returns /\ Goto(IF cfg.instrument /\ cfg.compose THEN "app" ELSE "mocks")
       \/ Fails /\ \E s \in {"FAILED", "FAULT_SCRIPT"} : Return(s, TRUE)
    /\ UNCHANGED <<cfg, start, used, db>>

\* The application's goroutine, unless it is kept alive, and its watcher.
StartApp ==
    /\ At("app")
    /\ env' = [env EXCEPT !.watcher = "waiting", !.app = IF cfg.keepAlive THEN @ ELSE "running"]
    /\ used' = IF cfg.keepAlive THEN used ELSE used \cup {"boot"}
    /\ Goto(IF cfg.compose THEN "agent" ELSE "ready")
    /\ UNCHANGED <<cfg, start, db>>

\* Docker Compose starts the agent with the application.
AwaitAgent ==
    /\ At("agent")
    /\ \/ UNCHANGED env /\ Goto("mocks")
       \/ /\ ~cfg.keepAlive \/ start.si = 1
          /\ \/ ~env.tsctx /\ UNCHANGED env /\ Return("USER_ABORT", TRUE)
             \/ Fault /\ Return("FAILED", TRUE)
    /\ UNCHANGED <<cfg, start, used, db>>

\* The mocks each test is expected to use, when mappings may be used.
determineMockingStrategy == IF cfg.mapping THEN db.mapping[set] ELSE <<>>
Expected(t) == IF t \in DOMAIN ts.expected THEN ts.expected[t] ELSE {}

\* MockOutgoing, GetMocks, StoreMocks and the staging call, any of which may
\* fail.  With Docker Compose they follow the application, else they precede it.
MocksReady(pc) ==
    \/ Returns /\ ts' = [ts EXCEPT !.expected = determineMockingStrategy, !.pc = pc]
    \/ Fails /\ Return("FAILED", TRUE)
PrepareMocksCompose ==
    /\ At("mocks") /\ cfg.compose
    /\ MocksReady("ready")
    /\ UNCHANGED <<cfg, start, used, db>>
PrepareMocksNative ==
    /\ At("mocks") /\ ~cfg.compose
    /\ MocksReady(IF cfg.instrument THEN "app" ELSE "insert")
    /\ UNCHANGED <<cfg, start, used, db>>

waitForAppReady ==
    /\ At("ready")
    /\ \/ Goto("insert")
       \/ ~env.tsctx /\ (~cfg.keepAlive \/ start.si = 1) /\ Return("USER_ABORT", TRUE)
    /\ UNCHANGED <<cfg, start, env, used, db>>

InsertRunningReport ==
    /\ At("insert")
    /\ \/ /\ Returns /\ Goto("initial")
          /\ db' = [db EXCEPT !.report[set] = [NoReport EXCEPT !.status = "RUNNING", !.total = Len(tests)]]
       \/ Fails /\ Return("FAILED", TRUE) /\ UNCHANGED db
    /\ UNCHANGED <<cfg, start, used>>

\* What the application consumed while it started.
DrainInitial ==
    /\ At("initial")
    /\ \/ /\ Returns /\ used' = {}
          /\ ts' = [ts EXCEPT !.pc = "partition", !.total = used, !.passing = used, !.spent = used]
       \/ \E gone \in BOOLEAN :
          /\ FailsAs(gone) /\ used' \in {used, {}}
          /\ ts' = [ts EXCEPT !.pc = "partition", !.status = Resolved(gone, @), !.spent = used, !.lost = TRUE,
                              !.exitLoop = Resolved(gone, "none") # "none"]
    /\ UNCHANGED <<cfg, start, db>>

Result(t, s) == [id |-> t, status |-> s]

\* Ignored tests are reported, streaming tests are put off to the end.
PartitionTests ==
    LET ignored == SelectSeq(tests, LAMBDA t : t \in Ignored)
    IN  /\ At("partition")
        /\ ts' = [ts EXCEPT !.pc = "next", !.count.ignored = Len(ignored),
                            !.todo = SelectSeq(tests, LAMBDA t : t \notin Ignored /\ ~IsStream(t)),
                            !.streams = SelectSeq(tests, LAMBDA t : t \notin Ignored /\ IsStream(t))]
        /\ db' = [db EXCEPT !.results = @ \o [n \in 1..Len(ignored) |-> Result(ignored[n], "ignored")]]
        /\ UNCHANGED <<cfg, start, env, used>>

-----------------------------------------------------------------------------
(* The loop over the tests, and over the streaming tests after it.         *)

test == Head(ts.todo)
Reusable == {"boot"}
Own(t) == {t} \cup Reusable      \* what was recorded in the window of t, or for the session
Score(k) == IF ts.streaming THEN [ts EXCEPT !.count[k] = @ + 1] ELSE [ts EXCEPT !.cur[k] = @ + 1]
Leave == IF ts.streaming THEN "results" ELSE "endReplay"

\* The head of the loop: out of tests, told to leave, or the next test.
NextTest ==
    /\ At("next")
    /\ LET told == env.exit > 0 /\ ts.todo # <<>>
       IN  /\ env' = IF told THEN [env EXCEPT !.exit = @ - 1] ELSE env
           /\ ts' = [ts EXCEPT !.status = IF told THEN env.errStatus ELSE @,
                        !.exitLoop = @ \/ told,
                        !.pc = IF ts.todo = <<>> \/ told \/ ts.exitLoop THEN Leave ELSE "params"]
    /\ UNCHANGED <<cfg, start, used, db>>

\* The filter for the next test.  A failure ends the loop.
SendMockFilterParams ==
    /\ At("params")
    /\ \/ /\ Returns \/ (~cfg.instrument /\ UNCHANGED env)
          /\ Goto("simulate")
       \/ \E gone \in BOOLEAN :
          /\ cfg.instrument /\ FailsAs(gone)
          /\ ts' = IF ts.streaming
                   THEN [ts EXCEPT !.pc = Leave, !.whole = FALSE,
                           !.loopErr = IF ~env.tsctx THEN "canceled" ELSE IF gone THEN "gone" ELSE "fault"]
                   ELSE [ts EXCEPT !.pc = Leave, !.whole = FALSE, !.status = Resolved(gone, @)]
    /\ UNCHANGED <<cfg, start, used, db>>

\* What a request may come back with and leave consumed.
Played(o) ==
    LET uses == CASE o.uses = "own" -> {test} [] o.uses = "other" -> {"x"} [] OTHER -> {}
    IN  /\ env.tsctx \/ o.resp = "error"
        /\ uses \subseteq db.mocks[set]
        /\ used' = used \cup uses
        /\ ts' = [ts EXCEPT !.resp = o.resp, !.spent = @ \cup uses,
                     !.pc = CASE o.resp = "error" -> "failed" [] o.resp = "reset" -> "reset" [] OTHER -> "drain"]

SimulateRequest ==
    /\ At("simulate")
    /\ \E o \in cfg.outcomes : Played(o)
    /\ UNCHANGED <<cfg, start, env, db>>

\* Mutant: mocks drained by the look are not handed back.
retryResetForgetting ==
    /\ At("reset")
    /\ \/ /\ ts.resends = MaxResetResends \/ ~env.tsctx \/ used # {}
          /\ ts' = [ts EXCEPT !.pc = "failed", !.resends = 0] /\ used' = {}
       \/ /\ ts.resends < MaxResetResends /\ used = {} /\ UNCHANGED used
          /\ ts' = [ts EXCEPT !.pc = "resend", !.resends = @ + 1]
    /\ UNCHANGED <<cfg, start, env, db>>

\* After a connection reset: look whether the request used a mock, and send
\* it again only if it did not.
resetResendUnsafe == used # {}
retryResetOnce ==
    /\ At("reset")
    /\ \/ /\ ts.resends = MaxResetResends \/ ~env.tsctx
          /\ ts' = [ts EXCEPT !.pc = "failed", !.resends = 0] /\ UNCHANGED <<env, used>>
       \/ /\ ts.resends < MaxResetResends /\ Fault /\ used' \in {used, {}}
          /\ ts' = [ts EXCEPT !.pc = "failed", !.resends = 0, !.lost = TRUE]
       \/ /\ ts.resends < MaxResetResends /\ Returns /\ resetResendUnsafe /\ used' = {}
          /\ ts' = [ts EXCEPT !.pc = "failed", !.resends = 0, !.total = @ \cup used]
       \/ /\ ts.resends < MaxResetResends /\ Returns /\ ~resetResendUnsafe /\ UNCHANGED used
          /\ ts' = [ts EXCEPT !.pc = "resend", !.resends = @ + 1]
    /\ UNCHANGED <<cfg, start, db>>

Resend ==
    /\ At("resend")
    /\ \E o \in cfg.outcomes : Played(o)
    /\ UNCHANGED <<cfg, start, env, db>>

\* A request that failed: the test fails without its mocks being asked for.
SimulationFailed ==
    /\ At("failed")
    /\ ts' = [Score("failure") EXCEPT !.status = "FAILED", !.pc = "next", !.resp = "none", !.resends = 0,
                 !.todo = Tail(@)]
    /\ db' = [db EXCEPT !.results = Append(@, Result(test, "failure"))]
    /\ UNCHANGED <<cfg, start, env, used>>

\* The mocks the test consumed.  The agent forgets them as it answers.
GetConsumedMocks ==
    /\ At("drain")
    /\ LET next == [ts EXCEPT !.pc = IF ts.streaming THEN "read" ELSE "verdict", !.resends = 0]
       IN  \/ ~cfg.instrument /\ ts' = next /\ UNCHANGED <<env, used>>
           \/ /\ cfg.instrument /\ Returns /\ used' = {}
              /\ ts' = [next EXCEPT !.seen = used, !.total = @ \cup used]
           \/ \E gone \in BOOLEAN :
              /\ cfg.instrument /\ FailsAs(gone) /\ used' \in {used, {}}
              /\ ts' = IF ts.streaming THEN [next EXCEPT !.lost = TRUE]
                       ELSE [next EXCEPT !.fetched = FALSE, !.lost = TRUE, !.status = Resolved(gone, @),
                               !.exitLoop = @ \/ Resolved(gone, "none") # "none"]
    /\ UNCHANGED <<cfg, start, db>>

\* The verdict on a test whose response arrived, and what it changes.
Verdict(mismatch, reject) ==
    CASE ts.resp = "match" /\ ~reject -> "success"
      [] ts.resp # "match" /\ mismatch /\ ~cfg.strict -> "obsolete"
      [] OTHER -> "failure"
\* Mutant: only the mocks of the last passing test are remembered.
JudgedForgetting(v) ==
    [Score(v) EXCEPT !.status = IF v = "failure" THEN "FAILED" ELSE @,
       !.passing = IF v = "success" THEN ts.seen ELSE @,
       !.next = IF v = "success" /\ ~ts.streaming THEN Append(@, test) ELSE @,
       !.pc = "next", !.todo = Tail(@), !.seen = {}, !.fetched = TRUE, !.resp = "none"]

Judged(v) ==
    LET was == IF test \in DOMAIN ts.actual THEN ts.actual[test] ELSE {}
        now == was \cup (ts.seen \cap Own(test))
    IN  [Score(v) EXCEPT !.status = IF v = "failure" THEN "FAILED" ELSE @,
           !.passing = IF v = "success" THEN @ \cup ts.seen ELSE @,
           !.next = IF v = "success" /\ ~ts.streaming THEN Append(@, test) ELSE @,
           !.actual = IF now = {} THEN @ ELSE (test :> now) @@ @,
           !.pc = "next", !.todo = Tail(@), !.seen = {}, !.fetched = TRUE, !.resp = "none"]

\* A mapped mock the test did not use is a mismatch.
mockSetMismatch ==
    /\ cfg.instrument /\ ts.fetched /\ test \in DOMAIN ts.expected
    /\ ~(Expected(test) \ Reusable \subseteq ts.seen \ Reusable)
strictMockReject == mockSetMismatch /\ ts.resp = "match" /\ cfg.noiseStrict

\* The result is kept until the replays of passing tests are over.
finalTestCaseResults(v) == (test :> v) @@ ts.final

CompareResponse ==
    LET v == Verdict(mockSetMismatch, strictMockReject)
    IN  /\ At("verdict")
        /\ ts' = [Judged(v) EXCEPT !.final = finalTestCaseResults(v)]
        /\ used' \in (IF cfg.instrument THEN {used} ELSE {used, {}})
        /\ UNCHANGED <<cfg, start, env, db>>

\* Reading the stream, during which the application may go on using mocks.
ReadStream ==
    /\ At("read")
    /\ \/ \E more \in {{}, {test}} :
          /\ Returns /\ used' = used \cup more /\ UNCHANGED db
          /\ ts' = [ts EXCEPT !.pc = "drain2", !.spent = @ \cup more]
       \/ /\ Fails /\ UNCHANGED used
          /\ ts' = [Score("failure") EXCEPT !.status = "FAILED", !.pc = "next", !.todo = Tail(@),
                       !.seen = {}, !.resp = "none"]
          /\ db' = [db EXCEPT !.results = Append(@, Result(test, "failure"))]
    /\ UNCHANGED <<cfg, start>>

DrainStream ==
    /\ At("drain2")
    /\ \/ ~cfg.instrument /\ Goto("streamVerdict") /\ UNCHANGED <<env, used>>
       \/ /\ cfg.instrument /\ Returns /\ used' = {}
          /\ ts' = [ts EXCEPT !.pc = "streamVerdict", !.seen = @ \cup used, !.total = @ \cup used]
       \/ /\ cfg.instrument /\ Fails /\ used' \in {used, {}}
          /\ ts' = [ts EXCEPT !.pc = "streamVerdict", !.lost = TRUE]
    /\ UNCHANGED <<cfg, start, db>>

\* For a stream the mismatch is a used mock that is not mapped.
isMockSubsetWithConfig == ts.seen \ Reusable \subseteq Expected(test)
CompareStream ==
    LET v == Verdict(cfg.instrument /\ Expected(test) # {} /\ ~isMockSubsetWithConfig, FALSE)
    IN  /\ At("streamVerdict")
        /\ ts' = Judged(v)
        /\ db' = [db EXCEPT !.results = Append(@, Result(test, v))]
        /\ UNCHANGED <<cfg, start, env, used>>

\* With RetryPassing the tests that passed are played again, up to twice,
\* as long as a replay has failures.
EndReplay ==
    LET sums == [ts.count EXCEPT !.failure = @ + ts.cur.failure, !.obsolete = @ + ts.cur.obsolete,
                                 !.success = ts.cur.success]
        again == cfg.retry /\ ts.cur.failure > 0 /\ ts.replay < 2
    IN  /\ At("endReplay")
        /\ ts' = IF again
                 THEN [ts EXCEPT !.count = sums, !.cur = Zero, !.todo = ts.next, !.next = <<>>,
                                 !.replay = @ + 1, !.pc = "next"]
                 ELSE [ts EXCEPT !.count = sums, !.cur = Zero, !.todo = <<>>, !.next = <<>>, !.pc = "final"]
        /\ UNCHANGED <<cfg, start, env, used, db>>

InsertFinalResults ==
    LET done == SelectSeq(tests, LAMBDA t : t \in DOMAIN ts.final)
        stream == ~ts.exitLoop /\ ts.streams # <<>>
    IN  /\ At("final")
        /\ db' = [db EXCEPT !.results = @ \o [n \in 1..Len(done) |-> Result(done[n], ts.final[done[n]])]]
        /\ ts' = [ts EXCEPT !.streaming = stream, !.todo = IF stream THEN ts.streams ELSE <<>>,
                            !.streams = <<>>, !.pc = IF stream THEN "next" ELSE "results"]
        /\ UNCHANGED <<cfg, start, env, used>>

-----------------------------------------------------------------------------
(* What is left of RunTestSet after the tests.                             *)

\* The results, which there must be one of, and the post-script.
CollectResults ==
    /\ At("results")
    /\ \/ /\ env.tsctx \/ ~cfg.script
          /\ UNCHANGED env
          /\ ts' = [ts EXCEPT !.pc = "status",
                       !.status = IF db.results = <<>> /\ env.tsctx THEN Resolved(TRUE, "INTERNAL_ERR") ELSE @]
       \/ cfg.script /\ Fails /\ Return("FAULT_SCRIPT", TRUE)
    /\ UNCHANGED <<cfg, start, used, db>>

FinalStatus ==
    /\ At("status")
    /\ ts' = [ts EXCEPT !.pc = "report",
                 !.status = IF ts.loopErr \in {"fault", "gone"}
                            THEN Resolved(ts.loopErr = "gone", "INTERNAL_ERR") ELSE Resolved(FALSE, @)]
    /\ UNCHANGED <<cfg, start, env, used, db>>

\* The final report is written whatever happened to the context.
WriteReport ==
    /\ At("report")
    /\ \/ /\ Goto("prune") /\ UNCHANGED env
          /\ db' = [db EXCEPT !.report[set] = [status |-> ts.status, total |-> Len(tests), count |-> ts.count]]
       \/ Fault /\ Return("INTERNAL_ERR", TRUE) /\ UNCHANGED db
    /\ UNCHANGED <<cfg, start, used>>

\* Mocks recorded before the test that follows the startup window.
StartupMocks ==
    IF Len(tests) > StartupWindow
    THEN {"boot"} \cup {TestCases[set][n] : n \in {m \in 1..Len(TestCases[set]) :
            \A k \in 1..m : TestCases[set][k] # tests[StartupWindow + 1]}}
    ELSE Mocks

\* Mocks of tests that were not played count as used; the others nobody
\* used go, unless failures are to be looked at.
PruneMocks ==
    LET active == {t \in Range2Set(tests) : t \notin Ignored /\ ~IsStream(t)}
        keep == ts.passing \cup UNION {Expected(t) : t \in DOMAIN ts.expected \ active} \cup StartupMocks
        skip == cfg.preserve /\ (ts.count.failure > 0 \/ ts.count.obsolete > 0)
        prunes == cfg.prune /\ cfg.instrument /\ ~skip
    IN  /\ At("prune")
        /\ \/ prunes /\ Returns /\ db' = [db EXCEPT !.mocks[set] = @ \cap keep]
           \/ prunes /\ Fails /\ UNCHANGED db
           \/ ~prunes /\ UNCHANGED <<env, db>>
        /\ Goto("mapping")
        /\ UNCHANGED <<cfg, start, used>>

\* The mappings are written when asked for, or when there were none.
WriteMappings ==
    /\ At("mapping")
    /\ \/ /\ cfg.update \/ (DOMAIN ts.actual # {} /\ DOMAIN db.mapping[set] = {})
          /\ env.ctx /\ UNCHANGED env
          /\ db' = [db EXCEPT !.mapping[set] = ts.actual]
       \/ ~cfg.update /\ (DOMAIN ts.actual = {} \/ DOMAIN db.mapping[set] # {}) /\ UNCHANGED <<env, db>>
       \/ (Fault \/ (~env.ctx /\ UNCHANGED env)) /\ UNCHANGED db
    /\ Goto("totals")
    /\ UNCHANGED <<cfg, start, used>>

AddTotals ==
    /\ At("totals")
    /\ start' = [start EXCEPT !.totals = Plus(@, ts.count)]
    /\ Return(ts.status, FALSE)
    /\ UNCHANGED <<cfg, env, used, db>>

\* The deferred function: cancel, then wait for the goroutines.
CancelTestSet ==
    /\ At("defer") /\ Goto("wait")
    /\ env' = [env EXCEPT !.tsctx = FALSE]
    /\ UNCHANGED <<cfg, start, used, db>>
DrainTestSet ==
    /\ At("wait") /\ env.watcher = "off"
    /\ cfg.keepAlive \/ env.app = "off"
    /\ ts' = [Idle EXCEPT !.pc = "returned", !.status = ts.status, !.failed = ts.failed]
    /\ UNCHANGED <<cfg, start, env, used, db>>

-----------------------------------------------------------------------------
(* Start.                                                                  *)

StartAt(pc) == start.pc = pc /\ UNCHANGED cfg
Leaves(outcome) == start' = [start EXCEPT !.pc = "teardown", !.outcome = outcome]

\* Test set ids, run id and instrumentation; the application that is kept
\* alive starts here.
KeepAppAlive ==
    IF cfg.keepAlive THEN env' = [env EXCEPT !.app = "running"] /\ used' = {"boot"}
                     ELSE UNCHANGED <<env, used>>
Setup ==
    /\ StartAt("setup") /\ UNCHANGED <<ts, db>>
    /\ \/ env.ctx /\ start' = [start EXCEPT !.pc = "set"] /\ KeepAppAlive
       \/ (Fault \/ (~env.ctx /\ UNCHANGED env)) /\ Leaves("error") /\ UNCHANGED used

BeginSet ==
    /\ StartAt("set") /\ UNCHANGED <<ts, env, used, db>>
    /\ start' = IF start.si > Len(Sets) \/ start.abort
                THEN [start EXCEPT !.pc = "finish"]
                ELSE [start EXCEPT !.pc = "attempt", !.attempt = 1, !.setResult = FALSE,
                                   !.before = start.totals, !.first = {}]

NextSet == [start EXCEPT !.pc = "set", !.si = @ + 1]

\* An attempt begins with the results cleared and the totals put back.
BeginAttempt ==
    /\ StartAt("attempt") /\ UNCHANGED used
    /\ \/ /\ start.attempt <= cfg.flakyChecks
          /\ start' = [start EXCEPT !.pc = "run", !.totals = start.before]
          /\ db' = [db EXCEPT !.results = <<>>]
          /\ ts' = [Idle EXCEPT !.pc = "load"]
          /\ env' = [env EXCEPT !.tsctx = env.ctx, !.appErr = "none", !.errStatus = "RUNNING", !.exit = 0]
       \/ /\ start.attempt > cfg.flakyChecks
          /\ start' = NextSet
          /\ UNCHANGED <<ts, env, db>>

\* RunTestSet returned an error.
RunFailed ==
    /\ StartAt("run") /\ At("returned") /\ ts.failed
    /\ IF env.ctx /\ cfg.compose /\ ts.status \in {"APP_HALTED", "APP_FAULT", "USER_ABORT"}
       THEN start' = [NextSet EXCEPT !.setResult = FALSE, !.result = FALSE]
       ELSE Leaves("error")
    /\ ts' = Idle /\ UNCHANGED <<env, used, db>>

\* RunTestSet returned a status.
RunReturned ==
    /\ StartAt("run") /\ At("returned") /\ ~ts.failed
    /\ LET pass == ts.status = "PASSED"
           result == IF ts.status = "IGNORED" THEN start.result ELSE start.result /\ pass
           abort == shouldAbortTestRun(ts.status)
       IN  start' = CASE ts.status = "USER_ABORT" -> [start EXCEPT !.pc = "teardown", !.outcome = "aborted"]
                      [] ts.status # "USER_ABORT" /\ (abort \/ db.results = <<>>) ->
                            [NextSet EXCEPT !.setResult = pass, !.result = result, !.abort = abort]
                      [] OTHER -> [start EXCEPT !.pc = "judge", !.setResult = pass, !.result = result]
    /\ ts' = Idle /\ UNCHANGED <<env, used, db>>

failedTcIDs == {db.results[n].id : n \in {m \in 1..Len(db.results) : db.results[m].status = "failure"}}

\* Without --must-pass: is the set flaky?
CheckFlaky ==
    /\ StartAt("judge") /\ ~cfg.mustPass
    /\ start' = IF start.attempt = 1 \/ failedTcIDs = start.first
                THEN [start EXCEPT !.pc = "attempt", !.attempt = @ + 1, !.first = failedTcIDs]
                ELSE NextSet
    /\ UNCHANGED <<ts, env, used, db>>

\* With it: failing tests are deleted and the set is played again.
DeleteFailing ==
    /\ StartAt("judge") /\ cfg.mustPass /\ UNCHANGED <<ts, used>>
    /\ \/ start.failLeft = 0 /\ start' = NextSet /\ UNCHANGED <<env, db>>
       \/ /\ start.failLeft > 0 /\ failedTcIDs = {}
          /\ start' = [start EXCEPT !.pc = "attempt", !.attempt = @ + 1] /\ UNCHANGED <<env, db>>
       \/ /\ start.failLeft > 0 /\ failedTcIDs # {} /\ env.ctx /\ UNCHANGED env
          /\ start' = [start EXCEPT !.pc = "attempt", !.attempt = 1, !.failLeft = @ - 1]
          /\ db' = [db EXCEPT !.deleted = @ \cup failedTcIDs]
       \/ /\ start.failLeft > 0 /\ failedTcIDs # {}
          /\ (Fault \/ (~env.ctx /\ UNCHANGED env)) /\ start' = NextSet /\ UNCHANGED db

\* utils.ErrCode: only the end of Start sets it.  An error Start returns is
\* logged by the test command, which itself returns none.
ErrCode == IF start.outcome = "finished" /\ ~start.result THEN 1 ELSE 0

\* All sets were gone through, or the run was aborted.
Finish ==
    /\ StartAt("finish") /\ Leaves("finished")
    /\ UNCHANGED <<ts, env, used, db>>

\* The deferred function of Start: cancel, then wait for the application.
Teardown ==
    /\ UNCHANGED <<ts, used, db>>
    /\ \/ /\ StartAt("teardown")
          /\ start' = [start EXCEPT !.pc = "stop"]
          /\ env' = [env EXCEPT !.ctx = FALSE, !.tsctx = FALSE]
       \/ /\ StartAt("stop") /\ env.app = "off"
          /\ start' = [start EXCEPT !.pc = "done"] /\ UNCHANGED env

-----------------------------------------------------------------------------
RunTestSet ==
    \/ GetTestCases \/ ReadConf \/ StartApp \/ AwaitAgent \/ PrepareMocksCompose \/ PrepareMocksNative \/ waitForAppReady
    \/ InsertRunningReport \/ DrainInitial \/ PartitionTests
    \/ NextTest \/ SendMockFilterParams \/ SimulateRequest \/ retryResetOnce \/ Resend \/ SimulationFailed
    \/ GetConsumedMocks \/ CompareResponse \/ ReadStream \/ DrainStream \/ CompareStream
    \/ EndReplay \/ InsertFinalResults \/ CollectResults \/ FinalStatus \/ WriteReport
    \/ PruneMocks \/ WriteMappings \/ AddTotals \/ CancelTestSet \/ DrainTestSet

Start ==
    \/ Setup \/ BeginSet \/ BeginAttempt \/ RunFailed \/ RunReturned \/ CheckFlaky \/ DeleteFailing
    \/ Finish \/ Teardown

Done == start.pc = "done" /\ UNCHANGED vars

Next ==
    \/ RunTestSet \/ Start \/ Interrupt \/ Watcher \/ Done
    \/ \E e \in {"none", "command", "internal", "canceled"} : AppExits(e)

Spec == Init /\ [][Next]_vars

-----------------------------------------------------------------------------
Statuses == {"PASSED", "FAILED", "RUNNING", "IGNORED", "NO_TESTS_TO_RUN", "FAULT_SCRIPT"} \cup Fatal
Counts == [{"success", "failure", "obsolete", "ignored"} -> Nat]
SetNames == Range2Set(Sets)

\* Every variable keeps its type; in particular the exit channel never holds
\* more signals than its buffer of two takes (replay.go:945).
TypeOK ==
    /\ start.totals \in Counts /\ start.si \in 1..Len(Sets) + 1 /\ start.failLeft \in 0..MaxFailAttempts
    /\ ts.status \in Statuses /\ ts.count \in Counts /\ ts.total \subseteq Mocks /\ ts.passing \subseteq Mocks
    /\ env.exit \in 0..2 /\ env.errStatus \in Statuses /\ used \subseteq Mocks
    /\ \A s \in SetNames : db.mocks[s] \subseteq Mocks /\ db.report[s].status \in Statuses \cup {"none"}

Sum(c) == c.success + c.failure + c.obsolete + c.ignored

\* When the loop went over all tests the report's four counters add up to its
\* total, retries of passing tests, streaming tests and resends included
\* (replay.go:2251-2265 and 2724).
CountsAddUp == ts.pc = "prune" /\ ts.whole /\ ~ts.exitLoop => Sum(ts.count) = Len(tests)

\* When keploy exits with code 0, either each set has a last report that says
\* PASSED or IGNORED and counts no failure, or Start returned early, which it
\* does only after a call failed, the application exited or the user
\* interrupted it; and a report that says PASSED accounts for all tests of its
\* set unless a call failed: losing the agent at a filter ends the loop without
\* failing the set (replay.go:661-684, 890 and 1732-1739, cli/test.go:47-54).
WentWrong == env.faults < MaxFaults
ExitHonest ==
    /\ start.pc = "done" /\ ErrCode = 0 =>
        \/ /\ \A s \in SetNames : db.report[s].status \in {"PASSED", "IGNORED"} /\ db.report[s].count.failure = 0
           /\ start.totals.failure = 0
        \/ start.outcome \in {"error", "aborted"} /\ WentWrong
    /\ \A s \in SetNames :
        db.report[s].status = "PASSED" /\ Sum(db.report[s].count) # db.report[s].total => WentWrong

\* Before each filter is sent, every mock the application has consumed is in
\* the list sent with it or still reported by the agent, unless a call that
\* drains the agent's list failed: no consumed mock is served twice
\* (replay.go:1781 and 1837, and the comment on retryResetOnce).
ConsumedAccounted == ts.pc = "params" /\ cfg.instrument /\ ~ts.lost => ts.spent \subseteq ts.total \cup used

\* Pruning never removes the mock of a test that consumed it and whose last
\* verdict is a pass, unless a drain failed (replay.go:2757-2809).
PrunesUnneeded ==
    ts.pc = "prune" /\ ~ts.lost =>
        \A t \in DOMAIN ts.final \cap ts.spent :
            ts.final[t] = "success" /\ t \in db.mocks[set] => t \in db'.mocks[set]
PruneSafe == [][PrunesUnneeded]_vars

=============================================================================

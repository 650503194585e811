------------------------------ MODULE MCRecord ------------------------------
(***************************************************************************)
(* Model checking of a recording session of the CLI and of the two         *)
(* processes it starts, the application and the agent.  which says the one *)
(* a behaviour is about; the others stay as they were: Recorder has its    *)
(* own view of the application and of the agent's streams.                 *)
(***************************************************************************)
EXTENDS Recorder

CONSTANTS Parts, t1, m1, m2, e1, e2, AppScenes, ConflictRetries, DepRetries, AgentScenes

VARIABLES which, rScene, rCtx, rBox, rCmd, rWatch, rRun, rDownOnce, rResult,
          rHist, aScene, aCtx, aAgentCtx, aSetup, aProc, aMu, aPty, aCmdRef,
          aWaiter, aStopper, aMonitor, aGrpErr

rvars == <<rScene, rCtx, rBox, rCmd, rWatch, rRun, rDownOnce, rResult, rHist>>
avars == <<aScene, aCtx, aAgentCtx, aSetup, aProc, aMu, aPty, aCmdRef,
           aWaiter, aStopper, aMonitor, aGrpErr>>
all == <<which, vars, rvars, avars>>

Runner == INSTANCE AppRun WITH Scenes <- AppScenes, scene <- rScene,
    ctx <- rCtx, box <- rBox, cmd <- rCmd, watch <- rWatch, run <- rRun,
    downOnce <- rDownOnce, result <- rResult, hist <- rHist
Agent == INSTANCE AgentLife WITH Scenes <- AgentScenes, scene <- aScene,
    ctx <- aCtx, agentCtx <- aAgentCtx, setup <- aSetup, proc <- aProc,
    mu <- aMu, pty <- aPty, cmdRef <- aCmdRef, waiter <- aWaiter,
    stopper <- aStopper, monitor <- aMonitor, grpErr <- aGrpErr

-----------------------------------------------------------------------------
(* One test case, one mock, and the mapping entry that joins them. *)
SessionFeed == [tests |-> <<t1>>, mocks |-> <<m1>>, maps |-> <<e1>>]
SessionTest == [e \in {e1} |-> "test-1"]
SessionMocks == [e \in {e1} |-> <<m1>>]

(* A second entry for the same test: its mock was binned late. *)
LateFeed == [tests |-> <<t1>>, mocks |-> <<m1, m2>>, maps |-> <<e1, e2>>]
LateTest == [e \in {e1, e2} |-> "test-1"]
LateMocks == [e \in {e1, e2} |-> IF e = e1 THEN <<m1>> ELSE <<m2>>]

-----------------------------------------------------------------------------
Free == [r \in {"app", "dep", "agent", "old"} |-> "none"]
Command(k, b, f, c) ==
    [kind |-> k, box |-> b, faults |-> f, budget |-> f, crashes |-> c, detached |-> FALSE,
     found |-> TRUE, rm |-> TRUE, codes |-> {}, badImage |-> FALSE, testBin |-> FALSE,
     external |-> FALSE]

MCApps ==
    {Command("native", Free, 0, 0),
     Command("run", Free, 1, 0),
     Command("run", [Free EXCEPT !["app"] = "exited"], 2, 0),
     [Command("run", Free, 1, 0) EXCEPT !.codes = {"e125"}],
     [Command("run", Free, 1, 0) EXCEPT !.codes = {"e125"}, !.rm = FALSE],
     [Command("run", Free, 1, 0) EXCEPT !.badImage = TRUE],
     Command("start", [Free EXCEPT !["app"] = "exited"], 1, 0),
     Command("start", [Free EXCEPT !["app"] = "running"], 1, 0),
     [Command("compose", Free, 0, 0) EXCEPT !.detached = TRUE],
     [Command("compose", Free, 0, 0) EXCEPT !.found = FALSE],
     Command("compose", Free, 3, 3),
     Command("compose", [Free EXCEPT !["old"] = "running"], 3, 1),
     [Command("compose", [Free EXCEPT !["agent"] = "running"], 2, 1) EXCEPT !.external = TRUE],
     [Command("compose", Free, 1, 1) EXCEPT !.codes = {"e125"}, !.testBin = TRUE]}

-----------------------------------------------------------------------------
FailingSteps ==
    {{}, {"ports"}, {"start"}, {"app"}, {"stop"}, {"boot"}, {"crash"}, {"boot", "stop"},
     {"crash", "app"}}
MCAgents ==
    [kind : {"native", "docker", "compose"}, pty : BOOLEAN, fails : FailingSteps,
     stubborn : {FALSE}]

-----------------------------------------------------------------------------
MCInit ==
    /\ which \in Parts
    /\ which # "session" => compose = CHOOSE c \in Compose : TRUE
    /\ Init
    /\ which # "runner" => rScene = CHOOSE s \in AppScenes : TRUE
    /\ Runner!Init
    /\ which # "agent" => aScene = CHOOSE s \in AgentScenes : TRUE
    /\ Agent!Init

MCNext ==
    \/ which = "session" /\ Next /\ UNCHANGED <<which, rvars, avars>>
    \/ which = "runner" /\ Runner!Next /\ UNCHANGED <<which, vars, avars>>
    \/ which = "agent" /\ Agent!Next /\ UNCHANGED <<which, vars, rvars>>

(* Goroutines that can run do, the streams answer a cancelled context, the *)
(* timers fire and an agent that was asked to stop exits.  No part runs    *)
(* for ever, so it is enough that one of the steps a component can take is *)
(* taken.                                                                  *)
SessionSteps ==
    \/ ~panicked /\ Main
    \/ \E s \in Streams :
          \/ reqCtx /\ ForwardEnds(s)
          \/ HandOver(s) \/ RangeEnds(s) \/ Insert(s) \/ Report(s)
    \/ GetMappings \/ Correlate \/ SaveMapping
AgentSteps ==
    Agent!InSetup \/ Agent!Group \/ Agent!Stopper \/ (aProc = "asked" /\ Agent!Exits)

MCSpec ==
    /\ MCInit /\ [][MCNext]_all
    /\ WF_vars(which = "session" /\ SessionSteps)
    /\ WF_rvars(which = "runner" /\ (Runner!Runner \/ Runner!Canceller))
    /\ WF_avars(which = "agent" /\ AgentSteps)

-----------------------------------------------------------------------------
(* run does not start again an application that ran and failed, except one *)
(* that exits 125 under docker run, reports no other such failure as a     *)
(* clean stop, and leaves no container of a compose project behind.        *)
RunAccounts == Runner!RunAccounts

(* The session is interrupted or an insert failed; the runner's or the     *)
(* client's context has ended.                                             *)
Asked ==
    CASE which = "session" -> ctx \/ \E s \in {"tests", "mocks"} : ins[s] = "report"
      [] which = "runner" -> rCtx = "done"
      [] which = "agent" -> aCtx = "done"
Over ==
    CASE which = "session" -> pc = "returned" \/ panicked
      [] which = "runner" -> rRun.pc = "done"
      [] which = "agent" -> Agent!AllEnded

(* An interrupted session ends, and so does one whose insert failed, even  *)
(* when a goroutine of it never does; the application's runner returns,    *)
(* and Setup, its goroutines and the agent process come to their end.      *)
SessionEnds == Asked ~> Over
=============================================================================

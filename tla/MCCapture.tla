------------------------------ MODULE MCCapture -----------------------------
(***************************************************************************)
(* Model checking of what must come to an end in the ingress proxy, which  *)
(* captures test cases, in the writer of mocks.gob and in a replay.  They  *)
(* share no state: which says the one a behaviour is about; the others     *)
(* stay as they were.  The replay is a small instance: the large one of    *)
(* MCParsers is about safety.                                              *)
(***************************************************************************)
EXTENDS GobWriter

CONSTANTS Parts, Clients, Scenes, SamplingCap, ReplayConfigs

VARIABLES which, iScene, iPort, iCtx, iPaused, iH, iClient, iApp, iRan, iGot,
          iTests, rCfg, rStart, rTs, rEnv, rUsed, rDb

ivars == <<iScene, iPort, iCtx, iPaused, iH, iClient, iApp, iRan, iGot,
           iTests>>
rvars == <<rCfg, rStart, rTs, rEnv, rUsed, rDb>>
all == <<which, vars, ivars, rvars>>

Http == INSTANCE Ingress WITH Conns <- Clients, scene <- iScene,
    port <- iPort, ctx <- iCtx, paused <- iPaused, h <- iH, client <- iClient,
    app <- iApp, ran <- iRan, got <- iGot, tests <- iTests
Run == INSTANCE Replay WITH Sets <- <<"A">>,
    TestCases <- [A |-> <<"t1", "st">>], Streaming <- {"st"}, Ignored <- {},
    IgnoredSets <- {}, Configs <- ReplayConfigs, StartupWindow <- 1,
    MaxResetResends <- 1, MaxFailAttempts <- 1, cfg <- rCfg, start <- rStart,
    ts <- rTs, env <- rEnv, used <- rUsed, db <- rDb

-----------------------------------------------------------------------------
\* The first of two sessions may be closed while its insert goroutine runs.
FirstOverruns == {1}

Request(idem, body, resp) == [idem |-> idem, body |-> body, resp |-> resp, upgrade |-> FALSE, close |-> FALSE]
Get == Request(TRUE, "none", "small")
Put == Request(TRUE, "small", "none")
Post == Request(FALSE, "small", "small")
Upload == Request(TRUE, "stream", "none")
Events == Request(TRUE, "none", "stream")
Big == Request(FALSE, "big", "small")
Last == [Get EXCEPT !.close = TRUE]
Ws == [Get EXCEPT !.upgrade = TRUE]

Scene(mode, a, b, faults, pauses, hang) ==
    [mode |-> mode, reqs |-> [c \in Clients |-> IF c = 1 THEN a ELSE b],
     faults |-> faults, pauses |-> pauses, hang |-> hang]

MCScenes ==
    {Scene(m, <<Put, Post>>, <<>>, 2, 1, FALSE) : m \in {"sync", "sampling", "plain"}}
    \cup {Scene(m, <<Put>>, <<Get>>, n, 1 - n, FALSE) : m \in {"sync", "sampling"}, n \in {0, 1}}
    \cup {Scene(m, <<Upload>>, <<Events>>, 0, 1, FALSE) : m \in {"sync", "sampling"}}
    \cup {Scene(m, <<q>> \o <<Last>>, <<>>, 1, 2, FALSE) :
             m \in {"sampling", "plain"}, q \in {Events, Big, Ws, Upload}}
    \cup {Scene("plain", <<Get>>, <<Put>>, 0, 0, TRUE)}

MCHang == {Scene("plain", <<Get>>, <<>>, 1, 0, TRUE)}

-----------------------------------------------------------------------------
Play(r, u) == [resp |-> r, uses |-> u]
Few == {Play("match", "own"), Play("error", "none")}
Base == [compose |-> FALSE, instrument |-> TRUE, keepAlive |-> FALSE, mustPass |-> FALSE, retry |-> FALSE,
         strict |-> FALSE, noiseStrict |-> FALSE, prune |-> TRUE, preserve |-> FALSE, mapping |-> TRUE,
         update |-> FALSE, script |-> FALSE, flakyChecks |-> 1, outcomes |-> Few]
MCConfigs ==
    {[Base EXCEPT !.retry = TRUE, !.outcomes = Few \cup {Play("reset", "own")}],
     [Base EXCEPT !.compose = TRUE, !.mapping = FALSE, !.script = TRUE],
     [Base EXCEPT !.keepAlive = TRUE, !.strict = TRUE],
     [Base EXCEPT !.mustPass = TRUE, !.flakyChecks = 2]}

-----------------------------------------------------------------------------
MCInit ==
    /\ which \in Parts
    /\ Init
    /\ which # "ingress" => iScene = CHOOSE s \in Scenes : TRUE
    /\ Http!Init
    /\ which # "replay" => rCfg = CHOOSE c \in ReplayConfigs : TRUE
    /\ Run!Init

MCNext ==
    \/ which = "gob" /\ Next /\ UNCHANGED <<which, ivars, rvars>>
    \/ which = "ingress" /\ Http!Next /\ UNCHANGED <<which, vars, rvars>>
    \/ which = "replay" /\ Run!Next /\ UNCHANGED <<which, vars, ivars>>

(* The goroutines run, calls return, an application that does not hang     *)
(* answers, a cancelled one exits and a client that has its answers leaves.*)
(* No part runs for ever, so it is enough that one of the steps a          *)
(* component can take is taken.                                            *)
GobSteps ==
    \/ Writer
    \/ \E s \in Sessions : InsertMockGob(s) \/ InsertSync(s) \/ CloseDone(s) \/ CloseTimesOut(s)
IngressSteps ==
    \E c \in Clients :
        Http!Handling(c) \/ Http!Watcher(c) \/ Http!AnswersInTime(c) \/ Http!LeavesServed(c)
ReplaySteps == Run!RunTestSet \/ Run!Start \/ Run!Watcher \/ Run!AppExits("canceled")

MCSpec ==
    /\ MCInit /\ [][MCNext]_all
    /\ WF_vars(which = "gob" /\ GobSteps)
    /\ WF_ivars(which = "ingress" /\ IngressSteps)
    /\ WF_rvars(which = "replay" /\ ReplaySteps)

-----------------------------------------------------------------------------
(* A request is executed no more often than its retry allows, a test case  *)
(* is an exchange its client saw whole, and the capture slots are kept.    *)
IngressFaithful == Http!IngressFaithful

(* What an insert, a handler of the ingress proxy or the replayer owes.    *)
Owing ==
    CASE which = "gob" -> \E s \in Sessions : ins[s] \in {"calling", "sync"}
      [] which = "ingress" -> Http!Unfinished
      [] which = "replay" -> rStart.pc # "done"

(* InsertMock returns, whatever Close does meanwhile; the capture slots    *)
(* are given back, and the handlers of a stopped forwarder return; Start   *)
(* of the replayer returns after any failing call, interrupt or exit of    *)
(* the application.                                                        *)
WorkEnds == Owing ~> ~Owing
=============================================================================

------------------------------- MODULE MCLive -------------------------------
(***************************************************************************)
(* Model checking of what must come to an end around a recorded            *)
(* connection: the ticker and the shutdown of the mock buffer, and a       *)
(* directive and the teardown of the relay; and of streams whose windows   *)
(* overlap in the mock buffer.  They share no state: which says the one a  *)
(* behaviour is about; the others stay as they were.                       *)
(***************************************************************************)
EXTENDS SyncMock

CONSTANTS m1, m2, m3, q1, sh, sg

VARIABLES which, lSent, lTaken, lSock, lDeadline, lWrapped, lPc, lHand, lErr,
          lHeld, lPause, lWindows, lParked, lPreDispatch, lStash, lDpc, lDreq,
          lAsked, lPreamble, lRefused, lMuted, lDelivered, lFed, lSeen,
          lNoted, lAborted, lCtx, lNudged, lStopping, lRun

lvars == <<lSent, lTaken, lSock, lDeadline, lWrapped, lPc, lHand, lErr, lHeld,
           lPause, lWindows, lParked, lPreDispatch, lStash, lDpc, lDreq,
           lAsked, lPreamble, lRefused, lMuted, lDelivered, lFed, lSeen,
           lNoted, lAborted, lCtx, lNudged, lStopping, lRun>>
all == <<which, vars, lvars>>

\* directive.UpgradeTLS as the MySQL recorder sends it.
MySQLUpgrade == [kind |-> "upgrade", preamble |-> FALSE, forward |-> FALSE,
                 gate |-> FALSE, dest |-> TRUE, client |-> TRUE]
Resume == [kind |-> "resumePreDispatch"]
Mute == [kind |-> "pauseDir", dir |-> "c2d"]
LiveRequests == {MySQLUpgrade, Resume, Mute}
OneUnit == [d \in {"c2d", "d2c"} |-> IF d = "c2d" THEN 1 ELSE 0]

\* A relay that its caller may cancel, and one whose destination may close and
\* which may have no TLSUpgradeFn.
Wire == INSTANCE Relay WITH PreDispatchPause <- BOOLEAN, TLSUpgradeFn <- TRUE,
    Requests <- LiveRequests, LossyTees <- {}, MaxSent <- OneUnit,
    ClosingPeers <- {}, MaxDirectives <- 1, CanCancel <- TRUE, CanAbort <- FALSE,
    sent <- lSent, taken <- lTaken, sock <- lSock,
    deadline <- lDeadline, wrapped <- lWrapped, pc <- lPc, hand <- lHand,
    err <- lErr, held <- lHeld, pause <- lPause, windows <- lWindows,
    parked <- lParked, preDispatch <- lPreDispatch, stash <- lStash,
    dpc <- lDpc, dreq <- lDreq, asked <- lAsked, preamble <- lPreamble,
    refused <- lRefused, muted <- lMuted, delivered <- lDelivered,
    fed <- lFed, seen <- lSeen, noted <- lNoted, aborted <- lAborted,
    ctx <- lCtx, nudged <- lNudged, stopping <- lStopping, run <- lRun

Closing(fn) == INSTANCE Relay WITH PreDispatchPause <- BOOLEAN, TLSUpgradeFn <- fn,
    Requests <- LiveRequests, LossyTees <- {}, MaxSent <- OneUnit,
    ClosingPeers <- {"d2c"}, MaxDirectives <- 1, CanCancel <- FALSE, CanAbort <- FALSE,
    sent <- lSent, taken <- lTaken, sock <- lSock,
    deadline <- lDeadline, wrapped <- lWrapped, pc <- lPc, hand <- lHand,
    err <- lErr, held <- lHeld, pause <- lPause, windows <- lWindows,
    parked <- lParked, preDispatch <- lPreDispatch, stash <- lStash,
    dpc <- lDpc, dreq <- lDreq, asked <- lAsked, preamble <- lPreamble,
    refused <- lRefused, muted <- lMuted, delivered <- lDelivered,
    fed <- lFed, seen <- lSeen, noted <- lNoted, aborted <- lAborted,
    ctx <- lCtx, nudged <- lNudged, stopping <- lStopping, run <- lRun

\* A reusable mock, a streaming exchange whose window overlaps a gRPC stream
\* that may be a duplicate, and a ring of one window.  The mocks come once a
\* stream has begun.
Streams == INSTANCE SyncMock WITH Reusable <- {m2}, ConfigMocks <- {}, Leaky <- {},
    Mapped <- {sh, sg}, Horizon <- 2, MaxRecent <- 1, MaxTime <- 5, CanStop <- FALSE

-----------------------------------------------------------------------------
MCInit ==
    /\ which \in {"sync", "streams", "relay", "closing", "plain"}
    /\ Init
    /\ which \in {"sync", "streams"} => lPreDispatch = TRUE
    /\ Wire!RelayInit

MCNext ==
    \/ /\ which = "sync" /\ Next /\ UNCHANGED <<which, lvars>>
       /\ status'[sh] = "idle" /\ status'[sg] = "idle"
    \/ /\ which = "streams" /\ Streams!Next /\ UNCHANGED <<which, lvars>>
       /\ status'[q1] = "idle" /\ req'[m3] = 0
       /\ req'[m1] + req'[m2] > 0 => {status'[sh], status'[sg]} # {"idle"}
    \/ which = "relay" /\ Wire!RelayNext /\ UNCHANGED <<which, vars>>
    \/ which = "plain" /\ Closing(FALSE)!RelayNext /\ UNCHANGED <<which, vars>>
    \/ which = "closing" /\ Closing(TRUE)!RelayNext /\ UNCHANGED <<which, vars>>

(* The goroutines run; the peers, the parser and the caller owe nothing.   *)
(* A forwarder of the relay can run without end, and gets its own turn;    *)
(* elsewhere it is enough that one of the steps that can be taken is.      *)
SyncSteps ==
    \/ Receive \/ TickerFlush \/ DrainHead \/ DrainStop \/ CloserFlush \/ CloseOutChan
    \/ \E m \in Mocks : AddMock(m) \/ SendConfigMock(m)
    \/ \E t \in Threads : SendToOutChan(t) \/ OfferMappings(t)
RelaySteps ==
    Wire!ProcessDirective \/ Wire!CancelNudge \/ Wire!CloseTees \/ Wire!RunReturns

MCSpec ==
    /\ MCInit /\ [][MCNext]_all
    /\ WF_vars(which = "sync" /\ SyncSteps)
    /\ WF_lvars(which \in {"relay", "closing", "plain"} /\ RelaySteps)
    /\ \A d \in {"c2d", "d2c"} : WF_lvars(which \in {"relay", "closing", "plain"} /\ Wire!Forward(d))

-----------------------------------------------------------------------------
(* What the ticker, the shutdown, the directive handler or Run has to do.  *)
Owing ==
    \/ which = "sync" /\ Unsettled
    \/ which \in {"relay", "closing", "plain"} /\ Wire!RelayUnsettled

(* A mock of a resolved window does not wait for a later request, and the  *)
(* shutdown of the buffer completes; the directive handler, which waits    *)
(* for the forwarders while they wait for it, comes to its end, and a      *)
(* relay that stops returns, wherever its forwarders are.                  *)
MocksAndRelaySettle == Owing ~> ~Owing
=============================================================================

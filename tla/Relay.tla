------------------------------- MODULE Relay -------------------------------
(***************************************************************************)
(* One recorded connection of the agent: the relay between the real client *)
(* and the real destination (pkg/agent/proxy/relay).  Two forwarders read  *)
(* one socket and write the other, teeing what they read to the parser; a  *)
(* directive processor pauses both of them to swap the sockets for TLS     *)
(* ones or to release the pre-dispatch pause.                              *)
(*                                                                         *)
(* The bytes of a direction are numbered units; one Read returns any       *)
(* number of the units available.  The socket a direction reads from is    *)
(* named by that direction: src is "c2d", dst is "d2c".  The tee is        *)
(* modelled by what it promises the forwarder: a push is accepted, or it   *)
(* is dropped and OnMarkMockIncomplete is called.                          *)
(***************************************************************************)
EXTENDS Integers, Sequences, FiniteSets

CONSTANTS
    PreDispatchPause,   \* values of Config.PreDispatchPause to consider
    TLSUpgradeFn,       \* whether Config.TLSUpgradeFn is set
    Requests,           \* directives the parser may send
    LossyTees,          \* directions whose tee may drop a push
    MaxSent,            \* MaxSent[d]: bound on the units sent in direction d
    ClosingPeers,       \* directions whose sending peer may close
    MaxDirectives,      \* bound on the directives of the connection
    CanCancel,          \* whether the relay's context may be cancelled
    CanAbort            \* whether the supervisor may give up on the parser

Dirs == {"c2d", "d2c"}
Other(d) == IF d = "c2d" THEN "d2c" ELSE "c2d"

(* A KindUpgradeTLS directive with its UpgradeTLSParams: a preamble of one *)
(* unit read from the destination, forwarded to the client, compared with  *)
(* ProceedOnPreamble, and which sides are upgraded.                        *)
Upgrade == [kind : {"upgrade"}, preamble : BOOLEAN, forward : BOOLEAN,
            gate : BOOLEAN, dest : BOOLEAN, client : BOOLEAN]
Simple == [kind : {"pauseDir", "resumeDir"}, dir : Dirs]
            \cup [kind : {"resumePreDispatch", "abortMock", "finalizeMock"}]

ASSUME RelayAssumption ==
    /\ PreDispatchPause \subseteq BOOLEAN /\ TLSUpgradeFn \in BOOLEAN /\ CanCancel \in BOOLEAN /\ CanAbort \in BOOLEAN
    /\ Requests \subseteq Upgrade \cup Simple
    /\ LossyTees \subseteq Dirs /\ ClosingPeers \subseteq Dirs
    /\ MaxSent \in [Dirs -> Nat] /\ MaxDirectives \in Nat

VARIABLES
    sent,          \* units each peer has sent
    taken,         \* units read off each socket, by a forwarder or the handler
    sock,          \* each socket: "open", "eof" (closed by the peer), "closed"
    deadline,      \* whether the socket's read deadline is in the past
    wrapped,       \* whether r.src, r.dst point to the TLS connection
    pc,            \* program counter of each forwarder
    hand,          \* units a forwarder has read and not yet passed on
    err,           \* error its last Read returned
    held,          \* pause channel it waits on
    pause,         \* r.pauseCh: 0 when nil, else the number of the window
    windows,       \* pause windows opened so far
    parked,        \* r.parkedC2D, r.parkedD2C: "nil", "open" or "closed"
    preDispatch,   \* r.preDispatchActive
    stash,         \* r.stashedC2D, r.stashedD2C
    dpc,           \* program counter of the directive processor
    dreq,          \* the directive it handles
    asked,         \* directives sent so far
    preamble,      \* preamblePayload
    refused,       \* a handler ended OK=false or TLSUpgraded=false (history)
    muted,         \* tee.paused of each direction
    delivered,     \* units each direction's peer has received, in order
    fed,           \* units consumed by a TLS handshake or returned in an ack
    seen,          \* units accepted by each tee
    noted,         \* units whose loss was reported with OnMarkMockIncomplete
    aborted,       \* SessionOnAbort has run: the parser is gone
    ctx,           \* the relay's context is cancelled
    nudged,        \* the cancel goroutine has run
    stopping,      \* stopping is closed
    run            \* progress of Run: "forwarding", "closing", "returned"

sockVars == <<sent, taken, sock, wrapped>>
fwdVars == <<pc, hand, err, held>>
pauseVars == <<pause, windows, parked, preDispatch>>
dirVars == <<dpc, dreq, asked, preamble, refused>>
teeVars == <<muted, seen, noted>>
stopVars == <<aborted, ctx, nudged, stopping, run>>
relayVars == <<sockVars, deadline, fwdVars, pauseVars, stash, dirVars, teeVars,
               delivered, fed, stopVars>>

Units(s) == {s[i] : i \in DOMAIN s}
Stops == ctx \/ stopping
Available(d) == sent[d] - taken[d]
Next_(d, k) == [i \in 1..k |-> taken[d] + i]     \* the next k units of the socket
NoRequest == [kind |-> "none"]

RelayInit ==
    /\ sent = [d \in Dirs |-> 0] /\ taken = [d \in Dirs |-> 0]
    /\ sock = [d \in Dirs |-> "open"] /\ deadline = [d \in Dirs |-> FALSE]
    /\ wrapped = [d \in Dirs |-> FALSE]
    /\ pc = [d \in Dirs |-> "top"] /\ hand = [d \in Dirs |-> <<>>]
    /\ err = [d \in Dirs |-> "nil"] /\ held = [d \in Dirs |-> 0]
    /\ preDispatch \in PreDispatchPause
    /\ windows = IF preDispatch THEN 1 ELSE 0
    /\ pause = windows
    /\ parked = [d \in Dirs |-> IF preDispatch THEN "open" ELSE "nil"]
    /\ stash = [d \in Dirs |-> <<>>]
    /\ dpc = "idle" /\ dreq = NoRequest /\ asked = 0 /\ preamble = <<>>
    /\ refused = FALSE
    /\ muted = [d \in Dirs |-> FALSE] /\ delivered = [d \in Dirs |-> <<>>]
    /\ fed = [d \in Dirs |-> {}] /\ seen = [d \in Dirs |-> {}]
    /\ noted = [d \in Dirs |-> {}]
    /\ aborted = FALSE /\ ctx = FALSE /\ nudged = FALSE /\ stopping = FALSE /\ run = "forwarding"

-----------------------------------------------------------------------------
(* The peers and the caller. *)

PeerSends(d) ==
    /\ sock[d] = "open" /\ sent[d] < MaxSent[d]
    /\ sent' = [sent EXCEPT ![d] = @ + 1]
    /\ UNCHANGED <<taken, sock, wrapped, deadline, fwdVars, pauseVars, stash,
                   dirVars, teeVars, delivered, fed, stopVars>>

PeerCloses(d) ==
    /\ sock[d] = "open" /\ d \in ClosingPeers
    /\ sock' = [sock EXCEPT ![d] = "eof"]
    /\ UNCHANGED <<sent, taken, wrapped, deadline, fwdVars, pauseVars, stash,
                   dirVars, teeVars, delivered, fed, stopVars>>

Cancel ==
    /\ CanCancel /\ ~ctx /\ run # "returned"
    /\ ctx' = TRUE
    /\ UNCHANGED <<sockVars, deadline, fwdVars, pauseVars, stash, dirVars,
                   teeVars, delivered, fed, aborted, nudged, stopping, run>>

(* The supervisor's SessionOnAbort: PauseTees, and nobody reads any more.  *)
PauseTees ==
    /\ CanAbort /\ ~aborted /\ run # "returned"
    /\ aborted' = TRUE /\ muted' = [d \in Dirs |-> TRUE]
    /\ UNCHANGED <<sockVars, deadline, fwdVars, pauseVars, stash, dirVars, seen, noted,
                   delivered, fed, ctx, nudged, stopping, run>>

CancelNudge ==
    /\ ctx /\ ~nudged /\ run # "returned"
    /\ nudged' = TRUE /\ deadline' = [d \in Dirs |-> TRUE]
    /\ UNCHANGED <<sockVars, fwdVars, pauseVars, stash, dirVars, teeVars,
                   delivered, fed, aborted, ctx, stopping, run>>

-----------------------------------------------------------------------------
(* A forwarder.  Between the steps of forward() everything else may run.   *)

Goto(d, l) == pc' = [pc EXCEPT ![d] = l]
At(d, l) == pc[d] = l

(* A push of tee.push: refused while muted, else accepted or dropped for   *)
(* memory pressure, the byte cap or a full channel.                        *)
PushSilent(d, us) ==
    \/ /\ ~muted[d]
       /\ seen' = [seen EXCEPT ![d] = @ \cup us] /\ noted' = noted
    \/ (muted[d] \/ d \in LossyTees) /\ UNCHANGED <<seen, noted>>

Push(d, us) ==
    \/ /\ ~muted[d]
       /\ seen' = [seen EXCEPT ![d] = @ \cup us] /\ noted' = noted
    \/ /\ muted[d] \/ d \in LossyTees
       /\ noted' = [noted EXCEPT ![d] = @ \cup us] /\ seen' = seen

Park(d) ==
    parked' = IF parked[d] = "open" THEN [parked EXCEPT ![d] = "closed"] ELSE parked

LoopTop(d) ==
    /\ At(d, "top")
    /\ IF Stops THEN Goto(d, "exit") /\ UNCHANGED held
       ELSE IF pause # 0 /\ ~preDispatch
            THEN Goto(d, "parking") /\ held' = [held EXCEPT ![d] = pause]
            ELSE Goto(d, "read") /\ UNCHANGED held
    /\ UNCHANGED <<sockVars, deadline, hand, err, pauseVars, stash, dirVars,
                   teeVars, delivered, fed, stopVars>>

MarkParked(d) ==
    /\ \/ At(d, "parking") /\ Goto(d, "waitTop")
       \/ At(d, "stashed") /\ Goto(d, "waitPost")
    /\ Park(d)
    /\ UNCHANGED <<sockVars, deadline, hand, err, held, pause, windows, preDispatch,
                   stash, dirVars, teeVars, delivered, fed, stopVars>>

(* The select on the pause channel, at either of its two places. *)
Unpark(d) ==
    /\ pc[d] \in {"waitTop", "waitPost"}
    /\ \/ held[d] # pause /\ Goto(d, IF At(d, "waitTop") THEN "read" ELSE "check")
       \/ Stops /\ Goto(d, "exit")
    /\ held' = [held EXCEPT ![d] = 0]
    /\ UNCHANGED <<sockVars, deadline, hand, err, pauseVars, stash, dirVars,
                   teeVars, delivered, fed, stopVars>>

(* Read fails at once when the deadline has passed; once it is blocked, it *)
(* returns what arrives, or the timeout of a deadline set meanwhile, unless *)
(* the deadline is cleared before the goroutine runs.                      *)
ReadBegins(d) ==
    /\ At(d, "read")
    /\ IF deadline[d] THEN err' = [err EXCEPT ![d] = "timeout"] /\ Goto(d, "got")
       ELSE err' = [err EXCEPT ![d] = "nil"] /\ Goto(d, "blocked")
    /\ UNCHANGED <<sockVars, deadline, hand, held, pauseVars, stash, dirVars,
                   teeVars, delivered, fed, stopVars>>

ReadReturns(d) ==
    /\ At(d, "blocked")
    /\ \/ \E k \in 1..Available(d) :
            /\ sock[d] # "closed"
            /\ hand' = [hand EXCEPT ![d] = Next_(d, k)]
            /\ taken' = [taken EXCEPT ![d] = @ + k]
            /\ UNCHANGED err
       \/ /\ sock[d] = "closed" \/ (sock[d] = "eof" /\ Available(d) = 0)
          /\ err' = [err EXCEPT ![d] = "eof"]
          /\ UNCHANGED <<hand, taken>>
       \/ /\ deadline[d]
          /\ err' = [err EXCEPT ![d] = "timeout"]
          /\ UNCHANGED <<hand, taken>>
    /\ Goto(d, "got")
    /\ UNCHANGED <<sent, sock, wrapped, deadline, held, pauseVars, stash, dirVars,
                   teeVars, delivered, fed, stopVars>>

(* The pause barrier is looked at again after Read. *)
Recheck(d) ==
    /\ At(d, "got")
    /\ held' = [held EXCEPT ![d] = pause]
    /\ IF pause # 0 THEN Goto(d, IF hand[d] = <<>> THEN "stashed" ELSE "stash")
       ELSE Goto(d, IF hand[d] = <<>> THEN "check" ELSE "write")
    /\ UNCHANGED <<sockVars, deadline, hand, err, pauseVars, stash, dirVars,
                   teeVars, delivered, fed, stopVars>>

StashInflight(d) ==
    /\ At(d, "stash")
    /\ stash' = [stash EXCEPT ![d] = @ \o hand[d]]
    /\ IF preDispatch /\ d = "c2d" THEN Push(d, Units(hand[d])) ELSE UNCHANGED <<seen, noted>>
    /\ hand' = [hand EXCEPT ![d] = <<>>]
    /\ Goto(d, "stashed")
    /\ UNCHANGED <<sockVars, deadline, err, held, pauseVars, dirVars, muted,
                   delivered, fed, stopVars>>

(* Writing to a peer that has closed may fail. *)
WriteOk(d) == sock[Other(d)] # "closed"
WriteFails(d) == sock[Other(d)] # "open"

WritePeer(d) ==
    /\ At(d, "write")
    /\ \/ /\ WriteOk(d)
          /\ delivered' = [delivered EXCEPT ![d] = @ \o hand[d]] /\ Goto(d, "tee")
       \/ WriteFails(d) /\ Goto(d, "teeFailed") /\ UNCHANGED delivered
    /\ UNCHANGED <<sockVars, deadline, hand, err, held, pauseVars, stash, dirVars,
                   teeVars, fed, stopVars>>

TeeChunk(d) ==
    /\ At(d, "tee")
    /\ Push(d, Units(hand[d]))
    /\ hand' = [hand EXCEPT ![d] = <<>>]
    /\ Goto(d, "check")
    /\ UNCHANGED <<sockVars, deadline, err, held, pauseVars, stash, dirVars, muted,
                   delivered, fed, stopVars>>

(* A failed Write still tees, marks the mock incomplete and returns. *)
TeeFailed(d) ==
    /\ At(d, "teeFailed")
    /\ noted' = [noted EXCEPT ![d] = @ \cup Units(hand[d])]
    /\ \/ ~muted[d] /\ seen' = [seen EXCEPT ![d] = @ \cup Units(hand[d])]
       \/ (muted[d] \/ d \in LossyTees) /\ UNCHANGED seen
    /\ hand' = [hand EXCEPT ![d] = <<>>]
    /\ Goto(d, "exit")
    /\ UNCHANGED <<sockVars, deadline, err, held, pauseVars, stash, dirVars, muted,
                   delivered, fed, stopVars>>

CheckErr(d) ==
    /\ At(d, "check")
    /\ Goto(d, IF err[d] = "eof" THEN "exit" ELSE "top")
    /\ err' = [err EXCEPT ![d] = "nil"]
    /\ UNCHANGED <<sockVars, deadline, hand, held, pauseVars, stash, dirVars,
                   teeVars, delivered, fed, stopVars>>

(* The deferred calls of the forwarder's goroutine, in their order. *)
NudgeOther(d) ==
    /\ At(d, "exit")
    /\ deadline' = [deadline EXCEPT ![Other(d)] = TRUE]
    /\ Goto(d, "close")
    /\ UNCHANGED <<sockVars, hand, err, held, pauseVars, stash, dirVars, teeVars,
                   delivered, fed, stopVars>>

CloseStopping(d) ==
    /\ At(d, "close")
    /\ stopping' = TRUE
    /\ Goto(d, "done")
    /\ UNCHANGED <<sockVars, deadline, hand, err, held, pauseVars, stash, dirVars,
                   teeVars, delivered, fed, aborted, ctx, nudged, run>>

Forward(d) ==
    \/ LoopTop(d) \/ MarkParked(d) \/ Unpark(d) \/ ReadBegins(d) \/ ReadReturns(d)
    \/ Recheck(d) \/ StashInflight(d) \/ WritePeer(d) \/ TeeChunk(d) \/ TeeFailed(d)
    \/ CheckErr(d) \/ NudgeOther(d) \/ CloseStopping(d)

-----------------------------------------------------------------------------
(* The directive processor.  The parser waits for the ack of a directive   *)
(* before it sends the next one, and ends a pre-dispatch pause only when   *)
(* it has seen the client's first chunk.                                   *)

ParserSends ==
    /\ dpc = "idle" /\ asked < MaxDirectives /\ run = "forwarding" /\ ~aborted
    /\ preDispatch => seen["c2d"] # {}
    /\ dreq' \in Requests
    /\ asked' = asked + 1 /\ dpc' = "sent"
    /\ UNCHANGED <<sockVars, deadline, fwdVars, pauseVars, stash, preamble, refused,
                   teeVars, delivered, fed, stopVars>>

ProcessorStops ==
    /\ dpc \in {"idle", "sent"} /\ Stops
    /\ dpc' = "done" /\ dreq' = NoRequest
    /\ UNCHANGED <<sockVars, deadline, fwdVars, pauseVars, stash, asked, preamble,
                   refused, teeVars, delivered, fed, stopVars>>

(* handlePauseDir and handleResumeDir mute the parser, not the traffic;     *)
(* handleAbortMock and KindFinalizeMock change nothing the relay owns.      *)
HandleSimple ==
    /\ dpc = "sent" /\ dreq.kind \in {"pauseDir", "resumeDir", "abortMock", "finalizeMock"}
    /\ muted' = IF "dir" \in DOMAIN dreq
                THEN [muted EXCEPT ![dreq.dir] = (dreq.kind = "pauseDir")]
                ELSE muted
    /\ dpc' = "idle" /\ dreq' = NoRequest
    /\ UNCHANGED <<sockVars, deadline, fwdVars, pauseVars, stash, asked, preamble,
                   refused, seen, noted, delivered, fed, stopVars>>

(* handleUpgradeTLS gives up at once, with a pre-dispatch pause left open, *)
(* when the relay has no upgrader.                                         *)
NoUpgrader ==
    /\ dpc = "sent" /\ dreq.kind = "upgrade" /\ ~TLSUpgradeFn
    /\ dpc' = "idle" /\ dreq' = NoRequest /\ refused' = TRUE
    /\ UNCHANGED <<sockVars, deadline, fwdVars, pauseVars, stash, asked, preamble,
                   teeVars, delivered, fed, stopVars>>

(* beginPause, under pauseMu: an open window is kept. *)
BeginPause ==
    /\ dpc = "sent" /\ dreq.kind = "upgrade" /\ TLSUpgradeFn
    /\ IF pause = 0 THEN windows' = windows + 1 /\ pause' = windows'
       ELSE UNCHANGED <<windows, pause>>
    /\ parked' = [d \in Dirs |-> IF parked[d] = "nil" THEN "open" ELSE parked[d]]
    /\ dpc' = "nudge"
    /\ UNCHANGED <<sockVars, deadline, fwdVars, preDispatch, stash, dreq, asked, preamble,
                   refused, teeVars, delivered, fed, stopVars>>

(* handleResumePreDispatch turns a directive away when no pre-dispatch     *)
(* pause is open.                                                          *)
ResumeUnchecked ==
    /\ dpc = "sent" /\ dreq.kind = "resumePreDispatch"
    /\ dpc' = "nudge"
    /\ UNCHANGED <<sockVars, deadline, fwdVars, pauseVars, stash, dreq, refused, asked,
                   preamble, teeVars, delivered, fed, stopVars>>

ResumeBegins ==
    /\ dpc = "sent" /\ dreq.kind = "resumePreDispatch"
    /\ IF preDispatch /\ pause # 0 THEN dpc' = "nudge" /\ UNCHANGED <<dreq, refused>>
       ELSE dpc' = "idle" /\ dreq' = NoRequest /\ refused' = TRUE
    /\ UNCHANGED <<sockVars, deadline, fwdVars, pauseVars, stash, asked, preamble,
                   teeVars, delivered, fed, stopVars>>

NudgeNone ==
    /\ dpc = "nudge"
    /\ dpc' = "wait"
    /\ UNCHANGED <<sockVars, deadline, fwdVars, pauseVars, stash, dreq, asked, preamble,
                   refused, teeVars, delivered, fed, stopVars>>

NudgeBoth ==
    /\ dpc = "nudge"
    /\ deadline' = [d \in Dirs |-> TRUE]
    /\ dpc' = "wait"
    /\ UNCHANGED <<sockVars, fwdVars, pauseVars, stash, dreq, asked, preamble, refused,
                   teeVars, delivered, fed, stopVars>>

WaitClientParked ==
    /\ dpc = "wait"
    /\ Stops \/ parked["c2d"] # "open"
    /\ dpc' = IF dreq.kind = "upgrade" THEN "clear" ELSE "drain"
    /\ UNCHANGED <<sockVars, deadline, fwdVars, pauseVars, stash, dreq, asked, preamble,
                   refused, teeVars, delivered, fed, stopVars>>

WaitForwardersParked ==
    /\ dpc = "wait"
    /\ Stops \/ \A d \in Dirs : parked[d] # "open"
    /\ dpc' = IF dreq.kind = "upgrade" THEN "clear" ELSE "drain"
    /\ UNCHANGED <<sockVars, deadline, fwdVars, pauseVars, stash, dreq, asked, preamble,
                   refused, teeVars, delivered, fed, stopVars>>

ClearDeadlines ==
    /\ dpc = "clear"
    /\ deadline' = [d \in Dirs |-> FALSE]
    /\ dpc' = "flush"
    /\ UNCHANGED <<sockVars, fwdVars, pauseVars, stash, dreq, asked, preamble, refused,
                   teeVars, delivered, fed, stopVars>>

(* Under the pre-dispatch pause the client's stashed message is written to *)
(* the destination first.                                                  *)
FlushPreDispatch ==
    /\ dpc = "flush"
    /\ IF preDispatch /\ stash["c2d"] # <<>>
       THEN /\ stash' = [stash EXCEPT !["c2d"] = <<>>]
            /\ \/ /\ WriteOk("c2d")
                  /\ delivered' = [delivered EXCEPT !["c2d"] = @ \o stash["c2d"]]
                  /\ dpc' = "preamble" /\ UNCHANGED refused
               \/ WriteFails("c2d") /\ dpc' = "end" /\ refused' = TRUE /\ UNCHANGED delivered
       ELSE dpc' = "preamble" /\ UNCHANGED <<stash, delivered, refused>>
    /\ UNCHANGED <<sockVars, deadline, fwdVars, pauseVars, dreq, asked, preamble,
                   teeVars, fed, stopVars>>

(* The preamble comes from the stash when a forwarder read it, else from   *)
(* the destination's socket.                                               *)
TakePreamble ==
    /\ dpc = "preamble"
    /\ \/ /\ ~dreq.preamble
          /\ dpc' = "dest" /\ UNCHANGED <<preamble, stash, deadline>>
       \/ /\ dreq.preamble /\ stash["d2c"] # <<>>
          /\ preamble' = <<Head(stash["d2c"])>>
          /\ stash' = [stash EXCEPT !["d2c"] = Tail(@)]
          /\ dpc' = "forward" /\ UNCHANGED deadline
       \/ /\ dreq.preamble /\ stash["d2c"] = <<>>
          /\ deadline' = [deadline EXCEPT !["d2c"] = FALSE]
          /\ dpc' = "readPreamble" /\ UNCHANGED <<preamble, stash>>
    /\ UNCHANGED <<sockVars, fwdVars, pauseVars, dreq, asked, refused, teeVars,
                   delivered, fed, stopVars>>

(* readFullPreamble blocks until the destination sends, closes, or the     *)
(* cancel goroutine sets the deadline again.                               *)
ReadPreamble ==
    /\ dpc = "readPreamble"
    /\ \/ /\ Available("d2c") > 0 /\ sock["d2c"] # "closed" /\ ~deadline["d2c"]
          /\ preamble' = Next_("d2c", 1)
          /\ taken' = [taken EXCEPT !["d2c"] = @ + 1]
          /\ dpc' = "forward" /\ UNCHANGED refused
       \/ /\ \/ deadline["d2c"] \/ sock["d2c"] = "closed"
             \/ sock["d2c"] = "eof" /\ Available("d2c") = 0
          /\ dpc' = "end" /\ refused' = TRUE /\ UNCHANGED <<preamble, taken>>
    /\ UNCHANGED <<sent, sock, wrapped, deadline, fwdVars, pauseVars, stash, dreq, asked,
                   teeVars, delivered, fed, stopVars>>

(* The preamble is written back to the client, and a mismatch with         *)
(* ProceedOnPreamble ends the directive without an upgrade.                *)
ForwardPreamble ==
    /\ dpc = "forward"
    /\ \/ /\ dreq.forward => WriteOk("d2c")
          /\ IF dreq.forward
             THEN delivered' = [delivered EXCEPT !["d2c"] = @ \o preamble] /\ UNCHANGED fed
             ELSE fed' = [fed EXCEPT !["d2c"] = @ \cup Units(preamble)] /\ UNCHANGED delivered
          /\ \/ dpc' = "dest" /\ UNCHANGED refused
             \/ dreq.gate /\ dpc' = "end" /\ refused' = TRUE
       \/ /\ dreq.forward /\ WriteFails("d2c")
          /\ dpc' = "end" /\ refused' = TRUE /\ UNCHANGED <<delivered, fed>>
    /\ deadline' = IF dreq.forward THEN [deadline EXCEPT !["c2d"] = FALSE] ELSE deadline
    /\ preamble' = <<>>
    /\ UNCHANGED <<sockVars, fwdVars, pauseVars, stash, dreq, asked, teeVars, stopVars>>

(* A handshake on the socket of direction d reads the stash, then units of *)
(* the socket.                                                             *)
HandshakeReads(d) ==
    \E k \in 0..Available(d) :
        /\ fed' = [fed EXCEPT ![d] = @ \cup Units(stash[d]) \cup Units(Next_(d, k))]
        /\ taken' = [taken EXCEPT ![d] = @ + k]
        /\ stash' = [stash EXCEPT ![d] = <<>>]

HandshakeDest ==
    /\ dpc = "dest"
    /\ IF dreq.dest
       THEN /\ HandshakeReads("d2c")
            /\ \/ sock["d2c"] = "open" /\ dpc' = "client" /\ UNCHANGED refused
               \/ dpc' = "end" /\ refused' = TRUE
       ELSE dpc' = "client" /\ UNCHANGED <<fed, taken, stash, refused>>
    /\ UNCHANGED <<sent, sock, wrapped, deadline, fwdVars, pauseVars, dreq, asked, preamble,
                   teeVars, delivered, stopVars>>

(* When the client's handshake fails, upgradedDst.Close() closes the real  *)
(* destination socket under it.                                            *)
HandshakeClient ==
    /\ dpc = "client"
    /\ IF dreq.client
       THEN /\ HandshakeReads("c2d")
            /\ \/ sock["c2d"] = "open" /\ dpc' = "publish" /\ UNCHANGED <<refused, sock>>
               \/ /\ dpc' = "end" /\ refused' = TRUE
                  /\ sock' = IF dreq.dest THEN [sock EXCEPT !["d2c"] = "closed"] ELSE sock
       ELSE dpc' = "publish" /\ UNCHANGED <<fed, taken, stash, refused, sock>>
    /\ UNCHANGED <<sent, wrapped, deadline, fwdVars, pauseVars, dreq, asked, preamble,
                   teeVars, delivered, stopVars>>

PublishConns ==
    /\ dpc = "publish"
    /\ wrapped' = [d \in Dirs |-> wrapped[d] \/ IF d = "d2c" THEN dreq.dest ELSE dreq.client]
    /\ dpc' = "end"
    /\ UNCHANGED <<sent, taken, sock, deadline, fwdVars, pauseVars, stash, dreq, asked,
                   preamble, refused, teeVars, delivered, fed, stopVars>>

(* handleResumePreDispatch writes each stash to its peer; a failed write   *)
(* marks the mock incomplete and skips the other direction.                *)
DrainClient ==
    /\ dpc = "drain"
    /\ stash["c2d"] # <<>> => WriteOk("c2d")
    /\ delivered' = [delivered EXCEPT !["c2d"] = @ \o stash["c2d"]]
    /\ stash' = [d \in Dirs |-> <<>>]
    /\ preDispatch' = FALSE
    /\ dpc' = "end"
    /\ UNCHANGED <<sockVars, deadline, fwdVars, pause, windows, parked, dreq, asked,
                   preamble, refused, teeVars, fed, stopVars>>

DrainStash ==
    /\ dpc = "drain"
    /\ LET kept(D) == [d \in Dirs |-> delivered[d] \o (IF d \in D THEN stash[d] ELSE <<>>)]
           lostIn(d) == noted' = [noted EXCEPT ![d] = @ \cup Units(stash[d])]
       IN \/ /\ \A d \in Dirs : stash[d] # <<>> => WriteOk(d)
             /\ delivered' = kept(Dirs) /\ UNCHANGED <<noted, refused>>
          \/ /\ stash["c2d"] # <<>> /\ WriteFails("c2d")
             /\ delivered' = delivered /\ lostIn("c2d") /\ refused' = TRUE
          \/ /\ stash["c2d"] # <<>> => WriteOk("c2d")
             /\ stash["d2c"] # <<>> /\ WriteFails("d2c")
             /\ delivered' = kept({"c2d"}) /\ lostIn("d2c") /\ refused' = TRUE
    /\ stash' = [d \in Dirs |-> <<>>]
    /\ preDispatch' = FALSE
    /\ dpc' = "end"
    /\ UNCHANGED <<sockVars, deadline, fwdVars, pause, windows, parked, dreq, asked,
                   preamble, muted, seen, fed, stopVars>>

(* endPause, under pauseMu, and the ack: what is left in a stash is        *)
(* dropped, and the deadlines are cleared before the channel is closed.    *)
EndPause ==
    /\ dpc = "end"
    /\ deadline' = IF pause # 0 THEN [d \in Dirs |-> FALSE] ELSE deadline
    /\ pause' = 0
    /\ parked' = [d \in Dirs |-> "nil"]
    /\ stash' = [d \in Dirs |-> <<>>]
    /\ preDispatch' = FALSE
    /\ dpc' = "idle" /\ dreq' = NoRequest
    /\ UNCHANGED <<sockVars, fwdVars, windows, asked, preamble, refused, teeVars,
                   delivered, fed, stopVars>>

ProcessDirective ==
    \/ ProcessorStops \/ HandleSimple \/ NoUpgrader \/ BeginPause \/ ResumeBegins \/ NudgeBoth
    \/ WaitForwardersParked \/ ClearDeadlines \/ FlushPreDispatch \/ TakePreamble
    \/ ReadPreamble \/ ForwardPreamble \/ HandshakeDest \/ HandshakeClient \/ PublishConns
    \/ DrainStash \/ EndPause

-----------------------------------------------------------------------------
(* Run, after both forwarders have returned. *)

CloseTees ==
    /\ run = "forwarding" /\ \A d \in Dirs : At(d, "done")
    /\ run' = "closing" /\ stopping' = TRUE
    /\ UNCHANGED <<sockVars, deadline, fwdVars, pauseVars, stash, dirVars, teeVars,
                   delivered, fed, aborted, ctx, nudged>>

RunReturns ==
    /\ run = "closing" /\ dpc = "done"
    /\ run' = "returned"
    /\ UNCHANGED <<sockVars, deadline, fwdVars, pauseVars, stash, dirVars, teeVars,
                   delivered, fed, aborted, ctx, nudged, stopping>>

RelayNext ==
    \/ \E d \in Dirs : PeerSends(d) \/ PeerCloses(d) \/ Forward(d)
    \/ Cancel \/ CancelNudge \/ PauseTees \/ ParserSends \/ ProcessDirective \/ CloseTees \/ RunReturns
    \/ run = "returned" /\ UNCHANGED relayVars

RelaySpec == RelayInit /\ [][RelayNext]_relayVars

(* The scheduler runs every goroutine that can run; the peers, the parser  *)
(* and the caller owe nothing.  Writes and handshakes end, one way or the  *)
(* other, because the peer reads, answers or closes.                       *)
Fairness ==
    /\ \A d \in Dirs : WF_relayVars(Forward(d))
    /\ WF_relayVars(ProcessDirective) /\ WF_relayVars(CancelNudge)
    /\ WF_relayVars(CloseTees) /\ WF_relayVars(RunReturns)

FairSpec == RelaySpec /\ Fairness

(* A parser that answers every first chunk it sees. *)
AnsweringSpec == FairSpec /\ WF_relayVars(ParserSends)

-----------------------------------------------------------------------------
Labels == {"top", "parking", "waitTop", "read", "blocked", "got", "stash", "stashed",
           "waitPost", "write", "tee", "teeFailed", "check", "exit", "close", "done"}
Steps == {"idle", "sent", "nudge", "wait", "clear", "flush", "preamble", "readPreamble",
          "forward", "dest", "client", "publish", "drain", "end", "done"}

(* Every variable has its type, and nothing is read before it was sent. *)
RelayTypeOK ==
    /\ sent \in [Dirs -> Nat] /\ taken \in [Dirs -> Nat]
    /\ \A d \in Dirs : taken[d] <= sent[d]
    /\ sock \in [Dirs -> {"open", "eof", "closed"}]
    /\ deadline \in [Dirs -> BOOLEAN] /\ wrapped \in [Dirs -> BOOLEAN]
    /\ pc \in [Dirs -> Labels] /\ hand \in [Dirs -> Seq(Nat)]
    /\ err \in [Dirs -> {"nil", "timeout", "eof"}] /\ held \in [Dirs -> Nat]
    /\ pause \in Nat /\ windows \in Nat
    /\ parked \in [Dirs -> {"nil", "open", "closed"}] /\ preDispatch \in BOOLEAN
    /\ stash \in [Dirs -> Seq(Nat)]
    /\ dpc \in Steps /\ dreq \in Requests \cup {NoRequest} /\ asked \in Nat
    /\ preamble \in Seq(Nat) /\ refused \in BOOLEAN
    /\ muted \in [Dirs -> BOOLEAN] /\ delivered \in [Dirs -> Seq(Nat)]
    /\ fed \in [Dirs -> SUBSET Nat] /\ seen \in [Dirs -> SUBSET Nat]
    /\ noted \in [Dirs -> SUBSET Nat]
    /\ aborted \in BOOLEAN /\ ctx \in BOOLEAN /\ nudged \in BOOLEAN /\ stopping \in BOOLEAN
    /\ run \in {"forwarding", "closing", "returned"}

(* While the handler works on the sockets - reads the preamble, shakes     *)
(* hands, swaps the connections, drains the stashes - both forwarders wait *)
(* on its pause channel and touch neither socket, unless the relay is      *)
(* tearing down (waitForwardersParked returns early then).                 *)
Owning == {"clear", "flush", "preamble", "readPreamble", "forward", "dest", "client", "publish",
           "drain", "end"}
HandlerExclusive ==
    dpc \in Owning /\ ~Stops =>
        /\ pause # 0
        /\ \A d \in Dirs : pc[d] \in {"waitTop", "waitPost"} /\ held[d] = pause

(* Transparent forwarding (I1): each peer receives units in the order the  *)
(* other sent them, whoever writes them, forwarder or handler.  (A         *)
(* directive handled during teardown is no longer alone on the sockets,    *)
(* since waitForwardersParked returns as soon as stopping is closed.)      *)
InOrder ==
    \/ Stops /\ asked > 0
    \/ \A d \in Dirs : \A i, j \in DOMAIN delivered[d] :
            i < j => delivered[d][i] < delivered[d][j]

(* Transparent forwarding (I1): a unit read off a socket is delivered, on  *)
(* its way, or was consumed by a handshake.  Units go missing only when    *)
(* the relay is tearing down, a peer has gone, or a directive ended        *)
(* without its upgrade (endPause drops the stashes then).                  *)
NothingLost ==
    \A d \in Dirs :
        Stops \/ refused \/ sock[Other(d)] # "open"
        \/ 1..taken[d] = Units(delivered[d]) \cup Units(hand[d]) \cup Units(stash[d])
                         \cup fed[d] \cup (IF d = "d2c" THEN Units(preamble) ELSE {})

(* No forwarder is left spinning on a deadline in the past: outside pause  *)
(* windows and teardown the sockets read normally, which is why            *)
(* handleResumePreDispatch refuses to run without an open window.          *)
NoStaleDeadline ==
    pause = 0 /\ ~Stops /\ (\A d \in Dirs : pc[d] # "close") => \A d \in Dirs : ~deadline[d]

(* The parser sees every client unit that reaches the destination, or the  *)
(* mock is marked incomplete: also for the first message, which the        *)
(* pre-dispatch pause tees before it is written.                           *)
ClientUnitsSeen ==
    Units(delivered["c2d"]) \subseteq seen["c2d"] \cup noted["c2d"] \cup Units(hand["c2d"])

(* A directive whose handler has not come to its end (one with a preamble  *)
(* also waits for the destination, which may be silent); on a connection   *)
(* without directives, a relay that stops and has not returned.            *)
RelayUnsettled ==
    \/ dpc \notin {"idle", "done"} /\ (dreq.kind = "upgrade" => ~dreq.preamble)
    \/ Stops /\ asked = 0 /\ run # "returned"

(* doc.go: "Real traffic is never blocked by parser backpressure, channel  *)
(* capacity, or memory-guard pressure."  A unit the client sends reaches   *)
(* the destination, unless the connection ends or a directive fails.       *)
ClientTrafficFlows ==
    (sent["c2d"] > 0)
        ~> (1 \in Units(delivered["c2d"]) \cup fed["c2d"]
            \/ Stops \/ refused \/ \E d \in Dirs : sock[d] # "open")
=============================================================================

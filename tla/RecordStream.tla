---------------------------- MODULE RecordStream ----------------------------
(***************************************************************************)
(* One recorded connection seen from its parser: the tees of the relay     *)
(* (relay/tee.go), the two FakeConns (fakeconn/fakeconn.go), the HTTP      *)
(* recorder (integrations/http/recordv2.go), the session's incomplete-mock *)
(* gate (supervisor/session.go), the supervisor with its watchdog          *)
(* (supervisor/supervisor.go), and recordViaSupervisor (proxy_v2.go) that  *)
(* ties them together. Module Relay has the sockets; here forwarding is    *)
(* one step.                                                               *)
(*                                                                         *)
(* The traffic is a sequence of exchanges; a message is a few chunks,       *)
(* chunk <<k, i>> being the i-th of exchange k. The first chunk holds the  *)
(* headers. A framed response says how long it is; the other kind ends     *)
(* with the connection.                                                    *)
(***************************************************************************)
EXTENDS Naturals, Sequences, FiniteSets

CONSTANTS
    Scenarios,  \* [framed, pressure, size, exchanges, faults]: how responses
                \* end, whether a tee may drop at will, the chunks of a request
                \* (size.c2d) and of a response (size.d2c), bounds on the
                \* exchanges and on the panics and hangs of the parser
    ChanBuf     \* Config.TeeChanBuf

Dirs == {"c2d", "d2c"}

VARIABLES
    cfg,        \* the scenario
    sent,       \* per direction: chunks forwarded
    fwd,        \* per direction: the forwarder, "run", "mark" or "exited"
    closed,     \* a peer has closed
    staged,     \* per direction: tee.staging
    hand,       \* per direction: the chunk drain waits to deliver, at most one
    out,        \* per direction: tee.out, what the FakeConn reads
    tees,       \* [paused, closed]
    streams,    \* the FakeConns: "open", "closed"
    parser,     \* [pc, req, resp, race, result]
    incomplete, \* Session.mockIncomplete
    watch,      \* [pending, hung] of the supervisor
    ctx,        \* [outer, run, relay]: cancelled contexts
    main,       \* recordViaSupervisor: "run", "grace", "fall", "cancel", "returned"
    seen,       \* [c2d, d2c, skipped]: chunks that got as far as out, and
                \* whether one was skipped (history)
    emitted,    \* the mocks added, [req, resp]
    faults
vars == <<cfg, sent, fwd, closed, staged, hand, out, tees, streams, parser, incomplete,
          watch, ctx, main, seen, emitted, faults>>
wire == <<cfg, sent, fwd, closed>>
pipe == <<staged, hand, out, tees, streams>>

Chunk(d, n) == <<((n - 1) \div cfg.size[d]) + 1, ((n - 1) % cfg.size[d]) + 1>>
Number(d, c) == (c[1] - 1) * cfg.size[d] + c[2]

Init ==
    /\ cfg \in Scenarios
    /\ sent = [d \in Dirs |-> 0] /\ fwd = [d \in Dirs |-> "run"] /\ closed = FALSE
    /\ staged = [d \in Dirs |-> << >>] /\ hand = [d \in Dirs |-> << >>] /\ out = [d \in Dirs |-> << >>]
    /\ tees = [paused |-> FALSE, closed |-> FALSE] /\ streams = "open"
    /\ parser = [pc |-> "req", req |-> << >>, resp |-> << >>, race |-> FALSE, result |-> "none"]
    /\ incomplete = FALSE
    /\ watch = [pending |-> FALSE, hung |-> FALSE]
    /\ ctx = [outer |-> FALSE, run |-> FALSE, relay |-> FALSE]
    /\ main = "run" /\ seen = [c2d |-> 0, d2c |-> 0, skipped |-> FALSE] /\ emitted = << >> /\ faults = 0

RelayCancelled == ctx.outer \/ ctx.relay
RunCancelled == ctx.outer \/ ctx.run

-----------------------------------------------------------------------------
(* The peers: a request follows the whole previous response, a response    *)
(* its whole request.                                                      *)
MaySend(d) ==
    LET k == Chunk(d, sent[d] + 1)[1]
    IN /\ ~closed /\ k <= cfg.exchanges
       /\ IF d = "c2d" THEN sent["d2c"] >= (k - 1) * cfg.size["d2c"]
          ELSE sent["c2d"] >= k * cfg.size["c2d"]

PeerCloses ==
    /\ ~closed /\ (cfg.framed \/ sent["d2c"] = cfg.size["d2c"])
    /\ closed' = TRUE
    /\ UNCHANGED <<cfg, sent, fwd, pipe, parser, incomplete, watch, ctx, main,
                   seen, emitted, faults>>

CancelOuter ==
    /\ ~ctx.outer /\ main # "returned"
    /\ ctx' = [ctx EXCEPT !.outer = TRUE]
    /\ UNCHANGED <<wire, pipe, parser, incomplete, watch, main, seen, emitted, faults>>

(* forward and tee.push: the chunk has reached the peer; the tee takes it  *)
(* or drops it and marks the mock incomplete.                              *)
Forward(d) ==
    /\ fwd[d] = "run" /\ MaySend(d)
    /\ cfg.framed \/ sent[d] < cfg.size[d]
    /\ sent' = [sent EXCEPT ![d] = @ + 1]
    /\ \/ /\ ~tees.paused /\ Len(staged[d]) < ChanBuf
          /\ staged' = [staged EXCEPT ![d] = Append(@, Chunk(d, sent[d] + 1))]
          /\ fwd' = IF d = "c2d" THEN [fwd EXCEPT ![d] = "mark"] ELSE fwd
          /\ UNCHANGED incomplete
       \/ /\ tees.paused \/ cfg.pressure \/ Len(staged[d]) = ChanBuf
          /\ incomplete' = TRUE
          /\ UNCHANGED <<staged, fwd>>
    /\ UNCHANGED <<cfg, closed, hand, out, seen, tees, streams, parser, watch, ctx, main, emitted, faults>>

MarkPendingWork ==
    /\ fwd["c2d"] = "mark"
    /\ watch' = [watch EXCEPT !.pending = TRUE]
    /\ fwd' = [fwd EXCEPT !["c2d"] = "run"]
    /\ UNCHANGED <<cfg, sent, closed, pipe, parser, incomplete, ctx, main,
                   seen, emitted, faults>>

ForwarderExits(d) ==
    /\ fwd[d] = "run"
    /\ closed \/ RelayCancelled \/ \E e \in Dirs : fwd[e] = "exited"
    /\ fwd' = [fwd EXCEPT ![d] = "exited"]
    /\ UNCHANGED <<cfg, sent, closed, pipe, parser, incomplete, watch, ctx, main,
                   seen, emitted, faults>>

Deliver(d, c) ==
    /\ out' = [out EXCEPT ![d] = Append(@, c)]
    /\ seen' = [seen EXCEPT ![d] = Number(d, c), !.skipped = @ \/ Number(d, c) # seen[d] + 1]

(* drain moves staged chunks on; one that finds no room stays in its hand, *)
(* and a closed tee may lose it without a word and go on with the next.    *)
Drain(d) ==
    /\ hand[d] = << >> /\ staged[d] # << >>
    /\ staged' = [staged EXCEPT ![d] = Tail(@)]
    /\ \/ /\ Len(out[d]) < ChanBuf
          /\ Deliver(d, Head(staged[d])) /\ hand' = hand
       \/ /\ Len(out[d]) = ChanBuf
          /\ hand' = [hand EXCEPT ![d] = <<Head(staged[d])>>] /\ UNCHANGED <<out, seen>>
    /\ UNCHANGED <<wire, tees, streams, parser, incomplete, watch, ctx, main, emitted, faults>>

DrainWaits(d) ==
    /\ hand[d] # << >>
    /\ hand' = [hand EXCEPT ![d] = << >>]
    /\ \/ Len(out[d]) < ChanBuf /\ Deliver(d, Head(hand[d]))
       \/ tees.closed /\ UNCHANGED <<out, seen>>
    /\ UNCHANGED <<wire, staged, tees, streams, parser, incomplete, watch, ctx, main,
                   emitted, faults>>

CloseTees ==
    /\ \A d \in Dirs : fwd[d] = "exited"
    /\ ~tees.closed
    /\ tees' = [tees EXCEPT !.closed = TRUE]
    /\ UNCHANGED <<wire, staged, hand, out, streams, parser, incomplete, watch, ctx, main,
                   seen, emitted, faults>>

(* The drained tees have closed their channels.                            *)
Drained == tees.closed /\ \A d \in Dirs : staged[d] = << >> /\ hand[d] = << >>

(* FakeConn.Close: a read that is under way may notice it before it sees   *)
(* what its channel holds.                                                 *)
Reading == parser.pc \in {"req", "resp"}
CloseStreams ==
    /\ streams' = "closed"
    /\ parser' = [parser EXCEPT !.race = @ \/ (Reading /\ streams = "open")]

RelayReturns ==
    /\ Drained /\ streams = "open"
    /\ CloseStreams
    /\ UNCHANGED <<wire, staged, hand, out, tees, incomplete, watch, ctx, main, seen, emitted, faults>>

(* r.Run has returned; after an abort the streams were closed before.      *)
RelayDone == Drained /\ streams = "closed"

-----------------------------------------------------------------------------
(* readChunkLocked, drainBufferedLocked.                                   *)
CanRead(d) == out[d] # << >>
ReadEnds(d) ==
    \/ out[d] = << >> /\ (Drained \/ streams = "closed")
    \/ streams = "closed" /\ parser.race

Gone(pc, result) ==
    [pc |-> pc, req |-> << >>, resp |-> << >>, race |-> FALSE, result |-> result]
Exit(result) == parser' = Gone("exited", result)
Stream == UNCHANGED <<wire, staged, hand, tees, streams, ctx, main, seen, faults>>

(* The length of a message is in its first chunk; without the headers the  *)
(* recorder reads on until it finds some.                                  *)
Complete(d, msg) ==
    \E j \in DOMAIN msg :
        /\ msg[j][2] = 1
        /\ \A l \in 1 .. j - 1 : msg[l][2] # 1
        /\ Len(msg) - j >= cfg.size[d] - 1

Take(d) == out' = [out EXCEPT ![d] = Tail(@)]

(* recordV2: the request, ...                                              *)
ReadRequest ==
    /\ parser.pc = "req" /\ CanRead("c2d")
    /\ Take("c2d")
    /\ LET req == Append(parser.req, Head(out["c2d"]))
       IN \/ parser' = [parser EXCEPT !.req = req, !.race = FALSE,
                                      !.pc = IF Complete("c2d", req) THEN "resp" ELSE "req"]
          \/ RunCancelled /\ ~Complete("c2d", req) /\ Exit("canceled")
    /\ UNCHANGED <<incomplete, watch, emitted>> /\ Stream

RequestEnds ==
    /\ parser.pc = "req" /\ ReadEnds("c2d")
    /\ Exit("nil")
    /\ UNCHANGED <<incomplete, watch, emitted, out>> /\ Stream

(* ... the response (readResponseV2) ...                                   *)
ReadResponse ==
    /\ parser.pc = "resp" /\ CanRead("d2c")
    /\ Take("d2c")
    /\ LET resp == Append(parser.resp, Head(out["d2c"]))
           done == cfg.framed /\ Complete("d2c", resp)
       IN \/ parser' = [parser EXCEPT !.resp = resp, !.race = FALSE,
                                      !.pc = IF done THEN "build" ELSE "resp"]
          \/ RunCancelled /\ ~done /\ Exit("canceled")
    /\ UNCHANGED <<incomplete, watch, emitted>> /\ Stream

ResponseEnds ==
    /\ parser.pc = "resp" /\ ReadEnds("d2c")
    /\ IF parser.resp = << >> THEN incomplete' = TRUE /\ Exit("nil")
       ELSE /\ parser' = [parser EXCEPT !.pc = "build", !.race = FALSE]
            /\ UNCHANGED incomplete
    /\ UNCHANGED <<watch, emitted, out>> /\ Stream

(* ... and buildHTTPMock, which fails on a message that does not begin     *)
(* with its headers or is shorter than they say. (ParsesShort is a mutant: *)
(* a short body is accepted.)                                              *)
ParsesShort(d, msg, framed) == msg[1][2] = 1
Parses(d, msg, framed) == msg[1][2] = 1 /\ (framed => Len(msg) >= cfg.size[d])
Build ==
    /\ parser.pc = "build"
    /\ IF Parses("c2d", parser.req, TRUE) /\ Parses("d2c", parser.resp, cfg.framed)
       THEN parser' = [parser EXCEPT !.pc = "emit"] /\ UNCHANGED incomplete
       ELSE Exit("error") /\ incomplete' = TRUE
    /\ UNCHANGED <<watch, emitted, out>> /\ Stream

(* emitMockCore: an incomplete mock is seen, and the flag with it.      *)
EmitMock ==
    /\ parser.pc = "emit"
    /\ parser' = [parser EXCEPT !.pc = IF incomplete THEN "complete" ELSE "add"]
    /\ incomplete' = FALSE
    /\ watch' = IF incomplete THEN [watch EXCEPT !.pending = FALSE] ELSE watch
    /\ UNCHANGED <<emitted, out>> /\ Stream

AddMock ==
    /\ parser.pc = "add"
    /\ IF RunCancelled THEN Exit("canceled") /\ UNCHANGED <<watch, emitted>>
       ELSE /\ emitted' = Append(emitted, [req |-> parser.req, resp |-> parser.resp])
            /\ watch' = [watch EXCEPT !.pending = FALSE]
            /\ parser' = [parser EXCEPT !.pc = "complete"]
    /\ UNCHANGED <<incomplete, out>> /\ Stream

MarkMockComplete ==
    /\ parser.pc = "complete"
    /\ incomplete' = FALSE
    /\ \/ parser' = [parser EXCEPT !.pc = "req", !.req = << >>, !.resp = << >>]
       \/ RunCancelled /\ Exit("canceled")
    /\ UNCHANGED <<watch, emitted, out>> /\ Stream

(* The parser panics, or never comes back.                                 *)
ParserFails ==
    /\ parser.pc \notin {"exited", "stuck"} /\ faults < cfg.faults
    /\ faults' = faults + 1
    /\ \/ Exit("panic")
       \/ parser' = Gone("stuck", "none")
    /\ UNCHANGED <<wire, pipe, incomplete, watch, ctx, main, seen, emitted>>

(* It is busy with something of its own.                                   *)
ParserSpins == parser.pc = "stuck" /\ UNCHANGED vars

-----------------------------------------------------------------------------
(* watchdogLoop: the hang budget may have passed without activity whenever *)
(* work is pending; without pending work the watchdog does not look.       *)
Watchdog ==
    /\ watch.pending /\ ~watch.hung /\ main = "run"
    /\ watch' = [watch EXCEPT !.hung = TRUE]
    /\ UNCHANGED <<wire, pipe, parser, incomplete, ctx, main, seen, emitted, faults>>

(* fireOnAbort, SessionOnAbort: the tees are paused, the streams closed.   *)
fireOnAbort == tees' = [tees EXCEPT !.paused = TRUE] /\ CloseStreams
NoAbort == UNCHANGED <<tees, streams, parser>>
Supervisor ==
    /\ watch' = [pending |-> FALSE, hung |-> FALSE]
    /\ UNCHANGED <<wire, staged, hand, out, incomplete, seen, emitted, faults>>

(* Supervisor.Run, whose end closes the supervisor and its watchdog: the   *)
(* parser has returned (classifyReturn), ...                               *)
ParserDone ==
    /\ main = "run" /\ parser.pc = "exited"
    /\ IF parser.result = "nil" \/ (parser.result = "canceled" /\ ctx.outer)
       THEN main' = "cancel" /\ ctx' = [ctx EXCEPT !.relay = TRUE] /\ NoAbort
       ELSE main' = "fall" /\ ctx' = ctx /\ fireOnAbort
    /\ Supervisor

(* ... or hangs, ...                                                       *)
ParserHung ==
    /\ main = "run" /\ watch.hung
    /\ fireOnAbort
    /\ ctx' = [ctx EXCEPT !.run = TRUE] /\ main' = "fall"
    /\ Supervisor

(* ... or the session ends: it is given a grace period.                    *)
OuterCancelled ==
    /\ main = "run" /\ ctx.outer
    /\ main' = "grace" /\ ctx' = [ctx EXCEPT !.run = TRUE]
    /\ NoAbort /\ Supervisor

GraceDone ==
    /\ main = "grace" /\ parser.pc = "exited"
    /\ IF parser.result = "panic" THEN main' = "fall" /\ ctx' = ctx /\ fireOnAbort
       ELSE main' = "cancel" /\ ctx' = [ctx EXCEPT !.relay = TRUE] /\ NoAbort
    /\ Supervisor

(* Mutant: the session is given all the time it takes.                     *)
GraceTimeoutNever == FALSE /\ UNCHANGED vars

GraceTimeout ==
    /\ main = "grace"
    /\ main' = "fall" /\ ctx' = ctx /\ fireOnAbort
    /\ Supervisor

(* recordViaSupervisor returns when the relay has.                         *)
Returns ==
    /\ main \in {"fall", "cancel"} /\ RelayDone
    /\ main' = "returned" /\ ctx' = ctx
    /\ NoAbort /\ Supervisor

Terminated == main = "returned" /\ UNCHANGED vars

Relay ==
    \/ \E d \in Dirs : ForwarderExits(d) \/ Drain(d) \/ DrainWaits(d)
    \/ MarkPendingWork \/ CloseTees \/ RelayReturns
Parser ==
    \/ ReadRequest \/ RequestEnds \/ ReadResponse \/ ResponseEnds \/ Build
    \/ EmitMock \/ AddMock \/ MarkMockComplete
Main == ParserDone \/ ParserHung \/ OuterCancelled \/ GraceDone \/ GraceTimeout \/ Returns

Next ==
    \/ PeerCloses \/ CancelOuter \/ \E d \in Dirs : Forward(d)
    \/ Relay \/ Parser \/ ParserFails \/ ParserSpins \/ Watchdog \/ Main \/ Terminated

Spec == Init /\ [][Next]_vars

-----------------------------------------------------------------------------
(* A mock that is a whole request with the whole response to it.           *)
Message(d, k) == [i \in 1 .. cfg.size[d] |-> <<k, i>>]

(* Framed exchanges are recorded whole and in order as long as what has    *)
(* reached the parser is a prefix of each direction's stream, whatever the *)
(* pressure, the shutdown of the relay, an abort or the end of the session *)
(* cuts off: the recorder never builds a mock from what a closing stream   *)
(* left over. Once a chunk has been skipped the code promises less: the    *)
(* incomplete mark of a tee's drop can be cleared by the exchange before,  *)
(* and the drain of a closed tee skips a chunk without a mark, so that the *)
(* next response may complete the message cut short.                       *)
FramedIntact ==
    cfg.framed /\ ~seen.skipped =>
        \A n \in DOMAIN emitted :
            emitted[n] = [req |-> Message("c2d", n), resp |-> Message("d2c", n)]

=============================================================================

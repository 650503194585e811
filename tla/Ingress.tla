------------------------------ MODULE Ingress ------------------------------
(***************************************************************************)
(* The ingress proxy of the agent, pkg/agent/proxy/incoming: it listens on *)
(* the port the application wanted to bind, forwards every HTTP/1 request  *)
(* to the application and records the exchange as a test case.             *)
(*                                                                         *)
(* A scene fixes the mode of the agent (synchronous, sampling, plain), the *)
(* requests of every client connection, how often something may go wrong   *)
(* (a connection closed by the application or by a client, a refused dial),*)
(* how often memory pressure changes, and whether the application may hang.*)
(* A request is [idem, body, upgrade, close, resp]: body and resp are one  *)
(* of "none", "small", "stream" (chunked or of unknown length), "big".     *)
(***************************************************************************)
EXTENDS Integers, Sequences, FiniteSets

CONSTANTS Conns,      \* client connections
          Scenes,     \* the scenes of the model
          SamplingCap \* cap(samplingSem)

VARIABLES scene,   \* the scene, with the budgets that are left
          port,    \* the forwarder of the port: from "off" over "on" to "stopped"
          ctx,     \* the forwarder's context: "live" or "done"
          paused,  \* memoryguard.IsRecordingPaused
          h,       \* connection -> the handler's locals
          client,  \* connection -> "open" or "gone"
          app,     \* connection -> what the application does with its upstream side
          ran,     \* connection -> how often each request was executed
          got,     \* connection -> what the client received, in order
          tests    \* the test cases captured

vars == <<scene, port, ctx, paused, h, client, app, ran, got, tests>>

Handler == [pc: {"new", "preface", "acquire", "dial", "enter", "read", "peek", "buffer", "write",
                 "await", "reply", "capture", "raw", "dialing", "store", "end"},
            i: Nat, up: {"none", "open", "fin", "closed"}, fresh: BOOLEAN, cap: BOOLEAN,
            force: BOOLEAN, held: BOOLEAN, took: BOOLEAN, watch: {"none", "armed", "fired"},
            replay: {"no", "write", "await"}, trunc: BOOLEAN, streaming: BOOLEAN,
            back: {"none", "peek", "write", "await"}]

Fresh == [pc |-> "new", i |-> 0, up |-> "none", fresh |-> FALSE, cap |-> FALSE, force |-> FALSE,
          held |-> FALSE, took |-> FALSE, watch |-> "none", replay |-> "no", trunc |-> FALSE,
          streaming |-> FALSE, back |-> "none"]

TypeOK ==
    /\ port \in {"off", "starting", "waited", "on", "stopping", "stopped"}
    /\ ctx \in {"live", "done"}
    /\ paused \in BOOLEAN
    /\ h \in [Conns -> Handler]
    /\ client \in [Conns -> {"open", "gone"}]
    /\ app \in [Conns -> {"idle", "busy", "answered"}]

Init ==
    /\ scene \in Scenes
    /\ port = "off"
    /\ ctx = "live"
    /\ paused = FALSE
    /\ h = [c \in Conns |-> Fresh]
    /\ client = [c \in Conns |-> "open"]
    /\ app = [c \in Conns |-> "idle"]
    /\ ran = [c \in Conns |-> [k \in DOMAIN scene.reqs[c] |-> 0]]
    /\ got = [c \in Conns |-> <<>>]
    /\ tests = {}

Req(c) == scene.reqs[c][h[c].i]

Spend == scene' = [scene EXCEPT !.faults = @ - 1]

Sync == scene.mode = "sync"

Holders == {c \in Conns : h[c].held}

isHTTPUpgrade(c) == Req(c).upgrade

isIdempotentMethod(c) == Req(c).idem

\* ContentLength is -1 or the transfer encoding is chunked.
isChunked(body) == body = "stream"

(***************************************************************************)
(* The forwarder of the port.                                              *)
(***************************************************************************)

\* A bind event: the port becomes active and its hook starts; a second event
\* for an active port is dropped.
StartIngressProxy ==
    /\ port = "off"
    /\ port' = "starting"
    /\ UNCHANGED <<scene, ctx, paused, h, client, app, ran, got, tests>>

\* The redirected target listens, or three seconds pass: the forwarder starts
\* whichever happened.
waitForIngressTarget ==
    /\ port = "starting"
    /\ port' = "waited"
    /\ UNCHANGED <<scene, ctx, paused, h, client, app, ran, got, tests>>

StartIngress ==
    /\ port = "waited"
    /\ port' = "on"
    /\ UNCHANGED <<scene, ctx, paused, h, client, app, ran, got, tests>>

\* The listener's port is taken: the entry is deleted, and a later event tries again.
ListenFails ==
    /\ port = "waited"
    /\ scene.faults > 0
    /\ Spend
    /\ port' = "off"
    /\ UNCHANGED <<ctx, paused, h, client, app, ran, got, tests>>

\* The event channel closes and every active forwarder is to be stopped.
StopAll ==
    /\ port = "on"
    /\ port' = "stopping"
    /\ UNCHANGED <<scene, ctx, paused, h, client, app, ran, got, tests>>

\* The forwarder's context is cancelled, its listener closed and its accept
\* loop waited for; the handlers are not.
StopIngress ==
    /\ port = "stopping"
    /\ port' = "stopped"
    /\ ctx' = "done"
    /\ UNCHANGED <<scene, paused, h, client, app, ran, got, tests>>

Pressure ==
    /\ scene.pauses > 0
    /\ scene' = [scene EXCEPT !.pauses = @ - 1]
    /\ paused' = ~paused
    /\ UNCHANGED <<port, ctx, h, client, app, ran, got, tests>>

(***************************************************************************)
(* handleConnection and handleHttp1Connection up to the mode's loop.       *)
(***************************************************************************)

Same == UNCHANGED <<port, ctx, paused>>

Accept(c) ==
    /\ port \in {"on", "stopping"}
    /\ scene.reqs[c] # <<>>
    /\ h[c].pc = "new"
    /\ h' = [h EXCEPT ![c].pc = "preface"]
    /\ Same
    /\ UNCHANGED <<scene, client, app, ran, got, tests>>

\* The deferred calls of a handler that returns: the lock is released, both
\* connections are closed.
Returned(c) == [h[c] EXCEPT !.pc = "end", !.held = FALSE, !.up = IF @ = "none" THEN @ ELSE "closed",
                            !.cap = FALSE, !.force = FALSE, !.took = FALSE, !.replay = "no",
                            !.trunc = FALSE, !.streaming = FALSE, !.fresh = FALSE, !.back = "none",
                            !.watch = "none"]

Returns(c) ==
    /\ h' = [h EXCEPT ![c] = Returned(c)]
    /\ app' = [app EXCEPT ![c] = "idle"]
    /\ Same

\* The first bytes decide that this is an HTTP/1 connection; a client that
\* leaves, or the context, ends it.
ReadPreface(c) ==
    /\ h[c].pc = "preface"
    /\ \/ /\ client[c] = "open"
          /\ h' = [h EXCEPT ![c].pc = "acquire"]
          /\ UNCHANGED app
          /\ Same
       \/ /\ client[c] = "gone" \/ ctx = "done"
          /\ Returns(c)
    /\ UNCHANGED <<scene, client, ran, got, tests>>

\* The synchronous mode waits for its only slot; sampling takes a slot when
\* one is free and goes on untracked otherwise.
AcquireLock(c) ==
    /\ h[c].pc = "acquire"
    /\ CASE scene.mode = "sync" ->
               \/ /\ Holders = {}
                  /\ h' = [h EXCEPT ![c].pc = "dial", ![c].held = TRUE, ![c].took = TRUE]
                  /\ UNCHANGED app
                  /\ Same
               \/ /\ ctx = "done"
                  /\ Returns(c)
         [] scene.mode = "sampling" ->
               \/ /\ Cardinality(Holders) < SamplingCap
                  /\ h' = [h EXCEPT ![c].pc = "dial", ![c].held = TRUE, ![c].took = TRUE]
                  /\ UNCHANGED app
                  /\ Same
               \/ /\ ctx = "done"
                  /\ Returns(c)
               \/ /\ Cardinality(Holders) = SamplingCap
                  /\ ctx = "live"
                  /\ h' = [h EXCEPT ![c].pc = "dial"]
                  /\ UNCHANGED app
                  /\ Same
         [] scene.mode = "plain" ->
               /\ h' = [h EXCEPT ![c].pc = "dial"]
               /\ UNCHANGED app
               /\ Same
    /\ UNCHANGED <<scene, client, ran, got, tests>>

\* The first dial does not look at the context.
DialUpstream(c) ==
    /\ h[c].pc = "dial"
    /\ \/ /\ h' = [h EXCEPT ![c].pc = "enter", ![c].up = "open"]
          /\ UNCHANGED <<scene, app>>
          /\ Same
       \/ /\ scene.faults > 0
          /\ Spend
          /\ Returns(c)
    /\ UNCHANGED <<client, ran, got, tests>>

\* releaseLock, once; the connection is served as an untracked one from here on.
demoteToBypass(l) == IF l.force THEN [l EXCEPT !.force = FALSE, !.cap = FALSE, !.held = FALSE] ELSE l

\* The zero-copy loop starts: it captures unless this is a sampling connection
\* without a slot, and is demoted at once under pressure.
ZeroCopyStart(l) ==
    LET k == [l EXCEPT !.watch = "armed", !.cap = (scene.mode = "sampling" => l.took) /\ ~paused,
                       !.force = scene.mode = "sampling" /\ l.took]
    IN IF paused THEN demoteToBypass(k) ELSE k

\* The mode decides who forwards; the synchronous loop decides about capturing
\* request by request.
EnterLoop(c) ==
    /\ h[c].pc = "enter"
    /\ LET l == [h[c] EXCEPT !.pc = "read", !.fresh = TRUE]
       IN h' = [h EXCEPT ![c] = IF Sync THEN l ELSE ZeroCopyStart(l)]
    /\ Same
    /\ UNCHANGED <<scene, client, app, ran, got, tests>>

\* The goroutine of the zero-copy loop that closes both connections when the
\* context ends: it closes the upstream connection the holder has at that time.
Watcher(c) ==
    /\ h[c].watch = "armed"
    /\ ctx = "done"
    /\ client' = [client EXCEPT ![c] = "gone"]
    /\ h' = [h EXCEPT ![c].watch = "fired", ![c].up = IF h[c].pc = "store" THEN @ ELSE "closed"]
    /\ Same
    /\ UNCHANGED <<scene, app, ran, got, tests>>

(***************************************************************************)
(* The loops.  Both read a request, forward it, read the answer, forward   *)
(* that and capture the exchange; they differ in what ends an exchange and *)
(* in what happens when the application closed the connection meanwhile.   *)
(***************************************************************************)

\* What reading a request decides about capturing it, in the synchronous loop:
\* pressure or a streaming body releases the lock, a streaming body is still captured.
SyncRequest(l, r) ==
    [l EXCEPT !.cap = ~paused, !.held = @ /\ ~isChunked(r.body), !.streaming = isChunked(r.body),
              !.trunc = FALSE, !.replay = "no"]

\* The same in the zero-copy loop.
ZeroCopyRequest(l, r) ==
    LET k == IF r.upgrade \/ isChunked(r.body) \/ paused THEN demoteToBypass(l) ELSE l
    IN [k EXCEPT !.trunc = FALSE, !.replay = "no"]

\* http.ReadRequest returned a request.
ReadRequest(c) ==
    /\ h[c].pc = "read"
    /\ client[c] = "open"
    /\ h[c].i < Len(scene.reqs[c])
    /\ LET l == [h[c] EXCEPT !.i = @ + 1]
           r == scene.reqs[c][h[c].i + 1]
       IN h' = [h EXCEPT ![c] = IF Sync THEN [SyncRequest(l, r) EXCEPT !.pc = "write"]
                                ELSE [ZeroCopyRequest(l, r) EXCEPT !.pc = "peek"]]
    /\ Same
    /\ UNCHANGED <<scene, client, app, ran, got, tests>>

\* isIngressRecordingPaused at the top of the zero-copy loop, while it waits
\* for a request: capturing stays off for the rest of the connection.
PausedAtTop(c) ==
    /\ h[c].pc = "read"
    /\ ~Sync
    /\ paused
    /\ h[c].cap
    /\ h' = [h EXCEPT ![c].cap = FALSE]
    /\ Same
    /\ UNCHANGED <<scene, client, app, ran, got, tests>>

\* The client left, or the watcher closed its connection.
ReadFails(c) ==
    /\ h[c].pc = "read"
    /\ client[c] = "gone"
    /\ Returns(c)
    /\ UNCHANGED <<scene, client, ran, got, tests>>

\* The client's body stops short while it is buffered.
BadRequest(c) ==
    /\ got' = [got EXCEPT ![c] = IF client[c] = "open" THEN Append(@, "400") ELSE @]
    /\ Returns(c)

\* writeBadGateway and return.
BadGateway(c) ==
    /\ got' = [got EXCEPT ![c] = IF client[c] = "open" THEN Append(@, "502") ELSE @]
    /\ Returns(c)

\* peekUpstreamLive: false when the application's FIN has arrived.
peekUpstreamLive(c) == h[c].up = "open"

\* redial, first half: the context is looked at, the old connection is closed.
Redial(c, back) ==
    \/ /\ ctx = "done"
       /\ BadGateway(c)
    \/ /\ ctx = "live"
       /\ h' = [h EXCEPT ![c].pc = "dialing", ![c].up = "closed", ![c].back = back]
       /\ app' = [app EXCEPT ![c] = "idle"]
       /\ UNCHANGED got
       /\ Same

\* A connection that is not the first request's is probed before it is used again.
PeekUpstream(c) ==
    /\ h[c].pc = "peek"
    /\ IF h[c].fresh \/ peekUpstreamLive(c)
       THEN /\ h' = [h EXCEPT ![c].pc = "buffer", ![c].fresh = FALSE]
            /\ UNCHANGED <<app, got>>
            /\ Same
       ELSE Redial(c, "peek")
    /\ UNCHANGED <<scene, client, ran, tests>>

\* The dial itself: the context can end it, the application can refuse it.
RedialAnswered(c) ==
    /\ h[c].pc = "dialing"
    /\ \/ /\ ctx = "live"
          /\ h' = [h EXCEPT ![c].pc = "store"]
          /\ UNCHANGED <<scene, app, got>>
          /\ Same
       \/ /\ ctx = "done"
          /\ BadGateway(c)
          /\ UNCHANGED scene
       \/ /\ scene.faults > 0
          /\ Spend
          /\ BadGateway(c)
    /\ UNCHANGED <<client, ran, tests>>

\* redial, second half: the holder gets the new connection, on which the
\* request is written, again when it failed before.
RedialStored(c) ==
    /\ h[c].pc = "store"
    /\ h' = [h EXCEPT ![c].up = "open", ![c].back = "none", ![c].fresh = FALSE,
                      ![c].pc = IF h[c].back = "peek" THEN "buffer" ELSE "write",
                      ![c].replay = IF h[c].back = "peek" THEN @ ELSE h[c].back]
    /\ Same
    /\ UNCHANGED <<scene, client, app, ran, got, tests>>

canReplayAny(c) == Req(c).body \in {"none", "small"} /\ ~isHTTPUpgrade(c)

\* What may be sent twice: an idempotent request whose body is absent or was
\* buffered whole.
canReplay(c) == isIdempotentMethod(c) /\ Req(c).body \in {"none", "small"} /\ ~isHTTPUpgrade(c)

\* The body of a replayable request is read before anything is forwarded.
BufferRequest(c) ==
    /\ h[c].pc = "buffer"
    /\ IF canReplay(c) /\ Req(c).body = "small" /\ client[c] = "gone"
       THEN BadRequest(c)
       ELSE /\ h' = [h EXCEPT ![c].pc = "write"]
            /\ UNCHANGED <<app, got>>
            /\ Same
    /\ UNCHANGED <<scene, client, ran, tests>>

\* The capture buffer of a body that passes: pressure or the limit truncates
\* it for good.
Truncates(body) == body # "none" /\ (paused \/ body = "big")

\* The second look at the pressure before the synchronous loop writes.
PressureCheck(l) == IF Sync /\ l.cap /\ paused THEN [l EXCEPT !.cap = FALSE, !.held = FALSE] ELSE l

\* An upgrade is not framed any further: what is buffered is flushed and both
\* directions are copied.
AfterWrite(c) == IF isHTTPUpgrade(c) /\ ~Sync THEN "raw" ELSE "await"

\* req.Write succeeded: the kernel took the bytes, which an application that
\* has closed its side never reads.
WriteRequest(c) ==
    /\ h[c].pc = "write"
    /\ h[c].up \in {"open", "fin"}
    /\ Req(c).body = "none" \/ (canReplay(c) /\ ~Sync) \/ client[c] = "open"
    /\ LET l == PressureCheck(h[c])
           tee == l.cap /\ Truncates(Req(c).body) /\ (Sync \/ ~canReplay(c))
       IN h' = [h EXCEPT ![c] = [l EXCEPT !.pc = AfterWrite(c),
                                          !.trunc = @ \/ tee]]
    /\ app' = [app EXCEPT ![c] = IF h[c].up = "open" THEN "busy" ELSE @]
    /\ Same
    /\ UNCHANGED <<scene, client, ran, got, tests>>

\* The synchronous loop answers nothing when the upstream connection fails.
SyncGivesUp(c) == Returns(c) /\ UNCHANGED got

\* req.Write failed: the connection is closed, or the client's body ended
\* early.  A replayable request is written once more on a new connection.
WriteFails(c) ==
    /\ h[c].pc = "write"
    /\ \/ h[c].up \in {"fin", "closed"}
       \/ /\ client[c] = "gone"
          /\ Req(c).body # "none"
          /\ Sync \/ ~canReplay(c)
    /\ CASE Sync -> SyncGivesUp(c)
         [] ~Sync /\ canReplay(c) /\ h[c].replay = "no" -> Redial(c, "write")
         [] OTHER -> BadGateway(c)
    /\ UNCHANGED <<scene, client, ran, tests>>

\* What the answer's header changes in the synchronous loop: a streaming
\* answer and pressure release the lock, pressure also ends the capture.
SyncResponse(l, r) ==
    LET k == [l EXCEPT !.held = @ /\ ~isChunked(r.resp), !.streaming = @ \/ isChunked(r.resp)]
    IN PressureCheck(k)

\* http.ReadResponse returned an answer; what was received before the
\* application closed can still be read.
ReadResponse(c) ==
    /\ h[c].pc = "await"
    /\ app[c] = "answered"
    /\ h[c].up \in {"open", "fin"}
    /\ h' = [h EXCEPT ![c] = [(IF Sync THEN SyncResponse(h[c], Req(c)) ELSE h[c]) EXCEPT !.pc = "reply"]]
    /\ app' = [app EXCEPT ![c] = "idle"]
    /\ Same
    /\ UNCHANGED <<scene, client, ran, got, tests>>

\* isStaleConnError: the connection ended without an answer.
isStaleConnError(c) == h[c].up = "closed" \/ (h[c].up = "fin" /\ app[c] # "answered")

ReadResponseFails(c) ==
    /\ h[c].pc = "await"
    /\ isStaleConnError(c)
    /\ CASE Sync -> SyncGivesUp(c)
         [] ~Sync /\ canReplay(c) /\ h[c].replay # "await" -> Redial(c, "await")
         [] OTHER -> BadGateway(c)
    /\ UNCHANGED <<scene, client, ran, tests>>

\* resp.Write to the client, the tee included.
ForwardResponse(c) ==
    /\ h[c].pc = "reply"
    /\ \/ /\ client[c] = "open"
          /\ Req(c).resp \in {"stream", "big"} => h[c].up # "closed"
          /\ got' = [got EXCEPT ![c] = Append(@, "ok")]
          /\ h' = [h EXCEPT ![c].pc = "capture",
                            ![c].trunc = @ \/ (h[c].cap /\ Truncates(Req(c).resp))]
          /\ UNCHANGED app
          /\ Same
       \/ /\ client[c] = "gone" \/ (Req(c).resp \in {"stream", "big"} /\ h[c].up = "closed")
          /\ Returns(c)
          /\ UNCHANGED got
    /\ UNCHANGED <<scene, client, ran, tests>>

\* Whether the exchange becomes a test case, in the synchronous loop.
SyncCaptures(c) == h[c].cap /\ ~paused /\ ~h[c].trunc

\* The same in the zero-copy loop.
ZeroCopyCaptures(c) == h[c].cap /\ ~h[c].trunc

\* The exchange, dumped and parsed again, is handed to CaptureHook.
Exchange(c) == [conn |-> c, i |-> h[c].i, alone |-> ~h[c].streaming]

\* The synchronous loop serves one exchange.
SyncCapture(c) ==
    /\ h[c].pc = "capture"
    /\ Sync
    /\ tests' = IF SyncCaptures(c) THEN tests \cup {Exchange(c)} ELSE tests
    /\ Returns(c)
    /\ UNCHANGED <<scene, client, ran, got>>

\* The zero-copy loop waits for one of its capture slots unless the context
\* ends; a tracked exchange and a side that asked for it end the connection.
ZeroCopyCapture(c) ==
    /\ h[c].pc = "capture"
    /\ ~Sync
    /\ \/ /\ tests' = IF ZeroCopyCaptures(c) THEN tests \cup {Exchange(c)} ELSE tests
          /\ IF h[c].force \/ Req(c).close
             THEN Returns(c)
             ELSE /\ h' = [h EXCEPT ![c].pc = "read", ![c].replay = "no"]
                  /\ UNCHANGED app
                  /\ Same
       \/ /\ ZeroCopyCaptures(c)
          /\ ctx = "done"
          /\ Returns(c)
          /\ UNCHANGED tests
    /\ UNCHANGED <<scene, client, ran, got>>

\* After an upgrade both directions are copied until both have ended.
forwardRawTCP(c) ==
    /\ h[c].pc = "raw"
    /\ client[c] = "gone" \/ h[c].up # "open"
    /\ Returns(c)
    /\ UNCHANGED <<scene, client, ran, got, tests>>

(***************************************************************************)
(* The application and the clients.                                        *)
(***************************************************************************)

AppAnswers(c) ==
    /\ app[c] = "busy"
    /\ h[c].up = "open"
    /\ app' = [app EXCEPT ![c] = "answered"]
    /\ ran' = [ran EXCEPT ![c][h[c].i] = @ + 1]
    /\ UNCHANGED <<scene, port, ctx, paused, h, client, got, tests>>

\* The application closes a connection, idle or not; a request it has read
\* may have been executed.
AppCloses(c) ==
    /\ h[c].up = "open"
    /\ scene.faults > 0
    /\ Spend
    /\ h' = [h EXCEPT ![c].up = "fin"]
    /\ app' = [app EXCEPT ![c] = IF @ = "busy" THEN "idle" ELSE @]
    /\ \/ UNCHANGED ran
       \/ app[c] = "busy" /\ ran' = [ran EXCEPT ![c][h[c].i] = @ + 1]
    /\ UNCHANGED <<port, ctx, paused, client, got, tests>>

\* A client leaves when it has sent everything, or at any time as a fault.
ClientLeaves(c) ==
    /\ client[c] = "open"
    /\ h[c].pc # "new"
    /\ \/ /\ h[c].pc \in {"read", "raw"}
          /\ h[c].i = Len(scene.reqs[c])
          /\ UNCHANGED scene
       \/ /\ scene.faults > 0
          /\ Spend
    /\ client' = [client EXCEPT ![c] = "gone"]
    /\ UNCHANGED <<port, ctx, paused, h, app, ran, got, tests>>

Handling(c) ==
    \/ ReadPreface(c) \/ AcquireLock(c) \/ DialUpstream(c) \/ EnterLoop(c)
    \/ ReadRequest(c) \/ ReadFails(c) \/ PeekUpstream(c) \/ BufferRequest(c)
    \/ RedialAnswered(c) \/ RedialStored(c) \/ WriteRequest(c) \/ WriteFails(c)
    \/ ReadResponse(c) \/ ReadResponseFails(c) \/ ForwardResponse(c) \/ SyncCapture(c)
    \/ ZeroCopyCapture(c)
    \/ forwardRawTCP(c)

Next ==
    \/ StartIngressProxy \/ waitForIngressTarget \/ StartIngress \/ ListenFails
    \/ StopAll \/ StopIngress \/ Pressure
    \/ \E c \in Conns :
          \/ Accept(c) \/ Handling(c) \/ PausedAtTop(c) \/ Watcher(c)
          \/ AppAnswers(c) \/ AppCloses(c) \/ ClientLeaves(c)

Spec == Init /\ [][Next]_vars

\* The scheduler runs every handler and watcher; a client that has received
\* everything leaves in the end, and an application that does not hang answers.
AnswersInTime(c) == ~scene.hang /\ AppAnswers(c)
LeavesServed(c) == h[c].pc \in {"read", "raw"} /\ ClientLeaves(c)

-----------------------------------------------------------------------------
Exchanging(c) == h[c].pc \in {"peek", "buffer", "write", "await", "reply", "capture", "dialing", "store"}

\* What a client, the application and the recording may rely on while
\* connections break under the proxy: a request that is not idempotent, or
\* whose body was not buffered, is executed at most once and any other at most
\* twice (redial and replay in handleHttp1ZeroCopy); no client receives more
\* answers than it sent requests; a test case is an exchange whose answer the
\* client received, with neither body cut; the slots are never overdrawn, and a
\* slot is held only during the first exchange of a connection; and in the
\* synchronous mode two exchanges that are to be captured whole never overlap.
IngressFaithful ==
    /\ \A c \in Conns :
          /\ \A k \in DOMAIN ran[c] :
                LET r == scene.reqs[c][k]
                IN ran[c][k] <= IF ~Sync /\ r.idem /\ r.body \in {"none", "small"} THEN 2 ELSE 1
          /\ Len(got[c]) <= h[c].i
          /\ h[c].held => h[c].i <= 1
    /\ \A t \in tests :
          /\ t.i \in DOMAIN got[t.conn] /\ got[t.conn][t.i] = "ok"
          /\ scene.reqs[t.conn][t.i].body # "big" /\ scene.reqs[t.conn][t.i].resp # "big"
    /\ Cardinality(Holders) <= IF Sync THEN 1 ELSE SamplingCap
    /\ Sync => \A c, d \in Conns :
                  (/\ c # d /\ Exchanging(c) /\ Exchanging(d)
                   /\ h[c].cap /\ h[d].cap) => h[c].streaming \/ h[d].streaming

\* A slot that was taken, or a handler that runs after the forwarder stopped.
Unfinished ==
    \/ Holders # {}
    \/ ctx = "done" /\ \E c \in Conns : h[c].pc \notin {"new", "end"}

=============================================================================

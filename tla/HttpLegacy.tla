----------------------------- MODULE HttpLegacy -----------------------------
(***************************************************************************)
(* One HTTP/1 connection on the path that owns both sockets (integrations/ *)
(* http): recorded by recordLegacy and encodeHTTP (http.go, encode.go),    *)
(* replayed by MockOutgoing and decodeHTTP (decode.go), framed by chunk.go *)
(* in both modes. Module HttpMatch has the choice of the mock, which here  *)
(* is the one recorded for the request.                                    *)
(*                                                                         *)
(* A message is a sequence of units; its first head units are the headers, *)
(* its frame says how it ends: after the announced length, with the last   *)
(* chunk, or ("bare") with the headers of a request and with the           *)
(* connection of a response.                                               *)
(***************************************************************************)
EXTENDS Naturals, Sequences

CONSTANTS
    Scenarios,  \* [mode, exchanges, faults]: "record" or "test"; a sequence of
                \* [expect, req, resp], each message [head, len, frame]; how
                \* many peers may break off, cancellations and pauses there are
    ChanCap     \* capacity of mockDataCh

Client == "client"
Server == "server"
Peers == {Client, Server}
Unit(p, k, i) == [from |-> p, k |-> k, i |-> i]
Continue == Unit(Server, 0, 1)                 \* HTTP/1.1 100 Continue
Synth(k) == <<Unit("keploy", k, 1)>>           \* a response of keploy's own

VARIABLES
    cfg,
    wire,       \* per peer: units sent and not yet read
    sent,       \* per peer: units sent in all (history)
    got,        \* per peer: units received
    state,      \* per peer: "open", "closed", "reset", "timeout"
    deadline,   \* a read deadline is armed on the client's socket
    fwd,        \* the forwarding goroutine: [pc, req, resp]
    queue,      \* mockDataCh
    main,       \* "run" or what encodeHTTP / decodeHTTP returned
    cancelled,
    paused,     \* memoryguard.IsRecordingPaused
    mocks,      \* mocks added: [req, resp]
    faults
vars == <<cfg, wire, sent, got, state, deadline, fwd, queue, main, cancelled, paused, mocks, faults>>
peers == <<cfg, wire, sent, got, state>>

Msg(p, k) == IF p = Client THEN cfg.exchanges[k].req ELSE cfg.exchanges[k].resp
Units(p, k) == [i \in 1 .. Msg(p, k).len |-> Unit(p, k, i)]
Recording == cfg.mode = "record"

Init ==
    /\ cfg \in Scenarios
    /\ wire = [p \in Peers |-> << >>] /\ sent = [p \in Peers |-> << >>]
    /\ got = [p \in Peers |-> << >>] /\ state = [p \in Peers |-> "open"]
    /\ deadline = FALSE
    /\ fwd = [pc |-> "initial", req |-> << >>, resp |-> << >>]
    /\ queue = << >> /\ main = "run" /\ cancelled = FALSE /\ paused = FALSE
    /\ mocks = {} /\ faults = 0

-----------------------------------------------------------------------------
(* The peers. A client sends its next request once the previous response   *)
(* is complete and, when it asked to be told, the body after the 100; a    *)
(* server answers what it has received in full.                            *)
Received(p, k) ==
    LET q == IF p = Client THEN Server ELSE Client
    IN \/ \E i \in DOMAIN got[p] : got[p][i] = Unit(q, k, Msg(q, k).len)
       \/ p = Client /\ \E i \in DOMAIN got[p] : got[p][i] = Unit("keploy", k, 1)
Sends(p, units) ==
    /\ wire' = [wire EXCEPT ![p] = @ \o units]
    /\ sent' = [sent EXCEPT ![p] = @ \o units]
SentOf(p, k) == Len(SelectSeq(sent[p], LAMBDA u : u.k = k))

ClientSends ==
    \E k \in DOMAIN cfg.exchanges : \E n \in 1 .. Msg(Client, k).len :
        /\ state[Client] = "open" /\ n = SentOf(Client, k) + 1
        /\ k > 1 => SentOf(Client, k - 1) = Msg(Client, k - 1).len /\ Received(Client, k - 1)
        /\ (cfg.exchanges[k].expect /\ n > Msg(Client, k).head)
              => \E i \in DOMAIN got[Client] : got[Client][i] = Continue
        /\ Sends(Client, <<Unit(Client, k, n)>>)
        /\ UNCHANGED <<cfg, got, state, deadline, fwd, queue, main, cancelled, paused, mocks, faults>>

ServerSends ==
    /\ Recording /\ state[Server] = "open"
    /\ \E k \in DOMAIN cfg.exchanges :
        \/ /\ cfg.exchanges[k].expect /\ SentOf(Server, 0) = 0
           /\ \E i \in DOMAIN got[Server] : got[Server][i] = Unit(Client, k, Msg(Client, k).head)
           /\ Sends(Server, <<Continue>>)
        \/ \E n \in 1 .. Msg(Server, k).len :
              /\ Received(Server, k) /\ n = SentOf(Server, k) + 1
              /\ Sends(Server, <<Unit(Server, k, n)>>)
    /\ UNCHANGED <<cfg, got, state, deadline, fwd, queue, main, cancelled, paused, mocks, faults>>

(* A client closes between its calls; a server closes after a response,    *)
(* and a fault may cut, reset or time out either side at any point.        *)
PeerEnds(p, how) ==
    /\ state[p] = "open" /\ IF p = Server THEN Recording ELSE how # "timeout"
    /\ \/ /\ how = "closed" /\ faults' = faults
          /\ \E k \in DOMAIN cfg.exchanges :
                IF p = Client THEN Received(p, k) /\ SentOf(p, k + 1) = 0
                ELSE SentOf(p, k) = Msg(p, k).len
       \/ faults < cfg.faults /\ faults' = faults + 1
    /\ state' = [state EXCEPT ![p] = how]
    /\ UNCHANGED <<cfg, wire, sent, got, deadline, fwd, queue, main, cancelled, paused, mocks>>

Cancel ==
    /\ ~cancelled /\ faults < cfg.faults
    /\ cancelled' = TRUE /\ faults' = faults + 1
    /\ UNCHANGED <<peers, deadline, fwd, queue, main, paused, mocks>>

MemoryPressure ==
    /\ Recording /\ ~paused /\ faults < cfg.faults
    /\ paused' = TRUE /\ faults' = faults + 1
    /\ UNCHANGED <<peers, deadline, fwd, queue, main, cancelled, mocks>>

-----------------------------------------------------------------------------
(* ReadBytes: what has arrived, with the end of the stream when the read   *)
(* meets it; an error takes the place of what was not yet read, or comes   *)
(* with it.                                                                *)
ReadBytes(p) ==
    {r \in [data : {<< >>, wire[p]}, err : {"nil", "eof", "err", "timeout"}] :
        \/ r.err = "nil" /\ r.data # << >>
        \/ r.err = "eof" /\ state[p] = "closed" /\ r.data = wire[p]
        \/ r.err = "err" /\ (state[p] = "reset" \/ (cancelled /\ r.data = << >>))
        \/ /\ r.err = "timeout" /\ r.data = << >>
           /\ state[p] = "timeout" \/ (p = Client /\ deadline)}

At(pc) == fwd.pc = pc
Go(f, pc) == fwd' = [f EXCEPT !.pc = pc]
Reads(p, r) == [wire EXCEPT ![p] = IF r.data = << >> /\ r.err # "err" THEN @ ELSE << >>]
Writes(p, units) == [got EXCEPT ![p] = IF state[p] = "open" THEN @ \o units ELSE @]
(* A write to a peer that is gone may fail.                                *)
WriteFails(p) == state[p] # "open"

(* errCh <- err and return: the recorder drains before errCh is closed.    *)
Leave(f, err) == fwd' = [f EXCEPT !.pc = "drain"] /\ main' = IF main = "run" THEN err ELSE main

(* enqueueMock never blocks.                                               *)
enqueueMock(req, resp) ==
    queue' = IF Len(queue) < ChanCap THEN Append(queue, [req |-> req, resp |-> resp]) ELSE queue

HasHead(msg, p) == \E i \in DOMAIN msg : msg[i].from = p /\ msg[i].k # 0 /\ msg[i].i >= Msg(p, msg[i].k).head
FrameOf(msg, p) ==
    LET i == CHOOSE j \in DOMAIN msg : msg[j].from = p /\ msg[j].k # 0
    IN Msg(p, msg[i].k)
EndsChunked(msg, p) == msg # << >> /\ msg[Len(msg)].i = FrameOf(msg, p).len
(* Mutant: the header and its body bytes are counted as one unit more.     *)
MissingShort(msg, p) == FrameOf(msg, p).len - Len(msg) - 1
Missing(msg, p) == FrameOf(msg, p).len - Len(msg)

-----------------------------------------------------------------------------
(* recordLegacy and MockOutgoing read the first request; encodeHTTP passes *)
(* it on before anything else.                                             *)
ReadInitialBuf ==
    /\ At("initial")
    /\ \E r \in ReadBytes(Client) :
        /\ wire' = Reads(Client, r)
        /\ IF r.err # "nil" THEN Leave(fwd, "err") /\ got' = got
           ELSE IF Recording
           THEN \/ Go([fwd EXCEPT !.req = r.data], "top") /\ got' = Writes(Server, r.data) /\ main' = main
                \/ WriteFails(Server) /\ Leave(fwd, "err") /\ got' = got
           ELSE Go([fwd EXCEPT !.req = r.data], "top") /\ UNCHANGED <<got, main>>
    /\ UNCHANGED <<cfg, sent, state, deadline, queue, cancelled, paused, mocks, faults>>

(* The loop's first steps: memory pressure ends the recording, a request   *)
(* that expects a 100 is continued.                                        *)
Expects == cfg.exchanges[fwd.req[1].k].expect
Top ==
    /\ At("top")
    /\ IF Recording /\ paused THEN Go(fwd, "pass") /\ got' = got
       ELSE IF ~Expects THEN Go(fwd, "reqhead") /\ got' = got
       ELSE IF Recording THEN Go(fwd, "expect") /\ got' = got
       ELSE Go(fwd, "continued") /\ got' = Writes(Client, <<Continue>>)
    /\ UNCHANGED <<cfg, wire, sent, state, deadline, queue, main, cancelled, paused, mocks, faults>>

ReadContinue ==
    /\ At("expect")
    /\ \E r \in ReadBytes(Server) :
        /\ wire' = Reads(Server, r)
        /\ IF r.err # "nil" THEN Leave(fwd, "err") /\ got' = got
           ELSE \/ /\ got' = Writes(Client, r.data)
                   /\ IF r.data = <<Continue>> THEN Go(fwd, "continued") /\ main' = main
                      ELSE Leave(fwd, "nil")
                \/ WriteFails(Client) /\ got' = got /\ Leave(fwd, "err")
    /\ UNCHANGED <<cfg, sent, state, deadline, queue, cancelled, paused, mocks, faults>>

(* A unit of the request, passed on to the server when there is one.       *)
TakeRequest(r, pc) ==
    \/ /\ got' = (IF Recording THEN Writes(Server, r.data) ELSE got)
       /\ Go([fwd EXCEPT !.req = @ \o r.data], pc) /\ main' = main
    \/ Recording /\ WriteFails(Server) /\ got' = got /\ Leave(fwd, "err")

ReadContinued ==
    /\ At("continued")
    /\ \E r \in ReadBytes(Client) :
        /\ wire' = Reads(Client, r)
        /\ IF r.err # "nil" THEN Leave(fwd, r.err) /\ got' = got ELSE TakeRequest(r, "reqhead")
    /\ UNCHANGED <<cfg, sent, state, deadline, queue, cancelled, paused, mocks, faults>>

(* HandleChunkedRequests: the headers, ...                                 *)
HandleChunkedRequests ==
    /\ At("reqhead")
    /\ IF ~HasHead(fwd.req, Client)
       THEN \E r \in ReadBytes(Client) :
               /\ wire' = Reads(Client, r)
               /\ IF r.err # "nil" THEN Leave(fwd, r.err) /\ got' = got ELSE TakeRequest(r, "reqhead")
       ELSE /\ LET m == FrameOf(fwd.req, Client)
               IN Go(fwd, IF m.frame = "length" /\ Missing(fwd.req, Client) > 0 THEN "reqlen"
                          ELSE IF m.frame = "chunked" /\ ~EndsChunked(fwd.req, Client) THEN "reqchunk"
                          ELSE "whole")
            /\ UNCHANGED <<wire, got, main>>
    /\ UNCHANGED <<cfg, sent, state, deadline, queue, cancelled, paused, mocks, faults>>

(* ... a body of a known length: a silent client ends the wait, and the    *)
(* deadline stays armed; ...                                               *)
contentLengthRequest ==
    /\ At("reqlen") /\ deadline' = TRUE
    /\ \E r \in ReadBytes(Client) \cup {[data |-> << >>, err |-> "timeout"]} :
        /\ wire' = Reads(Client, r)
        /\ CASE r.err = "timeout" -> Go(fwd, "whole") /\ UNCHANGED <<got, main>>
             [] r.err = "nil" ->
                   LET req == fwd.req \o r.data
                   IN TakeRequest(r, IF Missing(req, Client) > 0 THEN "reqlen" ELSE "whole")
             [] OTHER ->
                   /\ got' = IF Recording THEN Writes(Server, r.data) ELSE got
                   /\ Leave([fwd EXCEPT !.req = @ \o r.data], r.err)
    /\ UNCHANGED <<cfg, sent, state, queue, cancelled, paused, mocks, faults>>

(* ... or one in chunks, whose wait only restarts.                         *)
chunkedRequest ==
    /\ At("reqchunk") /\ deadline' = TRUE
    /\ \E r \in ReadBytes(Client) \cup {[data |-> << >>, err |-> "timeout"]} :
        /\ wire' = Reads(Client, r)
        /\ CASE r.err = "timeout" -> UNCHANGED <<fwd, got, main>>
             [] r.err = "nil" -> TakeRequest(r, IF EndsChunked(r.data, Client) THEN "whole" ELSE "reqchunk")
             [] OTHER -> Leave(fwd, r.err) /\ got' = got
    /\ UNCHANGED <<cfg, sent, state, queue, cancelled, paused, mocks, faults>>

-----------------------------------------------------------------------------
(* encodeHTTP, the response. An upstream that fails before its first byte  *)
(* is answered for and recorded as an error, ...                           *)
Finish(f, req, resp, err) == enqueueMock(req, resp) /\ Leave(f, err)
ReadResponse ==
    /\ At("whole") /\ Recording
    /\ \E r \in ReadBytes(Server) :
        /\ wire' = Reads(Server, r)
        /\ CASE r.err = "nil" ->
                  /\ \/ /\ got' = Writes(Client, r.data)
                        /\ Go([fwd EXCEPT !.resp = r.data], "resphead") /\ main' = main
                     \/ WriteFails(Client) /\ got' = got /\ Leave(fwd, "err")
                  /\ queue' = queue
             [] r.err = "eof" /\ r.data = << >> -> Leave(fwd, "nil") /\ UNCHANGED <<queue, got>>
             [] r.err = "eof" /\ r.data # << >> ->
                  \/ got' = Writes(Client, r.data) /\ Finish(fwd, fwd.req, r.data, "nil")
                  \/ WriteFails(Client) /\ Leave(fwd, "err") /\ UNCHANGED <<queue, got>>
             [] OTHER ->
                  /\ got' = IF r.data = << >> THEN Writes(Client, Synth(fwd.req[1].k)) ELSE got
                  /\ Finish(fwd, fwd.req, Synth(fwd.req[1].k), "nil")
    /\ UNCHANGED <<cfg, sent, state, deadline, cancelled, paused, mocks, faults>>

(* ... one that fails later is only recorded as an error.                  *)
RespFails(r) ==
    /\ got' = got
    /\ IF r.err = "eof" THEN Finish(fwd, fwd.req, fwd.resp, "nil")
       ELSE Finish(fwd, fwd.req, Synth(fwd.req[1].k), "nil")
RespWriteFails == WriteFails(Client) /\ got' = got /\ Finish(fwd, fwd.req, Synth(fwd.req[1].k), "nil")

(* handleChunkedResponses: headers that come with the end of the           *)
(* connection are kept for the mock and not passed on; what went before    *)
(* them is, again.                                                         *)
handleChunkedResponses ==
    /\ At("resphead")
    /\ IF ~HasHead(fwd.resp, Server)
       THEN \E r \in ReadBytes(Server) :
               /\ wire' = Reads(Server, r)
               /\ \/ /\ r.err = "nil" /\ got' = Writes(Client, r.data)
                     /\ Go([fwd EXCEPT !.resp = @ \o r.data], "resphead") /\ UNCHANGED <<queue, main>>
                  \/ r.err = "nil" /\ RespWriteFails
                  \/ r.err # "nil" /\ r.data = << >> /\ RespFails(r)
                  \/ r.err \notin {"nil", "eof"} /\ r.data # << >> /\ RespFails(r)
                  \/ /\ r.err = "eof" /\ r.data # << >> /\ got' = Writes(Client, fwd.resp)
                     /\ Go([fwd EXCEPT !.resp = @ \o r.data], "paired") /\ UNCHANGED <<queue, main>>
                  \/ r.err = "eof" /\ r.data # << >> /\ RespWriteFails
       ELSE /\ LET m == FrameOf(fwd.resp, Server)
               IN Go(fwd, IF m.frame = "length" /\ Missing(fwd.resp, Server) > 0 THEN "resplen"
                          ELSE IF m.frame = "chunked" /\ ~EndsChunked(fwd.resp, Server) THEN "respchunk"
                          ELSE "paired")
            /\ UNCHANGED <<wire, got, queue, main>>
    /\ UNCHANGED <<cfg, sent, state, deadline, cancelled, paused, mocks, faults>>

RespTaken(r, pc) ==
    \/ /\ got' = Writes(Client, r.data)
       /\ Go([fwd EXCEPT !.resp = @ \o r.data], pc) /\ UNCHANGED <<queue, main>>
    \/ RespWriteFails

(* Both body readers end quietly with the connection.                      *)
chunkedResponse ==
    /\ At("respchunk")
    /\ \E r \in ReadBytes(Server) :
        /\ wire' = Reads(Server, r)
        /\ CASE r.err = "nil" -> RespTaken(r, IF EndsChunked(r.data, Server) THEN "paired" ELSE "respchunk")
             [] r.err = "eof" /\ r.data = << >> -> Go(fwd, "paired") /\ UNCHANGED <<got, queue, main>>
             [] r.err = "eof" /\ r.data # << >> -> RespTaken(r, "paired")
             [] OTHER -> RespFails(r)
    /\ UNCHANGED <<cfg, sent, state, deadline, cancelled, paused, mocks, faults>>

contentLengthResponse ==
    /\ At("resplen")
    /\ \E r \in ReadBytes(Server) :
        /\ wire' = Reads(Server, r)
        /\ CASE r.err = "nil" ->
                   RespTaken(r, IF Missing(fwd.resp \o r.data, Server) > 0 THEN "resplen" ELSE "paired")
             [] r.err = "timeout" \/ (r.err = "eof" /\ r.data = << >>) ->
                   Go(fwd, "paired") /\ UNCHANGED <<got, queue, main>>
             [] r.err = "eof" /\ r.data # << >> -> RespTaken(r, "paired")
             [] OTHER -> RespFails(r)
    /\ UNCHANGED <<cfg, sent, state, deadline, cancelled, paused, mocks, faults>>

(* The pair goes to the recorder and the next request is awaited.          *)
Paired ==
    /\ At("paired")
    /\ enqueueMock(fwd.req, fwd.resp)
    /\ fwd' = [pc |-> "next", req |-> << >>, resp |-> << >>]
    /\ UNCHANGED <<peers, deadline, main, cancelled, paused, mocks, faults>>

NextRequest ==
    /\ At("next")
    /\ \E r \in ReadBytes(Client) :
        /\ wire' = Reads(Client, r)
        /\ IF r.err # "nil" THEN Leave(fwd, "nil") /\ got' = got
           ELSE IF Recording
           THEN \/ Go([fwd EXCEPT !.req = r.data], "top") /\ got' = Writes(Server, r.data) /\ main' = main
                \/ WriteFails(Server) /\ Leave(fwd, "err") /\ got' = got
           ELSE Go([fwd EXCEPT !.req = r.data], "top") /\ UNCHANGED <<got, main>>
    /\ UNCHANGED <<cfg, sent, state, deadline, queue, cancelled, paused, mocks, faults>>

-----------------------------------------------------------------------------
(* http.ReadRequest and http.ReadResponse with io.ReadAll.                 *)
Whole(msg, p) ==
    /\ HasHead(msg, p)
    /\ LET m == FrameOf(msg, p)
       IN CASE m.frame = "length" -> Missing(msg, p) <= 0
            [] m.frame = "chunked" -> EndsChunked(msg, p)
            [] OTHER -> TRUE
Parses(req, resp) ==
    Whole(req, Client) /\ (Whole(resp, Server) \/ resp = Synth(req[1].k))

(* parseFinalHTTP on the recorder goroutine.                               *)
parseFinalHTTP ==
    /\ queue # << >>
    /\ queue' = Tail(queue)
    /\ LET m == Head(queue) IN mocks' = IF Parses(m.req, m.resp) THEN mocks \cup {m} ELSE mocks
    /\ UNCHANGED <<peers, deadline, fwd, main, cancelled, paused, faults>>

Drained ==
    /\ At("drain") /\ queue = << >>
    /\ Go(fwd, "done")
    /\ UNCHANGED <<peers, deadline, queue, main, cancelled, paused, mocks, faults>>

(* io.Copy both ways until both sides have ended.                          *)
Copy(p) ==
    /\ At("pass") /\ wire[p] # << >>
    /\ LET q == IF p = Client THEN Server ELSE Client IN got' = Writes(q, wire[p])
    /\ wire' = [wire EXCEPT ![p] = << >>]
    /\ UNCHANGED <<cfg, sent, state, deadline, fwd, queue, main, cancelled, paused, mocks, faults>>
CopyEnds ==
    /\ At("pass") /\ \A p \in Peers : wire[p] = << >> /\ state[p] # "open"
    /\ Leave(fwd, "nil")
    /\ UNCHANGED <<peers, deadline, queue, cancelled, paused, mocks, faults>>

(* decodeHTTP: a request that does not parse ends the connection, another  *)
(* is answered from its mock.                                              *)
Answer ==
    /\ At("whole") /\ ~Recording
    /\ IF ~Whole(fwd.req, Client) THEN Leave(fwd, "err") /\ got' = got
       ELSE LET k == fwd.req[1].k
            IN \/ /\ got' = Writes(Client, Units(Server, k))
                  /\ fwd' = [pc |-> "next", req |-> << >>, resp |-> << >>] /\ main' = main
               \/ WriteFails(Client) /\ Leave(fwd, "err") /\ got' = got
    /\ UNCHANGED <<cfg, wire, sent, state, deadline, queue, cancelled, paused, mocks, faults>>

(* encodeHTTP and decodeHTTP return on a cancelled context; the goroutine  *)
(* finds out at its next read.                                             *)
Returns ==
    /\ cancelled /\ main = "run"
    /\ main' = "cancelled"
    /\ UNCHANGED <<peers, deadline, fwd, queue, cancelled, paused, mocks, faults>>

Next ==
    \/ ClientSends \/ ServerSends \/ Cancel \/ MemoryPressure
    \/ \E p \in Peers, how \in {"closed", "reset", "timeout"} : PeerEnds(p, how)
    \/ ReadInitialBuf \/ Top \/ ReadContinue \/ ReadContinued \/ HandleChunkedRequests
    \/ contentLengthRequest \/ chunkedRequest
    \/ ReadResponse \/ handleChunkedResponses \/ chunkedResponse \/ contentLengthResponse
    \/ Paired \/ NextRequest \/ parseFinalHTTP \/ Drained
    \/ \E p \in Peers : Copy(p)
    \/ CopyEnds \/ Answer \/ Returns

Spec == Init /\ [][Next]_vars

-----------------------------------------------------------------------------
FromPeer(units) == SelectSeq(units, LAMBDA u : u.from # "keploy")
IsPrefixOf(s, t) == Len(s) <= Len(t) /\ s = SubSeq(t, 1, Len(s))
Exchange(k) == [req |-> Units(Client, k), resp |-> Units(Server, k)]

(* The one way a client is given bytes twice: the first part of the        *)
(* headers again, in place of the part that came with the end of the       *)
(* server's connection (handleChunkedResponses).                           *)
HeadersRepeated ==
    /\ state[Server] = "closed"
    /\ \E i \in DOMAIN sent[Server] : \E n \in i .. Len(sent[Server]) :
          /\ sent[Server][i].k # 0 /\ sent[Server][i].i = 1
          /\ sent[Server][n].k = sent[Server][i].k
          /\ sent[Server][n].i < Msg(Server, sent[Server][n].k).head
          /\ got[Client] = SubSeq(sent[Server], 1, n) \o SubSeq(sent[Server], i, n)

(* A response that only the end of the connection delimits is taken to be  *)
(* over once its headers are there.                                        *)
CutShort(m, k) ==
    /\ Msg(Server, k).frame = "bare"
    /\ m.req = Units(Client, k) /\ IsPrefixOf(m.resp, Units(Server, k))

(* Each peer receives the other's bytes in order, none twice and none made *)
(* up, but for headers repeated at the end of a connection; a mock is a    *)
(* whole request with its own response, whole unless delimited by the end  *)
(* of the connection, or with the error recorded in its place.  On a       *)
(* connection nothing disturbed, the recorder turns back to the client     *)
(* only when the response is passed on to its end (with that exception),   *)
(* nothing the client sent is withheld from an open server when it is done *)
(* (unless by the read deadline a request's body leaves armed), and every  *)
(* exchange the client saw completed has its mock.                         *)
LegacyFaithful ==
    /\ Recording =>
          /\ IsPrefixOf(got[Server], sent[Client])
          /\ IsPrefixOf(FromPeer(got[Client]), sent[Server]) \/ HeadersRepeated
          /\ \A m \in mocks : \E k \in DOMAIN cfg.exchanges :
                \/ m = Exchange(k) \/ m = [req |-> Units(Client, k), resp |-> Synth(k)]
                \/ CutShort(m, k)
          /\ (At("next") /\ faults = 0) =>
                \A i \in DOMAIN wire[Server] : Msg(Server, wire[Server][i].k).frame = "bare"
          /\ (At("done") /\ faults = 0) =>
                /\ state[Server] = "open" /\ ~deadline => got[Server] = sent[Client]
                /\ \A k \in DOMAIN cfg.exchanges : Received(Client, k) => Exchange(k) \in mocks
    /\ ~Recording =>
          \A i \in DOMAIN got[Client] :
             LET u == got[Client][i]
             IN u # Continue => SentOf(Client, u.k) = Msg(Client, u.k).len
=============================================================================

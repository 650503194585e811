---------------------------- MODULE GrpcIngress ----------------------------
(***************************************************************************)
(* The recording of an incoming gRPC connection: RecordIncoming of         *)
(* pkg/agent/proxy/incoming/gRPC copies the bytes of both directions,      *)
(* hands a copy of them to one parser per direction, and the parsers feed  *)
(* the stream manager of pkg/http2.go; one emitter turns the streams that  *)
(* are complete into test cases.                                           *)
(*                                                                         *)
(* A scene gives the frames of the client and of the application, in the   *)
(* order they are sent, the application's each with the number of client   *)
(* frames it waits for.  A frame is [id, kind, endH, endS, table, after]:  *)
(* table is what a header block needs of the decoder's dynamic table.      *)
(***************************************************************************)
EXTENDS Integers, Sequences, FiniteSets

CONSTANTS Scenes,   \* the scenes of the model
          ChanCap   \* capacity of the frame channels, 512 in the code

VARIABLES scene,    \* the scene, with the budgets that are left
          ctx,      \* "live" or "done"
          paused,   \* memoryguard.IsRecordingPaused
          open,     \* the two connections: "client" and "app"
          fwd,      \* direction -> [pos, tee, on]: a forwardAndTee goroutine
          ch,       \* direction -> frames between forwarder and parser
          parser,   \* direction -> "run", "drain", "end"
          table,    \* direction -> size of the HPACK decoder's table
          streams,  \* stream id -> its state
          emit,     \* emitCh and the emitter: [signal, batch, on]
          tests     \* the test cases, in order

vars == <<scene, ctx, paused, open, fwd, ch, parser, table, streams, emit, tests>>

Dirs == {"req", "resp"}

Src(d) == IF d = "req" THEN "client" ELSE "app"

Dst(d) == IF d = "req" THEN "app" ELSE "client"

Frames(d) == IF d = "req" THEN scene.client ELSE scene.app

NewStream == [reqHeaders |-> FALSE, reqData |-> 0, reqEnd |-> FALSE,
              respHeaders |-> FALSE, respData |-> 0, respEnd |-> FALSE,
              trailers |-> "none", isComplete |-> FALSE,
              frags |-> {}]  \* directions with the first part of a header block

Init ==
    /\ scene \in Scenes
    /\ ctx = "live"
    /\ paused = FALSE
    /\ open = {"client", "app"}
    /\ fwd = [d \in Dirs |-> [pos |-> 0, tee |-> TRUE, on |-> TRUE]]
    /\ ch = [d \in Dirs |-> <<>>]
    /\ parser = [d \in Dirs |-> "run"]
    /\ table = [d \in Dirs |-> "large"]
    /\ streams = [id \in {} |-> NewStream]
    /\ emit = [signal |-> FALSE, batch |-> {}, on |-> TRUE]
    /\ tests = <<>>

TypeOK ==
    /\ ctx \in {"live", "done"}
    /\ paused \in BOOLEAN
    /\ open \subseteq {"client", "app"}
    /\ \A d \in Dirs : Len(ch[d]) <= ChanCap + 1
    /\ parser \in [Dirs -> {"run", "drain", "end"}]
    /\ emit.batch \subseteq DOMAIN streams \cup 1 .. 9

(***************************************************************************)
(* forwardAndTee.                                                          *)
(***************************************************************************)

\* The next frame is read and written to the other side; the copy goes to the
\* parser unless pressure was seen, which stops the tee for good.  A full
\* channel blocks the direction: the last frame of ch is then still in the
\* forwarder's hands.
forwardAndTee(d) ==
    /\ fwd[d].on
    /\ open = {"client", "app"}
    /\ fwd[d].pos < Len(Frames(d))
    /\ Len(ch[d]) <= ChanCap
    /\ LET f == Frames(d)[fwd[d].pos + 1]
           tee == fwd[d].tee /\ ~paused
       IN /\ f.after <= fwd["req"].pos
          /\ ch' = IF tee THEN [ch EXCEPT ![d] = Append(@, f)] ELSE ch
          /\ fwd' = [fwd EXCEPT ![d].pos = @ + 1, ![d].tee = tee]
    /\ UNCHANGED <<scene, ctx, paused, open, parser, table, streams, emit, tests>>

\* The source is closed, or the destination no longer takes bytes: the
\* forwarder returns and its channel is closed.
ForwarderEnds(d) ==
    /\ fwd[d].on
    /\ Len(ch[d]) <= ChanCap
    /\ \/ Src(d) \notin open
       \/ /\ Dst(d) \notin open
          /\ fwd[d].pos < Len(Frames(d))
    /\ fwd' = [fwd EXCEPT ![d].on = FALSE]
    /\ UNCHANGED <<scene, ctx, paused, open, ch, parser, table, streams, emit, tests>>

(***************************************************************************)
(* The stream manager.                                                     *)
(***************************************************************************)

\* decoder.DecodeFull: a block that refers to entries the decoder has evicted,
\* because its table was made smaller meanwhile, cannot be decoded.
Decodes(d, f) == f.table = "large" => table[d] = "large"

ProcessReqHeaders(s) == [s EXCEPT !.reqHeaders = TRUE]

\* The first block of a response is its headers, the second its trailers.
ProcessRespHeaders(s) ==
    IF s.respHeaders THEN [s EXCEPT !.trailers = "own"] ELSE [s EXCEPT !.respHeaders = TRUE]

processHeaderBlock(d, s) == IF d = "req" THEN ProcessReqHeaders(s) ELSE ProcessRespHeaders(s)

\* A response that ends with its first header block has its headers for trailers.
PromoteHeaders(s) ==
    IF s.respHeaders /\ s.trailers = "none" THEN [s EXCEPT !.trailers = "headers"] ELSE s

checkStreamCompletionEarly(s) == [s EXCEPT !.isComplete = @ \/ (s.respHeaders /\ s.trailers # "none" /\ s.respEnd)]

checkStreamCompletion(s) ==
    [s EXCEPT !.isComplete = \/ @
                             \/ /\ s.reqHeaders /\ s.reqEnd
                                /\ s.respHeaders /\ s.trailers # "none" /\ s.respEnd]

EndReq(s) == checkStreamCompletion([s EXCEPT !.reqEnd = TRUE])

EndResp(s) == checkStreamCompletion([s EXCEPT !.respEnd = TRUE])

\* A HEADERS frame without END_HEADERS is kept, but its END_STREAM takes effect
\* at once; an error leaves the frame's end of stream unseen.
HeadersFrame(d, s, f) ==
    LET k == IF f.endH THEN processHeaderBlock(d, s) ELSE [s EXCEPT !.frags = @ \cup {d}]
    IN IF f.endH /\ ~Decodes(d, f) THEN s
       ELSE IF ~f.endS THEN k
       ELSE IF d = "req" THEN EndReq(k) ELSE EndResp(PromoteHeaders(k))

\* A CONTINUATION frame never ends the stream.  Without the first part, which
\* went with a stream captured meanwhile, the block cannot be decoded.
ContinuationFrame(d, s, f) ==
    IF ~f.endH THEN s
    ELSE LET k == [s EXCEPT !.frags = @ \ {d}]
         IN IF d \in s.frags /\ Decodes(d, f) THEN processHeaderBlock(d, k) ELSE k

DataFrame(d, s, f) ==
    IF d = "req"
    THEN LET k == [s EXCEPT !.reqData = @ + 1] IN IF f.endS THEN EndReq(k) ELSE k
    ELSE LET k == [s EXCEPT !.respData = @ + 1] IN IF f.endS THEN EndResp(k) ELSE k

\* Any frame of a stream the manager does not know creates its state.
Stream(id) == IF id \in DOMAIN streams THEN streams[id] ELSE NewStream

Handled(d, f) ==
    LET s == Stream(f.id)
    IN CASE f.kind = "headers" -> HeadersFrame(d, s, f)
         [] f.kind = "cont" -> ContinuationFrame(d, s, f)
         [] f.kind = "data" -> DataFrame(d, s, f)
         [] OTHER -> s

\* SETTINGS of one side size the decoder of the other side's header blocks.
updateDecoderTableSize(d, f) ==
    table' = [table EXCEPT ![IF d = "req" THEN "resp" ELSE "req"] = f.table]

(***************************************************************************)
(* parseFramesFromChan.                                                    *)
(***************************************************************************)

triggerEmit == emit' = [emit EXCEPT !.signal = TRUE]

\* One frame is taken from the channel, handled under the manager's mutex and
\* announced to the emitter.
ParseFrame(d) ==
    /\ parser[d] = "run"
    /\ ch[d] # <<>>
    /\ LET f == Head(ch[d])
       IN /\ f.kind # "bad"
          /\ IF f.id = 0
             THEN /\ IF f.kind = "settings" THEN updateDecoderTableSize(d, f) ELSE UNCHANGED table
                  /\ UNCHANGED streams
             ELSE /\ streams' = [id \in DOMAIN streams \cup {f.id} |->
                                   IF id = f.id THEN Handled(d, f) ELSE streams[id]]
                  /\ UNCHANGED table
    /\ ch' = [ch EXCEPT ![d] = Tail(@)]
    /\ triggerEmit
    /\ UNCHANGED <<scene, ctx, paused, open, fwd, parser, tests>>

\* A frame that cannot be read, or the context: the rest is drained.  Frames are
\* read one by one, and the library's reader may refuse a CONTINUATION frame
\* that it does not see behind its HEADERS.
ParserGivesUp(d) ==
    /\ parser[d] = "run"
    /\ \/ ctx = "done"
       \/ ch[d] # <<>> /\ Head(ch[d]).kind \in {"bad", "cont"}
    /\ parser' = [parser EXCEPT ![d] = "drain"]
    /\ UNCHANGED <<scene, ctx, paused, open, fwd, ch, table, streams, emit, tests>>

drainFrameChunks(d) ==
    /\ parser[d] = "drain"
    /\ ch[d] # <<>>
    /\ ch' = [ch EXCEPT ![d] = Tail(@)]
    /\ UNCHANGED <<scene, ctx, paused, open, fwd, parser, table, streams, emit, tests>>

\* The forwarder closed the channel and nothing is left in it.
ParserEnds(d) ==
    /\ parser[d] \in {"run", "drain"}
    /\ ch[d] = <<>>
    /\ ~fwd[d].on
    /\ parser' = [parser EXCEPT ![d] = "end"]
    /\ UNCHANGED <<scene, ctx, paused, open, fwd, ch, table, streams, emit, tests>>

ParsersDone == \A d \in Dirs : parser[d] = "end"

(***************************************************************************)
(* The emitter.                                                            *)
(***************************************************************************)

GetCompleteStreams == {id \in DOMAIN streams : streams[id].isComplete}

\* A signal, or the closed emitCh: what is complete now is to be captured,
\* unless recording is paused.  The closed channel ends the emitter.
emitCompleteStreams ==
    /\ emit.on
    /\ emit.batch = {}
    /\ emit.signal \/ ParsersDone
    /\ emit' = [signal |-> FALSE, batch |-> IF paused THEN {} ELSE GetCompleteStreams,
                on |-> emit.signal \/ ~ParsersDone]
    /\ UNCHANGED <<scene, ctx, paused, open, fwd, ch, parser, table, streams, tests>>

\* The test case of a stream: what its state holds when it is captured.
TestCase(id) == [id |-> id, reqData |-> streams[id].reqData, respData |-> streams[id].respData,
                 trailers |-> streams[id].trailers]

\* CaptureGRPC of one stream, then CleanupStream; a context that ended, or
\* pressure, drops the test case.
captureStream(id) ==
    /\ id \in emit.batch
    /\ \/ /\ ~paused
          /\ tests' = Append(tests, TestCase(id))
       \/ /\ paused \/ ctx = "done"
          /\ UNCHANGED tests
    /\ streams' = [k \in DOMAIN streams \ {id} |-> streams[k]]
    /\ emit' = [emit EXCEPT !.batch = @ \ {id}]
    /\ UNCHANGED <<scene, ctx, paused, open, fwd, ch, parser, table>>

(***************************************************************************)
(* The surroundings.                                                       *)
(***************************************************************************)

\* The parsers are done and the emitter has drained: RecordIncoming returns and
\* closes both connections.
Ended == ParsersDone /\ ~emit.on /\ emit.batch = {}

Cancel ==
    /\ scene.faults > 0
    /\ scene' = [scene EXCEPT !.faults = @ - 1]
    /\ ctx' = "done"
    /\ UNCHANGED <<paused, open, fwd, ch, parser, table, streams, emit, tests>>

\* The goroutine that waits for the context closes both connections.
CloseOnCancel ==
    /\ ctx = "done"
    /\ open # {}
    /\ open' = {}
    /\ UNCHANGED <<scene, ctx, paused, fwd, ch, parser, table, streams, emit, tests>>

Pressure ==
    /\ scene.pauses > 0
    /\ scene' = [scene EXCEPT !.pauses = @ - 1]
    /\ paused' = ~paused
    /\ UNCHANGED <<ctx, open, fwd, ch, parser, table, streams, emit, tests>>

\* A side closes: when both have sent everything, or at any time as a fault.
PeerCloses(x) ==
    /\ x \in open
    /\ \/ /\ \A d \in Dirs : fwd[d].pos = Len(Frames(d))
          /\ UNCHANGED scene
       \/ /\ scene.faults > 0
          /\ scene' = [scene EXCEPT !.faults = @ - 1]
    /\ open' = open \ {x}
    /\ UNCHANGED <<ctx, paused, fwd, ch, parser, table, streams, emit, tests>>

Next ==
    \/ \E d \in Dirs : \/ forwardAndTee(d) \/ ForwarderEnds(d) \/ ParseFrame(d)
                       \/ ParserGivesUp(d) \/ drainFrameChunks(d) \/ ParserEnds(d)
    \/ emitCompleteStreams
    \/ \E id \in emit.batch : captureStream(id)
    \/ Cancel \/ CloseOnCancel \/ Pressure
    \/ \E x \in {"client", "app"} : PeerCloses(x)

Spec == Init /\ [][Next]_vars

-----------------------------------------------------------------------------
OfStream(d, id, kind) == {k \in DOMAIN Frames(d) : Frames(d)[k].id = id /\ Frames(d)[k].kind = kind}

\* The call whose last frame either way carries the end of the stream.
Calls == {id \in 1 .. 9 : \A d \in Dirs : \E k \in DOMAIN Frames(d) : Frames(d)[k].id = id /\ Frames(d)[k].endS}

\* What was sent for a call, read off the frames.
Sent(id) == [id |-> id, reqData |-> Cardinality(OfStream("req", id, "data")),
             respData |-> Cardinality(OfStream("resp", id, "data")),
             trailers |-> IF Cardinality({k \in OfStream("resp", id, "headers") \cup OfStream("resp", id, "cont") :
                                            Frames("resp")[k].endH}) > 1
                          THEN "own" ELSE "headers"]

Continued == \E d \in Dirs : \E k \in DOMAIN Frames(d) : Frames(d)[k].kind = "cont"

\* Calls whose header blocks are not read as they were sent: the response ends
\* the stream with a HEADERS frame that is continued, or a block relies on a
\* table that the SETTINGS of the other side make smaller.
EndSplit(id) == \E k \in OfStream("resp", id, "headers") : Frames("resp")[k].endS /\ ~Frames("resp")[k].endH
Shrinks(d) == \E k \in DOMAIN Frames(d) : Frames(d)[k].kind = "settings" /\ Frames(d)[k].table = "small"
Evicted(id) ==
    \E d, o \in Dirs : d # o /\ Shrinks(o)
        /\ \E k \in OfStream(d, id, "headers") \cup OfStream(d, id, "cont") : Frames(d)[k].table = "large"
Misread(id) == EndSplit(id) \/ Evicted(id)

\* Whatever the order in which the two parsers, which share one stream manager,
\* and the emitter run, a test case holds the whole request and the whole
\* response of its call, no call is captured twice; and when a connection
\* on which nothing went wrong and no pressure was seen has ended, every call on
\* it was captured with its trailers (parseFramesFromChan, HandleFrame,
\* emitCompleteStreams).  Excepted are calls whose header blocks are misread:
\* they may be lost or have their response headers for trailers; and a
\* CONTINUATION frame may end the capture of its connection.
GrpcFaithful ==
    /\ \A k \in DOMAIN tests :
          LET sent == Sent(tests[k].id)
          IN tests[k] = sent \/ (Misread(sent.id) /\ tests[k] = [sent EXCEPT !.trailers = "headers"])
    /\ \A j, k \in DOMAIN tests : j # k => tests[j].id # tests[k].id
    /\ (Ended /\ scene.calm /\ ~Continued) => \A id \in Calls : Misread(id) \/ \E k \in DOMAIN tests : tests[k].id = id

=============================================================================

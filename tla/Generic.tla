------------------------------ MODULE Generic -------------------------------
(***************************************************************************)
(* The parser of last resort (integrations/generic): opaque chunks of a    *)
(* TCP connection are paired into mocks, by encodeGeneric on the sockets   *)
(* ("legacy", encode.go) or by encodeGenericV2 on the relay's streams      *)
(* ("v2", encode_v2.go), and found again by fuzzyMatch (match.go) for      *)
(* decodeGeneric (decode.go) in test mode.                                 *)
(*                                                                         *)
(* A chunk is [k, i]: the i-th of exchange k. Similarity of payloads is    *)
(* given by the scene: near pairs score above 0.9, the others below 0.4.   *)
(***************************************************************************)
EXTENDS Naturals, Sequences, FiniteSets, SequencesExt

CONSTANTS
    Conns,      \* replaying connections
    Scenes,     \* [mode, exchanges, near, script]: "legacy", "v2" or "test";
                \* chunks [q, p] of each request and response; the pairs of
                \* exchanges with similar requests; per connection the
                \* exchanges it repeats
    ChanCap     \* capacity of the capture channels and of events

Dirs == {"c", "d"}

VARIABLES
    scene,
    sent,       \* per direction: chunks forwarded
    ch,         \* per direction: clientCapChan, destCapChan or the stream
    stopped,    \* per direction: the tee has stopped capturing
    events,     \* encodeGenericV2's merged queue
    started,    \* the first client chunk has been read
    pair,       \* [reqs, resps, prevWasReq]
    incomplete, \* Session.IsMockIncomplete
    mocks,      \* the mocks flushed
    order,      \* chunks in the order they were paired: [dir, chunk] (history)
    tier,       \* test mode, per mock: "filtered", "unfiltered"
    conn,       \* per connection: [pos, pick]
    served      \* set of [c, pos, mock]
vars == <<scene, sent, ch, stopped, events, started, pair, incomplete, mocks, order, tier, conn, served>>
capture == <<sent, ch, stopped, events, started, pair, incomplete, mocks, order>>
replay == <<tier, conn, served>>

Chunks(d, k) == IF d = "c" THEN scene.exchanges[k].q ELSE scene.exchanges[k].p
Total(d, n) == LET f[k \in 0 .. n] == IF k = 0 THEN 0 ELSE f[k - 1] + Chunks(d, k) IN f[n]
ExchangeOf(d, n) == CHOOSE k \in DOMAIN scene.exchanges : Total(d, k - 1) < n /\ n <= Total(d, k)
Chunk(d, n) == LET k == ExchangeOf(d, n) IN [k |-> k, i |-> n - Total(d, k - 1)]
NoPair == [reqs |-> << >>, resps |-> << >>, prevWasReq |-> FALSE]

Init ==
    /\ scene \in Scenes
    /\ sent = [d \in Dirs |-> 0] /\ ch = [d \in Dirs |-> << >>]
    /\ stopped = [d \in Dirs |-> FALSE] /\ events = << >> /\ started = FALSE
    /\ pair = [NoPair EXCEPT !.prevWasReq = scene.mode = "legacy"]
    /\ incomplete = FALSE /\ mocks = << >> /\ order = << >>
    /\ tier = [k \in DOMAIN scene.exchanges |-> "filtered"]
    /\ conn = [c \in Conns |-> [pos |-> 1, pick |-> 0]] /\ served = {}

-----------------------------------------------------------------------------
(* Recording. A request follows the whole previous response, a response    *)
(* its whole request.                                                      *)
MayForward(d) ==
    /\ scene.mode # "test" /\ sent[d] < Total(d, Len(scene.exchanges))
    /\ LET k == ExchangeOf(d, sent[d] + 1)
       IN IF d = "c" THEN sent["d"] >= Total("d", k - 1) ELSE sent["c"] >= Total("c", k)

(* captureTeeWriter.Write: a full channel ends the capture of a direction; *)
(* the relay's tee drops the chunk and has the mock dropped.               *)
Write(d) ==
    /\ MayForward(d)
    /\ sent' = [sent EXCEPT ![d] = @ + 1]
    /\ LET full == Len(ch[d]) >= ChanCap
       IN /\ ch' = IF full \/ stopped[d] THEN ch ELSE [ch EXCEPT ![d] = Append(@, Chunk(d, sent[d] + 1))]
          /\ stopped' = [stopped EXCEPT ![d] = @ \/ (full /\ scene.mode = "legacy")]
          /\ incomplete' = (incomplete \/ (full /\ scene.mode = "v2"))
    /\ UNCHANGED <<scene, events, started, pair, mocks, order, replay>>

(* flushMock.                                                              *)
Flushable(p) == p.reqs # << >> /\ p.resps # << >>
Flushed(p) == IF Flushable(p) THEN [p EXCEPT !.reqs = << >>, !.resps = << >>] ELSE p
flushMock(p) ==
    /\ mocks' = IF Flushable(p) /\ ~incomplete THEN Append(mocks, [reqs |-> p.reqs, resps |-> p.resps]) ELSE mocks
    /\ incomplete' = (incomplete /\ ~Flushable(p))

(* A client chunk flushes a pair that has been answered and restarts one   *)
(* that has no request.                                                    *)
ClientChunk(u) ==
    LET answered == ~pair.prevWasReq /\ Flushable(pair)
        p == IF answered THEN Flushed(pair) ELSE pair
    IN /\ IF answered THEN flushMock(pair) ELSE UNCHANGED <<mocks, incomplete>>
       /\ pair' = [reqs |-> Append(p.reqs, u), prevWasReq |-> TRUE,
                   resps |-> IF p.reqs = << >> THEN << >> ELSE p.resps]
(* The first chunk of the answer flushes.                                  *)
DestChunk(u) ==
    LET p == [pair EXCEPT !.resps = Append(@, u)]
        first == pair.prevWasReq /\ pair.reqs # << >>
    IN /\ IF first THEN flushMock(p) ELSE UNCHANGED <<mocks, incomplete>>
       /\ pair' = [(IF first THEN Flushed(p) ELSE p) EXCEPT !.prevWasReq = FALSE]

Pairs(e) ==
    /\ order' = Append(order, e)
    /\ IF e.dir = "c" THEN ClientChunk(e.chunk) ELSE DestChunk(e.chunk)

(* createGenericMocksAsync selects among the two channels.                 *)
createGenericMocksAsync(d) ==
    /\ scene.mode = "legacy" /\ ch[d] # << >>
    /\ ch' = [ch EXCEPT ![d] = Tail(@)]
    /\ Pairs([dir |-> d, chunk |-> Head(ch[d])])
    /\ UNCHANGED <<scene, sent, stopped, events, started, replay>>

(* encodeGenericV2 reads the first client chunk itself, ...                *)
ReadInitial ==
    /\ scene.mode = "v2" /\ ~started /\ ch["c"] # << >>
    /\ started' = TRUE
    /\ events' = Append(events, [dir |-> "c", chunk |-> Head(ch["c"])])
    /\ ch' = [ch EXCEPT !["c"] = Tail(@)]
    /\ UNCHANGED <<scene, sent, stopped, pair, incomplete, mocks, order, replay>>
(* ... then has both streams read ...                                      *)
(* Mutant: both streams are read from the start.                           *)
ReadersRunAtOnce(d) == scene.mode = "v2"
ReadersRun(d) == scene.mode = "v2" /\ started
readStream(d) ==
    /\ ReadersRun(d) /\ ch[d] # << >> /\ Len(events) < ChanCap
    /\ events' = Append(events, [dir |-> d, chunk |-> Head(ch[d])])
    /\ ch' = [ch EXCEPT ![d] = Tail(@)]
    /\ UNCHANGED <<scene, sent, stopped, started, pair, incomplete, mocks, order, replay>>
(* ... and pairs what they find.                                           *)
encodeGenericV2 ==
    /\ events # << >>
    /\ events' = Tail(events)
    /\ Pairs(Head(events))
    /\ UNCHANGED <<scene, sent, ch, stopped, started, replay>>

-----------------------------------------------------------------------------
(* Test mode: mock k holds exchange k. fuzzyMatch tries equality, then     *)
(* similarity, first in the filtered tier and then in the other.           *)
Tier(t) == {k \in DOMAIN tier : tier[k] = t}
SameLength(k, j) == scene.exchanges[k].q = scene.exchanges[j].q
findExactMatch(t, k) == Tier(t) \cap {k}
findBinaryMatch(t, k) == {j \in Tier(t) : SameLength(k, j) /\ <<k, j>> \in scene.near}
InTier(t, k) == IF findExactMatch(t, k) # {} THEN findExactMatch(t, k) ELSE findBinaryMatch(t, k)

Wanted(c) == scene.script[c][conn[c].pos]
Todo(c) == scene.mode = "test" /\ conn[c].pos \in DOMAIN scene.script[c]
fuzzyMatch(c) ==
    /\ Todo(c) /\ conn[c].pick = 0
    /\ LET f == InTier("filtered", Wanted(c))
           u == InTier("unfiltered", Wanted(c))
       IN IF f \cup u = {}
          THEN /\ served' = served \cup {[c |-> c, pos |-> conn[c].pos, mock |-> 0]}
               /\ conn' = [conn EXCEPT ![c].pos = Len(scene.script[c]) + 1]
          ELSE /\ \E j \in IF f # {} THEN f ELSE u : conn' = [conn EXCEPT ![c].pick = j]
               /\ served' = served
    /\ UNCHANGED <<scene, capture, tier>>

(* The mock moves to the unfiltered tier, by its ID when someone moved it  *)
(* first; decodeGeneric writes its responses and reads on.                 *)
UpdateUnFilteredMock(c) ==
    /\ conn[c].pick # 0
    /\ tier' = [tier EXCEPT ![conn[c].pick] = "unfiltered"]
    /\ served' = served \cup {[c |-> c, pos |-> conn[c].pos, mock |-> conn[c].pick]}
    /\ conn' = [conn EXCEPT ![c] = [pos |-> @.pos + 1, pick |-> 0]]
    /\ UNCHANGED <<scene, capture>>

Next ==
    \/ \E d \in Dirs : Write(d) \/ createGenericMocksAsync(d) \/ readStream(d)
    \/ ReadInitial \/ encodeGenericV2
    \/ \E c \in Conns : fuzzyMatch(c) \/ UpdateUnFilteredMock(c)
Spec == Init /\ [][Next]_vars

-----------------------------------------------------------------------------
Said(d, k) == [i \in 1 .. Chunks(d, k) |-> [dir |-> d, chunk |-> [k |-> k, i |-> i]]]
(* The conversation: each request whole, then its response.                *)
Talk == FlattenSeq([k \in DOMAIN scene.exchanges |-> Said("c", k) \o Said("d", k)])
Of(d, seq) == SelectSeq(seq, LAMBDA e : e.dir = d)
NothingLost == \A d \in Dirs : sent[d] = Len(ch[d]) + Len(Of(d, events)) + Len(Of(d, order))

Request(k) == [i \in 1 .. scene.exchanges[k].q |-> [k |-> k, i |-> i]]
First(k) == [k |-> k, i |-> 1]
Answered == {k \in DOMAIN scene.exchanges : [dir |-> "d", chunk |-> First(k)] \in Range(order)}

Increasing(chunks) ==
    \A i, j \in DOMAIN chunks : i < j =>
        chunks[i].k < chunks[j].k \/ (chunks[i].k = chunks[j].k /\ chunks[i].i < chunks[j].i)

(* When nothing is dropped and the chunks are paired in the order in which *)
(* they were exchanged, every answered exchange has its mock, with all of  *)
(* the request and the first chunk of the response.  In whatever order the *)
(* two readers deliver them, no chunk is in two mocks and none overtakes   *)
(* another of its side, and on the relay's streams the mock of the first   *)
(* chunk holds the first chunk of its answer.  In test mode a request      *)
(* repeated no more often than it was recorded gets its own mock, however  *)
(* similar the others are and however the connections interleave.          *)
GenericKept ==
    /\ (scene.mode # "test" /\ IsPrefix(order, Talk) /\ NothingLost) =>
          mocks = [k \in 1 .. Cardinality(Answered) |-> [reqs |-> Request(k), resps |-> <<First(k)>>]]
    /\ Increasing(FlattenSeq([n \in DOMAIN mocks |-> mocks[n].reqs]))
    /\ Increasing(FlattenSeq([n \in DOMAIN mocks |-> mocks[n].resps]))
    /\ (scene.mode = "v2" /\ mocks # << >> /\ mocks[1].reqs[1] = Chunk("c", 1)) =>
          mocks[1].resps[1] = Chunk("d", 1)
    /\ \A s \in served : s.mock = scene.script[s.c][s.pos]

=============================================================================

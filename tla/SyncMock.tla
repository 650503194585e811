------------------------------ MODULE SyncMock ------------------------------
(***************************************************************************)
(* The recording buffer of the agent: SyncMockManager and its DedupQueue   *)
(* (pkg/agent/proxy/syncMock/syncMock.go), with the callers that drive     *)
(* them: protocol parsers (AddMock), the DNS server (SendConfigMock), the  *)
(* ingress captures (Capture, CaptureGRPC), the proxy's flush ticker and   *)
(* shutdown, the memory guard, and the two streams to the CLI.             *)
(*                                                                         *)
(* A mock is one outgoing call of the application, with the time of its    *)
(* request; a request is one incoming call, whose window [start, end]      *)
(* decides which mocks belong to its test case.  One step is one critical  *)
(* section under m.mu, or one sendToOutChan; what an operation took out of *)
(* the buffer waits in outbox until its thread has sent it, which is where *)
(* threads interleave.                                                     *)
(***************************************************************************)
EXTENDS Integers, Sequences, FiniteSets

CONSTANTS
    Mocks,          \* outgoing calls the parsers record
    Reusable,       \* those with Lifetime session or connection
    ConfigMocks,    \* those the DNS server forwards with SendConfigMock
    Leaky,          \* those whose parser outlives its connection handler
    HttpReqs,       \* incoming requests captured by Capture, synchronous mode
    Streaming,      \* those of HttpReqs that release the ingress lock early
    GrpcReqs,       \* incoming streams captured by CaptureGRPC
    QueuedReqs,     \* incoming requests resolved through the DedupQueue
    Duplicates,     \* those a deduper may judge duplicate
    Mapped,         \* those whose caller enables test-to-mock mappings
    StartupWindow,  \* models.StartupMockTestCaseWindow
    Horizon,        \* the 7 s staleness horizon, in clock units
    MaxRecent,      \* maxRecentWindows
    Cap,            \* capacity of the outgoing mock channel
    MaxTime,        \* bound on the clock
    MaxEpisodes,    \* bound on the memory guard's calls of applyPausedState
    CanStop,        \* whether the session is stopped within the bounds
    MaxStall        \* bound on the delay between SetMemoryPressure's clock read and its lock

Reqs == HttpReqs \cup GrpcReqs \cup QueuedReqs

(* Goroutines that send outside m.mu. dedup is whoever holds dq.mu. *)
Threads == {"ticker", "closer", "dedup"} \cup Mocks \cup HttpReqs \cup GrpcReqs

NoOne == "none"

ASSUME SetsAssumption ==
    /\ Reusable \subseteq Mocks /\ ConfigMocks \subseteq Mocks /\ Leaky \subseteq Mocks
    /\ Streaming \subseteq HttpReqs /\ Duplicates \subseteq Reqs /\ Mapped \subseteq Reqs
ASSUME DistinctAssumption ==
    /\ Mocks \cap Reqs = {} /\ HttpReqs \cap GrpcReqs = {}
    /\ (HttpReqs \cup GrpcReqs) \cap QueuedReqs = {}
    /\ (Mocks \cup Reqs) \cap {"ticker", "closer", "dedup", NoOne} = {}
ASSUME BoundsAssumption ==
    /\ StartupWindow \in Nat /\ Horizon \in Nat /\ MaxRecent \in Nat \ {0}
    /\ Cap \in Nat \ {0} /\ MaxTime \in Nat /\ MaxEpisodes \in Nat /\ MaxStall \in Nat
    /\ CanStop \in BOOLEAN

VARIABLES
    now,              \* the last clock reading that was stamped; 0 is the zero time
    req,              \* ReqTimestampMock of each mock, 0 before the call is made
    handled,          \* mocks whose parser has called AddMock, or given up
    raced,            \* mocks stamped while the end of pressure waited for m.mu (history)
    buffer,           \* m.buffer, as a set ordered by arrival
    arrival,          \* arrival[m]: value of totalAdded when m was added
    startup,          \* mocks tagged TestModeInfo.IsStartup
    firstReqSeen,
    memoryPause,
    resolvedTestCount,
    recentWindows,    \* ring of resolved windows: owner stands for its start and end
    pressureRanges,   \* intervals of memory pressure; end = 0 while open
    outState,         \* outChan and outChanClosed: "nil", "open" or "closed"
    outChan,          \* contents of the channel
    received,         \* mocks the CLI has taken from the stream, in order
    totalAdded, pressureDropped, dropCount, outChanClosedDrops,
    outbox,           \* mocksToSend of each thread
    pendingMap,       \* mapping entries each thread has yet to offer
    mapped,           \* mapping entries the mapping channel accepted
    start, end,       \* window of each request, 0 until known
    status,           \* progress of each request's test case
    testName,         \* number N of each request's window name "test-N"
    resolvedAt,       \* when each request's window was resolved (history)
    checkedAt,        \* when each test case was checked for pressure (history)
    testCounter,      \* m.testCounter
    globalTestCounter,\* conn.GlobalTestCounter
    queue,            \* DedupQueue.queue
    job,              \* resolution of each queued request
    dqOwner,          \* the ResolveJob call that holds dq.mu
    recordingPaused,  \* memoryguard.recordingPaused
    guard,            \* progress of applyPausedState
    episodes,         \* applyPausedState calls so far
    closer,           \* progress of the proxy's shutdown
    dropped           \* why each mock was dropped (history)

clockVars   == <<now, req, handled, raced>>
bufferVars  == <<buffer, arrival, startup, firstReqSeen, resolvedTestCount, recentWindows>>
chanVars    == <<outState, outChan, received>>
countVars   == <<totalAdded, pressureDropped, dropCount, outChanClosedDrops>>
sendVars    == <<outbox, pendingMap, mapped>>
reqVars     == <<start, end, status, testName, resolvedAt, checkedAt, testCounter, globalTestCounter>>
queueVars   == <<queue, job, dqOwner>>
guardVars   == <<memoryPause, pressureRanges, recordingPaused, guard, episodes>>
vars == <<clockVars, bufferVars, chanVars, countVars, sendVars, reqVars, queueVars,
          guardVars, closer, dropped>>

-----------------------------------------------------------------------------
(* Clock readings that end up in a stamp are distinct, as time.Now()'s are. The *)
(* guard is stalled while it has read the clock and does not get m.mu.          *)
Advance(d) ==
    /\ now + d <= MaxTime
    /\ guard.pc = "clocked" => now + d <= guard.clock + MaxStall
    /\ now' = now + d

Stamp == Advance(1)

Bound  == outState = "open"
Idle(thr) == outbox[thr] = {} /\ pendingMap[thr] = {}

InWindow(m, r) == start[r] <= req[m] /\ req[m] <= end[r]

(* ownerWindow: the first ring entry that contains the mock's request time. *)
Owners(m) == {i \in DOMAIN recentWindows : InWindow(m, recentWindows[i].owner)}
Owned(m)  == Owners(m) # {}
OwnerWindow(m) == recentWindows[CHOOSE i \in Owners(m) : \A j \in Owners(m) : i <= j]

RangeEnd(p) == IF p.end = 0 THEN now ELSE p.end

PressureActiveAt(ranges, t) == \E p \in ranges : p.start <= t /\ t <= RangeEnd(p)

OnlyOpenPressureInWindow(s, e) ==
    s # 0 /\ e # 0 /\ \E p \in pressureRanges : p.end = 0 /\ p.start <= e

WasPressureActiveInWindow(s, e) ==
    /\ s # 0 /\ e # 0
    /\ \E p \in pressureRanges : p.start <= e /\ s <= RangeEnd(p)

PerTest(S) == S \ Reusable

SweepLeavesSent(thr, send, maps, drop, reason) ==
    /\ buffer' = buffer \ drop
    /\ outbox' = [outbox EXCEPT ![thr] = send]
    /\ pendingMap' = [pendingMap EXCEPT ![thr] = maps]
    /\ dropped' = [m \in Mocks |-> IF m \in drop THEN reason[m] ELSE dropped[m]]
    /\ UNCHANGED mapped

(* What every reaper does with the buffer before it unlocks m.mu: send goes to   *)
(* the thread's outbox with its mapping entries, drop is forgotten for reason.   *)
Sweep(thr, send, maps, drop, reason) ==
    /\ buffer' = buffer \ (send \cup drop)
    /\ outbox' = [outbox EXCEPT ![thr] = send]
    /\ pendingMap' = [pendingMap EXCEPT ![thr] = maps]
    /\ dropped' = [m \in Mocks |-> IF m \in drop THEN reason[m] ELSE dropped[m]]
    /\ UNCHANGED mapped

-----------------------------------------------------------------------------
Init ==
    /\ now = 0
    /\ req = [m \in Mocks |-> 0] /\ handled = {} /\ raced = {}
    /\ buffer = {} /\ arrival = [m \in Mocks |-> 0] /\ startup = {}
    /\ firstReqSeen = FALSE /\ resolvedTestCount = 0 /\ recentWindows = <<>>
    /\ outState = "nil" /\ outChan = <<>> /\ received = <<>>
    /\ totalAdded = 0 /\ pressureDropped = 0 /\ dropCount = 0 /\ outChanClosedDrops = 0
    /\ outbox = [t \in Threads |-> {}] /\ pendingMap = [t \in Threads |-> {}] /\ mapped = {}
    /\ start = [r \in Reqs |-> 0] /\ end = [r \in Reqs |-> 0]
    /\ status = [r \in Reqs |-> "idle"] /\ testName = [r \in Reqs |-> 0]
    /\ resolvedAt = [r \in Reqs |-> 0] /\ checkedAt = [r \in Reqs |-> 0] /\ testCounter = 0 /\ globalTestCounter = 0
    /\ queue = <<>> /\ job = [r \in Reqs |-> "none"] /\ dqOwner = NoOne
    /\ memoryPause = FALSE /\ pressureRanges = {} /\ recordingPaused = FALSE
    /\ guard = [pc |-> "idle", clock |-> 0] /\ episodes = 0
    /\ closer = "run" /\ dropped = [m \in Mocks |-> "no"]

(* The clock runs on, by as much as the staleness horizon, and nothing happens. *)
IdlePeriod ==
    /\ Advance(Horizon)
    /\ UNCHANGED <<req, handled, raced, bufferVars, chanVars, countVars, sendVars, reqVars,
                   queueVars, guardVars, closer, dropped>>

-----------------------------------------------------------------------------
(* Mocks: the application calls out, the parser emits, threads send.        *)

(* SetMemoryPressure(false) has read the clock and has not got m.mu. *)
Releasing == guard.pc = "clocked" /\ memoryPause /\ ~recordingPaused

(* The proxy accepts a connection, wires the channel (the pointer is the same *)
(* all session, so a closed channel stays closed) and the call is stamped.    *)
Call(m) ==
    /\ req[m] = 0 /\ closer = "run"
    /\ Stamp
    /\ req' = [req EXCEPT ![m] = now + 1]
    /\ raced' = IF Releasing THEN raced \cup {m} ELSE raced
    /\ outState' = IF outState = "nil" THEN "open" ELSE outState
    /\ UNCHANGED <<handled, bufferVars, outChan, received, countVars, sendVars, reqVars,
                   queueVars, guardVars, closer, dropped>>

PressureGate(m) == memoryPause /\ PressureActiveAt(pressureRanges, req[m])

AddMock(m) ==
    /\ req[m] # 0 /\ m \notin handled /\ m \notin ConfigMocks
    /\ handled' = handled \cup {m}
    /\ \/ /\ PressureGate(m)
          /\ pressureDropped' = pressureDropped + 1
          /\ dropped' = [dropped EXCEPT ![m] = "pressure"]
          /\ UNCHANGED <<buffer, arrival, startup, totalAdded, outChanClosedDrops, outbox>>
       \/ /\ ~PressureGate(m)
          /\ totalAdded' = totalAdded + 1
          /\ arrival' = [arrival EXCEPT ![m] = totalAdded + 1]
          /\ startup' = IF ~firstReqSeen \/ resolvedTestCount < StartupWindow
                        THEN startup \cup {m} ELSE startup
          /\ \/ /\ outState = "closed"
                /\ outChanClosedDrops' = outChanClosedDrops + 1
                /\ dropped' = [dropped EXCEPT ![m] = "closed"]
                /\ UNCHANGED <<buffer, outbox>>
             \/ /\ Bound /\ ~firstReqSeen
                /\ outbox' = [outbox EXCEPT ![m] = {m}]
                /\ UNCHANGED <<buffer, outChanClosedDrops, dropped>>
             \/ /\ outState = "nil" \/ (Bound /\ firstReqSeen)
                /\ buffer' = buffer \cup {m}
                /\ UNCHANGED <<outbox, outChanClosedDrops, dropped>>
          /\ UNCHANGED pressureDropped
    /\ UNCHANGED <<now, req, raced, firstReqSeen, resolvedTestCount, recentWindows, chanVars,
                   dropCount, pendingMap, mapped, reqVars, queueVars, guardVars, closer>>

SendConfigMock(m) ==
    /\ req[m] # 0 /\ m \notin handled /\ m \in ConfigMocks
    /\ handled' = handled \cup {m}
    /\ outbox' = [outbox EXCEPT ![m] = {m}]
    /\ UNCHANGED <<now, req, raced, bufferVars, chanVars, countVars, pendingMap, mapped, reqVars,
                   queueVars, guardVars, closer, dropped>>

(* The next mock a thread sends: threads send in buffer order. *)
NextToSend(thr) == CHOOSE m \in outbox[thr] : \A x \in outbox[thr] : arrival[m] <= arrival[x]

SendToOutChan(thr) ==
    /\ outbox[thr] # {}
    /\ LET m == NextToSend(thr) IN
       /\ outbox' = [outbox EXCEPT ![thr] = @ \ {m}]
       /\ \/ /\ ~Bound
             /\ dropped' = [dropped EXCEPT ![m] = "unsent"]
             /\ UNCHANGED <<outChan, dropCount>>
          \/ /\ Bound /\ Len(outChan) < Cap
             /\ outChan' = Append(outChan, m)
             /\ UNCHANGED <<dropped, dropCount>>
          \/ /\ Bound /\ Len(outChan) = Cap
             /\ dropCount' = dropCount + 1
             /\ dropped' = [dropped EXCEPT ![m] = "budget"]
             /\ UNCHANGED outChan
    /\ UNCHANGED <<clockVars, bufferVars, outState, received, totalAdded, pressureDropped,
                   outChanClosedDrops, pendingMap, mapped, reqVars, queueVars, guardVars, closer>>

(* The non-blocking sends to the mapping channel that end an operation: each   *)
(* test's entry is taken or lost.                                              *)
OfferMappings(thr) ==
    /\ outbox[thr] = {} /\ pendingMap[thr] # {}
    /\ \E taken \in SUBSET {p[1] : p \in pendingMap[thr]} :
          mapped' = mapped \cup {p \in pendingMap[thr] : p[1] \in taken}
    /\ pendingMap' = [pendingMap EXCEPT ![thr] = {}]
    /\ UNCHANGED <<clockVars, bufferVars, chanVars, countVars, outbox, reqVars, queueVars,
                   guardVars, closer, dropped>>

(* The outgoing stream handler takes a mock and writes it to the CLI. *)
Receive ==
    /\ outChan # <<>>
    /\ outChan' = Tail(outChan) /\ received' = Append(received, Head(outChan))
    /\ UNCHANGED <<clockVars, bufferVars, outState, countVars, sendVars, reqVars, queueVars,
                   guardVars, closer, dropped>>

-----------------------------------------------------------------------------
(* The three operations that empty the buffer.                              *)

AttributableNotOwned(S) == {m \in S : m \in Reusable \/ m \in startup}

(* The mocks of S that can be persisted without a request: reusable ones, those *)
(* of a resolved window, those of the startup corpus.                           *)
Attributable(S) == {m \in S : m \in Reusable \/ Owned(m) \/ m \in startup}

LateMapLast(S) ==
    {<<recentWindows[Len(recentWindows)].test, m>> :
        m \in {x \in PerTest(S) : Owned(x) /\ OwnerWindow(x).mapping}}

LateMap(S) ==
    {<<OwnerWindow(m).test, m>> : m \in {x \in PerTest(S) : Owned(x) /\ OwnerWindow(x).mapping}}

FlushOwnedWindows(thr) ==
    LET send == IF Bound THEN Attributable(buffer) ELSE {}
    IN  Sweep(thr, send, LateMap(send), {}, dropped)

Ring(windows) == IF Len(windows) > MaxRecent THEN Tail(windows) ELSE windows

ResolveRange(thr, r, test, keep, mapping) ==
    LET matched == {m \in PerTest(buffer) : InWindow(m, r)}
        late    == {m \in PerTest(buffer) \ matched : Owned(m)}
        other   == PerTest(buffer) \ (matched \cup late)
        flush   == (buffer \cap Reusable) \cup (other \cap startup)
                     \cup (IF keep THEN matched \cup late ELSE matched \cap startup)
        stale   == {m \in other \ startup : req[m] < now - Horizon}
        reaped  == IF keep THEN {} ELSE late \cup (matched \ startup)
        direct  == IF keep /\ mapping THEN {<<test, m>> : m \in matched} ELSE {}
        delayed == IF keep THEN LateMap(late) ELSE {}
        window  == [owner |-> r, test |-> test, mapping |-> mapping]
    IN  /\ Sweep(thr, IF Bound THEN flush ELSE {}, IF Bound THEN direct \cup delayed ELSE {},
                 stale \cup reaped,
                 [m \in Mocks |-> IF m \in stale THEN "stale" ELSE "duplicate"])
        /\ resolvedTestCount' = IF keep THEN resolvedTestCount + 1 ELSE resolvedTestCount
        /\ recentWindows' = Ring(Append(recentWindows, window))
        /\ resolvedAt' = [resolvedAt EXCEPT ![r] = now]

DeleteMocksStrictlyBefore(thr, timestamp) ==
    LET before  == {m \in buffer : req[m] < timestamp}
        rescued == Attributable(before)
        send    == IF Bound THEN rescued ELSE {}
    IN  Sweep(thr, send, LateMap(send), before \ rescued, [m \in Mocks |-> "debris"])

(* The proxy's ticker; a flush that finds nothing to send changes nothing. *)
TickerFlush ==
    /\ closer = "run" /\ Idle("ticker")
    /\ Bound /\ Attributable(buffer) # {}
    /\ FlushOwnedWindows("ticker")
    /\ UNCHANGED <<clockVars, arrival, startup, firstReqSeen, resolvedTestCount, recentWindows,
                   chanVars, countVars, reqVars, queueVars, guardVars, closer>>

-----------------------------------------------------------------------------
(* Requests: ingress, capture, and the test-case stream.                    *)

(* The synchronous ingress serves one HTTP request at a time. *)
IngressLockFree == \A r \in HttpReqs : status[r] # "open"

(* A streamed request gives the lock back at once and does not signal. *)
BeginRequest(r) ==
    /\ status[r] = "idle" /\ closer = "run"
    /\ r \in HttpReqs => IngressLockFree
    /\ r \in QueuedReqs => dqOwner = NoOne
    /\ Stamp
    /\ start' = [start EXCEPT ![r] = now + 1]
    /\ \/ /\ r \in HttpReqs /\ recordingPaused
          /\ status' = [status EXCEPT ![r] = "skipped"]
          /\ UNCHANGED firstReqSeen
       \/ /\ r \in Streaming /\ ~recordingPaused
          /\ status' = [status EXCEPT ![r] = "streaming"]
          /\ UNCHANGED firstReqSeen
       \/ /\ r \in HttpReqs => ~recordingPaused
          /\ status' = [status EXCEPT ![r] = "open"]
          /\ firstReqSeen' = (firstReqSeen \/ r \notin GrpcReqs)
    /\ queue' = IF r \in QueuedReqs THEN Append(queue, r) ELSE queue
    /\ UNCHANGED <<req, handled, raced, buffer, arrival, startup, resolvedTestCount, recentWindows,
                   chanVars, countVars, sendVars, end, testName, resolvedAt, checkedAt, testCounter,
                   globalTestCounter, job, dqOwner, guardVars, closer, dropped>>

(* A response of unknown length also gives the lock back early. *)
ReleaseEarly(r) ==
    /\ r \in Streaming /\ status[r] = "open"
    /\ status' = [status EXCEPT ![r] = "streaming"]
    /\ UNCHANGED <<clockVars, bufferVars, chanVars, countVars, sendVars, start, end, testName,
                   resolvedAt, checkedAt, testCounter, globalTestCounter, queueVars, guardVars, closer, dropped>>

(* The response is stamped; the capture goes on unless recording is paused. *)
EndRequest(r) ==
    /\ status[r] \in {"open", "streaming"}
    /\ Stamp
    /\ end' = [end EXCEPT ![r] = now + 1]
    /\ status' = [status EXCEPT ![r] =
                    IF r \notin QueuedReqs /\ recordingPaused THEN "skipped" ELSE "ended"]
    /\ UNCHANGED <<req, handled, raced, bufferVars, chanVars, countVars, sendVars, start, testName,
                   resolvedAt, checkedAt, testCounter, globalTestCounter, queueVars, guardVars, closer, dropped>>

Capture(r) ==
    /\ r \in HttpReqs /\ status[r] = "ended"
    /\ testCounter' = testCounter + 1
    /\ testName' = [testName EXCEPT ![r] = testCounter + 1]
    /\ ResolveRange(r, r, testCounter + 1, TRUE, r \in Mapped)
    /\ status' = [status EXCEPT ![r] = "resolved"]
    /\ UNCHANGED <<clockVars, arrival, startup, firstReqSeen, chanVars, countVars, start, end,
                   checkedAt, globalTestCounter, queueVars, guardVars, closer>>

CaptureGRPC(r, isDuplicate) ==
    /\ r \in GrpcReqs /\ status[r] = "ended"
    /\ isDuplicate => r \in Duplicates
    /\ globalTestCounter' = globalTestCounter + 1
    /\ testName' = [testName EXCEPT ![r] = globalTestCounter + 1]
    /\ ResolveRange(r, r, globalTestCounter + 1, ~isDuplicate, r \in Mapped)
    /\ status' = [status EXCEPT ![r] = IF isDuplicate THEN "duplicate" ELSE "resolved"]
    /\ UNCHANGED <<clockVars, arrival, startup, firstReqSeen, chanVars, countVars, start, end,
                   checkedAt, testCounter, queueVars, guardVars, closer>>

(* Early returns of the captures: before the window is resolved (filters, parse *)
(* errors, the HTTP size cap), and after it (the gRPC size cap, a done context).*)
SkipCapture(r) ==
    /\ r \notin QueuedReqs
    /\ \/ status[r] = "ended"
       \/ status[r] = "resolved" /\ Idle(r) /\ (r \in GrpcReqs \/ closer # "run")
    /\ status' = [status EXCEPT ![r] = "skipped"]
    /\ UNCHANGED <<clockVars, bufferVars, chanVars, countVars, sendVars, start, end, testName,
                   resolvedAt, checkedAt, testCounter, globalTestCounter, queueVars, guardVars, closer, dropped>>

(* HandleIncoming: the test case goes to the CLI unless pressure overlapped the *)
(* window in its HTTP fields, which a gRPC test case leaves zero.               *)
HandleIncoming(r) ==
    /\ r \notin QueuedReqs /\ status[r] = "resolved" /\ Idle(r)
    /\ LET overlap == r \in HttpReqs /\ WasPressureActiveInWindow(start[r], end[r])
       IN  status' = [status EXCEPT ![r] = IF overlap THEN "suppressed" ELSE "forwarded"]
    /\ checkedAt' = [checkedAt EXCEPT ![r] = now]
    /\ UNCHANGED <<clockVars, bufferVars, chanVars, countVars, sendVars, start, end, testName,
                   resolvedAt, testCounter, globalTestCounter, queueVars, guardVars, closer, dropped>>

-----------------------------------------------------------------------------
(* The dedup queue: dq.mu is held from ResolveJob until the drain stops.    *)

ResolveJob(r, isDuplicate) ==
    /\ r \in QueuedReqs /\ status[r] = "ended" /\ dqOwner = NoOne
    /\ isDuplicate => r \in Duplicates
    /\ job' = [job EXCEPT ![r] = IF isDuplicate THEN "duplicate" ELSE "kept"]
    /\ status' = [status EXCEPT ![r] = "resolved"]
    /\ globalTestCounter' = globalTestCounter + 1
    /\ testName' = [testName EXCEPT ![r] = globalTestCounter + 1]
    /\ dqOwner' = r
    /\ UNCHANGED <<clockVars, bufferVars, chanVars, countVars, sendVars, start, end, resolvedAt,
                   checkedAt, testCounter, queue, guardVars, closer, dropped>>

HeadResolved == queue # <<>> /\ job[Head(queue)] # "none"

DrainHead ==
    /\ dqOwner # NoOne /\ Idle("dedup")
    /\ HeadResolved
    /\ LET head == Head(queue) IN
       \/ /\ job[head] = "duplicate"
          /\ DeleteMocksStrictlyBefore("dedup", start[head])
          /\ UNCHANGED <<resolvedTestCount, recentWindows, resolvedAt>>
       \/ /\ job[head] = "kept"
          /\ ResolveRange("dedup", head, testName[head], TRUE, dqOwner \in Mapped)
    /\ queue' = Tail(queue)
    /\ UNCHANGED <<clockVars, arrival, startup, firstReqSeen, chanVars, countVars, start, end,
                   status, testName, checkedAt, testCounter, globalTestCounter, job, dqOwner, guardVars, closer>>

DrainStop ==
    /\ dqOwner # NoOne /\ Idle("dedup")
    /\ ~HeadResolved
    /\ dqOwner' = NoOne
    /\ UNCHANGED <<clockVars, bufferVars, chanVars, countVars, sendVars, reqVars, queue, job,
                   guardVars, closer, dropped>>

-----------------------------------------------------------------------------
(* The memory guard's applyPausedState: store the flag, read the clock, lock. *)

GuardStore(paused) ==
    /\ guard.pc = "idle" /\ episodes < MaxEpisodes
    /\ paused \/ recordingPaused
    /\ recordingPaused' = paused
    /\ guard' = [guard EXCEPT !.pc = "stored"]
    /\ episodes' = episodes + 1
    /\ UNCHANGED <<clockVars, bufferVars, chanVars, countVars, sendVars, reqVars, queueVars,
                   memoryPause, pressureRanges, closer, dropped>>

GuardReadsClock ==
    /\ guard.pc = "stored"
    /\ Stamp
    /\ guard' = [pc |-> "clocked", clock |-> now + 1]
    /\ UNCHANGED <<req, handled, raced, bufferVars, chanVars, countVars, sendVars, reqVars, queueVars,
                   memoryPause, pressureRanges, recordingPaused, episodes, closer, dropped>>

Wiped(ranges) == {m \in buffer \ startup : PressureActiveAt(ranges, req[m])}

SetMemoryPressure ==
    /\ guard.pc = "clocked"
    /\ LET enabled == recordingPaused
           pruned  == {p \in pressureRanges : p.end = 0 \/ p.end > guard.clock - Horizon}
           opened  == pruned \cup {[start |-> guard.clock, end |-> 0]}
           closed  == {[p EXCEPT !.end = IF @ = 0 THEN guard.clock ELSE @] : p \in pruned}
           ranges  == IF enabled = memoryPause THEN pruned
                      ELSE IF enabled THEN opened ELSE closed
           wiped   == IF enabled THEN Wiped(ranges) ELSE {}
       IN  /\ memoryPause' = enabled
           /\ pressureRanges' = ranges
           /\ buffer' = buffer \ wiped
           /\ dropped' = [m \in Mocks |-> IF m \in wiped THEN "wiped" ELSE dropped[m]]
    /\ guard' = [pc |-> "idle", clock |-> 0]
    /\ UNCHANGED <<clockVars, arrival, startup, firstReqSeen, resolvedTestCount, recentWindows,
                   chanVars, countVars, sendVars, reqVars, queueVars, recordingPaused, episodes, closer>>

-----------------------------------------------------------------------------
(* Shutdown: cancel, wait for the connection handlers, flush, close.        *)

Stop ==
    /\ closer = "run" /\ CanStop
    /\ closer' = "waiting"
    /\ UNCHANGED <<clockVars, bufferVars, chanVars, countVars, sendVars, reqVars, queueVars,
                   guardVars, dropped>>

HandlersDrained ==
    \A m \in Mocks \ (Leaky \cup ConfigMocks) : req[m] # 0 => m \in handled /\ Idle(m)

CloserFlush ==
    /\ closer = "waiting" /\ HandlersDrained
    /\ closer' = "flushed"
    /\ FlushOwnedWindows("closer")
    /\ UNCHANGED <<clockVars, arrival, startup, firstReqSeen, resolvedTestCount, recentWindows,
                   chanVars, countVars, reqVars, queueVars, guardVars>>

CloseOutChan ==
    /\ closer = "flushed" /\ Idle("closer")
    /\ closer' = "closed"
    /\ outState' = "closed"
    /\ UNCHANGED <<clockVars, bufferVars, outChan, received, countVars, sendVars, reqVars,
                   queueVars, guardVars, dropped>>

(* The session is over, or recording waits for traffic beyond the bounds. *)
Finished ==
    /\ closer = "closed" \/ ~CanStop
    /\ outChan = <<>> /\ \A t \in Threads : Idle(t)
    /\ UNCHANGED vars

-----------------------------------------------------------------------------
Next ==
    \/ IdlePeriod \/ Receive \/ TickerFlush \/ DrainHead \/ DrainStop
    \/ \E m \in Mocks : Call(m) \/ AddMock(m) \/ SendConfigMock(m)
    \/ \E t \in Threads : SendToOutChan(t) \/ OfferMappings(t)
    \/ \E r \in Reqs : \/ BeginRequest(r) \/ ReleaseEarly(r) \/ EndRequest(r)
                       \/ Capture(r) \/ SkipCapture(r) \/ HandleIncoming(r)
    \/ \E r \in Reqs, d \in BOOLEAN : CaptureGRPC(r, d) \/ ResolveJob(r, d)
    \/ \E p \in BOOLEAN : GuardStore(p)
    \/ GuardReadsClock \/ SetMemoryPressure
    \/ Stop \/ CloserFlush \/ CloseOutChan \/ Finished

Spec == Init /\ [][Next]_vars

-----------------------------------------------------------------------------
Reasons == {"no", "pressure", "closed", "unsent", "budget", "stale", "duplicate", "debris", "wiped"}
Statuses == {"idle", "open", "streaming", "ended", "resolved", "duplicate", "skipped",
             "suppressed", "forwarded"}
Windows == [owner : Reqs, test : Nat, mapping : BOOLEAN]

ClockType ==
    now \in Nat /\ req \in [Mocks -> Nat] /\ handled \subseteq Mocks /\ raced \subseteq Mocks
BufferType ==
    /\ buffer \subseteq Mocks /\ arrival \in [Mocks -> Nat] /\ startup \subseteq Mocks
    /\ firstReqSeen \in BOOLEAN /\ resolvedTestCount \in Nat
    /\ recentWindows \in Seq(Windows) /\ Len(recentWindows) <= MaxRecent
ChanType ==
    /\ outState \in {"nil", "open", "closed"}
    /\ outChan \in Seq(Mocks) /\ Len(outChan) <= Cap /\ received \in Seq(Mocks)
CountType ==
    totalAdded \in Nat /\ pressureDropped \in Nat /\ dropCount \in Nat /\ outChanClosedDrops \in Nat
SendType ==
    /\ outbox \in [Threads -> SUBSET Mocks]
    /\ pendingMap \in [Threads -> SUBSET (Nat \X Mocks)] /\ mapped \subseteq Nat \X Mocks
ReqType ==
    /\ start \in [Reqs -> Nat] /\ end \in [Reqs -> Nat] /\ status \in [Reqs -> Statuses]
    /\ testName \in [Reqs -> Nat] /\ resolvedAt \in [Reqs -> Nat] /\ checkedAt \in [Reqs -> Nat]
    /\ testCounter \in Nat /\ globalTestCounter \in Nat
QueueType ==
    /\ queue \in Seq(QueuedReqs) /\ job \in [Reqs -> {"none", "kept", "duplicate"}]
    /\ dqOwner \in QueuedReqs \cup {NoOne}
GuardType ==
    /\ memoryPause \in BOOLEAN /\ pressureRanges \subseteq [start : Nat, end : Nat]
    /\ recordingPaused \in BOOLEAN
    /\ guard \in [pc : {"idle", "stored", "clocked"}, clock : Nat] /\ episodes \in Nat
CloserType == closer \in {"run", "waiting", "flushed", "closed"}
DropType == dropped \in [Mocks -> Reasons]

(* Every variable has its type; the ring never outgrows maxRecentWindows and  *)
(* the outgoing channel never outgrows its capacity.                          *)
TypeOK ==
    /\ ClockType /\ BufferType /\ ChanType /\ CountType /\ SendType /\ ReqType
    /\ QueueType /\ GuardType /\ CloserType /\ DropType

Sending(m)  == \E t \in Threads : m \in outbox[t]
In(x, s)    == \E i \in DOMAIN s : s[i] = x
NoRepeat(s) == \A i, j \in DOMAIN s : s[i] = s[j] => i = j
Queued(m)   == In(m, outChan)
Received(m) == In(m, received)
Dropped(m)  == dropped[m] # "no"

OnePlace(m) ==
    /\ m \in handled <=> m \in buffer \/ Sending(m) \/ Queued(m) \/ Received(m) \/ Dropped(m)
    /\ m \in buffer => ~(Sending(m) \/ Queued(m) \/ Received(m) \/ Dropped(m))
    /\ Sending(m) => ~(Queued(m) \/ Received(m) \/ Dropped(m))
    /\ Queued(m) => ~(Received(m) \/ Dropped(m))
    /\ Received(m) => ~Dropped(m)

(* A mock a parser handed over is in exactly one place: the buffer, one thread's *)
(* hands, the channel, the CLI, or dropped. No race of the ticker, the captures, *)
(* the dedup drain and shutdown makes AddMock's mock vanish or arrive twice.     *)
ExactlyOnce ==
    /\ \A m \in Mocks : OnePlace(m)
    /\ \A t, u \in Threads : outbox[t] \cap outbox[u] # {} => t = u
    /\ NoRepeat(outChan) /\ NoRepeat(received)

(* isStartupMock: a mock tagged IsStartup is preserved by every reaper, whether   *)
(* dedup cleanup, a duplicate's window, the stale valve or the pressure wipe.     *)
StartupSurvives ==
    \A m \in startup : dropped[m] \notin {"stale", "duplicate", "debris", "wiped"}

KeptWindow(r) ==
    /\ \E i \in DOMAIN recentWindows : recentWindows[i].owner = r
    /\ status[r] # "duplicate"

(* A per-test mock inside the window of a kept test that is still in the ring is  *)
(* never reaped as stale or as a duplicate's debris, however late it was decoded  *)
(* and whatever duplicates were cleaned up since, when the window was resolved    *)
(* within the staleness horizon of the mock's request.                            *)
KeptMockSurvives ==
    \A r \in Reqs, m \in handled \ Reusable :
       KeptWindow(r) /\ InWindow(m, r) /\ resolvedAt[r] <= req[m] + Horizon
          => dropped[m] \notin {"stale", "duplicate", "debris"}

(* No reaper takes a mock that the recording needs: not one of the startup corpus *)
(* and not one of a kept test, whatever the dedup queue resolves around it.       *)
MocksSurvive == StartupSurvives /\ KeptMockSurvives

(* A test case that reached the CLI, checked within the staleness horizon of its  *)
(* start, lost a mock of its window to memory pressure.                           *)
Orphaned(r, m) ==
    /\ status[r] = "forwarded" /\ InWindow(m, r) /\ checkedAt[r] <= start[r] + Horizon
    /\ dropped[m] \in {"pressure", "wiped"}

(* The TC-send path of routes/record.go: no HTTP test case reaches the CLI with a *)
(* mock of its window lost to memory pressure, before or after it was sent,       *)
(* however late its mocks are decoded. Two cases are outside: a gRPC test case,   *)
(* whose window is not in the fields the path reads, and a mock stamped while     *)
(* SetMemoryPressure(false) stood between its clock reading and m.mu.             *)
OrphanFree == \A r \in HttpReqs, m \in handled \ raced : ~Orphaned(r, m)

(* What the comments of the path say: the check is "race-free regardless of when  *)
(* the mock's goroutine runs relative to this handler".                           *)
CheckIsRaceFree == \A r \in HttpReqs, m \in handled : ~Orphaned(r, m)

(* A mapping entry names a test that was kept and whose window holds the mock,    *)
(* also when the mock was binned into the window after it had been resolved.      *)
MappingSound ==
    \A p \in mapped : \E r \in Mapped :
       /\ testName[r] = p[1] /\ InWindow(p[2], r)
       /\ status[r] # "duplicate"

(* What the ticker and the shutdown still have to do: while recording is live,    *)
(* a buffered mock that belongs to a resolved window; from the stop on, whatever  *)
(* keeps the channel open, the stream undrained or mocks in a goroutine's hands.  *)
Unsettled ==
    IF closer = "run" THEN \E m \in buffer : Owned(m)
    ELSE closer # "closed" \/ outChan # <<>> \/ \E t \in Threads : ~Idle(t)

=============================================================================

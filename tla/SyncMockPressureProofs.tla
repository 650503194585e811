----------------------- MODULE SyncMockPressureProofs -----------------------
(***************************************************************************)
(* Memory pressure and the test cases that reach the CLI, for any sets of  *)
(* mocks and requests and any bounds: HandleIncoming suppresses every HTTP *)
(* test case whose window lost a mock to pressure, and none loses one      *)
(* after it has been sent, unless the mock was stamped while the end of    *)
(* pressure waited for m.mu.                                               *)
(*                                                                         *)
(* The argument follows a lost mock: the range of pressure that took it is *)
(* still known, or the mock is older than the staleness horizon (ShedInv); *)
(* and a window that was sent overlaps no known range, nor will it: a      *)
(* range opens at the guard's clock reading, and a response stamped later  *)
(* than that reading finds recording paused (ClockedInv, ClearInv).        *)
(***************************************************************************)
EXTENDS SyncMockReapProofs

(* The statuses of a request whose test case may reach the CLI. *)
Live == {"ended", "resolved", "forwarded"}

StampInv ==
    /\ \A r \in Reqs : start[r] <= now /\ end[r] <= now
    /\ \A r \in Reqs : status[r] # "idle" => start[r] # 0
    /\ \A r \in Reqs : status[r] \in Live => end[r] # 0
    /\ \A m \in Mocks : req[m] <= now
    /\ \A m \in handled : req[m] # 0

(* While the guard waits for the lock, its clock reading separates the     *)
(* mocks and the responses stamped before it from those stamped after it.  *)
ClockedInv ==
    guard.pc = "clocked" =>
        /\ guard.clock <= now
        /\ \A m \in Mocks : req[m] # guard.clock
        /\ Releasing => \A m \in Mocks \ raced : req[m] < guard.clock
        /\ recordingPaused => \A r \in HttpReqs : status[r] \in Live => end[r] < guard.clock

RangeInv ==
    \A p \in pressureRanges :
        p.end <= now /\ (p.end # 0 => \A m \in Mocks : req[m] # p.end)

Covers(p, m) == p.start <= req[m] /\ (p.end = 0 \/ req[m] < p.end)
Covered(m) == \E p \in pressureRanges : Covers(p, m)
Shed(m) == dropped[m] \in {"pressure", "wiped"}

ShedInv ==
    \A m \in Mocks \ raced :
        Shed(m) => m \in handled /\ (Covered(m) \/ req[m] + Horizon < now)

Clear(p, r) == end[r] < p.start \/ (p.end # 0 /\ p.end < start[r])
ClearInv == \A r \in HttpReqs : status[r] = "forwarded" => \A p \in pressureRanges : Clear(p, r)

PressureInv == StampInv /\ ClockedInv /\ RangeInv /\ ShedInv /\ ClearInv /\ OrphanFree

-----------------------------------------------------------------------------
(* ResolveRange drops mocks as stale or as a duplicate's, never under pressure. *)
LEMMA ResolveReasons ==
    ASSUME NEW t, NEW r, NEW test, NEW keep, NEW mapping, ResolveRange(t, r, test, keep, mapping),
           NEW m \in Mocks
    PROVE  dropped'[m] \in {dropped[m], "stale", "duplicate"}
<1> DEFINE matched == {x \in PerTest(buffer) : InWindow(x, r)}
           late    == {x \in PerTest(buffer) \ matched : Owned(x)}
           other   == PerTest(buffer) \ (matched \cup late)
           stale   == {x \in other \ startup : req[x] < now - Horizon}
           reaped  == IF keep THEN {} ELSE late \cup (matched \ startup)
           reason  == [x \in Mocks |-> IF x \in stale THEN "stale" ELSE "duplicate"]
<1>1. dropped' = [x \in Mocks |-> IF x \in stale \cup reaped THEN reason[x] ELSE dropped[x]]
  BY Zenon DEF ResolveRange, Sweep
<1> HIDE DEF stale, reaped
<1>2. QED BY Zenon, <1>1

(* A mock is lost to pressure at the gate of AddMock or in the wipe of     *)
(* SetMemoryPressure.                                                      *)
LEMMA ShedSteps ==
    ASSUME TypeOK, [Next]_vars, NEW m \in Mocks, Shed(m)'
    PROVE  \/ dropped'[m] = dropped[m]
           \/ AddMock(m) /\ PressureGate(m)
           \/ SetMemoryPressure
<1> DEFINE Goal == \/ dropped'[m] = dropped[m]
                   \/ AddMock(m) /\ PressureGate(m)
                   \/ SetMemoryPressure
<1> SUFFICES Goal
  BY Zenon
<1>a. dropped \in [Mocks -> Reasons]
  BY Zenon DEF TypeOK, DropType
<1>b. dropped'[m] \notin {"stale", "duplicate", "debris", "closed", "unsent", "budget"}
  BY DEF Shed
<1>c. ASSUME dropped' = dropped PROVE Goal
  BY Zenon, <1>c
<1>d. ASSUME dropped'[m] \in {dropped[m], "stale", "duplicate"} PROVE Goal
  BY Zenon, <1>b, <1>d
<1>1. CASE IdlePeriod \/ Receive \/ DrainStop \/ GuardReadsClock \/ Stop \/ CloseOutChan \/ Finished
             \/ UNCHANGED vars
  BY Zenon, <1>c, <1>1 DEF IdlePeriod, Receive, DrainStop, GuardReadsClock, Stop, CloseOutChan,
                    Finished, vars
<1>2. ASSUME NEW x \in Mocks, Call(x) \/ SendConfigMock(x) PROVE Goal
  BY Zenon, <1>c, <1>2 DEF Call, SendConfigMock
<1>3. ASSUME NEW x \in Mocks, AddMock(x) PROVE Goal
  <2>1. \/ PressureGate(x) /\ dropped' = [dropped EXCEPT ![x] = "pressure"]
        \/ dropped' = [dropped EXCEPT ![x] = "closed"]
        \/ dropped' = dropped
    BY Zenon, <1>3 DEF AddMock
  <2>2. QED BY Zenon, <1>3, <1>a, <1>b, <2>1
<1>4. ASSUME NEW t \in Threads, SendToOutChan(t) PROVE Goal
  <2>1. PICK x : dropped' \in {dropped, [dropped EXCEPT ![x] = "unsent"], [dropped EXCEPT ![x] = "budget"]}
    BY Zenon, <1>4 DEF SendToOutChan
  <2>2. QED BY Zenon, <1>a, <1>b, <2>1
<1>5. ASSUME NEW t \in Threads, OfferMappings(t) PROVE Goal
  BY Zenon, <1>c, <1>5 DEF OfferMappings
<1>6. CASE TickerFlush \/ CloserFlush
  BY Zenon, <1>6, FlushDrops DEF TickerFlush, CloserFlush
<1>7. CASE DrainHead
  <2>1. CASE DeleteMocksStrictlyBefore("dedup", start[Head(queue)])
    BY Zenon, <1>b, <2>1, DeleteDrops
  <2>2. CASE \E r, test, mapping : ResolveRange("dedup", r, test, TRUE, mapping)
    BY Zenon, <1>d, <2>2, ResolveReasons
  <2>3. QED BY Zenon, <1>7, <2>1, <2>2 DEF DrainHead
<1>8. ASSUME NEW r \in Reqs, BeginRequest(r) \/ ReleaseEarly(r) \/ EndRequest(r) \/ SkipCapture(r)
                             \/ HandleIncoming(r)
      PROVE  Goal
  BY Zenon, <1>c, <1>8 DEF BeginRequest, ReleaseEarly, EndRequest, SkipCapture, HandleIncoming
<1>9. ASSUME NEW r \in Reqs, Capture(r) PROVE Goal
  BY Zenon, <1>d, <1>9, ResolveReasons DEF Capture
<1>10. ASSUME NEW r \in Reqs, NEW d \in BOOLEAN, CaptureGRPC(r, d) PROVE Goal
  BY Zenon, <1>d, <1>10, ResolveReasons DEF CaptureGRPC
<1>11. ASSUME NEW r \in Reqs, NEW d \in BOOLEAN, ResolveJob(r, d) PROVE Goal
  BY Zenon, <1>c, <1>11 DEF ResolveJob
<1>12. ASSUME NEW p \in BOOLEAN, GuardStore(p) PROVE Goal
  BY Zenon, <1>c, <1>12 DEF GuardStore
<1>13. CASE SetMemoryPressure
  BY Zenon, <1>13
<1> HIDE DEF Goal
<1> QED BY <1>1, <1>2, <1>3, <1>4, <1>5, <1>6, <1>7, <1>8, <1>9, <1>10, <1>11, <1>12, <1>13, Zenon
       DEF Next

(* What a step does to a window: it opens once, and a response is stamped   *)
(* once, before the window is resolved; when recording is paused only the   *)
(* dedup queue goes on with it.                                             *)
LEMMA ResponseSteps ==
    ASSUME TypeOK, [Next]_vars, NEW r \in Reqs
    PROVE  /\ end'[r] = end[r] \/ (status[r] \in {"open", "streaming"} /\ end'[r] = now + 1 /\ Stamp)
           /\ start'[r] = start[r] \/ (status[r] = "idle" /\ start'[r] = now + 1 /\ Stamp)
           /\ status'[r] # "idle" => status[r] # "idle" \/ start'[r] = now + 1
           /\ status'[r] \in Live =>
                 \/ status[r] \in Live /\ end'[r] = end[r]
                 \/ end'[r] = now + 1 /\ (r \in QueuedReqs \/ ~recordingPaused)
           /\ status'[r] = "forwarded" =>
                 (status[r] = "forwarded" /\ checkedAt'[r] = checkedAt[r]) \/ HandleIncoming(r)
<1> DEFINE Goal ==
           /\ end'[r] = end[r] \/ (status[r] \in {"open", "streaming"} /\ end'[r] = now + 1 /\ Stamp)
           /\ start'[r] = start[r] \/ (status[r] = "idle" /\ start'[r] = now + 1 /\ Stamp)
           /\ status'[r] # "idle" => status[r] # "idle" \/ start'[r] = now + 1
           /\ status'[r] \in Live =>
                 \/ status[r] \in Live /\ end'[r] = end[r]
                 \/ end'[r] = now + 1 /\ (r \in QueuedReqs \/ ~recordingPaused)
           /\ status'[r] = "forwarded" =>
                 (status[r] = "forwarded" /\ checkedAt'[r] = checkedAt[r]) \/ HandleIncoming(r)
<1> SUFFICES Goal
  BY Zenon
<1>a. /\ status \in [Reqs -> Statuses] /\ start \in [Reqs -> Nat] /\ end \in [Reqs -> Nat]
      /\ checkedAt \in [Reqs -> Nat]
  BY Zenon DEF TypeOK, ReqType
<1>b. ASSUME UNCHANGED <<start, end, status, checkedAt>> PROVE Goal
  BY Zenon, <1>b
<1>c. ASSUME start' = start, end' = end, checkedAt' = checkedAt, NEW q \in Reqs, NEW st,
             status' = [status EXCEPT ![q] = st], status[q] # "idle", st # "forwarded",
             st \in Live => status[q] \in Live
      PROVE  Goal
  BY Zenon, <1>a, <1>c
<1>1. CASE IdlePeriod \/ Receive \/ TickerFlush \/ DrainHead \/ DrainStop \/ GuardReadsClock
             \/ SetMemoryPressure \/ Stop \/ CloserFlush \/ CloseOutChan \/ Finished \/ UNCHANGED vars
  BY Zenon, <1>b, <1>1 DEF IdlePeriod, Receive, TickerFlush, DrainHead, DrainStop, GuardReadsClock,
                    SetMemoryPressure, Stop, CloserFlush, CloseOutChan, Finished, vars, reqVars
<1>2. ASSUME NEW x \in Mocks, Call(x) \/ AddMock(x) \/ SendConfigMock(x) PROVE Goal
  BY Zenon, <1>b, <1>2 DEF Call, AddMock, SendConfigMock, reqVars
<1>3. ASSUME NEW t \in Threads, SendToOutChan(t) \/ OfferMappings(t) PROVE Goal
  BY Zenon, <1>b, <1>3 DEF SendToOutChan, OfferMappings, reqVars
<1>4. ASSUME NEW p \in BOOLEAN, GuardStore(p) PROVE Goal
  BY Zenon, <1>b, <1>4 DEF GuardStore, reqVars
<1>5. ASSUME NEW q \in Reqs, BeginRequest(q) PROVE Goal
  <2>1. PICK st \in {"skipped", "streaming", "open"} : status' = [status EXCEPT ![q] = st]
    BY Zenon, <1>5 DEF BeginRequest
  <2>2. /\ end' = end /\ checkedAt' = checkedAt /\ start' = [start EXCEPT ![q] = now + 1]
        /\ status[q] = "idle" /\ Stamp
    BY Zenon, <1>5 DEF BeginRequest
  <2>3. st \notin Live /\ st # "forwarded"
    BY <2>1 DEF Live
  <2>4. CASE r = q
    BY Zenon, <1>a, <2>1, <2>2, <2>3, <2>4
  <2>5. CASE r # q
    BY Zenon, <1>a, <2>1, <2>2, <2>5
  <2>6. QED BY Zenon, <2>4, <2>5
<1>6. ASSUME NEW q \in Reqs, ReleaseEarly(q) \/ SkipCapture(q) PROVE Goal
  <2>1. PICK st \in {"skipped", "streaming"} : status' = [status EXCEPT ![q] = st]
    BY Zenon, <1>6 DEF ReleaseEarly, SkipCapture
  <2>2. /\ start' = start /\ end' = end /\ checkedAt' = checkedAt
        /\ status[q] \in {"open", "ended", "resolved"}
    BY Zenon, <1>6 DEF ReleaseEarly, SkipCapture
  <2>3. st # "forwarded" /\ st \notin Live /\ status[q] # "idle"
    BY <2>1, <2>2 DEF Live
  <2>4. QED BY Zenon, <1>c, <2>1, <2>2, <2>3
<1>7. ASSUME NEW q \in Reqs, EndRequest(q) PROVE Goal
  <2>1. /\ end' = [end EXCEPT ![q] = now + 1] /\ checkedAt' = checkedAt /\ start' = start /\ Stamp
        /\ status[q] \in {"open", "streaming"}
    BY Zenon, <1>7 DEF EndRequest
  <2>2. PICK st \in {"skipped", "ended"} :
          /\ status' = [status EXCEPT ![q] = st]
          /\ st = "ended" => q \in QueuedReqs \/ ~recordingPaused
    <3>1. CASE q \notin QueuedReqs /\ recordingPaused
      <4>1. status' = [status EXCEPT ![q] = "skipped"]
        BY Zenon, <1>7, <3>1 DEF EndRequest
      <4>2. "skipped" # "ended"
        OBVIOUS
      <4>3. QED BY Zenon, <4>1, <4>2
    <3>2. CASE ~(q \notin QueuedReqs /\ recordingPaused)
      <4>1. status' = [status EXCEPT ![q] = "ended"]
        BY Zenon, <1>7, <3>2 DEF EndRequest
      <4>2. QED BY Zenon, <3>2, <4>1
    <3>3. QED BY Zenon, <3>1, <3>2
  <2>3. st # "forwarded" /\ (st \in Live => st = "ended") /\ status[q] # "idle"
    BY <2>1, <2>2 DEF Live
  <2>4. CASE r = q
    BY Zenon, <1>a, <2>1, <2>2, <2>3, <2>4
  <2>5. CASE r # q
    BY Zenon, <1>a, <2>1, <2>2, <2>5
  <2>6. QED BY Zenon, <2>4, <2>5
<1>8. ASSUME NEW q \in Reqs, NEW d \in BOOLEAN, Capture(q) \/ CaptureGRPC(q, d) \/ ResolveJob(q, d)
      PROVE Goal
  <2>1. PICK st \in {"resolved", "duplicate"} : status' = [status EXCEPT ![q] = st]
    BY Zenon, <1>8 DEF Capture, CaptureGRPC, ResolveJob
  <2>2. start' = start /\ end' = end /\ checkedAt' = checkedAt /\ status[q] = "ended"
    BY Zenon, <1>8 DEF Capture, CaptureGRPC, ResolveJob
  <2>3. st # "forwarded" /\ status[q] \in Live /\ status[q] # "idle"
    BY <2>1, <2>2 DEF Live
  <2>4. QED BY Zenon, <1>c, <2>1, <2>2, <2>3
<1>9. ASSUME NEW q \in Reqs, HandleIncoming(q) PROVE Goal
  <2>1. /\ start' = start /\ end' = end /\ checkedAt' = [checkedAt EXCEPT ![q] = now]
        /\ status[q] = "resolved"
    BY Zenon, <1>9 DEF HandleIncoming
  <2>2. PICK st \in {"suppressed", "forwarded"} : status' = [status EXCEPT ![q] = st]
    BY Zenon, <1>9 DEF HandleIncoming
  <2>3. status[q] \in Live /\ status[q] # "idle"
    BY <2>1 DEF Live
  <2>4. CASE r = q
    BY Zenon, <1>9, <1>a, <2>1, <2>2, <2>3, <2>4
  <2>5. CASE r # q
    BY Zenon, <1>a, <2>1, <2>2, <2>5
  <2>6. QED BY Zenon, <2>4, <2>5
<1> HIDE DEF Goal
<1> QED BY <1>1, <1>2, <1>3, <1>4, <1>5, <1>6, <1>7, <1>8, <1>9, Zenon DEF Next

(* What a step does to the guard, to the ranges of pressure and to the      *)
(* stamps of the mocks.                                                     *)
LEMMA GuardSteps ==
    ASSUME TypeOK, [Next]_vars
    PROVE  /\ guard'.pc = "clocked" =>
                 UNCHANGED <<guard, memoryPause, recordingPaused>> \/ GuardReadsClock
           /\ pressureRanges' = pressureRanges \/ SetMemoryPressure
           /\ raced \subseteq raced'
           /\ \A m \in Mocks : req'[m] = req[m] \/ (Stamp /\ req'[m] = now + 1 /\ (Releasing => m \in raced'))
<1> DEFINE Goal ==
           /\ guard'.pc = "clocked" =>
                 UNCHANGED <<guard, memoryPause, recordingPaused>> \/ GuardReadsClock
           /\ pressureRanges' = pressureRanges \/ SetMemoryPressure
           /\ raced \subseteq raced'
           /\ \A m \in Mocks : req'[m] = req[m] \/ (Stamp /\ req'[m] = now + 1 /\ (Releasing => m \in raced'))
<1> SUFFICES Goal
  BY Zenon
<1>a. /\ guard \in [pc : {"idle", "stored", "clocked"}, clock : Nat] /\ req \in [Mocks -> Nat]
  BY Zenon DEF TypeOK, GuardType, ClockType
<1>b. ASSUME UNCHANGED <<guard, memoryPause, recordingPaused, pressureRanges, req, raced>> PROVE Goal
  BY Zenon, <1>b
<1>1. CASE Receive \/ TickerFlush \/ DrainHead \/ DrainStop \/ Stop \/ CloserFlush \/ CloseOutChan
             \/ Finished \/ UNCHANGED vars
  BY Zenon, <1>b, <1>1 DEF Receive, TickerFlush, DrainHead, DrainStop, Stop, CloserFlush, CloseOutChan,
                    Finished, vars, guardVars, clockVars
<1>2. ASSUME NEW m \in Mocks, AddMock(m) \/ SendConfigMock(m) PROVE Goal
  BY Zenon, <1>b, <1>2 DEF AddMock, SendConfigMock, guardVars
<1>3. ASSUME NEW t \in Threads, SendToOutChan(t) \/ OfferMappings(t) PROVE Goal
  BY Zenon, <1>b, <1>3 DEF SendToOutChan, OfferMappings, guardVars, clockVars
<1>4. ASSUME NEW r \in Reqs, ReleaseEarly(r) \/ Capture(r) \/ SkipCapture(r) \/ HandleIncoming(r)
      PROVE  Goal
  BY Zenon, <1>b, <1>4 DEF ReleaseEarly, Capture, SkipCapture, HandleIncoming, guardVars, clockVars
<1>5. ASSUME NEW r \in Reqs, NEW d \in BOOLEAN, CaptureGRPC(r, d) \/ ResolveJob(r, d) PROVE Goal
  BY Zenon, <1>b, <1>5 DEF CaptureGRPC, ResolveJob, guardVars, clockVars
<1>6. ASSUME NEW m \in Mocks, Call(m) PROVE Goal
  <2>1. /\ UNCHANGED <<guard, memoryPause, recordingPaused, pressureRanges>> /\ Stamp
        /\ req' = [req EXCEPT ![m] = now + 1]
        /\ raced \subseteq raced' /\ (Releasing => m \in raced')
    BY Zenon, <1>6 DEF Call, guardVars
  <2>2. QED BY Zenon, <1>a, <2>1
<1>7. ASSUME NEW r \in Reqs, BeginRequest(r) \/ EndRequest(r) PROVE Goal
  BY Zenon, <1>b, <1>7 DEF BeginRequest, EndRequest, guardVars
<1>8. CASE IdlePeriod
  BY Zenon, <1>b, <1>8 DEF IdlePeriod, guardVars
<1>9. CASE GuardReadsClock
  BY Zenon, <1>9 DEF GuardReadsClock
<1>10. CASE SetMemoryPressure
  <2>1. guard' = [pc |-> "idle", clock |-> 0] /\ req' = req /\ raced' = raced
    BY Zenon, <1>10 DEF SetMemoryPressure, clockVars
  <2>2. guard'.pc # "clocked"
    BY <2>1
  <2>3. QED BY Zenon, <1>10, <2>1, <2>2
<1>11. ASSUME NEW p \in BOOLEAN, GuardStore(p) PROVE Goal
  <2>1. /\ guard' = [guard EXCEPT !.pc = "stored"] /\ req' = req /\ raced' = raced
        /\ pressureRanges' = pressureRanges
    BY Zenon, <1>11 DEF GuardStore, clockVars
  <2>2. guard'.pc # "clocked"
    BY <1>a, <2>1
  <2>3. QED BY Zenon, <2>1, <2>2
<1> HIDE DEF Goal
<1> QED BY <1>1, <1>2, <1>3, <1>4, <1>5, <1>6, <1>7, <1>8, <1>9, <1>10, <1>11, Zenon DEF Next

-----------------------------------------------------------------------------
(* The facts that need the clock's arithmetic.                             *)

(* Stamps are never ahead of the clock.                                    *)
LEMMA StampStep ==
    ASSUME TypeOK, StampInv, [Next]_vars
    PROVE  StampInv'
<1>1. /\ now \in Nat /\ now' \in Nat /\ now <= now' /\ req \in [Mocks -> Nat]
      /\ start \in [Reqs -> Nat] /\ end \in [Reqs -> Nat] /\ handled' \subseteq Mocks
  BY Zenon, TypeInductive, ClockSteps DEF TypeOK, ClockType, ReqType
<1>2. now + 1 # 0 /\ (Stamp => now' = now + 1)
  BY <1>1 DEF Stamp, Advance
<1>3. ASSUME NEW r \in Reqs
      PROVE  start'[r] <= now' /\ end'[r] <= now'
  <2>1. start'[r] = start[r] \/ start'[r] = now'
    BY Zenon, <1>2, ResponseSteps
  <2>2. end'[r] = end[r] \/ end'[r] = now'
    BY Zenon, <1>2, ResponseSteps
  <2>3. start[r] \in Nat /\ end[r] \in Nat /\ start[r] <= now /\ end[r] <= now
    BY Zenon, <1>1 DEF StampInv
  <2>4. QED BY <1>1, <2>1, <2>2, <2>3
<1>4. ASSUME NEW r \in Reqs, status'[r] \in Live
      PROVE  end'[r] # 0
  <2>1. (status[r] \in Live /\ end'[r] = end[r]) \/ end'[r] = now + 1
    BY Zenon, <1>4, ResponseSteps
  <2>2. QED BY Zenon, <1>2, <2>1 DEF StampInv
<1>5. ASSUME NEW r \in Reqs, status'[r] # "idle"
      PROVE  start'[r] # 0
  <2>1. status[r] # "idle" \/ start'[r] = now + 1
    BY Zenon, <1>5, ResponseSteps
  <2>2. start'[r] = start[r] \/ start'[r] = now + 1
    BY Zenon, ResponseSteps
  <2>3. QED BY Zenon, <1>2, <2>1, <2>2 DEF StampInv
<1>6. ASSUME NEW m \in Mocks
      PROVE  req'[m] <= now'
  <2>1. req'[m] = req[m] \/ req'[m] = now'
    BY Zenon, ClockSteps
  <2>2. req[m] \in Nat /\ req[m] <= now
    BY Zenon, <1>1 DEF StampInv
  <2>3. QED BY <1>1, <2>1, <2>2
<1>7. ASSUME NEW m \in handled'
      PROVE  req'[m] # 0
  <2>1. m \in Mocks /\ req[m] # 0
    BY Zenon, <1>1, ClockSteps DEF StampInv
  <2>2. QED BY Zenon, <2>1, ClockSteps
<1>8. QED BY Zenon, <1>3, <1>4, <1>5, <1>6, <1>7 DEF StampInv

(* The guard's clock reading lies between the stamps taken before and after it. *)
LEMMA ClockedStep ==
    ASSUME TypeOK, StampInv, ClockedInv, [Next]_vars
    PROVE  ClockedInv'
<1> SUFFICES ASSUME guard'.pc = "clocked"
             PROVE  /\ guard'.clock <= now'
                    /\ \A m \in Mocks : req'[m] # guard'.clock
                    /\ Releasing' => \A m \in Mocks \ raced' : req'[m] < guard'.clock
                    /\ recordingPaused' =>
                          \A r \in HttpReqs : status'[r] \in Live => end'[r] < guard'.clock
  BY Zenon DEF ClockedInv
<1>1. /\ now \in Nat /\ now' \in Nat /\ now <= now' /\ req \in [Mocks -> Nat] /\ end \in [Reqs -> Nat]
      /\ guard \in [pc : {"idle", "stored", "clocked"}, clock : Nat]
      /\ HttpReqs \subseteq Reqs
  BY Zenon, TypeInductive, ClockSteps DEF TypeOK, ClockType, ReqType, GuardType, Reqs
<1>2. CASE UNCHANGED <<guard, memoryPause, recordingPaused>>
  <2>1. /\ guard.pc = "clocked" /\ guard.clock <= now /\ (Releasing' <=> Releasing)
        /\ \A m \in Mocks : req[m] # guard.clock
    BY Zenon, <1>2 DEF ClockedInv, Releasing
  <2>2. guard.clock \in Nat
    BY <1>1
  <2>3. guard.clock <= now' /\ guard.clock # now + 1
    BY <1>1, <2>1, <2>2
  <2>4. \A m \in Mocks : req'[m] # guard.clock
    BY Zenon, <2>1, <2>3, GuardSteps
  <2>5. ASSUME Releasing, NEW m \in Mocks \ raced' PROVE req'[m] < guard.clock
    BY Zenon, <2>1, <2>5, GuardSteps DEF ClockedInv
  <2>6. ASSUME recordingPaused, NEW r \in HttpReqs, status'[r] \in Live PROVE end'[r] < guard.clock
    <3>1. r \in Reqs /\ r \notin QueuedReqs
      BY Zenon, <1>1, DistinctAssumption
    <3>2. status[r] \in Live /\ end'[r] = end[r]
      BY Zenon, <2>6, <3>1, ResponseSteps
    <3>3. QED BY Zenon, <2>1, <2>6, <3>2 DEF ClockedInv
  <2>7. QED BY Zenon, <1>2, <2>1, <2>3, <2>4, <2>5, <2>6
<1>3. CASE GuardReadsClock
  <2>1. /\ guard' = [pc |-> "clocked", clock |-> now + 1] /\ now' = now + 1
        /\ req' = req /\ end' = end
    BY Zenon, <1>3 DEF GuardReadsClock, Stamp, Advance, reqVars
  <2>2. guard'.clock = now + 1 /\ guard'.clock <= now'
    BY <1>1, <2>1
  <2>3. \A m \in Mocks : req[m] \in Nat /\ req[m] <= now
    BY Zenon, <1>1 DEF StampInv
  <2>4. \A r \in Reqs : end[r] \in Nat /\ end[r] <= now
    BY Zenon, <1>1 DEF StampInv
  <2>5. \A n \in Nat : n <= now => n < now + 1 /\ n # now + 1
    BY <1>1
  <2>6. QED BY Zenon, <1>1, <2>1, <2>2, <2>3, <2>4, <2>5
<1>4. QED BY Zenon, <1>2, <1>3, GuardSteps

-----------------------------------------------------------------------------
(* How the ranges change: SetMemoryPressure opens one at its clock reading,*)
(* closes the open one there, or prunes those that ended a horizon ago.    *)
Opens(p) ==
    guard.pc = "clocked" /\ recordingPaused /\ p.start = guard.clock /\ p.end = 0
Closes(p, q) == Releasing /\ q.end = 0 /\ p.start = q.start /\ p.end = guard.clock

LEMMA PressureSets ==
    ASSUME TypeOK, ClockedInv, SetMemoryPressure
    PROVE  /\ \A p \in pressureRanges' :
                 p \in pressureRanges \/ Opens(p) \/ \E q \in pressureRanges : Closes(p, q)
           /\ \A q \in pressureRanges :
                 \/ q \in pressureRanges' \/ \E p \in pressureRanges' : Closes(p, q)
                 \/ q.end # 0 /\ q.end <= now - Horizon
<1> DEFINE pruned == {p \in pressureRanges : p.end = 0 \/ p.end > guard.clock - Horizon}
           opened == pruned \cup {[start |-> guard.clock, end |-> 0]}
           shut(p) == [p EXCEPT !.end = IF p.end = 0 THEN guard.clock ELSE p.end]
           closed == {shut(p) : p \in pruned}
<1>1. /\ pressureRanges \subseteq [start : Nat, end : Nat] /\ now \in Nat /\ Horizon \in Nat
      /\ guard.clock <= now /\ guard.pc = "clocked" /\ memoryPause \in BOOLEAN /\ recordingPaused \in BOOLEAN
      /\ guard \in [pc : {"idle", "stored", "clocked"}, clock : Nat]
  BY Zenon, BoundsAssumption DEF TypeOK, ClockType, GuardType, ClockedInv, SetMemoryPressure
<1>2. \/ pressureRanges' = pruned
      \/ pressureRanges' = opened /\ recordingPaused
      \/ pressureRanges' = closed /\ Releasing
  BY Zenon, <1>1 DEF SetMemoryPressure, Releasing
<1>3. ASSUME Releasing, NEW p \in pressureRanges
      PROVE  (shut(p) = p \/ Closes(shut(p), p)) /\ (p.end = 0 => Closes(shut(p), p))
  <2>1. p \in [start : Nat, end : Nat]
    BY Zenon, <1>1
  <2>2. CASE p.end = 0
    BY <1>1, <1>3, <2>1, <2>2 DEF Closes
  <2>3. CASE p.end # 0
    BY <2>1, <2>3
  <2>4. QED BY Zenon, <2>2, <2>3
<1>4. \A p \in pressureRanges : p \notin pruned => p.end # 0 /\ p.end <= now - Horizon
  <2> SUFFICES ASSUME NEW p \in pressureRanges, p \notin pruned
               PROVE  p.end # 0 /\ p.end <= now - Horizon
    BY Zenon
  <2>1. p.end # 0 /\ ~(p.end > guard.clock - Horizon)
    BY Zenon, <1>1
  <2>2. p.end \in Nat /\ guard.clock \in Nat
    BY <1>1
  <2>3. QED BY <1>1, <2>1, <2>2
<1>5. recordingPaused => Opens([start |-> guard.clock, end |-> 0])
  BY <1>1 DEF Opens
<1>6. pruned \subseteq pressureRanges
  BY Zenon
<1> HIDE DEF pruned, shut
<1>7. CASE pressureRanges' = pruned
  BY Zenon, <1>4, <1>6, <1>7
<1>8. CASE pressureRanges' = opened /\ recordingPaused
  BY Zenon, <1>4, <1>5, <1>6, <1>8
<1>9. CASE pressureRanges' = closed /\ Releasing
  BY Zenon, <1>3, <1>4, <1>6, <1>9
<1>10. QED BY Zenon, <1>2, <1>7, <1>8, <1>9

LEMMA RangeSteps ==
    ASSUME TypeOK, ClockedInv, [Next]_vars
    PROVE  /\ \A p \in pressureRanges' :
                 p \in pressureRanges \/ Opens(p) \/ \E q \in pressureRanges : Closes(p, q)
           /\ \A q \in pressureRanges :
                 \/ q \in pressureRanges' \/ \E p \in pressureRanges' : Closes(p, q)
                 \/ q.end # 0 /\ q.end <= now - Horizon
<1>1. CASE pressureRanges' = pressureRanges
  BY Zenon, <1>1
<1>2. CASE SetMemoryPressure
  BY Zenon, <1>2, PressureSets
<1>3. QED BY Zenon, <1>1, <1>2, GuardSteps

(* A closed range ends at a moment of its own.                             *)
LEMMA RangeStep ==
    ASSUME TypeOK, ClockedInv, RangeInv, [Next]_vars
    PROVE  RangeInv'
<1> SUFFICES ASSUME NEW p \in pressureRanges'
             PROVE  p.end <= now' /\ (p.end # 0 => \A m \in Mocks : req'[m] # p.end)
  BY Zenon DEF RangeInv
<1>1. now \in Nat /\ now' \in Nat /\ now <= now' /\ p.end \in Nat
  <2>1. TypeOK'
    BY Zenon, TypeInductive
  <2>2. p \in [start : Nat, end : Nat]
    BY Zenon, <2>1 DEF TypeOK, GuardType
  <2>3. p.end \in Nat
    BY <2>2
  <2>4. QED BY Zenon, <2>1, <2>3, ClockSteps DEF TypeOK, ClockType
<1>2. ASSUME p.end <= now, \A m \in Mocks : req[m] # p.end
      PROVE  p.end <= now' /\ (p.end # 0 => \A m \in Mocks : req'[m] # p.end)
  <2>1. p.end <= now' /\ p.end # now + 1
    BY <1>1, <1>2
  <2>2. QED BY Zenon, <1>2, <2>1, GuardSteps
<1>3. CASE p.end = 0
  BY <1>1, <1>3
<1>4. CASE p \in pressureRanges /\ p.end # 0
  BY Zenon, <1>2, <1>4 DEF RangeInv
<1>5. ASSUME NEW q \in pressureRanges, Closes(p, q)
      PROVE  p.end <= now' /\ (p.end # 0 => \A m \in Mocks : req'[m] # p.end)
  BY Zenon, <1>2, <1>5 DEF Closes, Releasing, ClockedInv
<1>6. CASE Opens(p)
  BY Zenon, <1>3, <1>6 DEF Opens
<1>7. QED BY Zenon, <1>3, <1>4, <1>5, <1>6, RangeSteps

(* A mock that pressure takes is covered by the range that took it.        *)
LEMMA NewlyShed ==
    ASSUME TypeOK, ClockedInv, RangeInv, [Next]_vars, NEW m \in Mocks, Shed(m)'
    PROVE  (Shed(m) /\ dropped'[m] = dropped[m]) \/ Covered(m)'
<1>1. TypeOK' /\ RangeInv'
  BY Zenon, TypeInductive, RangeStep
<1>2. ASSUME PressureActiveAt(pressureRanges, req[m])' PROVE Covered(m)'
  <2>1. PICK p \in pressureRanges' :
          p.start <= req'[m] /\ req'[m] <= (IF p.end = 0 THEN now' ELSE p.end)
    BY Zenon, <1>2 DEF PressureActiveAt, RangeEnd
  <2>2. req'[m] \in Nat /\ p \in [start : Nat, end : Nat]
    BY Zenon, <1>1 DEF TypeOK, ClockType, GuardType
  <2>3. p.end # 0 => req'[m] # p.end
    BY Zenon, <1>1 DEF RangeInv
  <2>4. p.start <= req'[m] /\ (p.end = 0 \/ req'[m] < p.end)
    BY <2>1, <2>2, <2>3
  <2>5. QED BY Zenon, <2>4 DEF Covered, Covers
<1>3. CASE dropped'[m] = dropped[m]
  BY Zenon, <1>3 DEF Shed
<1>4. CASE AddMock(m) /\ PressureGate(m)
  <2>1. pressureRanges' = pressureRanges /\ req' = req /\ now' = now
    BY Zenon, <1>4 DEF AddMock, guardVars
  <2>2. QED BY Zenon, <1>2, <1>4, <2>1 DEF PressureGate, PressureActiveAt, RangeEnd
<1>5. CASE SetMemoryPressure
  <2>1. req' = req /\ now' = now
    BY Zenon, <1>5 DEF SetMemoryPressure, clockVars
  <2> DEFINE W == IF recordingPaused THEN Wiped(pressureRanges') ELSE {}
  <2>a. dropped' = [x \in Mocks |-> IF x \in W THEN "wiped" ELSE dropped[x]]
    BY Zenon, <1>5 DEF SetMemoryPressure
  <2>b. \A x \in W : PressureActiveAt(pressureRanges', req[x])
    BY Zenon DEF Wiped
  <2> HIDE DEF W
  <2>3. m \notin W => dropped'[m] = dropped[m]
    BY Zenon, <2>a
  <2>4. m \in W => PressureActiveAt(pressureRanges, req[m])'
    BY Zenon, <2>1, <2>b DEF PressureActiveAt, RangeEnd
  <2>5. QED BY Zenon, <1>2, <1>3, <2>3, <2>4
<1>6. QED BY Zenon, <1>3, <1>4, <1>5, ShedSteps

(* A handled mock keeps its request time.                                  *)
LEMMA ReqStays ==
    ASSUME TypeOK, StampInv, [Next]_vars, NEW m \in handled
    PROVE  m \in Mocks /\ req[m] # 0 /\ req'[m] = req[m]
  BY Zenon, ClockSteps DEF TypeOK, ClockType, StampInv

(* A range is pruned only a horizon after the mocks it covers.             *)
LEMMA ShedStep ==
    ASSUME IndInv, StampInv, ClockedInv, RangeInv, ShedInv, [Next]_vars
    PROVE  ShedInv'
<1> SUFFICES ASSUME NEW m \in Mocks \ raced', Shed(m)'
             PROVE  m \in handled' /\ (Covered(m)' \/ req'[m] + Horizon < now')
  BY Zenon DEF ShedInv
<1>1. TypeOK /\ TypeOK' /\ ExactlyOnce'
  BY Zenon, OnceInductive DEF IndInv
<1>a. m \in Mocks \ raced
  BY Zenon, <1>1, GuardSteps
<1>2. m \in handled'
  <2>1. dropped'[m] # "no"
    BY DEF Shed
  <2>2. QED BY Zenon, <1>1, <2>1 DEF ExactlyOnce, OnePlace, Dropped
<1>3. ASSUME Shed(m), ~Covered(m)' PROVE req'[m] + Horizon < now'
  <2>1. /\ m \in handled /\ (Covered(m) \/ req[m] + Horizon < now)
        /\ req[m] \in Nat /\ now \in Nat /\ now' \in Nat /\ now <= now' /\ Horizon \in Nat
        /\ pressureRanges \subseteq [start : Nat, end : Nat]
    BY Zenon, <1>1, <1>3, <1>a, ClockSteps, BoundsAssumption DEF ShedInv, TypeOK, ClockType, GuardType
  <2>2. req'[m] = req[m]
    BY Zenon, <1>1, <2>1, ReqStays
  <2>3. CASE req[m] + Horizon < now
    BY Zenon, <2>1, <2>2, <2>3, AgeGrows
  <2>4. ASSUME NEW p \in pressureRanges, Covers(p, m) PROVE req'[m] + Horizon < now'
    <3>1. p.end \in Nat /\ p.start <= req[m] /\ (p.end = 0 \/ req[m] < p.end)
      BY <2>1, <2>4 DEF Covers
    <3>2. p \notin pressureRanges'
      BY Zenon, <1>3, <2>2, <3>1 DEF Covered, Covers
    <3>3. ASSUME NEW q \in pressureRanges', Closes(q, p) PROVE FALSE
      <4>1. q.start = p.start /\ q.end = guard.clock /\ req[m] < guard.clock
        BY Zenon, <1>a, <3>3 DEF Closes, Releasing, ClockedInv
      <4>2. QED BY Zenon, <1>3, <2>2, <3>1, <4>1 DEF Covered, Covers
    <3>4. p.end # 0 /\ p.end <= now - Horizon
      BY Zenon, <1>1, <3>2, <3>3, RangeSteps
    <3>5. req[m] + Horizon < now
      BY <2>1, <3>1, <3>4
    <3>6. QED BY Zenon, <2>1, <2>2, <3>5, AgeGrows
  <2>5. QED BY Zenon, <2>1, <2>3, <2>4 DEF Covered
<1>4. QED BY Zenon, <1>1, <1>2, <1>3, NewlyShed

(* The window of a test case that was sent is final.                       *)
LEMMA SentWindow ==
    ASSUME TypeOK, [Next]_vars, NEW r \in Reqs, status[r] = "forwarded"
    PROVE  start'[r] = start[r] /\ end'[r] = end[r]
<1>1. status[r] # "idle" /\ status[r] \notin {"open", "streaming"}
  OBVIOUS
<1>2. QED BY Zenon, <1>1, ResponseSteps

(* HandleIncoming sends a test case whose window meets no known range.     *)
LEMMA SentIsClear ==
    ASSUME TypeOK, StampInv, NEW r \in HttpReqs, HandleIncoming(r),
           status'[r] = "forwarded", NEW p \in pressureRanges
    PROVE  Clear(p, r)
<1>1. /\ status[r] = "resolved" /\ r \notin QueuedReqs
      /\ status' = [status EXCEPT ![r] = IF r \in HttpReqs /\ WasPressureActiveInWindow(start[r], end[r])
                                         THEN "suppressed" ELSE "forwarded"]
  BY Zenon DEF HandleIncoming
<1>2. r \in HttpReqs /\ status \in [Reqs -> Statuses] /\ now \in Nat
      /\ start[r] \in Nat /\ end[r] \in Nat /\ p \in [start : Nat, end : Nat]
  BY Zenon, <1>1 DEF Reqs, TypeOK, ReqType, ClockType, GuardType
<1>3. start[r] # 0 /\ end[r] # 0 /\ start[r] <= now
  <2>1. status[r] # "idle" /\ status[r] \in Live /\ r \in Reqs
    BY <1>1 DEF Live, Reqs
  <2>2. QED BY Zenon, <2>1 DEF StampInv
<1>4. ~WasPressureActiveInWindow(start[r], end[r])
  <2>1. SUFFICES ASSUME WasPressureActiveInWindow(start[r], end[r]) PROVE FALSE
    BY Zenon
  <2>2. status'[r] = "suppressed"
    BY Zenon, <1>1, <1>2, <2>1
  <2>3. QED BY <2>2
<1>5. ~(p.start <= end[r] /\ start[r] <= (IF p.end = 0 THEN now ELSE p.end))
  BY Zenon, <1>3, <1>4 DEF WasPressureActiveInWindow, RangeEnd
<1>6. QED BY <1>2, <1>3, <1>5 DEF Clear

(* A range opens later than every window that was sent.                    *)
LEMMA ClearStep ==
    ASSUME TypeOK, StampInv, ClockedInv, ClearInv, [Next]_vars
    PROVE  ClearInv'
<1> SUFFICES ASSUME NEW r \in HttpReqs, status'[r] = "forwarded", NEW p \in pressureRanges'
             PROVE  Clear(p, r)'
  BY Zenon DEF ClearInv
<1>a. r \in Reqs
  BY DEF Reqs
<1>1. CASE HandleIncoming(r)
  <2>1. pressureRanges' = pressureRanges /\ start' = start /\ end' = end
    BY Zenon, <1>1 DEF HandleIncoming, guardVars
  <2>2. Clear(p, r)
    BY Zenon, <1>1, <2>1, SentIsClear
  <2>3. QED BY Zenon, <2>1, <2>2 DEF Clear
<1>2. CASE status[r] = "forwarded"
  <2>1. start'[r] = start[r] /\ end'[r] = end[r]
    BY Zenon, <1>a, <1>2, SentWindow
  <2>2. CASE p \in pressureRanges
    BY Zenon, <1>2, <2>1, <2>2 DEF ClearInv, Clear
  <2>3. CASE Opens(p)
    <3>1. status[r] \in Live
      BY <1>2 DEF Live
    <3>2. QED BY Zenon, <2>1, <2>3, <3>1 DEF Opens, ClockedInv, Clear
  <2>4. ASSUME NEW q \in pressureRanges, Closes(p, q) PROVE Clear(p, r)'
    BY Zenon, <1>2, <2>1, <2>4 DEF Closes, ClearInv, Clear
  <2>5. QED BY Zenon, <2>2, <2>3, <2>4, RangeSteps
<1>3. QED BY Zenon, <1>a, <1>1, <1>2, ResponseSteps

(* A sent window and a range that covers one of its mocks exclude each other. *)
LEMMA ClearMeansUncovered ==
    ASSUME NEW s \in Nat, NEW e \in Nat, NEW t \in Nat, NEW p \in [start : Nat, end : Nat],
           s <= t, t <= e, p.start <= t, p.end = 0 \/ t < p.end,
           e < p.start \/ (p.end # 0 /\ p.end < s)
    PROVE  FALSE
OBVIOUS

(* No test case is sent after its window lost a mock, nor loses one later. *)
LEMMA OrphanStep ==
    ASSUME IndInv, PressureInv, [Next]_vars
    PROVE  OrphanFree'
<1> SUFFICES ASSUME NEW r \in HttpReqs, NEW m \in handled' \ raced',
                    status'[r] = "forwarded", InWindow(m, r)',
                    checkedAt'[r] <= start'[r] + Horizon, Shed(m)'
             PROVE  FALSE
  BY Zenon DEF OrphanFree, Orphaned, Shed
<1>1. /\ TypeOK /\ TypeOK' /\ ShedInv' /\ ClearInv' /\ r \in Reqs /\ m \in Mocks /\ Horizon \in Nat
      /\ start'[r] \in Nat /\ end'[r] \in Nat /\ req'[m] \in Nat /\ now' \in Nat
      /\ pressureRanges' \subseteq [start : Nat, end : Nat]
  <2>1. TypeOK /\ TypeOK' /\ Horizon \in Nat
    BY Zenon, TypeInductive, BoundsAssumption DEF IndInv
  <2>2. ShedInv' /\ ClearInv'
    BY Zenon, <2>1, ShedStep, ClearStep DEF PressureInv
  <2>3. r \in Reqs
    BY DEF Reqs
  <2>4. QED BY Zenon, <2>1, <2>2, <2>3 DEF TypeOK, ClockType, ReqType, GuardType
<1>a. m \in Mocks \ raced' /\ m \notin raced
  BY Zenon, <1>1, GuardSteps
<1>2. start'[r] <= req'[m] /\ req'[m] <= end'[r]
  BY Zenon DEF InWindow
<1>3. ~Covered(m)'
  <2>1. SUFFICES ASSUME NEW p \in pressureRanges', Covers(p, m)' PROVE FALSE
    BY Zenon DEF Covered
  <2>2. /\ p \in [start : Nat, end : Nat]
        /\ p.start <= req'[m] /\ (p.end = 0 \/ req'[m] < p.end)
        /\ end'[r] < p.start \/ (p.end # 0 /\ p.end < start'[r])
    BY Zenon, <1>1, <1>a, <2>1 DEF Covers, ClearInv, Clear
  <2>3. QED BY Zenon, <1>1, <1>2, <2>2, ClearMeansUncovered
<1>4. req'[m] + Horizon < now'
  BY Zenon, <1>1, <1>3, <1>a DEF ShedInv
<1>5. Shed(m) /\ dropped'[m] = dropped[m] /\ m \in handled
  BY Zenon, <1>1, <1>3, <1>a, NewlyShed DEF PressureInv, ShedInv
<1>6. CASE HandleIncoming(r)
  <2>1. checkedAt' = [checkedAt EXCEPT ![r] = now] /\ now' = now
    BY Zenon, <1>6 DEF HandleIncoming, clockVars
  <2>2. checkedAt'[r] = now'
    BY Zenon, <1>1, <2>1 DEF TypeOK, ReqType
  <2>3. QED BY <1>1, <1>2, <1>4, <2>2
<1>7. CASE status[r] = "forwarded" /\ checkedAt'[r] = checkedAt[r]
  <2>1. start'[r] = start[r] /\ end'[r] = end[r]
    BY Zenon, <1>1, <1>7, SentWindow
  <2>2. req'[m] = req[m]
    BY Zenon, <1>1, <1>5, ReqStays DEF PressureInv
  <2>3. InWindow(m, r) /\ checkedAt[r] <= start[r] + Horizon
    BY Zenon, <1>2, <1>7, <2>1, <2>2 DEF InWindow
  <2>4. QED BY Zenon, <1>a, <1>5, <1>7, <2>3 DEF PressureInv, OrphanFree, Orphaned, Shed
<1>8. QED BY Zenon, <1>1, <1>6, <1>7, ResponseSteps

(* Nothing has been stamped, lost or sent before the recording starts.     *)
LEMMA PressureInit == Init => PressureInv
<1> SUFFICES ASSUME Init PROVE PressureInv
  BY Zenon
<1>1. StampInv
  BY DEF Init, StampInv, Live
<1>2. ClockedInv
  <2>1. guard.pc = "idle"
    BY DEF Init
  <2>2. QED BY <2>1 DEF ClockedInv
<1>3. RangeInv /\ ClearInv
  BY Zenon DEF Init, RangeInv, ClearInv
<1>4. \A m \in Mocks : ~Shed(m)
  BY DEF Init, Shed
<1>5. ShedInv
  BY Zenon, <1>4 DEF ShedInv
<1>6. OrphanFree
  BY Zenon, <1>4 DEF OrphanFree, Orphaned, Shed, Init
<1>7. QED BY Zenon, <1>1, <1>2, <1>3, <1>5, <1>6 DEF PressureInv

(* WasPressureActiveInWindow in HandleIncoming: an HTTP test case that reaches the *)
(* CLI within the staleness horizon of its request has lost no mock of its window  *)
(* to memory pressure, neither before the check nor after it, however long         *)
(* SetMemoryPressure waits for m.mu, except a mock stamped in such a wait at the   *)
(* end of pressure.                                                                *)
THEOREM NoOrphans == Spec => []OrphanFree
<1> DEFINE I == IndInv /\ PressureInv
<1>1. Init => I
  BY Zenon, OnceInit, PressureInit
<1>2. I /\ [Next]_vars => I'
  <2> SUFFICES ASSUME I, [Next]_vars PROVE I'
    BY Zenon
  <2>1. TypeOK
    BY Zenon DEF IndInv
  <2>2. IndInv'
    BY Zenon, OnceInductive
  <2>3. StampInv' /\ ClockedInv' /\ RangeInv' /\ ShedInv' /\ ClearInv'
    BY Zenon, <2>1, StampStep, ClockedStep, RangeStep, ShedStep, ClearStep DEF PressureInv
  <2>4. OrphanFree'
    BY Zenon, OrphanStep
  <2>5. QED BY Zenon, <2>2, <2>3, <2>4 DEF PressureInv
<1>3. I => OrphanFree
  BY Zenon DEF PressureInv
<1> HIDE DEF I
<1>4. QED BY <1>1, <1>2, <1>3, PTL DEF Spec
=============================================================================

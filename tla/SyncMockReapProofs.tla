------------------------- MODULE SyncMockReapProofs -------------------------
(***************************************************************************)
(* What the reapers of the mock buffer leave alone, and what the mappings  *)
(* name, for any sets of mocks and requests and any bounds.                *)
(*                                                                         *)
(* Each theorem is about the recordings in which the code keeps its        *)
(* promise; the hypothesis names the calls that break it.                  *)
(***************************************************************************)
EXTENDS SyncMockProofs

(* No caller of ResolveRange passes keep = false: only CaptureGRPC does,   *)
(* for a stream its deduper judged a duplicate.                            *)
EveryWindowKept == Duplicates \cap GrpcReqs = {}

(* ResolveJob passes its own request's mapping flag to the whole drain.    *)
OneMappingFlag == QueuedReqs \subseteq Mapped \/ QueuedReqs \cap Mapped = {}

(* Test cases are resolved by the dedup queue, or by the captures directly. *)
OneCaptureMode == HttpReqs \cup GrpcReqs = {} \/ QueuedReqs = {}

Settled(r) == status[r] \notin {"idle", "open", "streaming", "ended"}

(* A window in the ring is settled: its bounds and its test name are final. *)
Final(w) ==
    /\ Settled(w.owner) /\ testName[w.owner] = w.test
    /\ OneMappingFlag /\ w.mapping => w.owner \in Mapped

RingInv ==
    /\ \A r \in Reqs : status[r] # "idle" => start[r] > 0
    /\ \A r \in Reqs : status[r] # "duplicate"
    /\ \A r \in Reqs : job[r] # "none" => Settled(r)
    /\ \A i \in DOMAIN recentWindows : Final(recentWindows[i])

(* A mapping entry, offered or still to be offered, names a settled test. *)
Sound(p) ==
    \E r \in Mapped : Settled(r) /\ testName[r] = p[1] /\ InWindow(p[2], r)

MapInv ==
    /\ \A p \in mapped : Sound(p)
    /\ \A t \in Threads : \A p \in pendingMap[t] : Sound(p)

(* The queue holds requests in the order of their arrival. *)
QueueInv ==
    /\ \A m \in handled : req[m] # 0
    /\ \A m \in Mocks : req[m] <= now
    /\ \A i \in DOMAIN queue : status[queue[i]] # "idle"
    /\ \A i \in DOMAIN queue : start[queue[i]] <= now
    /\ \A i, j \in DOMAIN queue : i < j => start[queue[i]] < start[queue[j]]

(* A stale mock's age outlasts the horizon; a duplicate's debris is older than *)
(* every request still queued. Neither lies in a ring window resolved in time. *)
Spare(m) ==
    /\ dropped[m] # "duplicate"
    /\ dropped[m] = "stale" => req[m] + Horizon < now
    /\ dropped[m] = "debris" => /\ HttpReqs \cup GrpcReqs = {}
                                /\ \A i \in DOMAIN queue : req[m] < start[queue[i]]
    /\ \A i \in DOMAIN recentWindows :
          LET r == recentWindows[i].owner IN
          /\ dropped[m] = "stale" /\ InWindow(m, r) => resolvedAt[r] > req[m] + Horizon
          /\ dropped[m] = "debris" => ~InWindow(m, r)

SpareInv == \A m \in Mocks : Spare(m)

-----------------------------------------------------------------------------
(* Times are ordered. *)
LEMMA Before ==
    ASSUME NEW x \in Nat, NEW y \in Nat, NEW z \in Nat, x < y, y < z
    PROVE  x < z
OBVIOUS

(* What a step does to the clock and to the times of the mocks. *)
LEMMA ClockSteps ==
    ASSUME TypeOK, [Next]_vars
    PROVE  /\ now <= now'
           /\ \A m \in Mocks : req'[m] = req[m] \/ (req[m] = 0 /\ req'[m] = now')
           /\ \A m \in handled' : m \in handled \/ req[m] # 0
<1> DEFINE Goal == /\ now <= now'
                   /\ \A m \in Mocks : req'[m] = req[m] \/ (req[m] = 0 /\ req'[m] = now')
                   /\ \A m \in handled' : m \in handled \/ req[m] # 0
<1> SUFFICES Goal
  BY Zenon
<1>a. now \in Nat /\ req \in [Mocks -> Nat]
  BY Zenon DEF TypeOK, ClockType
<1>b. ASSUME UNCHANGED clockVars PROVE Goal
  BY <1>a, <1>b DEF clockVars
<1>c. ASSUME UNCHANGED <<req, handled>>, now' = now + 1 PROVE Goal
  BY <1>a, <1>c
<1>1. CASE IdlePeriod
  BY <1>a, <1>1, BoundsAssumption DEF IdlePeriod, Advance
<1>2. ASSUME NEW m \in Mocks, Call(m) PROVE Goal
  BY <1>a, <1>2 DEF Call, Stamp, Advance
<1>3. ASSUME NEW m \in Mocks, AddMock(m) \/ SendConfigMock(m) PROVE Goal
  BY <1>a, <1>3 DEF AddMock, SendConfigMock
<1>4. ASSUME NEW r \in Reqs, BeginRequest(r) \/ EndRequest(r) PROVE Goal
  BY Zenon, <1>c, <1>4 DEF BeginRequest, EndRequest, Stamp, Advance
<1>5. CASE GuardReadsClock
  BY Zenon, <1>c, <1>5 DEF GuardReadsClock, Stamp, Advance
<1>6. CASE Receive \/ TickerFlush \/ DrainHead \/ DrainStop \/ SetMemoryPressure
             \/ Stop \/ CloserFlush \/ CloseOutChan
  BY Zenon, <1>b, <1>6 DEF Receive, TickerFlush, DrainHead, DrainStop, SetMemoryPressure, Stop,
                    CloserFlush, CloseOutChan
<1>7. ASSUME NEW t \in Threads, SendToOutChan(t) \/ OfferMappings(t) PROVE Goal
  BY Zenon, <1>b, <1>7 DEF SendToOutChan, OfferMappings
<1>8. ASSUME NEW r \in Reqs, ReleaseEarly(r) \/ Capture(r) \/ SkipCapture(r) \/ HandleIncoming(r)
      PROVE  Goal
  BY Zenon, <1>b, <1>8 DEF ReleaseEarly, Capture, SkipCapture, HandleIncoming
<1>9. ASSUME NEW r \in Reqs, NEW d \in BOOLEAN, CaptureGRPC(r, d) \/ ResolveJob(r, d) PROVE Goal
  BY Zenon, <1>b, <1>9 DEF CaptureGRPC, ResolveJob
<1>10. ASSUME NEW p \in BOOLEAN, GuardStore(p) PROVE Goal
  BY Zenon, <1>b, <1>10 DEF GuardStore
<1>11. CASE Finished \/ UNCHANGED vars
  BY Zenon, <1>b, <1>11 DEF Finished, vars, clockVars
<1> HIDE DEF Goal
<1> QED BY <1>1, <1>2, <1>3, <1>4, <1>5, <1>6, <1>7, <1>8, <1>9, <1>10, <1>11, Zenon DEF Next

(* What a step does to a request: its window opens once and is final when the *)
(* request is settled, as is the name of its test.                            *)
LEMMA RequestSteps ==
    ASSUME TypeOK, EveryWindowKept, [Next]_vars, NEW r \in Reqs
    PROVE  /\ Settled(r) => /\ Settled(r)' /\ start'[r] = start[r] /\ end'[r] = end[r]
                            /\ testName'[r] = testName[r]
           /\ \/ start'[r] = start[r] /\ (status'[r] = "idle" <=> status[r] = "idle")
              \/ status[r] = "idle" /\ start'[r] = now + 1 /\ now' = now + 1 /\ status'[r] # "idle"
           /\ status'[r] = "duplicate" => status[r] = "duplicate"
           /\ job'[r] # "none" => job[r] # "none" \/ Settled(r)'
<1> DEFINE Goal ==
           /\ Settled(r) => /\ Settled(r)' /\ start'[r] = start[r] /\ end'[r] = end[r]
                            /\ testName'[r] = testName[r]
           /\ \/ start'[r] = start[r] /\ (status'[r] = "idle" <=> status[r] = "idle")
              \/ status[r] = "idle" /\ start'[r] = now + 1 /\ now' = now + 1 /\ status'[r] # "idle"
           /\ status'[r] = "duplicate" => status[r] = "duplicate"
           /\ job'[r] # "none" => job[r] # "none" \/ Settled(r)'
<1> SUFFICES Goal
  BY Zenon
<1>a. /\ status \in [Reqs -> Statuses] /\ start \in [Reqs -> Nat] /\ end \in [Reqs -> Nat]
      /\ testName \in [Reqs -> Nat] /\ job \in [Reqs -> {"none", "kept", "duplicate"}]
  BY Zenon DEF TypeOK, ReqType, QueueType
<1>b. ASSUME UNCHANGED <<start, end, status, testName, job>> PROVE Goal
  BY Zenon, <1>b DEF Settled
<1>c. ASSUME NEW x \in Reqs, x # r, status'[r] = status[r], start'[r] = start[r],
             end'[r] = end[r], testName'[r] = testName[r], job'[r] = job[r]
      PROVE  Goal
  BY Zenon, <1>c DEF Settled
<1>1. ASSUME NEW x \in Reqs, BeginRequest(x) PROVE Goal
  <2>1. /\ status[x] = "idle" /\ start' = [start EXCEPT ![x] = now + 1] /\ now' = now + 1
        /\ \E s \in {"skipped", "streaming", "open"} : status' = [status EXCEPT ![x] = s]
        /\ UNCHANGED <<end, testName, job>>
    BY Zenon, <1>1 DEF BeginRequest, Stamp, Advance
  <2>2. CASE x = r
    BY Zenon, <1>a, <2>1, <2>2 DEF Settled
  <2>3. CASE x # r
    BY Zenon, <1>a, <1>c, <2>1, <2>3
  <2> QED BY Zenon, <2>2, <2>3
<1>2. ASSUME NEW x \in Reqs, ReleaseEarly(x) \/ EndRequest(x) \/ SkipCapture(x) \/ HandleIncoming(x)
      PROVE  Goal
  <2>1. /\ status[x] \in {"open", "streaming", "ended", "resolved"}
        /\ \E s \in {"streaming", "ended", "skipped", "suppressed", "forwarded"} :
              /\ status' = [status EXCEPT ![x] = s]
              /\ status[x] = "resolved" => s \notin {"streaming", "ended"} /\ UNCHANGED end
        /\ \E e \in Nat : end' \in {end, [end EXCEPT ![x] = e]}
        /\ UNCHANGED <<start, testName, job>>
    BY <1>2 DEF ReleaseEarly, EndRequest, SkipCapture, HandleIncoming, queueVars, TypeOK, ClockType
  <2>2. CASE x = r
    BY Zenon, <1>a, <2>1, <2>2 DEF Settled
  <2>3. CASE x # r
    BY Zenon, <1>a, <1>c, <2>1, <2>3
  <2> QED BY Zenon, <2>2, <2>3
<1>3. ASSUME NEW x \in Reqs,
             Capture(x) \/ \E d \in BOOLEAN : CaptureGRPC(x, d) \/ ResolveJob(x, d)
      PROVE  Goal
  <2>1. /\ status[x] = "ended" /\ status' = [status EXCEPT ![x] = "resolved"]
        /\ \E n \in Nat : testName' = [testName EXCEPT ![x] = n]
        /\ \E j \in {"none", "kept", "duplicate"} : job' \in {job, [job EXCEPT ![x] = j]}
        /\ UNCHANGED <<start, end>>
    <3>1. ASSUME Capture(x)
          PROVE  /\ status[x] = "ended" /\ status' = [status EXCEPT ![x] = "resolved"]
                 /\ testName' = [testName EXCEPT ![x] = testCounter + 1]
                 /\ UNCHANGED <<job, start, end>>
      BY Zenon, <3>1 DEF Capture, queueVars
    <3>2. ASSUME NEW d \in BOOLEAN, CaptureGRPC(x, d)
          PROVE  /\ status[x] = "ended" /\ status' = [status EXCEPT ![x] = "resolved"]
                 /\ testName' = [testName EXCEPT ![x] = globalTestCounter + 1]
                 /\ UNCHANGED <<job, start, end>>
      BY Zenon, <3>2 DEF CaptureGRPC, queueVars, EveryWindowKept
    <3>3. ASSUME NEW d \in BOOLEAN, ResolveJob(x, d)
          PROVE  /\ status[x] = "ended" /\ status' = [status EXCEPT ![x] = "resolved"]
                 /\ testName' = [testName EXCEPT ![x] = globalTestCounter + 1]
                 /\ job' \in {[job EXCEPT ![x] = "kept"], [job EXCEPT ![x] = "duplicate"]}
                 /\ UNCHANGED <<start, end>>
      BY Zenon, <3>3 DEF ResolveJob
    <3>4. globalTestCounter + 1 \in Nat /\ testCounter + 1 \in Nat
      BY DEF TypeOK, ReqType
    <3>5. QED BY Zenon, <1>3, <3>1, <3>2, <3>3, <3>4
  <2>2. CASE x = r
    BY Zenon, <1>a, <2>1, <2>2 DEF Settled
  <2>3. CASE x # r
    BY Zenon, <1>a, <1>c, <2>1, <2>3
  <2> QED BY Zenon, <2>2, <2>3
<1>4. CASE IdlePeriod \/ Receive \/ TickerFlush \/ DrainHead \/ DrainStop \/ GuardReadsClock
             \/ SetMemoryPressure \/ Stop \/ CloserFlush \/ CloseOutChan
  BY Zenon, <1>b, <1>4 DEF IdlePeriod, Receive, TickerFlush, DrainHead, DrainStop, GuardReadsClock,
                    SetMemoryPressure, Stop, CloserFlush, CloseOutChan, reqVars, queueVars
<1>5. ASSUME NEW m \in Mocks, Call(m) \/ AddMock(m) \/ SendConfigMock(m) PROVE Goal
  BY Zenon, <1>b, <1>5 DEF Call, AddMock, SendConfigMock, reqVars, queueVars
<1>6. ASSUME NEW t \in Threads, SendToOutChan(t) \/ OfferMappings(t) PROVE Goal
  BY Zenon, <1>b, <1>6 DEF SendToOutChan, OfferMappings, reqVars, queueVars
<1>7. ASSUME NEW p \in BOOLEAN, GuardStore(p) PROVE Goal
  BY Zenon, <1>b, <1>7 DEF GuardStore, reqVars, queueVars
<1>8. CASE Finished \/ UNCHANGED vars
  BY Zenon, <1>b, <1>8 DEF Finished, vars, reqVars, queueVars
<1> HIDE DEF Goal
<1> QED BY <1>1, <1>2, <1>3, <1>4, <1>5, <1>6, <1>7, <1>8, Zenon DEF Next

(* The ring holds what it held, less its oldest window, and the new window. *)
LEMMA RingElems ==
    ASSUME NEW W, NEW s \in Seq(W), NEW w \in W, NEW i \in DOMAIN Ring(Append(s, w))
    PROVE  Ring(Append(s, w))[i] = w \/ \E j \in DOMAIN s : Ring(Append(s, w))[i] = s[j]
<1> DEFINE a == Append(s, w)
<1>1. /\ a \in Seq(W) /\ Len(a) = Len(s) + 1 /\ Len(s) \in Nat /\ DOMAIN s = 1..Len(s)
      /\ DOMAIN a = 1..(Len(s) + 1) /\ a[Len(s) + 1] = w /\ \A j \in 1..Len(s) : a[j] = s[j]
  OBVIOUS
<1>2. Tail(a) \in Seq(W) /\ DOMAIN Tail(a) = 1..Len(s) /\ \A j \in 1..Len(s) : Tail(a)[j] = a[j + 1]
  BY <1>1
<1>3. Ring(a) \in {a, Tail(a)} /\ i \in DOMAIN Ring(a)
  BY Zenon DEF Ring
<1> HIDE DEF a
<1>4. CASE Ring(a) = a
  <2>1. i \in 1..(Len(s) + 1)
    BY Zenon, <1>1, <1>3, <1>4
  <2>2. i = Len(s) + 1 \/ i \in 1..Len(s)
    BY <1>1, <2>1
  <2>3. a[i] = w \/ (i \in DOMAIN s /\ a[i] = s[i])
    BY Zenon, <1>1, <2>2
  <2>4. QED BY Zenon, <1>4, <2>3 DEF a
<1>5. CASE Ring(a) = Tail(a)
  <2>1. i \in 1..Len(s) /\ Ring(a)[i] = a[i + 1]
    BY Zenon, <1>2, <1>3, <1>5
  <2>2. i + 1 = Len(s) + 1 \/ i + 1 \in 1..Len(s)
    BY <1>1, <2>1
  <2>3. a[i + 1] = w \/ (i + 1 \in DOMAIN s /\ a[i + 1] = s[i + 1])
    BY Zenon, <1>1, <2>2
  <2>4. QED BY Zenon, <2>1, <2>3 DEF a
<1> QED BY Zenon, <1>3, <1>4, <1>5 DEF a

-----------------------------------------------------------------------------
(* A window is resolved: by a capture, or as the head of the dedup queue. *)
Resolves(t, r, mapping) ==
    /\ ResolveRange(t, r, testName'[r], TRUE, mapping)
    /\ Settled(r)' /\ (OneMappingFlag /\ mapping => r \in Mapped)
    /\ UNCHANGED <<now, req, handled, startup, start, end>>
    /\ \/ r \in HttpReqs \cup GrpcReqs /\ UNCHANGED queue
       \/ r \in QueuedReqs /\ queue # <<>> /\ r = Head(queue) /\ queue' = Tail(queue)

(* A duplicate at the head of the queue: what came before it is debris. *)
CleansDuplicate ==
    /\ queue # <<>> /\ queue' = Tail(queue)
    /\ DeleteMocksStrictlyBefore("dedup", start[Head(queue)])
    /\ UNCHANGED <<now, req, handled, startup, start, end, recentWindows, resolvedAt>>

(* The ticker or the shutdown sends what is attributable. *)
Flushes(t) ==
    FlushOwnedWindows(t) /\ UNCHANGED <<handled, startup, recentWindows, resolvedAt, queue>>

Begins(r) ==
    BeginRequest(r) /\ UNCHANGED <<dropped, startup, recentWindows, resolvedAt, pendingMap, mapped>>

Offers(t) ==
    OfferMappings(t) /\ UNCHANGED <<dropped, startup, recentWindows, resolvedAt, queue>>

(* Any other step drops a mock for lack of room or under pressure, if at all, and *)
(* tags only a mock it has just been handed.                                      *)
Sheds ==
    /\ \A m \in Mocks : dropped'[m] # dropped[m] =>
          \/ dropped'[m] \in {"pressure", "closed", "unsent", "budget"}
          \/ dropped'[m] = "wiped" /\ m \notin startup
    /\ \A m \in startup' : m \in startup \/ (m \notin handled /\ dropped'[m] \in {dropped[m], "closed"})
    /\ UNCHANGED <<recentWindows, resolvedAt, queue, pendingMap, mapped>>

(* Every step is one of these. *)
LEMMA Kinds ==
    ASSUME TypeOK, RingInv, EveryWindowKept, [Next]_vars
    PROVE  \/ \E t \in Threads, r \in Reqs, mapping \in BOOLEAN : Resolves(t, r, mapping)
           \/ CleansDuplicate
           \/ \E t \in Threads : Flushes(t) \/ Offers(t)
           \/ \E r \in Reqs : Begins(r)
           \/ Sheds
<1> DEFINE Goal ==
           \/ \E t \in Threads, r \in Reqs, mapping \in BOOLEAN : Resolves(t, r, mapping)
           \/ CleansDuplicate
           \/ \E t \in Threads : Flushes(t) \/ Offers(t)
           \/ \E r \in Reqs : Begins(r)
           \/ Sheds
<1> SUFFICES Goal
  BY Zenon
<1>a. /\ status \in [Reqs -> Statuses] /\ testName \in [Reqs -> Nat] /\ dropped \in [Mocks -> Reasons]
      /\ job \in [Reqs -> {"none", "kept", "duplicate"}] /\ queue \in Seq(QueuedReqs)
      /\ dqOwner \in QueuedReqs \cup {NoOne}
      /\ "ticker" \in Threads /\ "closer" \in Threads /\ "dedup" \in Threads
      /\ HttpReqs \cup GrpcReqs \subseteq Threads /\ HttpReqs \cup GrpcReqs \subseteq Reqs
      /\ QueuedReqs \subseteq Reqs
  BY Zenon DEF TypeOK, ReqType, QueueType, DropType, Threads, Reqs
<1>b. ASSUME UNCHANGED <<dropped, startup, recentWindows, resolvedAt, queue, pendingMap, mapped>>
      PROVE  Goal
  BY Zenon, <1>b DEF Sheds
<1>1. CASE TickerFlush
  <2>1. Flushes("ticker")
    BY Zenon, <1>1 DEF TickerFlush, Flushes, clockVars, reqVars, queueVars
  <2> QED BY Zenon, <1>a, <2>1
<1>2. CASE CloserFlush
  <2>1. Flushes("closer")
    BY Zenon, <1>2 DEF CloserFlush, Flushes, clockVars, reqVars, queueVars
  <2> QED BY Zenon, <1>a, <2>1
<1>3. CASE DrainHead
  <2> DEFINE mapping == dqOwner \in Mapped
  <2>1. /\ queue # <<>> /\ queue' = Tail(queue) /\ job[Head(queue)] # "none" /\ dqOwner # NoOne
        /\ UNCHANGED <<now, req, handled, startup, start, end, status, testName>>
    BY Zenon, <1>3 DEF DrainHead, HeadResolved, clockVars
  <2>2. PICK h \in QueuedReqs : h = Head(queue)
    BY <1>a, <2>1
  <2>3. CASE job[h] = "duplicate"
    <3>1. CleansDuplicate
      BY Zenon, <1>3, <2>1, <2>2, <2>3 DEF DrainHead, CleansDuplicate
    <3> QED BY Zenon, <3>1
  <2>4. CASE job[h] = "kept"
    <3>1. ResolveRange("dedup", h, testName[h], TRUE, mapping)
      BY Zenon, <1>3, <2>2, <2>4 DEF DrainHead
    <3>2. Settled(h)'
      BY Zenon, <1>a, <2>1, <2>2, <2>4 DEF RingInv, Settled
    <3>3. OneMappingFlag /\ mapping => h \in Mapped
      BY Zenon, <1>a, <2>1, <2>2 DEF OneMappingFlag
    <3>4. mapping \in BOOLEAN /\ testName' = testName
      BY <2>1
    <3> HIDE DEF mapping
    <3>5. ResolveRange("dedup", h, testName'[h], TRUE, mapping)
      BY Zenon, <3>1, <3>4
    <3>6. Resolves("dedup", h, mapping)
      BY Zenon, <2>1, <2>2, <3>2, <3>3, <3>5 DEF Resolves
    <3> QED BY Zenon, <1>a, <2>2, <3>4, <3>6
  <2>5. job[h] \in {"none", "kept", "duplicate"}
    BY Zenon, <1>a
  <2> QED BY Zenon, <2>1, <2>2, <2>3, <2>4, <2>5
<1>4. ASSUME NEW r \in Reqs, Capture(r) \/ \E d \in BOOLEAN : CaptureGRPC(r, d) PROVE Goal
  <2> DEFINE mapping == r \in Mapped
  <2>1. /\ r \in HttpReqs \cup GrpcReqs /\ status' = [status EXCEPT ![r] = "resolved"]
        /\ UNCHANGED <<now, req, handled, startup, start, end, queue>>
    BY Zenon, <1>4 DEF Capture, CaptureGRPC, clockVars, queueVars, EveryWindowKept
  <2>2. PICK n : testName' = [testName EXCEPT ![r] = n] /\ ResolveRange(r, r, n, TRUE, mapping)
    <3>1. CASE Capture(r)
      BY Zenon, <3>1 DEF Capture
    <3>2. ASSUME NEW d \in BOOLEAN, CaptureGRPC(r, d)
          PROVE  \E n : testName' = [testName EXCEPT ![r] = n] /\ ResolveRange(r, r, n, TRUE, mapping)
      <4>1. d = FALSE
        BY Zenon, <3>2 DEF CaptureGRPC, EveryWindowKept
      <4>2. (~d) = TRUE
        BY Zenon, <4>1
      <4> QED BY Zenon, <3>2, <4>2 DEF CaptureGRPC
    <3> QED BY Zenon, <1>4, <3>1, <3>2
  <2>3. mapping \in BOOLEAN /\ (mapping => r \in Mapped)
    OBVIOUS
  <2> HIDE DEF mapping
  <2>4. testName'[r] = n /\ Settled(r)'
    BY Zenon, <1>a, <2>1, <2>2 DEF Settled
  <2>5. Resolves(r, r, mapping)
    BY Zenon, <2>1, <2>2, <2>3, <2>4 DEF Resolves
  <2> QED BY Zenon, <1>a, <2>1, <2>3, <2>5
<1>5. ASSUME NEW r \in Reqs, BeginRequest(r) PROVE Goal
  <2>1. Begins(r)
    BY Zenon, <1>5 DEF BeginRequest, Begins, sendVars
  <2> QED BY Zenon, <2>1
<1>6. ASSUME NEW t \in Threads, OfferMappings(t) PROVE Goal
  <2>1. Offers(t)
    BY Zenon, <1>6 DEF OfferMappings, Offers, bufferVars, reqVars, queueVars
  <2> QED BY Zenon, <2>1
<1>7. ASSUME NEW m \in Mocks, AddMock(m) PROVE Goal
  <2>1. /\ m \notin handled /\ UNCHANGED <<recentWindows, resolvedAt, queue, pendingMap, mapped>>
        /\ startup' \in {startup, startup \cup {m}}
        /\ \/ dropped' = [dropped EXCEPT ![m] = "pressure"] /\ startup' = startup
           \/ dropped' = [dropped EXCEPT ![m] = "closed"]
           \/ dropped' = dropped
    BY Zenon, <1>7 DEF AddMock, reqVars, queueVars
  <2>2. Sheds
    BY Zenon, <1>a, <2>1 DEF Sheds
  <2> QED BY Zenon, <2>2
<1>8. ASSUME NEW t \in Threads, SendToOutChan(t) PROVE Goal
  <2>1. UNCHANGED <<startup, recentWindows, resolvedAt, queue, pendingMap, mapped>>
    BY Zenon, <1>8 DEF SendToOutChan, bufferVars, reqVars, queueVars
  <2>2. PICK m : \/ dropped' = [dropped EXCEPT ![m] = "unsent"]
                 \/ dropped' = [dropped EXCEPT ![m] = "budget"]
                 \/ dropped' = dropped
    BY Zenon, <1>8 DEF SendToOutChan
  <2>3. Sheds
    BY Zenon, <1>a, <2>1, <2>2 DEF Sheds
  <2> QED BY Zenon, <2>3
<1>9. CASE SetMemoryPressure
  <2>1. UNCHANGED <<startup, recentWindows, resolvedAt, queue, pendingMap, mapped>>
    BY Zenon, <1>9 DEF SetMemoryPressure, sendVars, reqVars, queueVars
  <2>2. PICK wiped : /\ wiped \subseteq buffer \ startup
                     /\ dropped' = [m \in Mocks |-> IF m \in wiped THEN "wiped" ELSE dropped[m]]
    BY Zenon, <1>9 DEF SetMemoryPressure, Wiped
  <2>3. Sheds
    BY Zenon, <1>a, <2>1, <2>2 DEF Sheds
  <2> QED BY Zenon, <2>3
<1>10. CASE IdlePeriod \/ Receive \/ DrainStop \/ GuardReadsClock \/ Stop \/ CloseOutChan
  BY Zenon, <1>b, <1>10 DEF IdlePeriod, Receive, DrainStop, GuardReadsClock, Stop, CloseOutChan,
                     bufferVars, sendVars, reqVars, queueVars
<1>11. ASSUME NEW m \in Mocks, Call(m) \/ SendConfigMock(m) PROVE Goal
  BY Zenon, <1>b, <1>11 DEF Call, SendConfigMock, bufferVars, sendVars, reqVars, queueVars
<1>12. ASSUME NEW r \in Reqs,
              \/ ReleaseEarly(r) \/ EndRequest(r) \/ SkipCapture(r) \/ HandleIncoming(r)
              \/ \E d \in BOOLEAN : ResolveJob(r, d)
       PROVE  Goal
  BY Zenon, <1>b, <1>12 DEF ReleaseEarly, EndRequest, SkipCapture, HandleIncoming, ResolveJob,
                     bufferVars, sendVars, reqVars, queueVars
<1>13. ASSUME NEW p \in BOOLEAN, GuardStore(p) PROVE Goal
  BY Zenon, <1>b, <1>13 DEF GuardStore, bufferVars, sendVars, reqVars, queueVars
<1>14. CASE Finished \/ UNCHANGED vars
  BY Zenon, <1>b, <1>14 DEF Finished, vars, bufferVars, sendVars, reqVars, queueVars
<1> HIDE DEF Goal
<1> QED BY <1>1, <1>2, <1>3, <1>4, <1>5, <1>6, <1>7, <1>8, <1>9, <1>10, <1>11, <1>12, <1>13, <1>14,
           Zenon DEF Next

-----------------------------------------------------------------------------
(* The ring holds final windows only. *)
LEMMA RingStep ==
    ASSUME TypeOK, RingInv, EveryWindowKept, [Next]_vars
    PROVE  RingInv'
<1>t. /\ now \in Nat /\ start \in [Reqs -> Nat] /\ recentWindows \in Seq(Windows)
      /\ testName' \in [Reqs -> Nat]
  BY Zenon, TypeInductive DEF TypeOK, ClockType, ReqType, BufferType
<1>1. ASSUME NEW r \in Reqs
      PROVE  /\ status'[r] # "idle" => start'[r] > 0
             /\ status'[r] # "duplicate"
             /\ job'[r] # "none" => Settled(r)'
  <2>1. /\ status[r] # "idle" => start[r] > 0
        /\ status[r] # "duplicate"
        /\ job[r] # "none" => Settled(r)
    BY Zenon DEF RingInv
  <2>2. /\ Settled(r) => Settled(r)'
        /\ \/ start'[r] = start[r] /\ (status'[r] = "idle" <=> status[r] = "idle")
           \/ start'[r] = now + 1
        /\ status'[r] = "duplicate" => status[r] = "duplicate"
        /\ job'[r] # "none" => job[r] # "none" \/ Settled(r)'
    BY Zenon, RequestSteps
  <2>3. status'[r] # "idle" => start'[r] > 0
    BY <1>t, <2>1, <2>2
  <2>4. QED BY Zenon, <2>1, <2>2, <2>3
<1>2. ASSUME NEW w \in Windows, Final(w) PROVE Final(w)'
  <2>1. w.owner \in Reqs
    BY Zenon DEF Windows
  <2>2. Settled(w.owner)' /\ testName'[w.owner] = testName[w.owner]
    BY Zenon, <1>2, <2>1, RequestSteps DEF Final
  <2>3. QED BY Zenon, <1>2, <2>2 DEF Final
<1>3. ASSUME NEW i \in DOMAIN recentWindows'
      PROVE  \E w \in Windows : w = recentWindows'[i] /\ Final(w)'
  <2>1. ASSUME NEW j \in DOMAIN recentWindows, recentWindows'[i] = recentWindows[j]
        PROVE  \E w \in Windows : w = recentWindows'[i] /\ Final(w)'
    <3>1. PICK w \in Windows : w = recentWindows[j]
      BY <1>t
    <3>2. Final(w)
      BY Zenon, <3>1 DEF RingInv
    <3>3. QED BY Zenon, <1>2, <2>1, <3>1, <3>2
  <2>2. CASE recentWindows' = recentWindows
    BY Zenon, <2>1, <2>2
  <2>3. ASSUME NEW t \in Threads, NEW r \in Reqs, NEW mapping \in BOOLEAN, Resolves(t, r, mapping)
        PROVE  \E w \in Windows : w = recentWindows'[i] /\ Final(w)'
    <3>1. PICK w \in Windows : w = [owner |-> r, test |-> testName'[r], mapping |-> mapping]
      BY Zenon, <1>t DEF Windows
    <3>2. /\ recentWindows' = Ring(Append(recentWindows, w)) /\ Settled(r)'
          /\ OneMappingFlag /\ mapping => r \in Mapped
      BY Zenon, <2>3, <3>1 DEF Resolves, ResolveRange
    <3>3. recentWindows'[i] = w \/ \E j \in DOMAIN recentWindows : recentWindows'[i] = recentWindows[j]
      <4>1. i \in DOMAIN Ring(Append(recentWindows, w))
        BY Zenon, <3>2
      <4>2. \/ Ring(Append(recentWindows, w))[i] = w
            \/ \E j \in DOMAIN recentWindows : Ring(Append(recentWindows, w))[i] = recentWindows[j]
        BY <1>t, <4>1, RingElems
      <4>3. QED BY Zenon, <3>2, <4>2
    <3>4. w.owner = r /\ w.test = testName'[r] /\ w.mapping = mapping
      BY Zenon, <3>1
    <3>5. Final(w)'
      BY Zenon, <3>2, <3>4 DEF Final, Settled
    <3>6. QED BY Zenon, <2>1, <3>3, <3>5
  <2>4. recentWindows' = recentWindows \/
          \E t \in Threads, r \in Reqs, mapping \in BOOLEAN : Resolves(t, r, mapping)
    BY Kinds, Zenon DEF CleansDuplicate, Flushes, Offers, Begins, Sheds
  <2>5. QED BY Zenon, <2>2, <2>3, <2>4
<1>4. ASSUME NEW i \in DOMAIN recentWindows' PROVE Final(recentWindows[i])'
  BY Zenon, <1>3 DEF Final, Settled
<1>5. QED BY Zenon, <1>1, <1>4 DEF RingInv

(* ownerWindow returns a window that holds the mock. *)
LEMMA OwnerHolds ==
    ASSUME TypeOK, NEW m, Owned(m)
    PROVE  \E i \in DOMAIN recentWindows :
              OwnerWindow(m) = recentWindows[i] /\ InWindow(m, recentWindows[i].owner)
<1>1. Owners(m) \subseteq Nat /\ Owners(m) # {}
  BY DEF Owned, Owners, TypeOK, BufferType
<1>2. \E i \in Owners(m) : \A j \in Owners(m) : i <= j
  BY Zenon, <1>1, LeastNat
<1> QED
  BY <1>2, Zenon DEF OwnerWindow, Owners

(* What is mapped late is mapped to a test whose window holds it. *)
LEMMA LateSound ==
    ASSUME TypeOK, RingInv, OneMappingFlag, NEW S, S \subseteq Mocks, NEW p \in LateMap(S)
    PROVE  p \in Nat \X Mocks /\ Sound(p)
<1>1. PICK m \in S : Owned(m) /\ OwnerWindow(m).mapping /\ p = <<OwnerWindow(m).test, m>>
  BY Zenon DEF LateMap, PerTest
<1>2. PICK i \in DOMAIN recentWindows :
         OwnerWindow(m) = recentWindows[i] /\ InWindow(m, recentWindows[i].owner)
  BY <1>1, OwnerHolds, Zenon
<1>3. Final(recentWindows[i])
  BY Zenon DEF RingInv
<1>4. /\ recentWindows[i].owner \in Mapped /\ Settled(recentWindows[i].owner)
      /\ testName[recentWindows[i].owner] = recentWindows[i].test
  BY Zenon, <1>1, <1>2, <1>3 DEF Final
<1>5. p[1] = recentWindows[i].test /\ p[2] = m
  BY Zenon, <1>1, <1>2
<1>6. p \in Nat \X Mocks
  BY Zenon, LateMapType
<1>7. QED BY Zenon, <1>2, <1>4, <1>5, <1>6 DEF Sound

(* A sound entry stays sound: the window it names no longer changes. *)
LEMMA SoundStable ==
    ASSUME TypeOK, RingInv, EveryWindowKept, [Next]_vars, NEW p \in Nat \X Mocks, Sound(p)
    PROVE  Sound(p)'
<1>1. PICK r \in Mapped : Settled(r) /\ testName[r] = p[1] /\ InWindow(p[2], r)
  BY Zenon DEF Sound
<1>2. r \in Reqs /\ p[2] \in Mocks
  BY Zenon, SetsAssumption
<1>3. /\ Settled(r)' /\ start'[r] = start[r] /\ end'[r] = end[r] /\ testName'[r] = testName[r]
  BY Zenon, <1>1, <1>2, RequestSteps
<1>4. start[r] > 0
  BY Zenon, <1>1, <1>2 DEF RingInv, Settled
<1>5. req[p[2]] # 0
  BY <1>1, <1>2, <1>4 DEF InWindow, TypeOK, ClockType, ReqType
<1>6. req'[p[2]] = req[p[2]]
  BY Zenon, <1>2, <1>5, ClockSteps
<1>7. InWindow(p[2], r)'
  BY Zenon, <1>1, <1>3, <1>6 DEF InWindow
<1>8. QED BY Zenon, <1>1, <1>3, <1>7 DEF Sound

-----------------------------------------------------------------------------
(* Every entry offered or to be offered is sound. *)
LEMMA MapStep ==
    ASSUME TypeOK, RingInv, MapInv, EveryWindowKept, OneMappingFlag, [Next]_vars
    PROVE  MapInv'
<1>t. /\ pendingMap \in [Threads -> SUBSET (Nat \X Mocks)] /\ mapped \subseteq Nat \X Mocks
      /\ buffer \subseteq Mocks
  BY Zenon DEF TypeOK, SendType, BufferType
<1>1. ASSUME NEW p \in mapped PROVE Sound(p)'
  BY Zenon, <1>t, SoundStable DEF MapInv
<1>2. ASSUME NEW t \in Threads, NEW p \in pendingMap[t] PROVE Sound(p)'
  <2>1. p \in Nat \X Mocks /\ Sound(p)
    BY Zenon, <1>t DEF MapInv
  <2>2. QED BY Zenon, <2>1, SoundStable
<1>3. ASSUME NEW S, S \subseteq Mocks, NEW p \in LateMap(S) PROVE Sound(p)'
  BY Zenon, <1>3, LateSound, SoundStable
<1>4. ASSUME NEW t \in Threads, NEW M, pendingMap' = [pendingMap EXCEPT ![t] = M], mapped' = mapped,
             \A p \in M : Sound(p)'
      PROVE  MapInv'
  <2>1. ASSUME NEW u \in Threads, NEW p \in pendingMap'[u] PROVE Sound(p)'
    <3>1. CASE u = t
      BY Zenon, <1>t, <1>4, <2>1, <3>1
    <3>2. CASE u # t
      BY Zenon, <1>t, <1>2, <1>4, <2>1, <3>2
    <3>3. QED BY Zenon, <3>1, <3>2
  <2>2. QED BY <1>1, <1>4, <2>1, Zenon DEF MapInv, Threads
<1>5. CASE CleansDuplicate
  <2> DEFINE before == {m \in buffer : req[m] < start[Head(queue)]}
             send == IF Bound THEN Attributable(before) ELSE {}
  <2>1. send \subseteq Mocks
    BY Zenon, <1>t DEF Attributable
  <2>2. pendingMap' = [pendingMap EXCEPT !["dedup"] = LateMap(send)] /\ mapped' = mapped
    BY Zenon, <1>5 DEF CleansDuplicate, DeleteMocksStrictlyBefore, Sweep
  <2> HIDE DEF send
  <2>3. "dedup" \in Threads /\ \A p \in LateMap(send) : Sound(p)'
    BY Zenon, <1>3, <2>1 DEF Threads
  <2>4. QED BY Zenon, <1>4, <2>2, <2>3
<1>6. ASSUME NEW t \in Threads, Flushes(t) PROVE MapInv'
  <2> DEFINE send == IF Bound THEN Attributable(buffer) ELSE {}
  <2>1. send \subseteq Mocks
    BY Zenon, <1>t DEF Attributable
  <2>2. pendingMap' = [pendingMap EXCEPT ![t] = LateMap(send)] /\ mapped' = mapped
    BY Zenon, <1>6 DEF Flushes, FlushOwnedWindows, Sweep
  <2> HIDE DEF send
  <2>3. \A p \in LateMap(send) : Sound(p)'
    BY Zenon, <1>3, <2>1
  <2>4. QED BY Zenon, <1>4, <2>2, <2>3
<1>7. ASSUME NEW t \in Threads, NEW r \in Reqs, NEW mapping \in BOOLEAN, Resolves(t, r, mapping)
      PROVE  MapInv'
  <2> DEFINE matched == {m \in PerTest(buffer) : InWindow(m, r)}
             late    == {m \in PerTest(buffer) \ matched : Owned(m)}
             direct  == IF TRUE /\ mapping THEN {<<testName'[r], m>> : m \in matched} ELSE {}
             delayed == IF TRUE THEN LateMap(late) ELSE {}
             maps    == IF Bound THEN direct \cup delayed ELSE {}
  <2>1. pendingMap' = [pendingMap EXCEPT ![t] = maps] /\ mapped' = mapped
    BY Zenon, <1>7 DEF Resolves, ResolveRange, Sweep
  <2>2. late \subseteq Mocks
    BY Zenon, <1>t DEF PerTest
  <2>3. ASSUME NEW p \in direct PROVE Sound(p)'
    <3>1. PICK m \in matched : p = <<testName'[r], m>> /\ mapping
      BY Zenon, <2>3
    <3>2. /\ Settled(r)' /\ (mapping => r \in Mapped) /\ UNCHANGED <<req, start, end>>
      BY Zenon, <1>7 DEF Resolves
    <3>3. p[1] = testName'[r] /\ p[2] = m
      BY Zenon, <3>1
    <3>4. InWindow(p[2], r)'
      BY Zenon, <3>1, <3>2, <3>3 DEF InWindow
    <3>5. QED BY Zenon, <3>1, <3>2, <3>3, <3>4 DEF Sound
  <2>4. ASSUME NEW p \in delayed PROVE Sound(p)'
    <3> HIDE DEF late
    <3>1. QED BY Zenon, <1>3, <2>2
  <2> HIDE DEF direct, delayed
  <2>5. \A p \in maps : Sound(p)'
    BY Zenon, <2>3, <2>4
  <2> HIDE DEF maps
  <2>6. QED BY Zenon, <1>4, <2>1, <2>5
<1>8. ASSUME NEW t \in Threads, Offers(t) PROVE MapInv'
  <2>1. /\ mapped' \subseteq mapped \cup pendingMap[t]
        /\ pendingMap' = [pendingMap EXCEPT ![t] = {}]
    BY Zenon, <1>8 DEF Offers, OfferMappings
  <2>2. \A u \in Threads : pendingMap'[u] \subseteq pendingMap[u]
    BY Zenon, <1>t, <2>1
  <2>3. \A p \in mapped' : Sound(p)'
    BY Zenon, <1>1, <1>2, <2>1
  <2>4. \A u \in Threads : \A p \in pendingMap'[u] : Sound(p)'
    BY Zenon, <1>2, <2>2
  <2>5. QED BY <2>3, <2>4, Zenon DEF MapInv, Threads
<1>9. CASE UNCHANGED <<pendingMap, mapped>>
  BY <1>1, <1>2, <1>9, Zenon DEF MapInv, Threads
<1>10. QED BY <1>5, <1>6, <1>7, <1>8, <1>9, Kinds, Zenon DEF Begins, Sheds

-----------------------------------------------------------------------------
(* A kept window drops only stale mocks that no window holds. *)
LEMMA ResolveDrops ==
    ASSUME TypeOK, NEW t, NEW r, NEW test, NEW mapping, ResolveRange(t, r, test, TRUE, mapping),
           NEW m \in Mocks, dropped'[m] # dropped[m]
    PROVE  /\ dropped'[m] = "stale" /\ m \notin startup /\ req[m] < now - Horizon
           /\ ~InWindow(m, r) /\ ~Owned(m)
<1> DEFINE matched == {x \in PerTest(buffer) : InWindow(x, r)}
           late    == {x \in PerTest(buffer) \ matched : Owned(x)}
           other   == PerTest(buffer) \ (matched \cup late)
           stale   == {x \in other \ startup : req[x] < now - Horizon}
           reaped  == IF TRUE THEN {} ELSE late \cup (matched \ startup)
           reason  == [x \in Mocks |-> IF x \in stale THEN "stale" ELSE "duplicate"]
<1>1. dropped' = [x \in Mocks |-> IF x \in stale \cup reaped THEN reason[x] ELSE dropped[x]]
  BY Zenon DEF ResolveRange, Sweep
<1>2. reaped = {}
  BY Zenon
<1>3. m \in stale => m \notin startup /\ req[m] < now - Horizon /\ ~InWindow(m, r) /\ ~Owned(m)
  BY Zenon
<1> HIDE DEF stale, reaped
<1>4. m \in stale /\ dropped'[m] = "stale"
  BY Zenon, <1>1, <1>2
<1>5. QED BY Zenon, <1>3, <1>4

(* Cleaning up before a duplicate drops only mocks that no window holds. *)
LEMMA DeleteDrops ==
    ASSUME TypeOK, NEW t, NEW ts, DeleteMocksStrictlyBefore(t, ts), NEW m \in Mocks,
           dropped'[m] # dropped[m]
    PROVE  dropped'[m] = "debris" /\ m \notin startup /\ req[m] < ts /\ ~Owned(m)
<1> DEFINE before == {x \in buffer : req[x] < ts}
           drop   == before \ Attributable(before)
<1>1. dropped' = [x \in Mocks |-> IF x \in drop THEN [y \in Mocks |-> "debris"][x] ELSE dropped[x]]
  BY Zenon DEF DeleteMocksStrictlyBefore, Sweep
<1>2. m \in drop => m \notin startup /\ req[m] < ts /\ ~Owned(m)
  BY Zenon DEF Attributable
<1> HIDE DEF drop
<1>3. m \in drop /\ dropped'[m] = "debris"
  BY Zenon, <1>1
<1>4. QED BY Zenon, <1>2, <1>3

(* A flush drops nothing. *)
LEMMA FlushDrops ==
    ASSUME TypeOK, NEW t, FlushOwnedWindows(t), NEW m \in Mocks
    PROVE  dropped'[m] = dropped[m]
  BY Zenon DEF FlushOwnedWindows, Sweep

(* A tagged mock is dropped by no reaper. *)
LEMMA StartupStep ==
    ASSUME IndInv, RingInv, StartupSurvives, EveryWindowKept, [Next]_vars
    PROVE  StartupSurvives'
<1>t. TypeOK /\ startup \subseteq Mocks /\ startup' \subseteq Mocks
  BY Zenon, TypeInductive DEF IndInv, TypeOK, BufferType
<1> DEFINE Reaped == {"stale", "duplicate", "debris", "wiped"}
<1>1. ASSUME UNCHANGED startup, \A m \in Mocks : dropped'[m] # dropped[m] => m \notin startup
      PROVE  StartupSurvives'
  BY Zenon, <1>t, <1>1 DEF StartupSurvives
<1>2. ASSUME NEW t \in Threads, NEW r \in Reqs, NEW mapping \in BOOLEAN, Resolves(t, r, mapping)
      PROVE  StartupSurvives'
  <2>1. ResolveRange(t, r, testName'[r], TRUE, mapping) /\ UNCHANGED startup
    BY Zenon, <1>2 DEF Resolves
  <2>2. ASSUME NEW m \in Mocks, dropped'[m] # dropped[m] PROVE m \notin startup
    BY Zenon, <1>t, <2>1, <2>2, ResolveDrops
  <2>3. QED BY Zenon, <1>1, <2>1, <2>2
<1>3. CASE CleansDuplicate
  <2>1. DeleteMocksStrictlyBefore("dedup", start[Head(queue)]) /\ UNCHANGED startup
    BY Zenon, <1>3 DEF CleansDuplicate
  <2>2. ASSUME NEW m \in Mocks, dropped'[m] # dropped[m] PROVE m \notin startup
    BY Zenon, <1>t, <2>1, <2>2, DeleteDrops
  <2>3. QED BY Zenon, <1>1, <2>1, <2>2
<1>4. ASSUME NEW t \in Threads, Flushes(t) PROVE StartupSurvives'
  <2>1. FlushOwnedWindows(t) /\ UNCHANGED startup
    BY Zenon, <1>4 DEF Flushes
  <2>2. ASSUME NEW m \in Mocks, dropped'[m] # dropped[m] PROVE FALSE
    BY Zenon, <1>t, <2>1, <2>2, FlushDrops
  <2>3. QED BY Zenon, <1>1, <2>1, <2>2
<1>5. CASE UNCHANGED <<dropped, startup>>
  BY Zenon, <1>1, <1>5
<1>6. CASE Sheds
  <2> SUFFICES ASSUME NEW m \in startup' PROVE dropped'[m] \notin Reaped
    BY Zenon DEF StartupSurvives
  <2>1. CASE m \in startup
    <3>1. m \in Mocks /\ dropped[m] \notin Reaped
      BY Zenon, <1>t, <2>1 DEF StartupSurvives
    <3>2. \/ dropped'[m] = dropped[m]
          \/ dropped'[m] \in {"pressure", "closed", "unsent", "budget"}
          \/ m \notin startup
      BY Zenon, <1>6, <3>1 DEF Sheds
    <3>3. QED BY Zenon, <2>1, <3>1, <3>2
  <2>2. CASE m \notin startup
    <3>1. m \notin handled /\ dropped'[m] \in {dropped[m], "closed"}
      BY Zenon, <1>6, <2>2 DEF Sheds
    <3>2. OnePlace(m)
      BY Zenon, <1>t DEF IndInv, ExactlyOnce
    <3>3. dropped[m] = "no"
      BY Zenon, <3>1, <3>2 DEF OnePlace, Dropped
    <3>4. QED BY Zenon, <3>1, <3>3
  <2>3. QED BY Zenon, <2>1, <2>2
<1>7. QED BY <1>2, <1>3, <1>4, <1>5, <1>6, <1>t, Kinds, Zenon DEF Begins, Offers

(* The queue stays in the order of arrival. *)
LEMMA QueueStep ==
    ASSUME TypeOK, RingInv, QueueInv, EveryWindowKept, [Next]_vars
    PROVE  QueueInv'
<1>t. /\ now \in Nat /\ now' \in Nat /\ req \in [Mocks -> Nat] /\ queue \in Seq(QueuedReqs)
      /\ start \in [Reqs -> Nat] /\ QueuedReqs \subseteq Reqs
      /\ handled' \subseteq Mocks
  BY Zenon, TypeInductive DEF TypeOK, ClockType, QueueType, ReqType, Reqs
<1>1. /\ now <= now'
      /\ \A m \in Mocks : req'[m] = req[m] \/ (req[m] = 0 /\ req'[m] = now')
      /\ \A m \in handled' : m \in handled \/ req[m] # 0
  BY Zenon, ClockSteps
<1>2. \A m \in handled' : req'[m] # 0
  <2> SUFFICES ASSUME NEW m \in handled' PROVE req'[m] # 0
    BY Zenon
  <2>1. req[m] # 0 /\ m \in Mocks
    BY Zenon, <1>t, <1>1 DEF QueueInv
  <2>2. QED BY Zenon, <1>1, <2>1
<1>3. \A m \in Mocks : req'[m] <= now'
  <2> SUFFICES ASSUME NEW m \in Mocks PROVE req'[m] <= now'
    BY Zenon
  <2>1. req[m] \in Nat /\ req[m] <= now
    BY Zenon, <1>t DEF QueueInv
  <2>2. QED BY <1>t, <1>1, <2>1
<1>4. ASSUME NEW i \in DOMAIN queue
      PROVE  /\ queue[i] \in QueuedReqs /\ start'[queue[i]] = start[queue[i]]
             /\ status'[queue[i]] # "idle" /\ start[queue[i]] \in Nat /\ start[queue[i]] <= now
  <2>1. queue[i] \in QueuedReqs /\ queue[i] \in Reqs
    BY <1>t
  <2>2. status[queue[i]] # "idle" /\ start[queue[i]] <= now
    BY Zenon DEF QueueInv
  <2>3. QED BY Zenon, <1>t, <2>1, <2>2, RequestSteps
<1>5. CASE queue' = queue
  <2>1. \A i \in DOMAIN queue' : status'[queue'[i]] # "idle" /\ start'[queue'[i]] <= now'
    BY <1>t, <1>1, <1>4, <1>5
  <2>2. \A i, j \in DOMAIN queue' : i < j => start'[queue'[i]] < start'[queue'[j]]
    BY Zenon, <1>4, <1>5 DEF QueueInv
  <2>3. QED BY Zenon, <1>2, <1>3, <2>1, <2>2 DEF QueueInv
<1>6. CASE queue # <<>> /\ queue' = Tail(queue)
  <2>1. \A i \in DOMAIN queue' : i \in Int /\ i + 1 \in DOMAIN queue /\ queue'[i] = queue[i + 1]
    BY <1>t, <1>6
  <2>2. \A i \in DOMAIN queue' : status'[queue'[i]] # "idle" /\ start'[queue'[i]] <= now'
    BY <1>t, <1>1, <1>4, <2>1
  <2>3. ASSUME NEW i \in DOMAIN queue', NEW j \in DOMAIN queue', i < j
        PROVE  start'[queue'[i]] < start'[queue'[j]]
    <3>1. i + 1 \in DOMAIN queue /\ j + 1 \in DOMAIN queue /\ i + 1 < j + 1
      BY <2>1, <2>3
    <3>2. start[queue[i + 1]] < start[queue[j + 1]]
      BY Zenon, <3>1 DEF QueueInv
    <3>3. QED BY Zenon, <1>4, <2>1, <3>1, <3>2
  <2>4. QED BY Zenon, <1>2, <1>3, <2>2, <2>3 DEF QueueInv
<1>7. ASSUME NEW r \in QueuedReqs, Begins(r) PROVE QueueInv'
  <2>1. /\ queue' = Append(queue, r) /\ now' = now + 1 /\ start' = [start EXCEPT ![r] = now + 1]
        /\ status[r] = "idle"
    BY Zenon, <1>7 DEF Begins, BeginRequest, Stamp, Advance
  <2>2. start'[r] = now' /\ status'[r] # "idle"
    <3>1. r \in Reqs
      BY Zenon, <1>t
    <3>2. start'[r] = now'
      BY Zenon, <1>t, <2>1, <3>1
    <3>3. \/ start'[r] = start[r] /\ (status'[r] = "idle" <=> status[r] = "idle")
          \/ status'[r] # "idle"
      BY Zenon, <3>1, RequestSteps
    <3>4. \E s \in {"skipped", "streaming", "open"} : status' = [status EXCEPT ![r] = s]
      BY Zenon, <1>7 DEF Begins, BeginRequest
    <3>5. status \in [Reqs -> Statuses]
      BY Zenon DEF TypeOK, ReqType
    <3>6. QED BY Zenon, <3>1, <3>2, <3>4, <3>5
  <2>3. /\ DOMAIN queue = 1..Len(queue) /\ Len(queue) \in Nat
        /\ DOMAIN queue' = 1..(Len(queue) + 1) /\ queue'[Len(queue) + 1] = r
        /\ \A i \in 1..Len(queue) : queue'[i] = queue[i]
    BY <1>t, <2>1
  <2>4. ASSUME NEW i \in DOMAIN queue'
        PROVE  \/ i \in DOMAIN queue /\ queue'[i] = queue[i]
               \/ i = Len(queue) + 1 /\ queue'[i] = r
    BY <2>3
  <2>5. \A i \in DOMAIN queue' : status'[queue'[i]] # "idle" /\ start'[queue'[i]] <= now'
    BY <1>t, <1>1, <1>4, <2>2, <2>4
  <2>6. ASSUME NEW i \in DOMAIN queue', NEW j \in DOMAIN queue', i < j
        PROVE  start'[queue'[i]] < start'[queue'[j]]
    <3>1. i \in DOMAIN queue /\ queue'[i] = queue[i] /\ i \in Int /\ j \in Int
      BY <2>3, <2>6
    <3>2. CASE j \in DOMAIN queue /\ queue'[j] = queue[j]
      <4>1. start[queue[i]] < start[queue[j]]
        BY Zenon, <2>6, <3>1, <3>2 DEF QueueInv
      <4>2. QED BY Zenon, <1>4, <3>1, <3>2, <4>1
    <3>3. CASE queue'[j] = r
      <4>1. start'[queue'[i]] \in Nat /\ start'[queue'[i]] <= now
        BY Zenon, <1>4, <3>1
      <4>2. QED BY <1>t, <2>1, <2>2, <3>3, <4>1
    <3>4. QED BY Zenon, <2>4, <3>2, <3>3
  <2>7. QED BY Zenon, <1>2, <1>3, <2>5, <2>6 DEF QueueInv
<1>8. ASSUME NEW r \in Reqs, Begins(r), r \notin QueuedReqs PROVE queue' = queue
  BY Zenon, <1>8 DEF Begins, BeginRequest
<1>9. QED BY <1>5, <1>6, <1>7, <1>8, Kinds, Zenon DEF Resolves, CleansDuplicate, Flushes, Offers, Sheds

(* The arithmetic of the next proof, stated once. *)
LEMMA AgeGrows ==
    ASSUME NEW a \in Nat, NEW b \in Nat, NEW c \in Nat, b <= c, a + Horizon < b
    PROVE  a + Horizon < c
BY BoundsAssumption

(* The stale valve of ResolveRange, as a distance to the clock. *)
LEMMA TooOld ==
    ASSUME NEW a \in Nat, NEW b \in Nat, a < b - Horizon
    PROVE  a + Horizon < b
BY BoundsAssumption

(* The same distance, read from the clock. *)
LEMMA AgedOut ==
    ASSUME NEW a \in Nat, NEW b \in Nat, a + Horizon < b
    PROVE  b > a + Horizon
BY Zenon

(* A mock taken for debris is older than every request queued then or later. *)
LEMMA DebrisBehind ==
    ASSUME TypeOK, RingInv, QueueInv, EveryWindowKept, [Next]_vars, NEW m \in Mocks,
           \A i \in DOMAIN queue : req[m] < start[queue[i]]
    PROVE  \A i \in DOMAIN queue' : req[m] < start'[queue'[i]]
<1> SUFFICES ASSUME NEW i \in DOMAIN queue' PROVE req[m] < start'[queue'[i]]
  BY Zenon
<1>t. /\ now \in Nat /\ req \in [Mocks -> Nat] /\ queue \in Seq(QueuedReqs)
      /\ start \in [Reqs -> Nat] /\ QueuedReqs \subseteq Reqs
  BY Zenon DEF TypeOK, ClockType, QueueType, ReqType, Reqs
<1>1. ASSUME NEW j \in DOMAIN queue, queue'[i] = queue[j] PROVE req[m] < start'[queue'[i]]
  <2>1. PICK q \in Reqs : q = queue[j]
    BY <1>t
  <2>2. status[q] # "idle" /\ req[m] < start[q]
    BY Zenon, <2>1 DEF QueueInv
  <2>3. start'[q] = start[q]
    BY Zenon, <2>1, <2>2, RequestSteps
  <2>4. QED BY Zenon, <1>1, <2>1, <2>2, <2>3
<1>2. CASE queue' = queue
  BY Zenon, <1>1, <1>2
<1>3. CASE queue # <<>> /\ queue' = Tail(queue)
  <2>1. i + 1 \in DOMAIN queue /\ queue'[i] = queue[i + 1]
    BY <1>t, <1>3
  <2>2. QED BY Zenon, <1>1, <2>1
<1>4. ASSUME NEW r \in QueuedReqs, Begins(r) PROVE req[m] < start'[queue'[i]]
  <2>1. queue' = Append(queue, r) /\ start' = [start EXCEPT ![r] = now + 1]
    BY Zenon, <1>4 DEF Begins, BeginRequest, Stamp, Advance
  <2>2. (i \in DOMAIN queue /\ queue'[i] = queue[i]) \/ queue'[i] = r
    BY <1>t, <2>1
  <2>3. start'[r] = now + 1 /\ req[m] < now + 1
    BY <1>t, <2>1 DEF QueueInv
  <2>4. QED BY Zenon, <1>1, <2>2, <2>3
<1>5. ASSUME NEW r \in Reqs, Begins(r), r \notin QueuedReqs PROVE queue' = queue
  BY Zenon, <1>5 DEF Begins, BeginRequest
<1>6. QED BY <1>2, <1>3, <1>4, <1>5, Kinds, Zenon DEF Resolves, CleansDuplicate, Flushes, Offers, Sheds

(* No mock of a window resolved in time is stale, and none is debris. *)
LEMMA SpareStep ==
    ASSUME IndInv, RingInv, QueueInv, SpareInv, EveryWindowKept, OneCaptureMode, [Next]_vars
    PROVE  SpareInv'
<1> SUFFICES ASSUME NEW m \in Mocks PROVE Spare(m)'
  BY Zenon DEF SpareInv
<1>t. /\ TypeOK /\ now \in Nat /\ now' \in Nat /\ req \in [Mocks -> Nat] /\ queue \in Seq(QueuedReqs)
      /\ recentWindows \in Seq(Windows) /\ start \in [Reqs -> Nat] /\ end \in [Reqs -> Nat]
      /\ resolvedAt \in [Reqs -> Nat] /\ QueuedReqs \subseteq Reqs /\ req[m] \in Nat
      /\ dropped \in [Mocks -> Reasons]
  BY Zenon, TypeInductive DEF IndInv, TypeOK, ClockType, QueueType, ReqType, BufferType, DropType, Reqs
<1>s. Spare(m)
  BY Zenon DEF SpareInv
<1>1. now <= now'
  BY Zenon, <1>t, ClockSteps
<1>2. ASSUME dropped[m] # "no" \/ m \in handled PROVE req'[m] = req[m]
  <2>1. OnePlace(m)
    BY Zenon DEF IndInv, ExactlyOnce
  <2>2. m \in handled
    BY Zenon, <1>2, <2>1 DEF OnePlace, Dropped
  <2>3. req[m] # 0
    BY Zenon, <2>2 DEF QueueInv
  <2>4. QED BY Zenon, <1>t, <2>3, ClockSteps
<1>3. ASSUME NEW w \in Windows, Settled(w.owner), req'[m] = req[m]
      PROVE  InWindow(m, w.owner)' <=> InWindow(m, w.owner)
  <2>1. w.owner \in Reqs
    BY Zenon DEF Windows
  <2>2. start'[w.owner] = start[w.owner] /\ end'[w.owner] = end[w.owner]
    BY Zenon, <1>3, <1>t, <2>1, RequestSteps
  <2>3. QED BY <1>3, <2>2, Zenon DEF InWindow
<1>4. ASSUME dropped'[m] \notin {"stale", "debris", "duplicate"} PROVE Spare(m)'
  BY <1>4, Zenon DEF Spare
<1>5. ASSUME dropped[m] = "debris", dropped'[m] = dropped[m]
      PROVE  \A i \in DOMAIN queue' : req[m] < start'[queue'[i]]
  BY <1>5, <1>s, <1>t, DebrisBehind, Zenon DEF Spare
<1>6. ASSUME NEW i \in DOMAIN recentWindows
      PROVE  \E w \in Windows : w = recentWindows[i] /\ Settled(w.owner)
  <2>1. PICK w \in Windows : w = recentWindows[i]
    BY <1>t
  <2>2. QED BY <2>1, Zenon DEF RingInv, Final
<1>7. ASSUME UNCHANGED <<recentWindows, resolvedAt>>, dropped'[m] = dropped[m] PROVE Spare(m)'
  <2>1. CASE dropped[m] \notin {"stale", "debris", "duplicate"}
    BY Zenon, <1>4, <1>7, <2>1
  <2>2. CASE dropped[m] = "stale"
    <3>1. req'[m] = req[m] /\ req[m] + Horizon < now
      BY Zenon, <1>2, <1>s, <2>2 DEF Spare
    <3>2. req[m] + Horizon < now'
      BY <1>t, <1>1, <3>1, AgeGrows, Zenon
    <3>3. ASSUME NEW i \in DOMAIN recentWindows, InWindow(m, recentWindows[i].owner)'
          PROVE  resolvedAt[recentWindows[i].owner] > req[m] + Horizon
      <4>1. PICK w \in Windows : w = recentWindows[i] /\ Settled(w.owner)
        BY Zenon, <1>6
      <4>2. InWindow(m, w.owner)'
        BY Zenon, <1>7, <3>3, <4>1 DEF InWindow
      <4>3. InWindow(m, w.owner)
        BY Zenon, <1>3, <3>1, <4>1, <4>2
      <4>4. InWindow(m, recentWindows[i].owner)
        BY Zenon, <4>1, <4>3
      <4>5. QED BY <1>s, <2>2, <4>4, Zenon DEF Spare
    <3>4. QED BY <1>7, <2>2, <3>1, <3>2, <3>3, Zenon DEF Spare
  <2>3. CASE dropped[m] = "debris"
    <3>1. req'[m] = req[m] /\ HttpReqs \cup GrpcReqs = {}
      BY Zenon, <1>2, <1>s, <2>3 DEF Spare
    <3>2. \A i \in DOMAIN queue' : req[m] < start'[queue'[i]]
      BY Zenon, <1>5, <1>7, <2>3
    <3>3. ASSUME NEW i \in DOMAIN recentWindows PROVE ~InWindow(m, recentWindows[i].owner)'
      <4>1. PICK w \in Windows : w = recentWindows[i] /\ Settled(w.owner)
        BY Zenon, <1>6
      <4>2. ~InWindow(m, w.owner)
        BY <1>s, <2>3, <4>1, Zenon DEF Spare
      <4>3. ~InWindow(m, w.owner)'
        BY Zenon, <1>3, <3>1, <4>1, <4>2
      <4>4. QED BY Zenon, <1>7, <4>1, <4>3 DEF InWindow
    <3>4. QED BY <1>7, <2>3, <3>1, <3>2, <3>3, Zenon DEF Spare
  <2>4. dropped[m] # "duplicate"
    BY Zenon, <1>s DEF Spare
  <2>5. QED BY Zenon, <2>1, <2>2, <2>3, <2>4
<1>8. ASSUME NEW t \in Threads, NEW r \in Reqs, NEW mapping \in BOOLEAN, Resolves(t, r, mapping)
      PROVE  Spare(m)'
  <2> DEFINE win == [owner |-> r, test |-> testName'[r], mapping |-> mapping]
  <2>1. /\ ResolveRange(t, r, testName'[r], TRUE, mapping)
        /\ UNCHANGED <<now, req, start, end>>
        /\ recentWindows' = Ring(Append(recentWindows, win))
        /\ resolvedAt' = [resolvedAt EXCEPT ![r] = now]
        /\ \/ r \in HttpReqs \cup GrpcReqs
           \/ queue # <<>> /\ r = Head(queue)
    BY Zenon, <1>8 DEF Resolves, ResolveRange
  <2>2. win \in Windows /\ win.owner = r
    <3>1. testName' \in [Reqs -> Nat]
      BY Zenon, <1>t, TypeInductive DEF TypeOK, ReqType
    <3>2. QED BY Zenon, <3>1 DEF Windows
  <2> HIDE DEF win
  <2>3. \A q : InWindow(m, q)' <=> InWindow(m, q)
    BY Zenon, <2>1 DEF InWindow
  <2>4. ASSUME NEW i \in DOMAIN recentWindows'
        PROVE  recentWindows'[i] = win \/ \E j \in DOMAIN recentWindows : recentWindows'[i] = recentWindows[j]
    <3>1. i \in DOMAIN Ring(Append(recentWindows, win))
      BY Zenon, <2>1
    <3>2. \/ Ring(Append(recentWindows, win))[i] = win
          \/ \E j \in DOMAIN recentWindows : Ring(Append(recentWindows, win))[i] = recentWindows[j]
      BY <1>t, <2>2, <3>1, RingElems
    <3>3. QED BY Zenon, <2>1, <3>2
  <2>5. ASSUME NEW j \in DOMAIN recentWindows
        PROVE  \/ recentWindows[j].owner = r
               \/ resolvedAt'[recentWindows[j].owner] = resolvedAt[recentWindows[j].owner]
    <3>1. PICK w \in Windows : w = recentWindows[j]
      BY <1>t
    <3>2. w.owner \in Reqs
      BY Zenon DEF Windows
    <3>3. QED BY Zenon, <1>t, <2>1, <3>1, <3>2
  <2>6. resolvedAt'[r] = now
    BY Zenon, <1>t, <2>1
  <2>7. CASE dropped'[m] # dropped[m]
    <3>1. /\ dropped'[m] = "stale" /\ req[m] < now - Horizon /\ ~InWindow(m, r) /\ ~Owned(m)
      BY Zenon, <1>t, <2>1, <2>7, ResolveDrops
    <3>2. req[m] + Horizon < now
      BY Zenon, <1>t, <3>1, TooOld
    <3>3. \A j \in DOMAIN recentWindows : ~InWindow(m, recentWindows[j].owner)
      BY <3>1, Zenon DEF Owned, Owners
    <3>4. ASSUME NEW i \in DOMAIN recentWindows' PROVE ~InWindow(m, recentWindows[i].owner)'
      <4>1. ~InWindow(m, recentWindows'[i].owner)
        BY <2>2, <2>4, <3>1, <3>3, Zenon
      <4>2. QED BY Zenon, <2>1, <4>1 DEF InWindow
    <3>5. QED BY <2>1, <3>1, <3>2, <3>4, Zenon DEF Spare
  <2>8. CASE dropped'[m] = dropped[m] /\ dropped[m] = "stale"
    <3>1. req[m] + Horizon < now /\ now > req[m] + Horizon
      BY <1>s, <1>t, <2>8, AgedOut, Zenon DEF Spare
    <3>2. ASSUME NEW j \in DOMAIN recentWindows, InWindow(m, recentWindows[j].owner)
          PROVE  resolvedAt'[recentWindows[j].owner] > req[m] + Horizon
      BY <1>s, <2>5, <2>6, <2>8, <3>1, <3>2, Zenon DEF Spare
    <3>3. ASSUME NEW i \in DOMAIN recentWindows', InWindow(m, recentWindows[i].owner)'
          PROVE  resolvedAt'[recentWindows'[i].owner] > req[m] + Horizon
      <4>1. InWindow(m, recentWindows'[i].owner)
        BY Zenon, <2>1, <3>3 DEF InWindow
      <4>2. QED BY <2>2, <2>4, <2>6, <3>1, <3>2, <4>1, Zenon
    <3>4. QED BY <2>1, <2>8, <3>1, <3>3, Zenon DEF Spare
  <2>9. CASE dropped'[m] = dropped[m] /\ dropped[m] = "debris"
    <3>1. HttpReqs \cup GrpcReqs = {}
      BY <1>s, <2>9, Zenon DEF Spare
    <3>2. queue # <<>> /\ r = Head(queue)
      BY Zenon, <2>1, <3>1
    <3>3. 1 \in DOMAIN queue /\ r = queue[1]
      BY <1>t, <3>2
    <3>4. req[m] < start[r]
      BY <1>s, <2>9, <3>3, Zenon DEF Spare
    <3>5. ~InWindow(m, r)
      BY <1>t, <3>4 DEF InWindow
    <3>6. ASSUME NEW i \in DOMAIN recentWindows' PROVE ~InWindow(m, recentWindows[i].owner)'
      <4>1. ~InWindow(m, recentWindows'[i].owner)
        BY <1>s, <2>2, <2>4, <2>9, <3>5, Zenon DEF Spare
      <4>2. QED BY Zenon, <2>1, <4>1 DEF InWindow
    <3>7. \A i \in DOMAIN queue' : req'[m] < start'[queue'[i]]
      BY Zenon, <1>5, <2>1, <2>9
    <3>8. QED BY <2>9, <3>1, <3>6, <3>7, Zenon DEF Spare
  <2>10. CASE dropped'[m] = dropped[m] /\ dropped[m] \notin {"stale", "debris", "duplicate"}
    BY Zenon, <1>4, <2>10
  <2>11. dropped[m] # "duplicate"
    BY Zenon, <1>s DEF Spare
  <2>12. QED BY Zenon, <2>7, <2>8, <2>9, <2>10, <2>11
<1>9. CASE CleansDuplicate
  <2>1. /\ queue # <<>> /\ queue' = Tail(queue) /\ UNCHANGED <<now, req, start, end, recentWindows, resolvedAt>>
        /\ DeleteMocksStrictlyBefore("dedup", start[Head(queue)])
    BY Zenon, <1>9 DEF CleansDuplicate
  <2>2. CASE dropped'[m] = dropped[m]
    BY Zenon, <1>7, <2>1, <2>2
  <2>3. CASE dropped'[m] # dropped[m]
    <3>1. dropped'[m] = "debris" /\ req[m] < start[Head(queue)] /\ ~Owned(m)
      BY Zenon, <1>t, <2>1, <2>3, DeleteDrops
    <3>2. 1 \in DOMAIN queue /\ queue[1] = Head(queue) /\ queue[1] \in QueuedReqs
      BY <1>t, <2>1
    <3>3. HttpReqs \cup GrpcReqs = {}
      BY Zenon, <3>2 DEF OneCaptureMode
    <3>4. ASSUME NEW i \in DOMAIN queue' PROVE req'[m] < start'[queue'[i]]
      <4>0. i \in 1..(Len(queue) - 1) /\ Len(queue) \in Nat /\ DOMAIN queue = 1..Len(queue)
        BY <1>t, <2>1, <3>4
      <4>a. queue'[i] = queue[i + 1]
        BY <1>t, <2>1, <4>0
      <4>b. 1 < i + 1 /\ i + 1 \in DOMAIN queue
        BY <4>0
      <4>1. 1 < i + 1 /\ i + 1 \in DOMAIN queue /\ queue'[i] = queue[i + 1] /\ queue[i + 1] \in Reqs
        BY <1>t, <4>a, <4>b
      <4>2. start[queue[1]] < start[queue[i + 1]]
        BY Zenon, <3>2, <4>1 DEF QueueInv
      <4>3. start[queue[1]] \in Nat /\ start[queue[i + 1]] \in Nat
        BY Zenon, <1>t, <3>2, <4>1
      <4>4. req[m] < start[queue[i + 1]]
        <5>1. req[m] \in Nat /\ req[m] < start[queue[1]]
          BY Zenon, <1>t, <3>1, <3>2
        <5>2. QED BY Zenon, <4>2, <4>3, <5>1, Before
      <4>5. req' = req /\ start' = start
        BY Zenon, <2>1
      <4>6. QED BY <4>1, <4>4, <4>5, Zenon
    <3>5. ASSUME NEW i \in DOMAIN recentWindows' PROVE ~InWindow(m, recentWindows[i].owner)'
      <4>1. ~InWindow(m, recentWindows[i].owner)
        BY <2>1, <3>1, Zenon DEF Owned, Owners
      <4>2. QED BY Zenon, <2>1, <4>1 DEF InWindow
    <3>6. QED BY <3>1, <3>3, <3>4, <3>5, Zenon DEF Spare
  <2>4. QED BY Zenon, <2>2, <2>3
<1>10. ASSUME NEW t \in Threads, Flushes(t) PROVE Spare(m)'
  <2>1. FlushOwnedWindows(t) /\ UNCHANGED <<recentWindows, resolvedAt>>
    BY Zenon, <1>10 DEF Flushes
  <2>2. dropped'[m] = dropped[m]
    BY Zenon, <1>t, <2>1, FlushDrops
  <2>3. QED BY Zenon, <1>7, <2>1, <2>2
<1>11. CASE UNCHANGED <<dropped, recentWindows, resolvedAt>>
  BY Zenon, <1>7, <1>11
<1>12. CASE Sheds
  <2>1. /\ UNCHANGED <<recentWindows, resolvedAt>>
        /\ dropped'[m] = dropped[m] \/ dropped'[m] \in {"pressure", "closed", "unsent", "budget", "wiped"}
    BY Zenon, <1>12 DEF Sheds
  <2>2. QED BY Zenon, <1>4, <1>7, <2>1
<1>13. QED BY <1>8, <1>9, <1>10, <1>11, <1>12, <1>t, Kinds, Zenon DEF Begins, Offers

-----------------------------------------------------------------------------
(* Nothing has happened yet. *)
LEMMA ReapInit ==
    Init => RingInv /\ MapInv /\ QueueInv /\ SpareInv /\ StartupSurvives
<1> SUFFICES ASSUME Init PROVE RingInv /\ MapInv /\ QueueInv /\ SpareInv /\ StartupSurvives
  BY Zenon
<1>1. RingInv
  BY DEF Init, RingInv
<1>2. MapInv
  BY Zenon DEF Init, MapInv
<1>3. QueueInv
  BY DEF Init, QueueInv
<1>4. SpareInv
  BY Zenon DEF Init, SpareInv, Spare
<1>5. StartupSurvives
  BY Zenon DEF Init, StartupSurvives
<1>6. QED BY Zenon, <1>1, <1>2, <1>3, <1>4, <1>5

(* isStartupMock: no reaper drops a mock tagged IsStartup, in every recording in  *)
(* which CaptureGRPC resolves no duplicate (ResolveRange with keep = false does). *)
THEOREM StartupPreserved == EveryWindowKept => (Spec => []StartupSurvives)
<1> SUFFICES ASSUME EveryWindowKept PROVE Spec => []StartupSurvives
  BY Zenon
<1>1. Init => IndInv /\ RingInv /\ StartupSurvives
  BY Zenon, ReapInit, OnceInit
<1>2. IndInv /\ RingInv /\ StartupSurvives /\ [Next]_vars => (IndInv /\ RingInv /\ StartupSurvives)'
  BY Zenon, OnceInductive, RingStep, StartupStep DEF IndInv
<1>3. QED BY <1>1, <1>2, PTL DEF Spec

(* MappingChan: an entry the CLI receives, direct or late, names a kept test whose *)
(* window holds the mock, when no duplicate's window enters the ring and the       *)
(* requests of the dedup queue agree on the mapping flag.                          *)
THEOREM MappingsSound == EveryWindowKept /\ OneMappingFlag => (Spec => []MappingSound)
<1> SUFFICES ASSUME EveryWindowKept, OneMappingFlag PROVE Spec => []MappingSound
  BY Zenon
<1>1. Init => TypeOK /\ RingInv /\ MapInv
  BY Zenon, ReapInit, TypeInit
<1>2. TypeOK /\ RingInv /\ MapInv /\ [Next]_vars => (TypeOK /\ RingInv /\ MapInv)'
  BY Zenon, TypeInductive, RingStep, MapStep
<1>3. RingInv /\ MapInv => MappingSound
  BY Zenon, SetsAssumption DEF RingInv, MapInv, Sound, MappingSound
<1>4. QED BY <1>1, <1>2, <1>3, PTL DEF Spec

(* The reapers of ResolveRange and DeleteMocksStrictlyBefore: a mock of a kept     *)
(* window still in the ring, resolved within the horizon of its request, is        *)
(* neither stale nor debris, when no duplicate's window is resolved and the        *)
(* recording uses the dedup queue or direct captures but not both.                 *)
THEOREM KeptMocksSurvive == EveryWindowKept /\ OneCaptureMode => (Spec => []KeptMockSurvives)
<1> SUFFICES ASSUME EveryWindowKept, OneCaptureMode PROVE Spec => []KeptMockSurvives
  BY Zenon
<1>1. Init => IndInv /\ RingInv /\ QueueInv /\ SpareInv
  BY Zenon, ReapInit, OnceInit
<1>2. IndInv /\ RingInv /\ QueueInv /\ SpareInv /\ [Next]_vars
         => (IndInv /\ RingInv /\ QueueInv /\ SpareInv)'
  BY Zenon, OnceInductive, RingStep, QueueStep, SpareStep DEF IndInv
<1>3. IndInv /\ SpareInv => KeptMockSurvives
  <2> SUFFICES ASSUME IndInv, SpareInv, NEW r \in Reqs, NEW m \in handled \ Reusable, KeptWindow(r),
                      InWindow(m, r), resolvedAt[r] <= req[m] + Horizon
               PROVE  dropped[m] \notin {"stale", "duplicate", "debris"}
    BY Zenon DEF KeptMockSurvives
  <2>1. m \in Mocks /\ req[m] \in Nat /\ resolvedAt[r] \in Nat
    BY Zenon DEF IndInv, TypeOK, ClockType, ReqType
  <2>2. PICK i \in DOMAIN recentWindows : recentWindows[i].owner = r
    BY Zenon DEF KeptWindow
  <2>3. /\ dropped[m] # "duplicate" /\ dropped[m] # "debris"
        /\ dropped[m] = "stale" => resolvedAt[r] > req[m] + Horizon
    BY <2>1, <2>2, Zenon DEF SpareInv, Spare
  <2>4. ~(resolvedAt[r] > req[m] + Horizon)
    BY <2>1, BoundsAssumption
  <2>5. QED BY Zenon, <2>3, <2>4
<1>4. QED BY <1>1, <1>2, <1>3, PTL DEF Spec

(* isStartupMock and the reapers together: under both conditions no reaper drops a *)
(* startup mock or a mock of a kept window.                                        *)
THEOREM ReapersSpareMocks == EveryWindowKept /\ OneCaptureMode => (Spec => []MocksSurvive)
<1> SUFFICES ASSUME EveryWindowKept, OneCaptureMode PROVE Spec => []MocksSurvive
  BY Zenon
<1>1. Spec => []StartupSurvives
  BY Zenon, StartupPreserved
<1>2. Spec => []KeptMockSurvives
  BY Zenon, KeptMocksSurvive
<1>3. StartupSurvives /\ KeptMockSurvives => MocksSurvive
  BY Zenon DEF MocksSurvive
<1>4. QED BY <1>1, <1>2, <1>3, PTL
=============================================================================

--------------------------- MODULE SyncMockProofs ---------------------------
(***************************************************************************)
(* Machine-checked proofs about SyncMock, for any sets of mocks and        *)
(* requests and any bounds: the types of its variables, and that no mock   *)
(* is lost or sent twice.                                                  *)
(***************************************************************************)
EXTENDS SyncMock, WellFoundedInduction, TLAPS

(* A nonempty set of naturals has a least element: what ownerWindow's first *)
(* match and a thread's next send rest on.                                  *)
LEMMA LeastNat ==
    ASSUME NEW S, S \subseteq Nat, S # {}
    PROVE  \E x \in S : \A y \in S : x <= y
<1> DEFINE R == {ss \in Nat \X Nat : ss[1] < ss[2]}
<1>1. IsWellFoundedOn(R, Nat)
  BY Zenon, NatLessThanWellFounded DEF OpToRel
<1>0. \A a, b \in Nat : a < b => <<a, b>> \in R
  BY Zenon
<1> HIDE DEF R
<1>2. PICK x \in S : \A y \in S : ~(<<y, x>> \in R)
  BY <1>1, WFMin, Zenon
<1>3. \A y \in S : x \in Nat /\ y \in Nat /\ ~(y < x)
  BY <1>0, <1>2, Zenon
<1> QED
  BY <1>3

(* ownerWindow returns an entry of the ring that contains the mock's time. *)
LEMMA OwnerInRing ==
    ASSUME TypeOK, NEW m, Owned(m)
    PROVE  \E i \in DOMAIN recentWindows : OwnerWindow(m) = recentWindows[i]
<1>1. Owners(m) \subseteq Nat /\ Owners(m) # {}
  BY DEF Owned, Owners, TypeOK, BufferType
<1>2. \E i \in Owners(m) : \A j \in Owners(m) : i <= j
  BY Zenon, <1>1, LeastNat
<1> QED
  BY <1>2, Zenon DEF OwnerWindow, Owners

(* sendToOutChan is called with a mock its thread holds. *)
LEMMA NextIsHeld ==
    ASSUME TypeOK, NEW t \in Threads, outbox[t] # {}
    PROVE  NextToSend(t) \in outbox[t]
<1> DEFINE S == {arrival[x] : x \in outbox[t]}
<1>1. S \subseteq Nat /\ S # {}
  BY Zenon DEF TypeOK, BufferType, SendType
<1>2. PICK n \in S : \A k \in S : n <= k
  BY Zenon, <1>1, LeastNat
<1>3. \E m \in outbox[t] : \A x \in outbox[t] : arrival[m] <= arrival[x]
  BY Zenon, <1>2
<1> QED
  BY <1>3, Zenon DEF NextToSend

(* Late mapping entries pair a window's test with a mock of the buffer. *)
LEMMA LateMapType ==
    ASSUME TypeOK, NEW S, S \subseteq Mocks
    PROVE  LateMap(S) \subseteq Nat \X Mocks
<1>1. ASSUME NEW m \in S, Owned(m) PROVE OwnerWindow(m).test \in Nat
  <2>1. PICK i \in DOMAIN recentWindows : OwnerWindow(m) = recentWindows[i]
    BY <1>1, OwnerInRing, Zenon
  <2>2. recentWindows[i] \in Windows
    BY DEF TypeOK, BufferType
  <2> QED
    BY Zenon, <2>1, <2>2 DEF Windows
<1> QED
  BY <1>1 DEF LateMap, PerTest

(* A sweep of the buffer keeps the types, whatever it sends and drops. *)
LEMMA SweepType ==
    ASSUME TypeOK, NEW t \in Threads, NEW send, NEW maps, NEW drop, NEW reason,
           send \subseteq Mocks, maps \subseteq Nat \X Mocks, drop \subseteq Mocks,
           \A m \in drop : reason[m] \in Reasons,
           Sweep(t, send, maps, drop, reason)
    PROVE  /\ buffer' \subseteq Mocks /\ mapped' \subseteq Nat \X Mocks
           /\ outbox' \in [Threads -> SUBSET Mocks]
           /\ pendingMap' \in [Threads -> SUBSET (Nat \X Mocks)]
           /\ dropped' \in [Mocks -> Reasons]
  BY Zenon DEF Sweep, TypeOK, BufferType, SendType, DropType

(* FlushOwnedWindows keeps the types of what it changes. *)
LEMMA FlushType ==
    ASSUME TypeOK, NEW t \in Threads, FlushOwnedWindows(t)
    PROVE  /\ buffer' \subseteq Mocks /\ mapped' \subseteq Nat \X Mocks
           /\ outbox' \in [Threads -> SUBSET Mocks]
           /\ pendingMap' \in [Threads -> SUBSET (Nat \X Mocks)]
           /\ dropped' \in [Mocks -> Reasons]
<1> DEFINE send == IF Bound THEN Attributable(buffer) ELSE {}
<1>1. send \subseteq Mocks
  BY Zenon DEF Attributable, TypeOK, BufferType
<1>2. LateMap(send) \subseteq Nat \X Mocks
  BY Zenon, <1>1, LateMapType
<1>3. Sweep(t, send, LateMap(send), {}, dropped)
  BY Zenon DEF FlushOwnedWindows
<1> HIDE DEF send
<1> QED
  BY <1>1, <1>2, <1>3, SweepType

(* DeleteMocksStrictlyBefore keeps the types of what it changes. *)
LEMMA DeleteType ==
    ASSUME TypeOK, NEW t \in Threads, NEW ts, DeleteMocksStrictlyBefore(t, ts)
    PROVE  /\ buffer' \subseteq Mocks /\ mapped' \subseteq Nat \X Mocks
           /\ outbox' \in [Threads -> SUBSET Mocks]
           /\ pendingMap' \in [Threads -> SUBSET (Nat \X Mocks)]
           /\ dropped' \in [Mocks -> Reasons]
<1> DEFINE before  == {m \in buffer : req[m] < ts}
           rescued == Attributable(before)
           send    == IF Bound THEN rescued ELSE {}
           drop    == before \ rescued
           reason  == [m \in Mocks |-> "debris"]
<1>1. send \subseteq Mocks /\ drop \subseteq Mocks
  BY Zenon DEF Attributable, TypeOK, BufferType
<1>2. LateMap(send) \subseteq Nat \X Mocks
  BY Zenon, <1>1, LateMapType
<1>3. Sweep(t, send, LateMap(send), drop, reason)
  BY Zenon DEF DeleteMocksStrictlyBefore
<1>4. \A m \in drop : reason[m] \in Reasons
  BY Zenon, <1>1 DEF Reasons
<1> HIDE DEF send, drop, reason
<1> QED
  BY Zenon, <1>1, <1>2, <1>3, <1>4, SweepType

(* ResolveRange keeps the types of what it changes, and the ring within its cap. *)
LEMMA ResolveType ==
    ASSUME TypeOK, NEW t \in Threads, NEW r \in Reqs, NEW test \in Nat, NEW keep \in BOOLEAN,
           NEW mapping \in BOOLEAN, ResolveRange(t, r, test, keep, mapping)
    PROVE  /\ buffer' \subseteq Mocks /\ mapped' \subseteq Nat \X Mocks
           /\ outbox' \in [Threads -> SUBSET Mocks]
           /\ pendingMap' \in [Threads -> SUBSET (Nat \X Mocks)]
           /\ dropped' \in [Mocks -> Reasons]
           /\ resolvedTestCount' \in Nat /\ resolvedAt' \in [Reqs -> Nat]
           /\ recentWindows' \in Seq(Windows) /\ Len(recentWindows') <= MaxRecent
<1> DEFINE matched == {m \in PerTest(buffer) : InWindow(m, r)}
           late    == {m \in PerTest(buffer) \ matched : Owned(m)}
           other   == PerTest(buffer) \ (matched \cup late)
           flush   == (buffer \cap Reusable) \cup (other \cap startup)
                        \cup (IF keep THEN matched \cup late ELSE matched \cap startup)
           stale   == {m \in other \ startup : req[m] < now - Horizon}
           reaped  == IF keep THEN {} ELSE late \cup (matched \ startup)
           direct  == IF keep /\ mapping THEN {<<test, m>> : m \in matched} ELSE {}
           delayed == IF keep THEN LateMap(late) ELSE {}
           window  == [owner |-> r, test |-> test, mapping |-> mapping]
           send    == IF Bound THEN flush ELSE {}
           maps    == IF Bound THEN direct \cup delayed ELSE {}
           drop    == stale \cup reaped
           reason  == [m \in Mocks |-> IF m \in stale THEN "stale" ELSE "duplicate"]
<1>1. buffer \subseteq Mocks
  BY Zenon DEF TypeOK, BufferType
<1>2. matched \subseteq Mocks /\ late \subseteq Mocks /\ other \subseteq Mocks
  BY Zenon, <1>1 DEF PerTest
<1>3. send \subseteq Mocks
  <2> HIDE DEF matched, late, other
  <2> QED BY Zenon, <1>1, <1>2
<1>4. drop \subseteq Mocks
  <2> HIDE DEF matched, late, other
  <2> QED BY Zenon, <1>2
<1>5. maps \subseteq Nat \X Mocks
  <2>1. LateMap(late) \subseteq Nat \X Mocks
    <3> HIDE DEF late
    <3> QED BY Zenon, <1>2, LateMapType
  <2> HIDE DEF matched, late
  <2>2. direct \subseteq Nat \X Mocks
    BY <1>2
  <2> QED
    BY Zenon, <2>1, <2>2
<1>6. \A m \in drop : reason[m] \in Reasons
  <2> HIDE DEF stale, drop
  <2> QED BY Zenon, <1>4 DEF Reasons
<1>7. Sweep(t, send, maps, drop, reason)
  BY Zenon DEF ResolveRange
<1>8. /\ buffer' \subseteq Mocks /\ mapped' \subseteq Nat \X Mocks
      /\ outbox' \in [Threads -> SUBSET Mocks]
      /\ pendingMap' \in [Threads -> SUBSET (Nat \X Mocks)]
      /\ dropped' \in [Mocks -> Reasons]
  <2> HIDE DEF send, maps, drop, reason
  <2> QED BY Zenon, <1>3, <1>4, <1>5, <1>6, <1>7, SweepType
<1>9. /\ resolvedTestCount' = IF keep THEN resolvedTestCount + 1 ELSE resolvedTestCount
      /\ recentWindows' = Ring(Append(recentWindows, window))
      /\ resolvedAt' = [resolvedAt EXCEPT ![r] = now]
  BY Zenon DEF ResolveRange
<1>10. resolvedTestCount' \in Nat /\ resolvedAt' \in [Reqs -> Nat]
  BY <1>9 DEF TypeOK, BufferType, ReqType, ClockType
<1>11. recentWindows' \in Seq(Windows) /\ Len(recentWindows') <= MaxRecent
  <2>1. window \in Windows
    BY Zenon DEF Windows
  <2> HIDE DEF window
  <2>2. recentWindows \in Seq(Windows) /\ Len(recentWindows) <= MaxRecent
    BY Zenon DEF TypeOK, BufferType
  <2> QED
    BY <1>9, <2>1, <2>2, BoundsAssumption DEF Ring
<1> QED
  BY Zenon, <1>8, <1>10, <1>11

(* A step that leaves a group of variables alone keeps their types. *)
LEMMA Frame ==
    /\ ClockType /\ UNCHANGED clockVars => ClockType'
    /\ BufferType /\ UNCHANGED bufferVars => BufferType'
    /\ ChanType /\ UNCHANGED chanVars => ChanType'
    /\ CountType /\ UNCHANGED countVars => CountType'
    /\ SendType /\ UNCHANGED sendVars => SendType'
    /\ ReqType /\ UNCHANGED reqVars => ReqType'
    /\ QueueType /\ UNCHANGED queueVars => QueueType'
    /\ GuardType /\ UNCHANGED guardVars => GuardType'
    /\ CloserType /\ UNCHANGED closer => CloserType'
    /\ DropType /\ UNCHANGED dropped => DropType'
<1>1. ClockType /\ UNCHANGED clockVars => ClockType'
  BY Zenon DEF ClockType, clockVars
<1>2. BufferType /\ UNCHANGED bufferVars => BufferType'
  BY Zenon DEF BufferType, bufferVars
<1>3. ChanType /\ UNCHANGED chanVars => ChanType'
  BY Zenon DEF ChanType, chanVars
<1>4. CountType /\ UNCHANGED countVars => CountType'
  BY Zenon DEF CountType, countVars
<1>5. SendType /\ UNCHANGED sendVars => SendType'
  BY Zenon DEF SendType, sendVars
<1>6. ReqType /\ UNCHANGED reqVars => ReqType'
  BY Zenon DEF ReqType, reqVars
<1>7. QueueType /\ UNCHANGED queueVars => QueueType'
  BY Zenon DEF QueueType, queueVars
<1>8. GuardType /\ UNCHANGED guardVars => GuardType'
  BY Zenon DEF GuardType, guardVars
<1>9. CloserType /\ UNCHANGED closer => CloserType'
  BY Zenon DEF CloserType
<1>10. DropType /\ UNCHANGED dropped => DropType'
  BY Zenon DEF DropType
<1> QED
  BY Zenon, <1>1, <1>2, <1>3, <1>4, <1>5, <1>6, <1>7, <1>8, <1>9, <1>10

(* Every action keeps the types: TypeOK is inductive by itself. *)
LEMMA TypeInductive == TypeOK /\ [Next]_vars => TypeOK'
<1> SUFFICES ASSUME TypeOK, [Next]_vars PROVE TypeOK'
  BY Zenon
<1> USE DEF TypeOK
<1>1. CASE IdlePeriod
  <2>1. ClockType'
    BY <1>1, BoundsAssumption DEF IdlePeriod, Advance, ClockType, clockVars
  <2>2. BufferType' /\ ChanType' /\ CountType' /\ SendType' /\ ReqType' /\ QueueType' /\ GuardType' /\ CloserType' /\ DropType'
    BY Zenon, <1>1, Frame DEF IdlePeriod
  <2> QED BY Zenon, <2>1, <2>2
<1>2. CASE Receive
  <2>1. ChanType'
    BY <1>2, BoundsAssumption DEF Receive, ChanType, chanVars
  <2>2. ClockType' /\ BufferType' /\ CountType' /\ SendType' /\ ReqType' /\ QueueType' /\ GuardType' /\ CloserType' /\ DropType'
    BY Zenon, <1>2, Frame DEF Receive
  <2> QED BY Zenon, <2>1, <2>2
<1>3. CASE TickerFlush
  <2>1. "ticker" \in Threads /\ FlushOwnedWindows("ticker")
    BY Zenon, <1>3 DEF TickerFlush, Threads
  <2>2. BufferType'
    BY Zenon, <1>3, <2>1, FlushType DEF TickerFlush, BufferType, bufferVars
  <2>3. SendType'
    BY Zenon, <1>3, <2>1, FlushType DEF TickerFlush, SendType, sendVars
  <2>4. DropType'
    BY Zenon, <1>3, <2>1, FlushType DEF TickerFlush, DropType
  <2>5. ClockType' /\ ChanType' /\ CountType' /\ ReqType' /\ QueueType' /\ GuardType' /\ CloserType'
    BY Zenon, <1>3, Frame DEF TickerFlush
  <2> QED BY Zenon, <2>2, <2>3, <2>4, <2>5
<1>4. CASE DrainHead
  <2>1. "dedup" \in Threads /\ queue # <<>>
    BY Zenon, <1>4 DEF DrainHead, Threads, HeadResolved
  <2>2. Head(queue) \in QueuedReqs /\ Tail(queue) \in Seq(QueuedReqs)
    BY <2>1 DEF QueueType
  <2>3. QueueType'
    BY Zenon, <1>4, <2>2 DEF DrainHead, QueueType
  <2>4. ClockType' /\ ChanType' /\ CountType' /\ GuardType' /\ CloserType'
    BY Zenon, <1>4, Frame DEF DrainHead
  <2>5. CASE DeleteMocksStrictlyBefore("dedup", start[Head(queue)])
               /\ UNCHANGED <<resolvedTestCount, recentWindows, resolvedAt>>
    <3>1. BufferType' /\ SendType' /\ DropType'
      BY Zenon, <1>4, <2>1, <2>5, DeleteType DEF DrainHead, BufferType, SendType, DropType
    <3>2. ReqType'
      BY Zenon, <1>4, <2>5 DEF DrainHead, ReqType
    <3> QED BY Zenon, <2>3, <2>4, <3>1, <3>2
  <2>6. CASE ResolveRange("dedup", Head(queue), testName[Head(queue)], TRUE, dqOwner \in Mapped)
    <3>1. Head(queue) \in Reqs
      BY Zenon, <2>2 DEF Reqs
    <3>2. testName[Head(queue)] \in Nat
      BY Zenon, <3>1 DEF ReqType
    <3> DEFINE mapping == dqOwner \in Mapped
    <3>3. mapping \in BOOLEAN
      BY SMT
    <3>4. ResolveRange("dedup", Head(queue), testName[Head(queue)], TRUE, mapping)
      BY Zenon, <2>6
    <3> HIDE DEF mapping
    <3>5. BufferType'
      BY Zenon, <1>4, <2>1, <3>1, <3>2, <3>3, <3>4, ResolveType DEF DrainHead, BufferType
    <3>7. /\ mapped' \subseteq Nat \X Mocks /\ outbox' \in [Threads -> SUBSET Mocks]
          /\ pendingMap' \in [Threads -> SUBSET (Nat \X Mocks)] /\ dropped' \in [Mocks -> Reasons]
      BY Zenon, <2>1, <3>1, <3>2, <3>3, <3>4, ResolveType
    <3>8. SendType' /\ DropType'
      BY <3>7, Zenon DEF SendType, DropType
    <3>6. ReqType'
      BY Zenon, <1>4, <2>1, <3>1, <3>2, <3>3, <3>4, ResolveType DEF DrainHead, ReqType
    <3> QED BY Zenon, <2>3, <2>4, <3>5, <3>6, <3>8
  <2> QED BY Zenon, <1>4, <2>5, <2>6 DEF DrainHead
<1>5. CASE DrainStop
  <2>1. QueueType'
    BY Zenon, <1>5 DEF DrainStop, QueueType, queueVars
  <2>2. ClockType' /\ BufferType' /\ ChanType' /\ CountType' /\ SendType' /\ ReqType' /\ GuardType' /\ CloserType' /\ DropType'
    BY Zenon, <1>5, Frame DEF DrainStop
  <2> QED BY Zenon, <2>1, <2>2
<1>6. ASSUME NEW m \in Mocks, Call(m) PROVE TypeOK'
  <2>1. ClockType'
    BY <1>6 DEF Call, Stamp, Advance, ClockType, clockVars
  <2>2. ChanType'
    BY Zenon, <1>6 DEF Call, ChanType, chanVars
  <2>3. BufferType' /\ CountType' /\ SendType' /\ ReqType' /\ QueueType' /\ GuardType' /\ CloserType' /\ DropType'
    BY Zenon, <1>6, Frame DEF Call
  <2> QED BY Zenon, <2>1, <2>2, <2>3
<1>7. ASSUME NEW m \in Mocks, AddMock(m) PROVE TypeOK'
  <2>1. m \in Threads
    BY Zenon DEF Threads
  <2>2. ClockType'
    BY Zenon, <1>7 DEF AddMock, ClockType, clockVars
  <2>3. BufferType'
    BY <1>7 DEF AddMock, CountType, BufferType, bufferVars
  <2>4. CountType'
    BY <1>7 DEF AddMock, CountType, countVars
  <2>5. SendType'
    BY <1>7, <2>1 DEF AddMock, SendType, sendVars
  <2>6. DropType'
    BY Zenon, <1>7 DEF AddMock, Reasons, DropType
  <2>7. ChanType' /\ ReqType' /\ QueueType' /\ GuardType' /\ CloserType'
    BY Zenon, <1>7, Frame DEF AddMock
  <2> QED BY Zenon, <2>2, <2>3, <2>4, <2>5, <2>6, <2>7
<1>8. ASSUME NEW m \in Mocks, SendConfigMock(m) PROVE TypeOK'
  <2>1. m \in Threads
    BY Zenon DEF Threads
  <2>2. ClockType'
    BY Zenon, <1>8 DEF SendConfigMock, ClockType, clockVars
  <2>3. SendType'
    BY Zenon, <1>8, <2>1 DEF SendConfigMock, SendType, sendVars
  <2>4. BufferType' /\ ChanType' /\ CountType' /\ ReqType' /\ QueueType' /\ GuardType' /\ CloserType' /\ DropType'
    BY Zenon, <1>8, Frame DEF SendConfigMock
  <2> QED BY Zenon, <2>2, <2>3, <2>4
<1>9. ASSUME NEW t \in Threads, SendToOutChan(t) PROVE TypeOK'
  <2> DEFINE m == NextToSend(t)
  <2>1. m \in outbox[t] /\ m \in Mocks
    BY Zenon, <1>9, NextIsHeld DEF SendToOutChan, SendType
  <2>2. /\ outbox' = [outbox EXCEPT ![t] = @ \ {m}]
        /\ \/ /\ dropped' = [dropped EXCEPT ![m] = "unsent"]
              /\ UNCHANGED <<outChan, dropCount>>
           \/ /\ Len(outChan) < Cap /\ outChan' = Append(outChan, m)
              /\ UNCHANGED <<dropped, dropCount>>
           \/ /\ dropCount' = dropCount + 1 /\ dropped' = [dropped EXCEPT ![m] = "budget"]
              /\ UNCHANGED outChan
    BY Zenon, <1>9 DEF SendToOutChan
  <2>3. /\ UNCHANGED <<clockVars, bufferVars, outState, received, totalAdded, pressureDropped>>
        /\ UNCHANGED <<outChanClosedDrops, pendingMap, mapped, reqVars, queueVars, guardVars, closer>>
    BY Zenon, <1>9 DEF SendToOutChan
  <2> HIDE DEF m
  <2>4. ChanType'
    <3>1. outChan' \in Seq(Mocks) /\ Len(outChan') <= Cap
      <4>1. CASE UNCHANGED outChan
        BY Zenon, <4>1 DEF ChanType
      <4>2. CASE Len(outChan) < Cap /\ outChan' = Append(outChan, m)
        BY <2>1, <4>2, BoundsAssumption DEF ChanType
      <4> QED BY Zenon, <2>2, <4>1, <4>2
    <3> QED BY Zenon, <2>3, <3>1 DEF ChanType
  <2>5. CountType'
    BY <2>2, <2>3 DEF CountType
  <2>6. DropType'
    BY Zenon, <2>1, <2>2 DEF DropType, Reasons
  <2>7. SendType'
    BY Zenon, <2>2, <2>3 DEF SendType
  <2> QED BY Zenon, <2>3, <2>4, <2>5, <2>6, <2>7, Frame
<1>10. ASSUME NEW t \in Threads, OfferMappings(t) PROVE TypeOK'
  <2>1. SendType'
    BY Zenon, <1>10 DEF OfferMappings, SendType, sendVars
  <2>2. ClockType' /\ BufferType' /\ ChanType' /\ CountType' /\ ReqType' /\ QueueType' /\ GuardType' /\ CloserType' /\ DropType'
    BY Zenon, <1>10, Frame DEF OfferMappings
  <2> QED BY Zenon, <2>1, <2>2
<1>11. ASSUME NEW r \in Reqs, BeginRequest(r) PROVE TypeOK'
  <2>1. ClockType'
    BY <1>11 DEF BeginRequest, Stamp, Advance, ClockType, clockVars
  <2>2. BufferType'
    BY Zenon, <1>11 DEF BeginRequest, BufferType, bufferVars
  <2>3. ReqType'
    <3>1. status' \in [Reqs -> Statuses]
      BY Zenon, <1>11 DEF BeginRequest, ReqType, Statuses
    <3>2. start' \in [Reqs -> Nat]
      <4>1. start' = [start EXCEPT ![r] = now + 1]
        BY Zenon, <1>11 DEF BeginRequest
      <4>2. now + 1 \in Nat /\ start \in [Reqs -> Nat]
        BY DEF ReqType, ClockType
      <4> QED
        BY Zenon, <4>1, <4>2
    <3> QED BY Zenon, <1>11, <3>1, <3>2 DEF BeginRequest, ReqType
  <2>4. QueueType'
    BY <1>11 DEF BeginRequest, QueueType, queueVars
  <2>5. ChanType' /\ CountType' /\ SendType' /\ GuardType' /\ CloserType' /\ DropType'
    BY Zenon, <1>11, Frame DEF BeginRequest
  <2> QED BY Zenon, <2>1, <2>2, <2>3, <2>4, <2>5
<1>12. ASSUME NEW r \in Reqs, ReleaseEarly(r) PROVE TypeOK'
  <2>1. ReqType'
    BY Zenon, <1>12 DEF ReleaseEarly, Statuses, ReqType, reqVars
  <2>2. ClockType' /\ BufferType' /\ ChanType' /\ CountType' /\ SendType' /\ QueueType' /\ GuardType' /\ CloserType' /\ DropType'
    BY Zenon, <1>12, Frame DEF ReleaseEarly
  <2> QED BY Zenon, <2>1, <2>2
<1>13. ASSUME NEW r \in Reqs, EndRequest(r) PROVE TypeOK'
  <2>1. ClockType'
    BY <1>13 DEF EndRequest, Stamp, Advance, ClockType, clockVars
  <2>2. ReqType'
    BY <1>13 DEF EndRequest, ClockType, Statuses, ReqType, reqVars
  <2>3. BufferType' /\ ChanType' /\ CountType' /\ SendType' /\ QueueType' /\ GuardType' /\ CloserType' /\ DropType'
    BY Zenon, <1>13, Frame DEF EndRequest
  <2> QED BY Zenon, <2>1, <2>2, <2>3
<1>14. ASSUME NEW r \in Reqs, Capture(r) PROVE TypeOK'
  <2> DEFINE mapping == r \in Mapped
             keep == TRUE
  <2>1. r \in Threads /\ testCounter + 1 \in Nat
    BY <1>14 DEF Capture, Threads, ReqType
  <2>2. mapping \in BOOLEAN /\ keep \in BOOLEAN
    BY SMT
  <2>3. ResolveRange(r, r, testCounter + 1, keep, mapping)
    BY Zenon, <1>14 DEF Capture
  <2> HIDE DEF mapping, keep
  <2>4. BufferType' /\ SendType' /\ DropType' /\ resolvedAt' \in [Reqs -> Nat]
    <3>1. PICK c \in Nat : c = testCounter + 1
      BY Zenon, <2>1
    <3>2. ResolveRange(r, r, c, keep, mapping)
      BY Zenon, <2>3, <3>1
    <3>3. /\ buffer' \subseteq Mocks /\ mapped' \subseteq Nat \X Mocks
          /\ outbox' \in [Threads -> SUBSET Mocks]
          /\ pendingMap' \in [Threads -> SUBSET (Nat \X Mocks)]
          /\ dropped' \in [Mocks -> Reasons]
          /\ resolvedTestCount' \in Nat /\ resolvedAt' \in [Reqs -> Nat]
          /\ recentWindows' \in Seq(Windows) /\ Len(recentWindows') <= MaxRecent
      BY Zenon, <2>1, <2>2, <3>2, ResolveType
    <3>4. UNCHANGED <<arrival, startup, firstReqSeen>>
      BY Zenon, <1>14 DEF Capture
    <3> QED
      BY Zenon, <3>3, <3>4 DEF BufferType, SendType, DropType
  <2>5. ReqType'
    BY Zenon, <1>14, <2>1, <2>4 DEF Capture, ReqType, Statuses
  <2>6. ClockType' /\ ChanType' /\ CountType' /\ QueueType' /\ GuardType' /\ CloserType'
    BY Zenon, <1>14, Frame DEF Capture
  <2> QED BY Zenon, <2>4, <2>5, <2>6
<1>15. ASSUME NEW r \in Reqs, SkipCapture(r) PROVE TypeOK'
  <2>1. ReqType'
    BY Zenon, <1>15 DEF SkipCapture, Statuses, ReqType, reqVars
  <2>2. ClockType' /\ BufferType' /\ ChanType' /\ CountType' /\ SendType' /\ QueueType' /\ GuardType' /\ CloserType' /\ DropType'
    BY Zenon, <1>15, Frame DEF SkipCapture
  <2> QED BY Zenon, <2>1, <2>2
<1>16. ASSUME NEW r \in Reqs, HandleIncoming(r) PROVE TypeOK'
  <2>1. ReqType'
    BY Zenon, <1>16 DEF HandleIncoming, Statuses, ClockType, ReqType, reqVars
  <2>2. ClockType' /\ BufferType' /\ ChanType' /\ CountType' /\ SendType' /\ QueueType' /\ GuardType' /\ CloserType' /\ DropType'
    BY Zenon, <1>16, Frame DEF HandleIncoming
  <2> QED BY Zenon, <2>1, <2>2
<1>17. ASSUME NEW r \in Reqs, NEW d \in BOOLEAN, CaptureGRPC(r, d) PROVE TypeOK'
  <2> DEFINE mapping == r \in Mapped
             keep == ~d
  <2>1. r \in Threads /\ globalTestCounter + 1 \in Nat
    BY <1>17 DEF CaptureGRPC, Threads, ReqType
  <2>2. mapping \in BOOLEAN /\ keep \in BOOLEAN
    BY SMT
  <2>3. ResolveRange(r, r, globalTestCounter + 1, keep, mapping)
    BY Zenon, <1>17 DEF CaptureGRPC
  <2> HIDE DEF mapping, keep
  <2>4. BufferType' /\ SendType' /\ DropType' /\ resolvedAt' \in [Reqs -> Nat]
    <3>1. PICK c \in Nat : c = globalTestCounter + 1
      BY Zenon, <2>1
    <3>2. ResolveRange(r, r, c, keep, mapping)
      BY Zenon, <2>3, <3>1
    <3>3. /\ buffer' \subseteq Mocks /\ mapped' \subseteq Nat \X Mocks
          /\ outbox' \in [Threads -> SUBSET Mocks]
          /\ pendingMap' \in [Threads -> SUBSET (Nat \X Mocks)]
          /\ dropped' \in [Mocks -> Reasons]
          /\ resolvedTestCount' \in Nat /\ resolvedAt' \in [Reqs -> Nat]
          /\ recentWindows' \in Seq(Windows) /\ Len(recentWindows') <= MaxRecent
      BY Zenon, <2>1, <2>2, <3>2, ResolveType
    <3>4. UNCHANGED <<arrival, startup, firstReqSeen>>
      BY Zenon, <1>17 DEF CaptureGRPC
    <3> QED
      BY Zenon, <3>3, <3>4 DEF BufferType, SendType, DropType
  <2>5. ReqType'
    BY Zenon, <1>17, <2>1, <2>4 DEF CaptureGRPC, ReqType, Statuses
  <2>6. ClockType' /\ ChanType' /\ CountType' /\ QueueType' /\ GuardType' /\ CloserType'
    BY Zenon, <1>17, Frame DEF CaptureGRPC
  <2> QED BY Zenon, <2>4, <2>5, <2>6
<1>18. ASSUME NEW r \in Reqs, NEW d \in BOOLEAN, ResolveJob(r, d) PROVE TypeOK'
  <2>1. ReqType'
    <3>1. /\ status' = [status EXCEPT ![r] = "resolved"]
          /\ globalTestCounter' = globalTestCounter + 1
          /\ testName' = [testName EXCEPT ![r] = globalTestCounter + 1]
          /\ UNCHANGED <<start, end, resolvedAt, checkedAt, testCounter>>
      BY Zenon, <1>18 DEF ResolveJob
    <3>2. status' \in [Reqs -> Statuses]
      BY Zenon, <3>1 DEF ReqType, Statuses
    <3>3. testName' \in [Reqs -> Nat] /\ globalTestCounter' \in Nat
      BY <3>1 DEF ReqType
    <3> QED
      BY Zenon, <3>1, <3>2, <3>3 DEF ReqType
  <2>2. QueueType'
    BY Zenon, <1>18 DEF ResolveJob, QueueType, queueVars
  <2>3. ClockType' /\ BufferType' /\ ChanType' /\ CountType' /\ SendType' /\ GuardType' /\ CloserType' /\ DropType'
    BY Zenon, <1>18, Frame DEF ResolveJob
  <2> QED BY Zenon, <2>1, <2>2, <2>3
<1>19. ASSUME NEW p \in BOOLEAN, GuardStore(p) PROVE TypeOK'
  <2>1. GuardType'
    BY <1>19 DEF GuardStore, GuardType, guardVars
  <2>2. ClockType' /\ BufferType' /\ ChanType' /\ CountType' /\ SendType' /\ ReqType' /\ QueueType' /\ CloserType' /\ DropType'
    BY Zenon, <1>19, Frame DEF GuardStore
  <2> QED BY Zenon, <2>1, <2>2
<1>20. CASE GuardReadsClock
  <2>1. ClockType'
    BY <1>20 DEF GuardReadsClock, Stamp, Advance, ClockType, clockVars
  <2>2. GuardType'
    BY <1>20 DEF GuardReadsClock, ClockType, GuardType, guardVars
  <2>3. BufferType' /\ ChanType' /\ CountType' /\ SendType' /\ ReqType' /\ QueueType' /\ CloserType' /\ DropType'
    BY Zenon, <1>20, Frame DEF GuardReadsClock
  <2> QED BY Zenon, <2>1, <2>2, <2>3
<1>21. CASE SetMemoryPressure
  <2> DEFINE pruned == {p \in pressureRanges : p.end = 0 \/ p.end > guard.clock - Horizon}
             opened == pruned \cup {[start |-> guard.clock, end |-> 0]}
             closed == {[p EXCEPT !.end = IF @ = 0 THEN guard.clock ELSE @] : p \in pruned}
  <2>1. guard.clock \in Nat /\ pruned \subseteq [start : Nat, end : Nat]
    BY Zenon DEF GuardType
  <2>2. opened \subseteq [start : Nat, end : Nat] /\ closed \subseteq [start : Nat, end : Nat]
    <3> HIDE DEF pruned
    <3> QED BY <2>1
  <2>3. pressureRanges' \in {pruned, opened, closed}
    BY Zenon, <1>21 DEF SetMemoryPressure
  <2>4. pressureRanges' \subseteq [start : Nat, end : Nat]
    <3> HIDE DEF pruned, opened, closed
    <3> QED BY Zenon, <2>1, <2>2, <2>3
  <2>5. GuardType'
    BY Zenon, <1>21, <2>4 DEF SetMemoryPressure, GuardType
  <2>6. BufferType' /\ DropType'
    BY Zenon, <1>21 DEF SetMemoryPressure, BufferType, DropType, Reasons
  <2>7. ClockType' /\ ChanType' /\ CountType' /\ SendType' /\ ReqType' /\ QueueType' /\ CloserType'
    BY Zenon, <1>21, Frame DEF SetMemoryPressure
  <2> QED BY Zenon, <2>5, <2>6, <2>7
<1>22. CASE Stop
  <2>1. CloserType'
    BY Zenon, <1>22 DEF Stop, CloserType
  <2>2. ClockType' /\ BufferType' /\ ChanType' /\ CountType' /\ SendType' /\ ReqType' /\ QueueType' /\ GuardType' /\ DropType'
    BY Zenon, <1>22, Frame DEF Stop
  <2> QED BY Zenon, <2>1, <2>2
<1>23. CASE CloserFlush
  <2>1. "closer" \in Threads /\ FlushOwnedWindows("closer")
    BY Zenon, <1>23 DEF CloserFlush, Threads
  <2>2. BufferType'
    BY Zenon, <1>23, <2>1, FlushType DEF CloserFlush, BufferType, bufferVars
  <2>3. SendType'
    BY Zenon, <1>23, <2>1, FlushType DEF CloserFlush, SendType, sendVars
  <2>4. DropType'
    BY Zenon, <1>23, <2>1, FlushType DEF CloserFlush, DropType
  <2>5. CloserType'
    BY Zenon, <1>23 DEF CloserFlush, CloserType
  <2>6. ClockType' /\ ChanType' /\ CountType' /\ ReqType' /\ QueueType' /\ GuardType'
    BY Zenon, <1>23, Frame DEF CloserFlush
  <2> QED BY Zenon, <2>2, <2>3, <2>4, <2>5, <2>6
<1>24. CASE CloseOutChan
  <2>1. ChanType'
    BY Zenon, <1>24 DEF CloseOutChan, ChanType, chanVars
  <2>2. CloserType'
    BY Zenon, <1>24 DEF CloseOutChan, CloserType
  <2>3. ClockType' /\ BufferType' /\ CountType' /\ SendType' /\ ReqType' /\ QueueType' /\ GuardType' /\ DropType'
    BY Zenon, <1>24, Frame DEF CloseOutChan
  <2> QED BY Zenon, <2>1, <2>2, <2>3
<1>25. CASE UNCHANGED vars
  <2>1. ClockType' /\ BufferType' /\ ChanType' /\ CountType' /\ SendType' /\ ReqType' /\ QueueType' /\ GuardType' /\ CloserType' /\ DropType'
    BY Zenon, <1>25, Frame DEF vars
  <2> QED BY Zenon, <2>1
<1>26. CASE Finished
  BY Zenon, <1>25, <1>26 DEF Finished
<1> QED
  BY Zenon, <1>1, <1>2, <1>3, <1>4, <1>5, <1>6, <1>7, <1>8, <1>9, <1>10, <1>11, <1>12, <1>13, <1>14, <1>15, <1>16, <1>17, <1>18, <1>19, <1>20, <1>21, <1>22, <1>23, <1>24, <1>25, <1>26 DEF Next

(* The initial state is well typed. *)
LEMMA TypeInit == Init => TypeOK
<1> SUFFICES ASSUME Init PROVE TypeOK
  BY Zenon
<1>1. ClockType /\ CountType /\ CloserType /\ SendType
  BY Zenon DEF Init, ClockType, CountType, CloserType, SendType
<1>2. BufferType
  <2>1. <<>> \in Seq(Windows) /\ Len(<<>>) <= MaxRecent
    BY BoundsAssumption
  <2> QED BY Zenon, <2>1 DEF Init, BufferType
<1>5. ChanType
  <2>1. <<>> \in Seq(Mocks) /\ Len(<<>>) <= Cap
    BY BoundsAssumption
  <2> QED BY Zenon, <2>1 DEF Init, ChanType
<1>3. ReqType /\ DropType
  BY Zenon DEF Init, ReqType, DropType, Reasons, Statuses
<1>4. QueueType
  BY DEF Init, QueueType
<1>6. GuardType
  BY Zenon DEF Init, GuardType
<1> QED BY Zenon, <1>1, <1>2, <1>3, <1>4, <1>5, <1>6 DEF TypeOK

(* Every reachable state is well typed; in particular the window ring stays      *)
(* within maxRecentWindows and the mock channel within its capacity, however      *)
(* long the session.                                                              *)
THEOREM TypeCorrect == Spec => []TypeOK
<1>1. Init => TypeOK
  BY Zenon, TypeInit
<1>2. TypeOK /\ [Next]_vars => TypeOK'
  BY Zenon, TypeInductive
<1> QED
  BY <1>1, <1>2, PTL DEF Spec

-----------------------------------------------------------------------------
(* No mock is lost or sent twice.  ExactlyOnce alone is not inductive: an  *)
(* operation that fills its thread's outbox would forget what the thread   *)
(* still holds.  HandsInv says that a thread starts an operation with      *)
(* empty hands.                                                            *)


(* A parser holds at most its own mock; a capture has nothing to send before its *)
(* window is resolved, nor the shutdown before its flush.                        *)
Early(r) == status[r] \in {"idle", "open", "streaming", "ended"}
HandsInv ==
    /\ \A m \in Mocks : outbox[m] \subseteq {m}
    /\ \A r \in HttpReqs \cup GrpcReqs : Early(r) => outbox[r] = {}
    /\ closer \in {"run", "waiting"} => outbox["closer"] = {}

IndInv == TypeOK /\ ExactlyOnce /\ HandsInv

placeVars == <<handled, buffer, outbox, outChan, received, dropped>>

(* Appending puts one more element into a sequence, a new one keeps it free of repeats. *)
LEMMA AppendIn ==
    ASSUME NEW S, NEW s \in Seq(S), NEW x \in S
    PROVE  /\ \A y : In(y, Append(s, x)) <=> In(y, s) \/ y = x
           /\ NoRepeat(s) /\ ~In(x, s) => NoRepeat(Append(s, x))
<1> DEFINE a == Append(s, x)
<1>1. /\ DOMAIN a = 1..(Len(s) + 1) /\ DOMAIN s = 1..Len(s) /\ Len(s) \in Nat
      /\ a[Len(s) + 1] = x /\ \A i \in 1..Len(s) : a[i] = s[i]
  OBVIOUS
<1> HIDE DEF a
<1>2. \A y : In(y, a) <=> In(y, s) \/ y = x
  <2> TAKE y
  <2>1. In(y, a) => In(y, s) \/ y = x
    BY <1>1 DEF In
  <2>2. In(y, s) => In(y, a)
    BY <1>1 DEF In
  <2>3. In(x, a)
    BY <1>1 DEF In
  <2> QED BY Zenon, <2>1, <2>2, <2>3
<1>3. ASSUME NoRepeat(s), ~In(x, s) PROVE NoRepeat(a)
  BY <1>1, <1>3 DEF NoRepeat, In
<1> QED BY Zenon, <1>2, <1>3 DEF a

(* Taking the head of a sequence without repeats removes that element only. *)
LEMMA TailIn ==
    ASSUME NEW S, NEW s \in Seq(S), s # <<>>, NoRepeat(s)
    PROVE  /\ Head(s) \in S /\ Tail(s) \in Seq(S) /\ In(Head(s), s)
           /\ \A y : In(y, Tail(s)) <=> In(y, s) /\ y # Head(s)
           /\ NoRepeat(Tail(s))
<1> DEFINE t == Tail(s)
           h == Head(s)
<1>1. /\ DOMAIN s = 1..Len(s) /\ Len(s) \in Nat /\ Len(s) >= 1 /\ h = s[1] /\ h \in S
      /\ t \in Seq(S) /\ DOMAIN t = 1..(Len(s) - 1) /\ \A i \in 1..(Len(s) - 1) : t[i] = s[i + 1]
  OBVIOUS
<1> HIDE DEF t, h
<1>2. In(h, s)
  BY <1>1 DEF In
<1>3. \A y : In(y, t) <=> In(y, s) /\ y # h
  <2> TAKE y
  <2>1. In(y, t) => In(y, s) /\ y # h
    <3> SUFFICES ASSUME NEW i \in DOMAIN t, t[i] = y PROVE In(y, s) /\ y # h
      BY Zenon DEF In
    <3>1. i + 1 \in DOMAIN s /\ i + 1 # 1 /\ 1 \in DOMAIN s /\ s[i + 1] = y
      BY <1>1
    <3> QED BY Zenon, <1>1, <3>1 DEF NoRepeat, In
  <2>2. In(y, s) /\ y # h => In(y, t)
    <3> SUFFICES ASSUME NEW i \in DOMAIN s, s[i] = y, y # h PROVE In(y, t)
      BY Zenon DEF In
    <3>1. i - 1 \in DOMAIN t /\ t[i - 1] = y
      BY <1>1
    <3> QED BY Zenon, <3>1 DEF In
  <2> QED BY Zenon, <2>1, <2>2
<1>4. NoRepeat(t)
  <2> SUFFICES ASSUME NEW i \in DOMAIN t, NEW j \in DOMAIN t, t[i] = t[j] PROVE i = j
    BY Zenon DEF NoRepeat
  <2>1. /\ i \in Int /\ j \in Int /\ i + 1 \in DOMAIN s /\ j + 1 \in DOMAIN s
        /\ s[i + 1] = s[j + 1]
    BY <1>1
  <2>2. i + 1 = j + 1
    BY Zenon, <2>1 DEF NoRepeat
  <2> QED BY <2>1, <2>2
<1> QED BY Zenon, <1>1, <1>2, <1>3, <1>4 DEF t, h

(* A step that moves no mock keeps every mock in its place. *)
LEMMA Quiet == ExactlyOnce /\ UNCHANGED placeVars => ExactlyOnce'
  BY Zenon DEF ExactlyOnce, placeVars, OnePlace, Sending, Queued, Received, Dropped, In, NoRepeat

(* A sweep by a thread with empty hands moves buffered mocks to its hands or to the *)
(* dropped ones, each to one of the two.                                            *)
LEMMA SweepOnce ==
    ASSUME TypeOK, ExactlyOnce, NEW t \in Threads, NEW send, NEW maps, NEW drop, NEW reason,
           outbox[t] = {}, send \subseteq buffer, drop \subseteq buffer, send \cap drop = {},
           \A m \in drop : reason[m] # "no",
           Sweep(t, send, maps, drop, reason), UNCHANGED <<handled, outChan, received>>
    PROVE  ExactlyOnce'
<1>1. /\ outbox \in [Threads -> SUBSET Mocks] /\ buffer \subseteq Mocks
      /\ buffer' = buffer \ (send \cup drop) /\ outbox' = [outbox EXCEPT ![t] = send]
      /\ dropped' = [m \in Mocks |-> IF m \in drop THEN reason[m] ELSE dropped[m]]
  BY Zenon DEF TypeOK, SendType, BufferType, Sweep
<1>2. ASSUME NEW m \in Mocks PROVE OnePlace(m)'
  <2>1. Sending(m)' <=> Sending(m) \/ m \in send
    BY Zenon, <1>1 DEF Sending, Threads
  <2>2. Queued(m)' <=> Queued(m)
    BY Zenon DEF Queued, In
  <2>3. Received(m)' <=> Received(m)
    BY Zenon DEF Received, In
  <2>4. Dropped(m)' <=> Dropped(m) \/ m \in drop
    BY Zenon, <1>1 DEF Dropped
  <2>5. m \in buffer' <=> m \in buffer /\ m \notin send /\ m \notin drop
    BY Zenon, <1>1
  <2>6. OnePlace(m)
    BY Zenon DEF ExactlyOnce
  <2> QED BY Zenon, <2>1, <2>2, <2>3, <2>4, <2>5, <2>6 DEF OnePlace
<1>3. ASSUME NEW u \in Threads, NEW v \in Threads, outbox'[u] \cap outbox'[v] # {} PROVE u = v
  <2>1. ASSUME NEW x \in Threads, x # t PROVE send \cap outbox[x] = {}
    <3> SUFFICES ASSUME NEW m \in send, m \in outbox[x] PROVE FALSE
      BY Zenon
    <3>1. m \in Mocks /\ m \in buffer /\ Sending(m)
      BY Zenon, <1>1, <2>1 DEF Sending
    <3> QED BY Zenon, <3>1 DEF ExactlyOnce, OnePlace
  <2> QED BY Zenon, <1>1, <1>3, <2>1 DEF ExactlyOnce
<1>4. NoRepeat(outChan)' /\ NoRepeat(received)'
  BY Zenon DEF ExactlyOnce, NoRepeat
<1> QED BY Zenon, <1>2, <1>3, <1>4 DEF ExactlyOnce, Threads

(* FlushOwnedWindows sends only what it takes out of the buffer. *)
LEMMA FlushOnce ==
    ASSUME TypeOK, ExactlyOnce, NEW t \in Threads, outbox[t] = {}, FlushOwnedWindows(t),
           UNCHANGED <<handled, outChan, received>>
    PROVE  ExactlyOnce'
<1> DEFINE send == IF Bound THEN Attributable(buffer) ELSE {}
           maps == LateMap(send)
<1>1. send \subseteq buffer
  BY Zenon DEF Attributable
<1>2. Sweep(t, send, maps, {}, dropped)
  BY Zenon DEF FlushOwnedWindows
<1> HIDE DEF send, maps
<1> QED BY Zenon, <1>1, <1>2, SweepOnce

(* DeleteMocksStrictlyBefore sends what it rescues and drops the rest. *)
LEMMA DeleteOnce ==
    ASSUME TypeOK, ExactlyOnce, NEW t \in Threads, NEW ts, outbox[t] = {},
           DeleteMocksStrictlyBefore(t, ts), UNCHANGED <<handled, outChan, received>>
    PROVE  ExactlyOnce'
<1> DEFINE before  == {m \in buffer : req[m] < ts}
           rescued == Attributable(before)
           send    == IF Bound THEN rescued ELSE {}
           maps    == LateMap(send)
           drop    == before \ rescued
           reason  == [m \in Mocks |-> "debris"]
<1>1. send \subseteq buffer /\ drop \subseteq buffer /\ send \cap drop = {}
  BY Zenon DEF Attributable
<1>2. \A m \in drop : reason[m] # "no"
  BY Zenon, <1>1 DEF TypeOK, BufferType
<1>3. Sweep(t, send, maps, drop, reason)
  BY Zenon DEF DeleteMocksStrictlyBefore
<1> HIDE DEF send, maps, drop, reason
<1> QED BY Zenon, <1>1, <1>2, <1>3, SweepOnce

(* ResolveRange sends, drops or keeps each buffered mock. *)
LEMMA ResolveOnce ==
    ASSUME TypeOK, ExactlyOnce, NEW t \in Threads, NEW r, NEW test, NEW keep, NEW mapping,
           outbox[t] = {}, ResolveRange(t, r, test, keep, mapping),
           UNCHANGED <<handled, outChan, received>>
    PROVE  ExactlyOnce'
<1> DEFINE matched == {m \in PerTest(buffer) : InWindow(m, r)}
           late    == {m \in PerTest(buffer) \ matched : Owned(m)}
           other   == PerTest(buffer) \ (matched \cup late)
           flush   == (buffer \cap Reusable) \cup (other \cap startup)
                        \cup (IF keep THEN matched \cup late ELSE matched \cap startup)
           stale   == {m \in other \ startup : req[m] < now - Horizon}
           reaped  == IF keep THEN {} ELSE late \cup (matched \ startup)
           direct  == IF keep /\ mapping THEN {<<test, m>> : m \in matched} ELSE {}
           delayed == IF keep THEN LateMap(late) ELSE {}
           send    == IF Bound THEN flush ELSE {}
           maps    == IF Bound THEN direct \cup delayed ELSE {}
           drop    == stale \cup reaped
           reason  == [m \in Mocks |-> IF m \in stale THEN "stale" ELSE "duplicate"]
<1>1. /\ matched \subseteq PerTest(buffer) /\ late \subseteq PerTest(buffer) \ matched
      /\ PerTest(buffer) = buffer \ Reusable
  BY Zenon DEF PerTest
<1>2. stale \subseteq other \ startup
  BY Zenon
<1>3. Sweep(t, send, maps, drop, reason)
  BY Zenon DEF ResolveRange
<1> HIDE DEF matched, late, stale, maps
<1>4. flush \subseteq buffer /\ drop \subseteq buffer
  BY Zenon, <1>1, <1>2
<1>5. flush \cap drop = {}
  BY Zenon, <1>1, <1>2
<1>6. \A m \in drop : reason[m] # "no"
  BY Zenon, <1>4 DEF TypeOK, BufferType
<1>7. send \subseteq buffer /\ send \cap drop = {}
  BY Zenon, <1>4, <1>5
<1> HIDE DEF send, drop, reason
<1> QED BY Zenon, <1>3, <1>4, <1>6, <1>7, SweepOnce
(* AddMock puts its mock in one place. *)
LEMMA AddOnce ==
    ASSUME TypeOK, ExactlyOnce, HandsInv, NEW m \in Mocks, AddMock(m) \/ SendConfigMock(m)
    PROVE  ExactlyOnce' /\ outbox' \in {outbox, [outbox EXCEPT ![m] = {m}]}
<1>1. /\ m \in Threads /\ outbox \in [Threads -> SUBSET Mocks] /\ dropped \in [Mocks -> Reasons]
      /\ m \notin handled /\ handled' = handled \cup {m}
      /\ UNCHANGED <<outChan, received>>
  BY Zenon DEF TypeOK, SendType, DropType, AddMock, SendConfigMock, Threads, chanVars
<1>2. OnePlace(m)
  BY Zenon DEF ExactlyOnce
<1>3. m \notin buffer /\ ~Sending(m) /\ ~Queued(m) /\ ~Received(m) /\ ~Dropped(m)
  BY Zenon, <1>1, <1>2 DEF OnePlace
<1>4. outbox[m] = {}
  BY <1>1, <1>3 DEF Sending, HandsInv
<1>5. \/ /\ buffer' = buffer \cup {m} /\ UNCHANGED <<outbox, dropped>>
      \/ /\ outbox' = [outbox EXCEPT ![m] = {m}] /\ UNCHANGED <<buffer, dropped>>
      \/ /\ UNCHANGED <<buffer, outbox>>
         /\ \E why \in Reasons \ {"no"} : dropped' = [dropped EXCEPT ![m] = why]
  BY Zenon DEF AddMock, SendConfigMock, bufferVars, Reasons
<1>6. ASSUME NEW x \in Mocks PROVE OnePlace(x)'
  <2>1. OnePlace(x)
    BY Zenon DEF ExactlyOnce
  <2>2. (Queued(x)' <=> Queued(x)) /\ (Received(x)' <=> Received(x))
    BY Zenon, <1>1 DEF Queued, Received, In
  <2>3. x \in handled' <=> x \in handled \/ x = m
    BY Zenon, <1>1
  <2>4. CASE buffer' = buffer \cup {m} /\ UNCHANGED <<outbox, dropped>>
    <3>1. /\ x \in buffer' <=> x \in buffer \/ x = m
          /\ Sending(x)' <=> Sending(x)
          /\ Dropped(x)' <=> Dropped(x)
      BY Zenon, <2>4 DEF Sending, Dropped, Threads
    <3> QED BY Zenon, <1>3, <2>1, <2>2, <2>3, <3>1 DEF OnePlace
  <2>5. CASE outbox' = [outbox EXCEPT ![m] = {m}] /\ UNCHANGED <<buffer, dropped>>
    <3>1. Sending(x)' <=> Sending(x) \/ x = m
      BY Zenon, <1>1, <1>4, <2>5 DEF Sending, Threads
    <3>2. (Dropped(x)' <=> Dropped(x)) /\ (x \in buffer' <=> x \in buffer)
      BY Zenon, <2>5 DEF Dropped
    <3> QED BY Zenon, <1>3, <2>1, <2>2, <2>3, <3>1, <3>2 DEF OnePlace
  <2>6. CASE /\ UNCHANGED <<buffer, outbox>>
             /\ \E why \in Reasons \ {"no"} : dropped' = [dropped EXCEPT ![m] = why]
    <3>1. Dropped(x)' <=> Dropped(x) \/ x = m
      BY Zenon, <1>1, <2>6 DEF Dropped
    <3>2. (Sending(x)' <=> Sending(x)) /\ (x \in buffer' <=> x \in buffer)
      BY Zenon, <2>6 DEF Sending, Threads
    <3> QED BY Zenon, <1>3, <2>1, <2>2, <2>3, <3>1, <3>2 DEF OnePlace
  <2> QED BY Zenon, <1>5, <2>4, <2>5, <2>6
<1>7. ASSUME NEW u \in Threads, NEW v \in Threads, outbox'[u] \cap outbox'[v] # {} PROVE u = v
  <2>1. \A x \in Threads : m \notin outbox[x]
    BY Zenon, <1>3 DEF Sending
  <2> QED BY <1>1, <1>5, <1>7, <2>1 DEF ExactlyOnce
<1>8. NoRepeat(outChan)' /\ NoRepeat(received)'
  BY Zenon, <1>1 DEF ExactlyOnce, NoRepeat
<1> QED BY Zenon, <1>5, <1>6, <1>7, <1>8 DEF ExactlyOnce, Threads

(* sendToOutChan moves one mock from its thread's hands into the channel, or drops it. *)
LEMMA SendOnce ==
    ASSUME TypeOK, ExactlyOnce, NEW t \in Threads, SendToOutChan(t)
    PROVE  ExactlyOnce' /\ \A u \in Threads : outbox'[u] \subseteq outbox[u]
<1> DEFINE m == NextToSend(t)
<1>1. m \in outbox[t] /\ m \in Mocks
  BY Zenon, NextIsHeld DEF SendToOutChan, TypeOK, SendType
<1>2. /\ outbox' = [outbox EXCEPT ![t] = @ \ {m}]
      /\ \/ /\ outChan' = Append(outChan, m) /\ UNCHANGED dropped
         \/ /\ \E why \in Reasons \ {"no"} : dropped' = [dropped EXCEPT ![m] = why]
            /\ UNCHANGED outChan
      /\ UNCHANGED <<handled, buffer, received>>
  BY Zenon DEF SendToOutChan, clockVars, bufferVars, Reasons
<1> HIDE DEF m
<1>3. /\ outbox \in [Threads -> SUBSET Mocks] /\ dropped \in [Mocks -> Reasons]
      /\ outChan \in Seq(Mocks)
  BY Zenon DEF TypeOK, SendType, DropType, ChanType
<1>4. Sending(m) /\ OnePlace(m) /\ \A u \in Threads : u # t => m \notin outbox[u]
  BY Zenon, <1>1 DEF Sending, ExactlyOnce
<1>5. ~Queued(m) /\ ~Received(m) /\ ~Dropped(m) /\ m \notin buffer /\ m \in handled
  BY Zenon, <1>4 DEF OnePlace
<1>6. ASSUME NEW x \in Mocks PROVE OnePlace(x)'
  <2>1. OnePlace(x)
    BY Zenon DEF ExactlyOnce
  <2>2. Sending(x)' <=> Sending(x) /\ x # m
    BY <1>1, <1>2, <1>3, <1>4 DEF Sending, Threads
  <2>3. /\ Received(x)' <=> Received(x)
        /\ x \in buffer' <=> x \in buffer
        /\ x \in handled' <=> x \in handled
    BY Zenon, <1>2 DEF Received, In
  <2>4. CASE outChan' = Append(outChan, m) /\ UNCHANGED dropped
    <3>1. Queued(x)' <=> Queued(x) \/ x = m
      BY Zenon, <1>1, <1>3, <2>4, AppendIn DEF Queued
    <3>2. Dropped(x)' <=> Dropped(x)
      BY Zenon, <2>4 DEF Dropped
    <3> QED BY Zenon, <1>4, <1>5, <2>1, <2>2, <2>3, <3>1, <3>2 DEF OnePlace
  <2>5. CASE /\ \E why \in Reasons \ {"no"} : dropped' = [dropped EXCEPT ![m] = why]
             /\ UNCHANGED outChan
    <3>1. Dropped(x)' <=> Dropped(x) \/ x = m
      BY Zenon, <1>1, <1>3, <2>5 DEF Dropped
    <3>2. Queued(x)' <=> Queued(x)
      BY Zenon, <2>5 DEF Queued, In
    <3> QED BY Zenon, <1>4, <1>5, <2>1, <2>2, <2>3, <3>1, <3>2 DEF OnePlace
  <2> QED BY Zenon, <1>2, <2>4, <2>5
<1>7. \A u \in Threads : outbox'[u] \subseteq outbox[u]
  BY Zenon, <1>2, <1>3
<1>8. ASSUME NEW u \in Threads, NEW v \in Threads, outbox'[u] \cap outbox'[v] # {} PROVE u = v
  BY Zenon, <1>7, <1>8 DEF ExactlyOnce
<1>9. NoRepeat(outChan') /\ NoRepeat(received')
  <2>1. NoRepeat(outChan) /\ NoRepeat(received) /\ ~In(m, outChan)
    BY Zenon, <1>5 DEF ExactlyOnce, Queued
  <2>2. CASE outChan' = Append(outChan, m)
    BY Zenon, <1>1, <1>2, <1>3, <2>1, <2>2, AppendIn
  <2>3. CASE UNCHANGED outChan
    BY Zenon, <1>2, <2>1, <2>3
  <2> QED BY Zenon, <1>2, <2>2, <2>3
<1> QED BY Zenon, <1>6, <1>7, <1>8, <1>9 DEF ExactlyOnce, Threads, NoRepeat

(* The stream handler moves the channel's head to the CLI. *)
LEMMA ReceiveOnce ==
    ASSUME TypeOK, ExactlyOnce, Receive
    PROVE  ExactlyOnce'
<1> DEFINE h == Head(outChan)
<1>1. /\ outChan # <<>> /\ outChan' = Tail(outChan) /\ received' = Append(received, h)
      /\ UNCHANGED <<handled, buffer, outbox, dropped>>
  BY Zenon DEF Receive, clockVars, bufferVars, sendVars
<1>2. outChan \in Seq(Mocks) /\ received \in Seq(Mocks) /\ NoRepeat(outChan) /\ NoRepeat(received)
  BY Zenon DEF TypeOK, ChanType, ExactlyOnce
<1>3. /\ h \in Mocks /\ In(h, outChan) /\ NoRepeat(outChan')
      /\ \A y : In(y, outChan') <=> In(y, outChan) /\ y # h
  BY Zenon, <1>1, <1>2, TailIn
<1> HIDE DEF h
<1>4. OnePlace(h) /\ Queued(h)
  BY Zenon, <1>3 DEF ExactlyOnce, Queued
<1>5. ~In(h, received)
  BY Zenon, <1>4 DEF OnePlace, Received
<1>6. NoRepeat(received') /\ \A y : In(y, received') <=> In(y, received) \/ y = h
  BY Zenon, <1>1, <1>2, <1>3, <1>5, AppendIn
<1>7. ASSUME NEW x \in Mocks PROVE OnePlace(x)'
  <2>1. OnePlace(x)
    BY Zenon DEF ExactlyOnce
  <2>2. (Queued(x)' <=> Queued(x) /\ x # h) /\ (Received(x)' <=> Received(x) \/ x = h)
    BY Zenon, <1>3, <1>6 DEF Queued, Received
  <2>3. /\ Sending(x)' <=> Sending(x)
        /\ Dropped(x)' <=> Dropped(x)
        /\ x \in buffer' <=> x \in buffer
        /\ x \in handled' <=> x \in handled
    BY Zenon, <1>1 DEF Sending, Dropped, Threads
  <2> QED BY Zenon, <1>4, <2>1, <2>2, <2>3 DEF OnePlace
<1>8. \A t, u \in Threads : outbox'[t] \cap outbox'[u] # {} => t = u
  BY Zenon, <1>1 DEF ExactlyOnce
<1> QED BY Zenon, <1>3, <1>6, <1>7, <1>8 DEF ExactlyOnce, Threads, NoRepeat

(* The memory guard's wipe drops buffered mocks. *)
LEMMA WipeOnce ==
    ASSUME TypeOK, ExactlyOnce, SetMemoryPressure
    PROVE  ExactlyOnce'
<1>1. PICK wiped : /\ wiped \subseteq buffer /\ buffer' = buffer \ wiped
                   /\ dropped' = [m \in Mocks |-> IF m \in wiped THEN "wiped" ELSE dropped[m]]
  BY Zenon DEF SetMemoryPressure, Wiped
<1>2. UNCHANGED <<handled, outbox, outChan, received>>
  BY Zenon DEF SetMemoryPressure, clockVars, chanVars, sendVars
<1>3. ASSUME NEW x \in Mocks PROVE OnePlace(x)'
  <2>1. OnePlace(x)
    BY Zenon DEF ExactlyOnce
  <2>2. Dropped(x)' <=> Dropped(x) \/ x \in wiped
    BY Zenon, <1>1 DEF Dropped
  <2>3. x \in buffer' <=> x \in buffer /\ x \notin wiped
    BY Zenon, <1>1
  <2>4. /\ Sending(x)' <=> Sending(x)
        /\ Queued(x)' <=> Queued(x)
        /\ Received(x)' <=> Received(x)
        /\ x \in handled' <=> x \in handled
    BY Zenon, <1>2 DEF Sending, Queued, Received, In, Threads
  <2> QED BY Zenon, <1>1, <2>1, <2>2, <2>3, <2>4 DEF OnePlace
<1> QED BY Zenon, <1>2, <1>3 DEF ExactlyOnce, Threads, NoRepeat
(* An operation of a thread that is no parser keeps the other threads' hands.       *)
LEMMA HandsFrame ==
    ASSUME HandsInv, NEW t \in Threads, t \notin Mocks,
           \A u \in Threads : u # t => outbox'[u] = outbox[u],
           \A r \in HttpReqs \cup GrpcReqs : Early(r)' => Early(r) /\ r # t,
           closer' \in {"run", "waiting"} => closer \in {"run", "waiting"} /\ t # "closer"
    PROVE  HandsInv'
<1>1. Mocks \subseteq Threads /\ HttpReqs \cup GrpcReqs \subseteq Threads /\ "closer" \in Threads
  BY Zenon DEF Threads
<1>2. \A m \in Mocks : outbox'[m] \subseteq {m}
  BY Zenon, <1>1 DEF HandsInv
<1>3. \A r \in HttpReqs \cup GrpcReqs : Early(r)' => outbox'[r] = {}
  BY Zenon, <1>1 DEF HandsInv
<1>4. closer' \in {"run", "waiting"} => outbox'["closer"] = {}
  BY Zenon, <1>1 DEF HandsInv
<1> QED BY Zenon, <1>2, <1>3, <1>4 DEF HandsInv

(* IndInv is inductive: the steps that move mocks by the lemmas above, the others *)
(* because they move none.                                                        *)
LEMMA OnceInductive == IndInv /\ [Next]_vars => IndInv'
<1> SUFFICES ASSUME TypeOK, ExactlyOnce, HandsInv, [Next]_vars PROVE ExactlyOnce' /\ HandsInv'
  BY Zenon, TypeInductive DEF IndInv
<1>a. /\ outbox \in [Threads -> SUBSET Mocks] /\ status \in [Reqs -> Statuses]
      /\ "ticker" \in Threads /\ "closer" \in Threads /\ "dedup" \in Threads
      /\ Mocks \subseteq Threads /\ HttpReqs \cup GrpcReqs \subseteq Threads
  BY Zenon DEF TypeOK, SendType, ReqType, Threads
<1>b. /\ "closer" \notin Mocks \cup Reqs /\ "closer" # "ticker" /\ "closer" # "dedup"
      /\ "ticker" \notin Mocks \cup Reqs /\ "dedup" \notin Mocks \cup Reqs
      /\ Mocks \cap Reqs = {} /\ HttpReqs \cup GrpcReqs \subseteq Reqs
  BY Zenon, DistinctAssumption DEF Reqs
<1>c. ASSUME \A u \in Threads : outbox'[u] \subseteq outbox[u], UNCHANGED <<status, closer>>
      PROVE  HandsInv'
  BY Zenon, <1>a, <1>c DEF HandsInv, Early
<1>1. CASE IdlePeriod
  <2>1. UNCHANGED placeVars /\ UNCHANGED <<status, closer>>
    BY Zenon, <1>1 DEF IdlePeriod, placeVars, clockVars, bufferVars, chanVars, sendVars, reqVars
  <2> QED BY Zenon, <1>c, <2>1, Quiet DEF placeVars
<1>2. CASE Receive
  <2>1. UNCHANGED <<outbox, status, closer>>
    BY Zenon, <1>2 DEF Receive, sendVars, reqVars
  <2> QED BY Zenon, <1>2, <1>c, <2>1, ReceiveOnce
<1>3. CASE TickerFlush
  <2>1. /\ outbox["ticker"] = {} /\ FlushOwnedWindows("ticker")
        /\ UNCHANGED <<handled, outChan, received, status, closer>>
    BY Zenon, <1>3 DEF TickerFlush, Idle, clockVars, chanVars, reqVars
  <2>2. ExactlyOnce'
    BY Zenon, <1>a, <2>1, FlushOnce
  <2>3. \A u \in Threads : u # "ticker" => outbox'[u] = outbox[u]
    BY Zenon, <1>a, <2>1 DEF FlushOwnedWindows, Sweep
  <2>4. \A r \in HttpReqs \cup GrpcReqs : Early(r)' => Early(r) /\ r # "ticker"
    BY Zenon, <1>b, <2>1 DEF Early
  <2> QED BY Zenon, <1>a, <1>b, <2>1, <2>2, <2>3, <2>4, HandsFrame
<1>4. CASE DrainHead
  <2>1. /\ outbox["dedup"] = {}
        /\ UNCHANGED <<handled, outChan, received, status, closer>>
    BY Zenon, <1>4 DEF DrainHead, Idle, clockVars, chanVars
  <2>4. \A r \in HttpReqs \cup GrpcReqs : Early(r)' => Early(r) /\ r # "dedup"
    BY Zenon, <1>b, <2>1 DEF Early
  <2>2. CASE DeleteMocksStrictlyBefore("dedup", start[Head(queue)])
    <3>1. ExactlyOnce'
      BY Zenon, <1>a, <2>1, <2>2, DeleteOnce
    <3>2. \A u \in Threads : u # "dedup" => outbox'[u] = outbox[u]
      BY Zenon, <1>a, <2>2 DEF DeleteMocksStrictlyBefore, Sweep
    <3> QED BY Zenon, <1>a, <1>b, <2>1, <2>4, <3>1, <3>2, HandsFrame
  <2>3. CASE ResolveRange("dedup", Head(queue), testName[Head(queue)], TRUE, dqOwner \in Mapped)
    <3>1. ExactlyOnce'
      BY Zenon, <1>a, <2>1, <2>3, ResolveOnce
    <3>2. \A u \in Threads : u # "dedup" => outbox'[u] = outbox[u]
      BY Zenon, <1>a, <2>3 DEF ResolveRange, Sweep
    <3> QED BY Zenon, <1>a, <1>b, <2>1, <2>4, <3>1, <3>2, HandsFrame
  <2> QED BY Zenon, <1>4, <2>2, <2>3 DEF DrainHead
<1>5. CASE DrainStop
  <2>1. UNCHANGED placeVars /\ UNCHANGED <<status, closer>>
    BY Zenon, <1>5 DEF DrainStop, placeVars, clockVars, bufferVars, chanVars, sendVars, reqVars
  <2> QED BY Zenon, <1>c, <2>1, Quiet DEF placeVars
<1>6. ASSUME NEW m \in Mocks, Call(m) PROVE ExactlyOnce' /\ HandsInv'
  <2>1. UNCHANGED placeVars /\ UNCHANGED <<status, closer>>
    BY Zenon, <1>6 DEF Call, placeVars, clockVars, bufferVars, chanVars, sendVars, reqVars
  <2> QED BY Zenon, <1>c, <2>1, Quiet DEF placeVars
<1>7. ASSUME NEW m \in Mocks, AddMock(m) \/ SendConfigMock(m) PROVE ExactlyOnce' /\ HandsInv'
  <2>1. ExactlyOnce' /\ outbox' \in {outbox, [outbox EXCEPT ![m] = {m}]}
    BY Zenon, <1>7, AddOnce
  <2>2. UNCHANGED <<status, closer>>
    BY Zenon, <1>7 DEF AddMock, SendConfigMock, reqVars
  <2>3. \A u \in Threads : u # m => outbox'[u] = outbox[u]
    BY Zenon, <1>a, <2>1
  <2>4. outbox'[m] \subseteq {m}
    BY Zenon, <1>a, <2>1 DEF HandsInv
  <2>5. \A r \in HttpReqs \cup GrpcReqs : r # m /\ (Early(r)' => Early(r))
    BY Zenon, <1>b, <2>2 DEF Early
  <2> QED BY Zenon, <1>a, <1>b, <2>1, <2>2, <2>3, <2>4, <2>5 DEF HandsInv
<1>8. ASSUME NEW t \in Threads, SendToOutChan(t) PROVE ExactlyOnce' /\ HandsInv'
  <2>1. UNCHANGED <<status, closer>>
    BY Zenon, <1>8 DEF SendToOutChan, reqVars
  <2> QED BY Zenon, <1>8, <1>c, <2>1, SendOnce
<1>9. ASSUME NEW t \in Threads, OfferMappings(t) PROVE ExactlyOnce' /\ HandsInv'
  <2>1. UNCHANGED placeVars /\ UNCHANGED <<status, closer>>
    BY Zenon, <1>9 DEF OfferMappings, placeVars, clockVars, bufferVars, chanVars, sendVars, reqVars
  <2> QED BY Zenon, <1>c, <2>1, Quiet DEF placeVars
<1>10. ASSUME NEW r \in Reqs, BeginRequest(r) PROVE ExactlyOnce' /\ HandsInv'
  <2>1. UNCHANGED placeVars /\ UNCHANGED closer
    BY Zenon, <1>10 DEF BeginRequest, placeVars, clockVars, bufferVars, chanVars, sendVars
  <2>2. /\ status[r] \in {"idle", "open", "streaming", "ended"}
        /\ \E s \in Statuses : status' = [status EXCEPT ![r] = s]
    BY Zenon, <1>10 DEF BeginRequest, Statuses
  <2>e. \A q \in HttpReqs \cup GrpcReqs : Early(q)' => Early(q)
    BY Zenon, <1>a, <1>b, <2>2 DEF Early
  <2>3. HandsInv'
    BY Zenon, <2>1, <2>e DEF HandsInv, placeVars
  <2> QED BY Zenon, <2>1, <2>3, Quiet
<1>11. ASSUME NEW r \in Reqs, ReleaseEarly(r) PROVE ExactlyOnce' /\ HandsInv'
  <2>1. UNCHANGED placeVars /\ UNCHANGED closer
    BY Zenon, <1>11 DEF ReleaseEarly, placeVars, clockVars, bufferVars, chanVars, sendVars
  <2>2. /\ status[r] \in {"idle", "open", "streaming", "ended"}
        /\ \E s \in Statuses : status' = [status EXCEPT ![r] = s]
    BY Zenon, <1>11 DEF ReleaseEarly, Statuses
  <2>e. \A q \in HttpReqs \cup GrpcReqs : Early(q)' => Early(q)
    BY Zenon, <1>a, <1>b, <2>2 DEF Early
  <2>3. HandsInv'
    BY Zenon, <2>1, <2>e DEF HandsInv, placeVars
  <2> QED BY Zenon, <2>1, <2>3, Quiet
<1>12. ASSUME NEW r \in Reqs, EndRequest(r) PROVE ExactlyOnce' /\ HandsInv'
  <2>1. UNCHANGED placeVars /\ UNCHANGED closer
    BY Zenon, <1>12 DEF EndRequest, placeVars, clockVars, bufferVars, chanVars, sendVars
  <2>2. /\ status[r] \in {"idle", "open", "streaming", "ended"}
        /\ \E s \in Statuses : status' = [status EXCEPT ![r] = s]
    BY Zenon, <1>12 DEF EndRequest, Statuses
  <2>e. \A q \in HttpReqs \cup GrpcReqs : Early(q)' => Early(q)
    BY Zenon, <1>a, <1>b, <2>2 DEF Early
  <2>3. HandsInv'
    BY Zenon, <2>1, <2>e DEF HandsInv, placeVars
  <2> QED BY Zenon, <2>1, <2>3, Quiet
<1>13. ASSUME NEW r \in Reqs, SkipCapture(r) PROVE ExactlyOnce' /\ HandsInv'
  <2>1. UNCHANGED placeVars /\ UNCHANGED closer
    BY Zenon, <1>13 DEF SkipCapture, placeVars, clockVars, bufferVars, chanVars, sendVars
  <2>2. \E s \in {"skipped", "suppressed", "forwarded"} : status' = [status EXCEPT ![r] = s]
    BY Zenon, <1>13 DEF SkipCapture
  <2>3. HandsInv'
    BY <1>a, <1>b, <2>1, <2>2 DEF HandsInv, Early, placeVars
  <2> QED BY Zenon, <2>1, <2>3, Quiet
<1>14. ASSUME NEW r \in Reqs, HandleIncoming(r) PROVE ExactlyOnce' /\ HandsInv'
  <2>1. UNCHANGED placeVars /\ UNCHANGED closer
    BY Zenon, <1>14 DEF HandleIncoming, placeVars, clockVars, bufferVars, chanVars, sendVars
  <2>2. \E s \in {"skipped", "suppressed", "forwarded"} : status' = [status EXCEPT ![r] = s]
    BY Zenon, <1>14 DEF HandleIncoming
  <2>3. HandsInv'
    BY <1>a, <1>b, <2>1, <2>2 DEF HandsInv, Early, placeVars
  <2> QED BY Zenon, <2>1, <2>3, Quiet
<1>15. ASSUME NEW r \in Reqs, Capture(r) PROVE ExactlyOnce' /\ HandsInv'
  <2>1. /\ r \in HttpReqs \cup GrpcReqs /\ status[r] = "ended"
        /\ status' \in {[status EXCEPT ![r] = "resolved"], [status EXCEPT ![r] = "duplicate"]}
        /\ UNCHANGED <<handled, outChan, received, closer>>
    BY Zenon, <1>15 DEF Capture, clockVars, chanVars
  <2>2. PICK test, keep, mapping : ResolveRange(r, r, test, keep, mapping)
    BY Zenon, <1>15 DEF Capture
  <2>3. r \in Threads /\ outbox[r] = {}
    BY Zenon, <1>a, <2>1 DEF HandsInv, Early
  <2>4. ExactlyOnce'
    BY Zenon, <2>1, <2>2, <2>3, ResolveOnce
  <2>5. \A u \in Threads : u # r => outbox'[u] = outbox[u]
    BY Zenon, <1>a, <2>2 DEF ResolveRange, Sweep
  <2>6. \A x \in HttpReqs \cup GrpcReqs : Early(x)' => Early(x) /\ x # r
    BY Zenon, <1>a, <1>b, <2>1 DEF Early
  <2>7. r \notin Mocks /\ r # "closer"
    BY Zenon, <1>b
  <2> QED BY Zenon, <2>1, <2>3, <2>4, <2>5, <2>6, <2>7, HandsFrame
<1>16. ASSUME NEW r \in Reqs, NEW d \in BOOLEAN, CaptureGRPC(r, d) PROVE ExactlyOnce' /\ HandsInv'
  <2>1. /\ r \in HttpReqs \cup GrpcReqs /\ status[r] = "ended"
        /\ status' \in {[status EXCEPT ![r] = "resolved"], [status EXCEPT ![r] = "duplicate"]}
        /\ UNCHANGED <<handled, outChan, received, closer>>
    BY Zenon, <1>16 DEF CaptureGRPC, clockVars, chanVars
  <2>2. PICK test, keep, mapping : ResolveRange(r, r, test, keep, mapping)
    BY Zenon, <1>16 DEF CaptureGRPC
  <2>3. r \in Threads /\ outbox[r] = {}
    BY Zenon, <1>a, <2>1 DEF HandsInv, Early
  <2>4. ExactlyOnce'
    BY Zenon, <2>1, <2>2, <2>3, ResolveOnce
  <2>5. \A u \in Threads : u # r => outbox'[u] = outbox[u]
    BY Zenon, <1>a, <2>2 DEF ResolveRange, Sweep
  <2>6. \A x \in HttpReqs \cup GrpcReqs : Early(x)' => Early(x) /\ x # r
    BY Zenon, <1>a, <1>b, <2>1 DEF Early
  <2>7. r \notin Mocks /\ r # "closer"
    BY Zenon, <1>b
  <2> QED BY Zenon, <2>1, <2>3, <2>4, <2>5, <2>6, <2>7, HandsFrame
<1>17. ASSUME NEW r \in Reqs, NEW d \in BOOLEAN, ResolveJob(r, d) PROVE ExactlyOnce' /\ HandsInv'
  <2>1. UNCHANGED placeVars /\ UNCHANGED closer
    BY Zenon, <1>17 DEF ResolveJob, placeVars, clockVars, bufferVars, chanVars, sendVars
  <2>2. status' = [status EXCEPT ![r] = "resolved"]
    BY Zenon, <1>17 DEF ResolveJob
  <2>3. HandsInv'
    BY <1>a, <1>b, <2>1, <2>2 DEF HandsInv, Early, placeVars
  <2> QED BY Zenon, <2>1, <2>3, Quiet
<1>18. ASSUME NEW p \in BOOLEAN, GuardStore(p) PROVE ExactlyOnce' /\ HandsInv'
  <2>1. UNCHANGED placeVars /\ UNCHANGED <<status, closer>>
    BY Zenon, <1>18 DEF GuardStore, placeVars, clockVars, bufferVars, chanVars, sendVars, reqVars
  <2> QED BY Zenon, <1>c, <2>1, Quiet DEF placeVars
<1>19. CASE GuardReadsClock
  <2>1. UNCHANGED placeVars /\ UNCHANGED <<status, closer>>
    BY Zenon, <1>19 DEF GuardReadsClock, placeVars, clockVars, bufferVars, chanVars, sendVars, reqVars
  <2> QED BY Zenon, <1>c, <2>1, Quiet DEF placeVars
<1>20. CASE SetMemoryPressure
  <2>1. UNCHANGED <<outbox, status, closer>>
    BY Zenon, <1>20 DEF SetMemoryPressure, sendVars, reqVars
  <2> QED BY Zenon, <1>20, <1>c, <2>1, WipeOnce
<1>21. CASE Stop
  <2>1. UNCHANGED placeVars /\ UNCHANGED status /\ closer = "run"
    BY Zenon, <1>21 DEF Stop, placeVars, clockVars, bufferVars, chanVars, sendVars, reqVars
  <2> QED BY Zenon, <2>1, Quiet DEF HandsInv, Early, placeVars
<1>22. CASE CloserFlush
  <2>1. /\ closer = "waiting" /\ closer' = "flushed" /\ FlushOwnedWindows("closer")
        /\ UNCHANGED <<handled, outChan, received, status>>
    BY Zenon, <1>22 DEF CloserFlush, clockVars, chanVars, reqVars
  <2>2. outbox["closer"] = {}
    BY Zenon, <2>1 DEF HandsInv
  <2>3. ExactlyOnce'
    BY Zenon, <1>a, <2>1, <2>2, FlushOnce
  <2>4. \A u \in Threads : u # "closer" => outbox'[u] = outbox[u]
    BY Zenon, <1>a, <2>1 DEF FlushOwnedWindows, Sweep
  <2>5. \A r \in HttpReqs \cup GrpcReqs : Early(r)' => Early(r) /\ r # "closer"
    BY Zenon, <1>b, <2>1 DEF Early
  <2> QED BY Zenon, <1>a, <1>b, <2>1, <2>3, <2>4, <2>5, HandsFrame
<1>23. CASE CloseOutChan
  <2>1. UNCHANGED placeVars /\ UNCHANGED status /\ closer' = "closed"
    BY Zenon, <1>23 DEF CloseOutChan, placeVars, clockVars, bufferVars, sendVars, reqVars
  <2> QED BY Zenon, <2>1, Quiet DEF HandsInv, Early, placeVars
<1>24. CASE UNCHANGED vars
  <2>1. UNCHANGED placeVars /\ UNCHANGED <<status, closer>>
    BY Zenon, <1>24 DEF vars, placeVars, clockVars, bufferVars, chanVars, sendVars, reqVars
  <2> QED BY Zenon, <1>c, <2>1, Quiet DEF placeVars
<1>25. CASE Finished
  BY Zenon, <1>24, <1>25 DEF Finished
<1> QED
  BY Zenon, <1>1, <1>2, <1>3, <1>4, <1>5, <1>6, <1>7, <1>8, <1>9, <1>10, <1>11, <1>12, <1>13, <1>14, <1>15, <1>16, <1>17, <1>18, <1>19, <1>20, <1>21, <1>22, <1>23, <1>24, <1>25 DEF Next

(* A new manager has every mock nowhere, and empty hands. *)
LEMMA OnceInit == Init => IndInv
<1> SUFFICES ASSUME Init PROVE IndInv
  BY Zenon
<1>1. TypeOK
  BY Zenon, TypeInit
<1>2. /\ outbox = [t \in Threads |-> {}] /\ outChan = <<>> /\ received = <<>>
      /\ buffer = {} /\ handled = {} /\ dropped = [m \in Mocks |-> "no"]
  BY Zenon DEF Init
<1>3. DOMAIN outChan = {} /\ DOMAIN received = {}
  BY <1>2
<1>4. ExactlyOnce
  BY Zenon, <1>2, <1>3 DEF ExactlyOnce, OnePlace, Sending, Queued, Received, Dropped, In, NoRepeat
<1>5. HandsInv
  BY Zenon, <1>2 DEF HandsInv, Threads
<1> QED BY Zenon, <1>1, <1>4, <1>5 DEF IndInv

(* However captures, the flush ticker, the dedup drain, the memory guard and the   *)
(* shutdown interleave, a mock handed to AddMock is at every moment in exactly one *)
(* place and reaches the CLI at most once.                                         *)
THEOREM MockExactlyOnce == Spec => []ExactlyOnce
<1>1. Init => IndInv
  BY Zenon, OnceInit
<1>2. IndInv /\ [Next]_vars => IndInv'
  BY Zenon, OnceInductive
<1>3. IndInv => ExactlyOnce
  BY Zenon DEF IndInv
<1> QED
  BY <1>1, <1>2, <1>3, PTL DEF Spec
=============================================================================

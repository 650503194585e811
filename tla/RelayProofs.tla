---------------------------- MODULE RelayProofs ----------------------------
(***************************************************************************)
(* The relay of a connection, for every set of directives, any number of   *)
(* units and of pause windows: the handler of a directive is alone on the  *)
(* sockets and leaves no deadline behind; and the bytes stay in order, the *)
(* parser sees the client's, and none is lost.                             *)
(***************************************************************************)
EXTENDS Relay, TLAPS

Waiting == {"waitTop", "waitPost"}
Committed == {"parking", "stash", "stashed"}

PauseTypes ==
    /\ pc \in [Dirs -> Labels] /\ held \in [Dirs -> Nat]
    /\ parked \in [Dirs -> {"nil", "open", "closed"}]
    /\ pause \in Nat /\ windows \in Nat
    /\ ctx \in BOOLEAN /\ stopping \in BOOLEAN

(* A forwarder that has seen the barrier holds the open window's channel   *)
(* until it has parked, and a closed park signal means it waits on that    *)
(* very channel: an old channel cannot signal for a new window.            *)
Barrier(d) ==
    /\ parked[d] = "closed" => pause # 0 /\ pc[d] \in Waiting /\ held[d] = pause
    /\ pc[d] \in Committed => pause # 0 /\ held[d] = pause /\ parked[d] = "open"

PauseInv ==
    /\ PauseTypes
    /\ pause <= windows
    /\ \A d \in Dirs : held[d] <= windows
    /\ pause # 0 => \A d \in Dirs : parked[d] # "nil"
    /\ ~Stops => \A d \in Dirs : Barrier(d)
    /\ dpc \in {"nudge", "wait"} => pause # 0
    /\ dpc \in Owning /\ ~Stops => pause # 0 /\ \A d \in Dirs : parked[d] = "closed"

LEMMA PauseInit == RelayInit => PauseInv
<1> SUFFICES ASSUME RelayInit PROVE PauseInv
  BY Zenon
<1>1. /\ pc = [d \in Dirs |-> "top"] /\ held = [d \in Dirs |-> 0]
      /\ parked = [d \in Dirs |-> IF preDispatch THEN "open" ELSE "nil"]
      /\ windows = (IF preDispatch THEN 1 ELSE 0) /\ pause = windows
      /\ dpc = "idle" /\ ctx = FALSE /\ stopping = FALSE
  BY Zenon DEF RelayInit
<1>2. PauseTypes
  BY Zenon, <1>1 DEF PauseTypes, Labels
<1>3. ASSUME NEW d \in Dirs
      PROVE  /\ pc[d] = "top" /\ held[d] = 0 /\ parked[d] # "closed"
             /\ pause # 0 => parked[d] # "nil"
  BY Zenon, <1>1
<1>4. QED BY <1>1, <1>2, <1>3 DEF PauseInv, PauseTypes, Barrier, Committed, Owning

(* What a step that leaves the barrier and its processor alone preserves. *)
LEMMA BarrierFrame ==
    ASSUME PauseInv, UNCHANGED <<pc, held, pause, windows, parked, dpc>>,
           ctx' \in BOOLEAN, stopping' \in BOOLEAN, Stops => Stops'
    PROVE  PauseInv'
BY Zenon DEF PauseInv, PauseTypes, Barrier, Stops

(* A processor step between two labels at which it owns the sockets. *)
LEMMA OwningFrame ==
    ASSUME PauseInv, dpc \in Owning, dpc' \in Owning,
           UNCHANGED <<pc, held, pause, windows, parked, ctx, stopping>>
    PROVE  PauseInv'
BY Zenon DEF PauseInv, PauseTypes, Barrier, Stops, Owning

(* A processor step to a label before or outside the pause. *)
LEMMA IdleFrame ==
    ASSUME PauseInv, dpc' \in {"idle", "sent", "done"},
           UNCHANGED <<pc, held, pause, windows, parked, ctx, stopping>>
    PROVE  PauseInv'
BY Zenon DEF PauseInv, PauseTypes, Barrier, Stops, Owning

(* A forwarder that is neither committed nor waiting moves on. *)
LEMMA FreeFrame ==
    ASSUME PauseInv, NEW d \in Dirs, NEW l \in Labels \ (Committed \cup Waiting),
           ~Stops => pc[d] \notin Waiting \/ held[d] # pause,
           Goto(d, l), held' = held \/ held' = [held EXCEPT ![d] = 0],
           UNCHANGED <<pause, windows, parked, dpc, ctx>>, stopping' \in BOOLEAN,
           Stops => Stops'
    PROVE  PauseInv'
<1>1. PauseTypes'
  BY DEF PauseInv, PauseTypes, Goto
<1>2. ~Stops' => ~Stops
  BY Zenon
<1>3. (\A e \in Dirs : held[e] <= windows)'
  BY DEF PauseInv, PauseTypes
<1>4. ASSUME ~Stops', NEW e \in Dirs
      PROVE  Barrier(e)'
  <2>1. Barrier(e) /\ Barrier(d)
    BY Zenon, <1>2, <1>4 DEF PauseInv
  <2>2. CASE e = d
    BY Zenon, <2>1, <2>2, <1>2, <1>4 DEF Barrier, PauseInv, PauseTypes, Goto
  <2>3. CASE e # d
    BY Zenon, <2>1, <2>3 DEF Barrier, PauseInv, PauseTypes, Goto
  <2>4. QED BY Zenon, <2>2, <2>3
<1>5. QED BY Zenon, <1>1, <1>2, <1>3, <1>4 DEF PauseInv

(* A forwarder sees the barrier, by LoopTop or Recheck. *)
LEMMA Commits ==
    ASSUME PauseInv, NEW d \in Dirs, NEW l \in {"parking", "stash", "stashed"},
           pc[d] \notin Committed \cup Waiting, pause # 0,
           Goto(d, l), held' = [held EXCEPT ![d] = pause],
           UNCHANGED <<pause, windows, parked, dpc, ctx, stopping>>
    PROVE  PauseInv'
<1>1. PauseTypes'
  BY Zenon DEF PauseInv, PauseTypes, Goto, Labels
<1>2. Stops' = Stops
  BY Zenon DEF Stops
<1>3. (\A e \in Dirs : held[e] <= windows)'
  BY Zenon DEF PauseInv, PauseTypes
<1>4. ASSUME ~Stops', NEW e \in Dirs
      PROVE  Barrier(e)'
  <2>1. Barrier(e) /\ Barrier(d)
    BY Zenon, <1>2, <1>4 DEF PauseInv
  <2>2. CASE e = d
    BY Zenon, <2>1, <2>2 DEF Barrier, PauseInv, PauseTypes, Goto, Committed
  <2>3. CASE e # d
    BY Zenon, <2>1, <2>3 DEF Barrier, PauseInv, PauseTypes, Goto
  <2>4. QED BY Zenon, <2>2, <2>3
<1>5. QED BY Zenon, <1>1, <1>2, <1>3, <1>4 DEF PauseInv

(* The steps of a forwarder. *)
LEMMA ForwardPreserves ==
    ASSUME PauseInv, NEW d \in Dirs, Forward(d)
    PROVE  PauseInv'
<1> USE DEF fwdVars, pauseVars, dirVars, stopVars, At
<1>0. Stops => Stops'
  BY Zenon DEF Forward, LoopTop, MarkParked, Unpark, ReadBegins, ReadReturns, Recheck, StashInflight,
         WritePeer, TeeChunk, TeeFailed, CheckErr, NudgeOther, CloseStopping, Stops
<1>a. {"read", "exit", "check", "write", "got", "blocked", "tee", "teeFailed", "top", "close", "done"}
        \subseteq Labels \ (Committed \cup Waiting)
  BY Zenon DEF Labels, Committed, Waiting
<1>b. ctx \in BOOLEAN /\ stopping \in BOOLEAN
  BY Zenon DEF PauseInv, PauseTypes
<1>1. CASE LoopTop(d)
  <2>0. pc[d] \notin Committed \cup Waiting
    BY Zenon, <1>1 DEF LoopTop, Committed, Waiting
  <2>1. UNCHANGED <<pause, windows, parked, dpc, ctx, stopping>>
    BY Zenon, <1>1 DEF LoopTop
  <2>2. CASE Goto(d, "parking") /\ held' = [held EXCEPT ![d] = pause] /\ pause # 0
    BY Zenon, <2>0, <2>1, <2>2, Commits
  <2>3. CASE \E l \in {"exit", "read"} : Goto(d, l) /\ held' = held
    <3>1. PICK l \in {"exit", "read"} : Goto(d, l) /\ held' = held
      BY Zenon, <2>3
    <3>2. l \in Labels \ (Committed \cup Waiting)
      BY Zenon, <1>a
    <3>3. QED BY Zenon, <2>0, <2>1, <3>1, <3>2, <1>0, <1>b, FreeFrame
  <2>4. QED BY Zenon, <1>1, <2>2, <2>3 DEF LoopTop
<1>2. CASE MarkParked(d)
  <2>1. UNCHANGED <<held, pause, windows, dpc, ctx, stopping>> /\ Park(d)
    BY Zenon, <1>2 DEF MarkParked
  <2>2. PICK l \in Waiting : Goto(d, l)
    BY Zenon, <1>2 DEF MarkParked, Waiting
  <2>3. pc[d] \in Committed
    BY Zenon, <1>2 DEF MarkParked, Committed
  <2>4. PauseTypes'
    BY Zenon, <2>1, <2>2 DEF PauseInv, PauseTypes, Goto, Park, Labels, Waiting
  <2>5. ASSUME ~Stops', NEW e \in Dirs
        PROVE  Barrier(e)'
    <3>1. Barrier(e) /\ Barrier(d)
      BY Zenon, <1>0, <2>5 DEF PauseInv
    <3>2. CASE e = d
      <4>1. parked'[d] = "closed" /\ pc'[d] = l
        BY Zenon, <2>1, <2>2, <2>3, <3>1 DEF Barrier, PauseInv, PauseTypes, Goto, Park
      <4>2. l \notin Committed
        BY Zenon, <2>2 DEF Waiting, Committed
      <4>3. QED BY Zenon, <2>1, <2>2, <2>3, <3>1, <3>2, <4>1, <4>2 DEF Barrier
    <3>3. CASE e # d
      BY Zenon, <2>1, <2>2, <3>1, <3>3 DEF Barrier, PauseInv, PauseTypes, Goto, Park
    <3>4. QED BY Zenon, <3>2, <3>3
  <2>6. \A e \in Dirs : /\ parked[e] # "nil" => parked'[e] # "nil"
                        /\ parked[e] = "closed" => parked'[e] = "closed"
    BY Zenon, <2>1 DEF Park, PauseInv, PauseTypes
  <2>7. QED BY Zenon, <1>0, <2>1, <2>4, <2>5, <2>6 DEF PauseInv
<1>3. CASE Unpark(d)
  <2>1. /\ held' = [held EXCEPT ![d] = 0]
        /\ UNCHANGED <<pause, windows, parked, dpc, ctx, stopping>>
        /\ Stops \/ held[d] # pause
    BY Zenon, <1>3 DEF Unpark
  <2>2. PICK l \in {"read", "check", "exit"} : Goto(d, l)
    BY Zenon, <1>3 DEF Unpark
  <2>3. l \in Labels \ (Committed \cup Waiting)
    BY Zenon, <1>a
  <2>4. QED BY Zenon, <2>1, <2>2, <2>3, <1>0, <1>b, FreeFrame
<1>4. CASE Recheck(d)
  <2>0. pc[d] \notin Committed \cup Waiting
    BY Zenon, <1>4 DEF Recheck, Committed, Waiting
  <2>1. UNCHANGED <<pause, windows, parked, dpc, ctx, stopping>>
        /\ held' = [held EXCEPT ![d] = pause]
    BY Zenon, <1>4 DEF Recheck
  <2>2. CASE pause # 0
    <3>1. PICK l \in {"parking", "stash", "stashed"} : Goto(d, l)
      BY Zenon, <1>4, <2>2 DEF Recheck
    <3>2. QED BY Zenon, <2>0, <2>1, <2>2, <3>1, Commits
  <2>3. CASE pause = 0
    <3>1. PICK l \in {"check", "write"} : Goto(d, l)
      BY Zenon, <1>4, <2>3 DEF Recheck
    <3>2. l \in Labels \ (Committed \cup Waiting)
      BY Zenon, <1>a
    <3>3. QED BY Zenon, <2>0, <2>1, <2>3, <3>1, <3>2, <1>0, <1>b, FreeFrame
  <2>4. QED BY Zenon, <2>2, <2>3
<1>5. CASE StashInflight(d)
  <2>1. /\ pc[d] = "stash" /\ Goto(d, "stashed")
        /\ UNCHANGED <<held, pause, windows, parked, dpc, ctx, stopping>>
    BY Zenon, <1>5 DEF StashInflight
  <2>2. PauseTypes'
    BY Zenon, <2>1 DEF PauseInv, PauseTypes, Goto, Labels
  <2>3. ASSUME ~Stops', NEW e \in Dirs
        PROVE  Barrier(e)'
    <3>1. Barrier(e) /\ Barrier(d)
      BY Zenon, <1>0, <2>3 DEF PauseInv
    <3>2. QED BY Zenon, <2>1, <3>1 DEF Barrier, PauseInv, PauseTypes, Goto, Committed, Waiting
  <2>4. QED BY Zenon, <1>0, <2>1, <2>2, <2>3 DEF PauseInv
<1>6. CASE ReadBegins(d) \/ ReadReturns(d) \/ WritePeer(d) \/ TeeChunk(d) \/ TeeFailed(d)
           \/ CheckErr(d) \/ NudgeOther(d) \/ CloseStopping(d)
  <2>1. UNCHANGED <<held, pause, windows, parked, dpc, ctx>> /\ stopping' \in BOOLEAN
    BY Zenon, <1>6, <1>b DEF ReadBegins, ReadReturns, WritePeer, TeeChunk, TeeFailed, CheckErr,
                      NudgeOther, CloseStopping
  <2>2. PICK l \in {"got", "blocked", "tee", "teeFailed", "check", "top", "exit", "close", "done"} :
            Goto(d, l)
    BY Zenon, <1>6 DEF ReadBegins, ReadReturns, WritePeer, TeeChunk, TeeFailed, CheckErr,
                NudgeOther, CloseStopping
  <2>3. l \in Labels \ (Committed \cup Waiting)
    BY Zenon, <1>a
  <2>4. pc[d] \notin Waiting
    BY Zenon, <1>6 DEF ReadBegins, ReadReturns, WritePeer, TeeChunk, TeeFailed, CheckErr,
                NudgeOther, CloseStopping, Waiting
  <2>5. QED BY Zenon, <2>1, <2>2, <2>3, <2>4, <1>0, FreeFrame
<1>7. QED BY Zenon, <1>1, <1>2, <1>3, <1>4, <1>5, <1>6 DEF Forward

(* The steps of the directive processor. *)
LEMMA ProcessorPreserves ==
    ASSUME PauseInv, ProcessDirective
    PROVE  PauseInv'
<1> USE DEF fwdVars, pauseVars, stopVars
<1>1. CASE ProcessorStops
  BY Zenon, <1>1, IdleFrame DEF ProcessorStops
<1>2. CASE HandleSimple \/ NoUpgrader
  BY Zenon, <1>2, IdleFrame DEF HandleSimple, NoUpgrader
<1>3. CASE BeginPause
  <2>1. /\ pause = 0 => windows' = windows + 1 /\ pause' = windows + 1
        /\ pause # 0 => windows' = windows /\ pause' = pause
        /\ parked' = [d \in Dirs |-> IF parked[d] = "nil" THEN "open" ELSE parked[d]]
        /\ dpc' = "nudge" /\ UNCHANGED <<pc, held, ctx, stopping>>
    BY Zenon, <1>3 DEF BeginPause
  <2>2. PauseTypes' /\ windows <= windows' /\ pause' # 0 /\ pause' <= windows'
    BY <2>1 DEF PauseInv, PauseTypes
  <2>3. ASSUME NEW d \in Dirs
        PROVE  parked'[d] # "nil" /\ held'[d] <= windows'
    BY <2>1, <2>2 DEF PauseInv, PauseTypes
  <2>4. ASSUME ~Stops', NEW d \in Dirs
        PROVE  Barrier(d)'
    <3>1. Barrier(d)
      BY Zenon, <2>1, <2>4 DEF PauseInv, Stops
    <3>2. pause # 0 => parked[d] # "nil"
      BY Zenon DEF PauseInv
    <3>3. QED BY Zenon, <2>1, <3>1, <3>2 DEF Barrier
  <2>5. QED BY Zenon, <2>1, <2>2, <2>3, <2>4 DEF PauseInv, Owning
<1>4. CASE ResumeBegins
  <2>1. UNCHANGED <<pc, held, pause, windows, parked, ctx, stopping>>
    BY Zenon, <1>4 DEF ResumeBegins
  <2>2. CASE dpc' = "idle"
    BY Zenon, <2>1, <2>2, IdleFrame
  <2>3. CASE dpc' = "nudge" /\ pause # 0
    BY Zenon, <2>1, <2>3 DEF PauseInv, PauseTypes, Barrier, Stops, Owning
  <2>4. QED BY Zenon, <1>4, <2>2, <2>3 DEF ResumeBegins
<1>5. CASE NudgeBoth
  BY Zenon, <1>5 DEF NudgeBoth, PauseInv, PauseTypes, Barrier, Stops, Owning
<1>6. CASE WaitForwardersParked
  <2>1. /\ dpc = "wait" /\ dpc' \in {"clear", "drain"}
        /\ Stops \/ \A d \in Dirs : parked[d] # "open"
        /\ UNCHANGED <<pc, held, pause, windows, parked, ctx, stopping>>
    BY Zenon, <1>6 DEF WaitForwardersParked
  <2>2. pause # 0 /\ \A d \in Dirs : parked[d] # "nil"
    BY Zenon, <2>1 DEF PauseInv
  <2>3. ~Stops => \A d \in Dirs : parked[d] = "closed"
    BY Zenon, <2>1, <2>2 DEF PauseInv, PauseTypes
  <2>4. QED BY Zenon, <2>1, <2>2, <2>3 DEF PauseInv, PauseTypes, Barrier, Stops
<1>7. CASE ClearDeadlines \/ FlushPreDispatch \/ TakePreamble \/ ReadPreamble \/ ForwardPreamble
           \/ HandshakeDest \/ HandshakeClient \/ PublishConns
  <2>1. UNCHANGED <<pc, held, pause, windows, parked, ctx, stopping>>
    BY Zenon, <1>7 DEF ClearDeadlines, FlushPreDispatch, TakePreamble, ReadPreamble, ForwardPreamble,
                HandshakeDest, HandshakeClient, PublishConns
  <2>2. dpc \in Owning /\ dpc' \in Owning
    BY Zenon, <1>7 DEF ClearDeadlines, FlushPreDispatch, TakePreamble, ReadPreamble, ForwardPreamble,
                HandshakeDest, HandshakeClient, PublishConns, Owning
  <2>3. QED BY Zenon, <2>1, <2>2, OwningFrame
<1>8. CASE DrainStash
  BY Zenon, <1>8, OwningFrame DEF DrainStash, Owning
<1>9. CASE EndPause
  <2>1. /\ dpc = "end" /\ dpc' = "idle" /\ pause' = 0
        /\ parked' = [d \in Dirs |-> "nil"]
        /\ UNCHANGED <<pc, held, windows, ctx, stopping>>
    BY Zenon, <1>9 DEF EndPause
  <2>2. ASSUME ~Stops', NEW d \in Dirs
        PROVE  Barrier(d)'
    <3>1. Barrier(d) /\ parked[d] = "closed"
      BY Zenon, <2>1, <2>2 DEF PauseInv, Stops, Owning
    <3>2. QED BY Zenon, <2>1, <3>1 DEF Barrier, Waiting, Committed
  <2>3. QED BY <2>1, <2>2 DEF PauseInv, PauseTypes, Owning
<1>10. QED BY Zenon, <1>1, <1>2, <1>3, <1>4, <1>5, <1>6, <1>7, <1>8, <1>9 DEF ProcessDirective

(* The inductive step. *)
LEMMA PauseStep == PauseInv /\ [RelayNext]_relayVars => PauseInv'
<1> SUFFICES ASSUME PauseInv, [RelayNext]_relayVars PROVE PauseInv'
  BY Zenon
<1> USE DEF fwdVars, pauseVars, dirVars, stopVars
<1>0. ctx \in BOOLEAN /\ stopping \in BOOLEAN
  BY Zenon DEF PauseInv, PauseTypes
<1>1. CASE \E d \in Dirs : Forward(d)
  BY Zenon, <1>1, ForwardPreserves
<1>2. CASE ProcessDirective
  BY Zenon, <1>2, ProcessorPreserves
<1>3. CASE ParserSends
  BY Zenon, <1>3, IdleFrame DEF ParserSends
<1>4. CASE \E d \in Dirs : PeerSends(d) \/ PeerCloses(d)
  BY <1>0, <1>4, BarrierFrame DEF PeerSends, PeerCloses, Stops
<1>5. CASE Cancel \/ CancelNudge \/ PauseTees \/ CloseTees \/ RunReturns
  BY Zenon, <1>0, <1>5, BarrierFrame DEF Cancel, CancelNudge, PauseTees, CloseTees, RunReturns, Stops
<1>6. CASE UNCHANGED relayVars
  BY Zenon, <1>0, <1>6, BarrierFrame DEF relayVars, Stops
<1>7. QED BY Zenon, <1>1, <1>2, <1>3, <1>4, <1>5, <1>6 DEF RelayNext

(* While handleUpgradeTLS or handleResumePreDispatch works on the sockets, *)
(* both forwarders of forward() wait on its pause channel, unless the      *)
(* relay is tearing down: for every value of the constants.                *)
THEOREM SocketsExclusive == RelaySpec => []HandlerExclusive
<1>1. PauseInv => HandlerExclusive
  BY Zenon DEF PauseInv, HandlerExclusive, Barrier, Waiting
<1>2. QED BY PauseInit, PauseStep, <1>1, PTL DEF RelaySpec

-----------------------------------------------------------------------------
(* The read deadlines. *)

(* A step that sets no deadline, closes no window and takes no forwarder   *)
(* out of its deferred calls.                                              *)
LEMMA DeadlineFrame ==
    ASSUME NoStaleDeadline, UNCHANGED <<deadline, pause>>, Stops => Stops',
           \A d \in Dirs : pc[d] = "close" => pc'[d] = "close"
    PROVE  NoStaleDeadline'
BY Zenon DEF NoStaleDeadline

(* The deadlines are nudged only inside a window or on the way to teardown, *)
(* and the window that is closed takes them back.                          *)
LEMMA DeadlineStep == PauseInv /\ NoStaleDeadline /\ [RelayNext]_relayVars => NoStaleDeadline'
<1> SUFFICES ASSUME PauseInv, NoStaleDeadline, [RelayNext]_relayVars PROVE NoStaleDeadline'
  BY Zenon
<1> USE DEF fwdVars, pauseVars, dirVars, stopVars, At
<1>t. pc \in [Dirs -> Labels] /\ pause \in Nat
  BY Zenon DEF PauseInv, PauseTypes
<1>1. ASSUME NEW d \in Dirs, Forward(d)
      PROVE  NoStaleDeadline'
  <2>1. CASE LoopTop(d) \/ MarkParked(d) \/ Unpark(d) \/ ReadBegins(d) \/ ReadReturns(d)
             \/ Recheck(d) \/ StashInflight(d) \/ WritePeer(d) \/ TeeChunk(d) \/ TeeFailed(d)
             \/ CheckErr(d)
    <3>1. UNCHANGED <<deadline, pause, ctx, stopping>>
      BY Zenon, <2>1 DEF LoopTop, MarkParked, Unpark, ReadBegins, ReadReturns, Recheck, StashInflight,
                  WritePeer, TeeChunk, TeeFailed, CheckErr
    <3>2. pc[d] # "close" /\ \E l : Goto(d, l)
      BY Zenon, <2>1 DEF LoopTop, MarkParked, Unpark, ReadBegins, ReadReturns, Recheck, StashInflight,
                  WritePeer, TeeChunk, TeeFailed, CheckErr
    <3>3. \A e \in Dirs : pc[e] = "close" => pc'[e] = "close"
      BY Zenon, <1>t, <3>2 DEF Goto
    <3>4. QED BY Zenon, <3>1, <3>3, DeadlineFrame DEF Stops
  <2>2. CASE NudgeOther(d)
    <3>1. pc'[d] = "close"
      BY Zenon, <1>t, <2>2 DEF NudgeOther, Goto
    <3>2. QED BY Zenon, <3>1 DEF NoStaleDeadline
  <2>3. CASE CloseStopping(d)
    BY Zenon, <2>3 DEF CloseStopping, NoStaleDeadline, Stops
  <2>4. QED BY Zenon, <1>1, <2>1, <2>2, <2>3 DEF Forward
<1>2. CASE ProcessorStops \/ HandleSimple \/ NoUpgrader \/ ResumeBegins \/ WaitForwardersParked
           \/ FlushPreDispatch \/ ReadPreamble \/ HandshakeDest \/ HandshakeClient \/ PublishConns
           \/ DrainStash \/ ParserSends
  <2>1. UNCHANGED <<pc, deadline, pause, ctx, stopping>>
    BY Zenon, <1>2 DEF ProcessorStops, HandleSimple, NoUpgrader, ResumeBegins, WaitForwardersParked,
                FlushPreDispatch, ReadPreamble, HandshakeDest, HandshakeClient, PublishConns,
                DrainStash, ParserSends
  <2>2. QED BY Zenon, <2>1, DeadlineFrame DEF Stops
<1>3. CASE BeginPause
  <2>1. pause' # 0
    BY <1>3 DEF BeginPause, PauseInv, PauseTypes
  <2>2. QED BY Zenon, <2>1 DEF NoStaleDeadline
<1>4. CASE NudgeBoth
  <2>1. pause' # 0
    BY Zenon, <1>4 DEF NudgeBoth, PauseInv
  <2>2. QED BY Zenon, <2>1 DEF NoStaleDeadline
<1>5. CASE ClearDeadlines
  BY Zenon, <1>5 DEF ClearDeadlines, NoStaleDeadline
(* A deadline cleared under the pause, before a blocking call. *)
<1>11. CASE TakePreamble \/ ForwardPreamble
  <2>1. UNCHANGED <<pc, pause, ctx, stopping>> /\ dpc \in Owning
    BY Zenon, <1>11 DEF TakePreamble, ForwardPreamble, Owning
  <2>2. ~Stops => pause # 0
    BY Zenon, <2>1 DEF PauseInv
  <2>3. QED BY Zenon, <2>1, <2>2 DEF NoStaleDeadline, Stops
<1>6. CASE EndPause
  <2>1. ~Stops => pause # 0
    BY Zenon, <1>6 DEF EndPause, PauseInv, Owning
  <2>2. Stops' = Stops /\ (pause # 0 => deadline' = [d \in Dirs |-> FALSE])
    BY Zenon, <1>6 DEF EndPause, Stops
  <2>3. QED BY Zenon, <2>1, <2>2 DEF NoStaleDeadline
<1>7. CASE CancelNudge
  BY Zenon, <1>7 DEF CancelNudge, NoStaleDeadline, Stops
<1>8. CASE (\E d \in Dirs : PeerSends(d) \/ PeerCloses(d)) \/ Cancel \/ PauseTees \/ CloseTees \/ RunReturns
  <2>1. UNCHANGED <<pc, deadline, pause>>
    BY Zenon, <1>8 DEF PeerSends, PeerCloses, Cancel, PauseTees, CloseTees, RunReturns
  <2>2. (ctx => ctx') /\ (stopping => stopping')
    BY <1>8 DEF PeerSends, PeerCloses, Cancel, PauseTees, CloseTees, RunReturns
  <2>3. QED BY Zenon, <2>1, <2>2, DeadlineFrame DEF Stops
<1>9. CASE UNCHANGED relayVars
  BY Zenon, <1>9, DeadlineFrame DEF relayVars, Stops
<1>10. QED BY Zenon, <1>1, <1>2, <1>3, <1>4, <1>5, <1>6, <1>7, <1>8, <1>9, <1>11 DEF RelayNext, ProcessDirective

(* Outside pause windows and teardown no socket of the relay has a read    *)
(* deadline in the past: nudgeReads never outlives the endPause or the     *)
(* forwarder's deferred close that follows it.                             *)
THEOREM DeadlinesCleared == RelaySpec => []NoStaleDeadline
<1>1. RelayInit => NoStaleDeadline
  BY Zenon DEF RelayInit, NoStaleDeadline
<1>2. QED BY PauseInit, PauseStep, <1>1, DeadlineStep, PTL DEF RelaySpec

-----------------------------------------------------------------------------
(* The data of a connection: units, sequences of them, the directive. *)

SockTypes ==
    /\ sent \in [Dirs -> Nat] /\ taken \in [Dirs -> Nat]
    /\ sock \in [Dirs -> {"open", "eof", "closed"}]

CarryTypes ==
    /\ hand \in [Dirs -> Seq(Nat)] /\ stash \in [Dirs -> Seq(Nat)]
    /\ delivered \in [Dirs -> Seq(Nat)] /\ preamble \in Seq(Nat)

TeeTypes ==
    /\ fed \in [Dirs -> SUBSET Nat] /\ seen \in [Dirs -> SUBSET Nat]
    /\ noted \in [Dirs -> SUBSET Nat]

ProcTypes == dreq \in Requests \cup {NoRequest} /\ asked \in Nat

DataTypes == SockTypes /\ CarryTypes /\ TeeTypes /\ ProcTypes

(* The units a Read of k returns are the next k of the stream. *)
LEMMA NextUnits ==
    ASSUME SockTypes, NEW d \in Dirs, NEW k \in Nat
    PROVE  Next_(d, k) \in Seq(Nat) /\ Units(Next_(d, k)) = (taken[d] + 1)..(taken[d] + k)
<1>1. /\ Next_(d, k) \in [1..k -> Nat] /\ Next_(d, k) \in Seq(Nat)
      /\ \A i \in 1..k : Next_(d, k)[i] = taken[d] + i
  BY DEF SockTypes, Next_
<1>2. DOMAIN Next_(d, k) = 1..k
  BY Zenon, <1>1
<1>3. \A x \in (taken[d] + 1)..(taken[d] + k) : x - taken[d] \in 1..k /\ x = taken[d] + (x - taken[d])
  BY DEF SockTypes
<1>4. QED BY <1>1, <1>2, <1>3 DEF Units, SockTypes

(* Appending one run of units to another joins their units. *)
LEMMA UnitsAppend ==
    ASSUME NEW s \in Seq(Nat), NEW t \in Seq(Nat)
    PROVE  s \o t \in Seq(Nat) /\ Units(s \o t) = Units(s) \cup Units(t)
<1>1. /\ s \o t \in Seq(Nat) /\ DOMAIN (s \o t) = 1..(Len(s) + Len(t))
      /\ DOMAIN s = 1..Len(s) /\ DOMAIN t = 1..Len(t) /\ Len(s) \in Nat /\ Len(t) \in Nat
  OBVIOUS
<1>2. \A i \in 1..(Len(s) + Len(t)) :
          (s \o t)[i] = IF i <= Len(s) THEN s[i] ELSE t[i - Len(s)]
  OBVIOUS
<1>3. ASSUME NEW x \in Units(s \o t)
      PROVE  x \in Units(s) \cup Units(t)
  BY <1>1, <1>2 DEF Units
<1>4. ASSUME NEW x \in Units(s)
      PROVE  x \in Units(s \o t)
  BY <1>1, <1>2 DEF Units
<1>5. ASSUME NEW x \in Units(t)
      PROVE  x \in Units(s \o t)
  <2>1. PICK i \in 1..Len(t) : x = t[i]
    BY Zenon, <1>1 DEF Units
  <2>2. i + Len(s) \in 1..(Len(s) + Len(t)) /\ (s \o t)[i + Len(s)] = t[i]
    BY <1>1, <1>2
  <2>3. QED BY Zenon, <1>1, <2>1, <2>2 DEF Units
<1>6. QED BY Zenon, <1>1, <1>3, <1>4, <1>5

(* An empty buffer holds no unit. *)
LEMMA NoUnits == Units(<<>>) = {}
BY DEF Units

(* The units of a buffer are numbers. *)
LEMMA UnitsNat ==
    ASSUME NEW s \in Seq(Nat)
    PROVE  Units(s) \in SUBSET Nat
BY DEF Units

(* A new relay's data has its types. *)
LEMMA DataInit == RelayInit => DataTypes
BY RelayAssumption DEF RelayInit, DataTypes, SockTypes, CarryTypes, TeeTypes, ProcTypes, NoRequest

(* The steps of a forwarder. *)
LEMMA ForwardTypes ==
    ASSUME DataTypes, NEW d \in Dirs, Forward(d)
    PROVE  DataTypes'
<1> USE DEF sockVars, pauseVars, dirVars, teeVars, stopVars, DataTypes
<1>1. CASE LoopTop(d) \/ MarkParked(d) \/ Unpark(d) \/ ReadBegins(d) \/ Recheck(d)
           \/ CheckErr(d) \/ NudgeOther(d) \/ CloseStopping(d)
  BY Zenon, <1>1 DEF LoopTop, MarkParked, Unpark, ReadBegins, Recheck, CheckErr, NudgeOther, CloseStopping,
              SockTypes, CarryTypes, TeeTypes, ProcTypes
<1>2. CASE ReadReturns(d)
  <2>1. SockTypes'
    BY <1>2 DEF ReadReturns, SockTypes, Available
  <2>0. \A k \in Nat : Next_(d, k) \in Seq(Nat)
    BY Zenon, NextUnits
  <2>a. \A k \in 1..Available(d) : k \in Nat
    BY DEF Available, SockTypes
  <2>b. \A k \in 1..Available(d) : Next_(d, k) \in Seq(Nat)
    BY Zenon, <2>0, <2>a
  <2>c. hand' = hand \/ \E k \in 1..Available(d) : hand' = [hand EXCEPT ![d] = Next_(d, k)]
    BY Zenon, <1>2 DEF ReadReturns
  <2>d. hand' \in [Dirs -> Seq(Nat)]
    BY Zenon, <2>b, <2>c DEF CarryTypes
  <2>2. CarryTypes'
    BY Zenon, <1>2, <2>d DEF ReadReturns, CarryTypes
  <2>3. QED BY Zenon, <1>2, <2>1, <2>2 DEF ReadReturns, TeeTypes, ProcTypes
<1>3. CASE StashInflight(d) \/ TeeChunk(d) \/ TeeFailed(d)
  <2>0. stash[d] \o hand[d] \in Seq(Nat) /\ <<>> \in Seq(Nat)
    BY UnitsAppend DEF CarryTypes
  <2>1. CarryTypes'
    BY Zenon, <1>3, <2>0 DEF StashInflight, TeeChunk, TeeFailed, CarryTypes
  <2>2. Units(hand[d]) \in SUBSET Nat
    BY Zenon, UnitsNat DEF CarryTypes
  <2>3. TeeTypes'
    BY ZenonT(40), <1>3, <2>2 DEF StashInflight, TeeChunk, TeeFailed, TeeTypes, Push
  <2>4. QED BY Zenon, <1>3, <2>1, <2>3 DEF StashInflight, TeeChunk, TeeFailed, SockTypes, ProcTypes
<1>4. CASE WritePeer(d)
  <2>1. delivered[d] \o hand[d] \in Seq(Nat)
    BY Zenon, UnitsAppend DEF CarryTypes
  <2>2. CarryTypes'
    BY Zenon, <1>4, <2>1 DEF WritePeer, CarryTypes
  <2>3. QED BY Zenon, <1>4, <2>2 DEF WritePeer, SockTypes, TeeTypes, ProcTypes
<1>5. QED BY Zenon, <1>1, <1>2, <1>3, <1>4 DEF Forward

(* The steps of the directive processor. *)
LEMMA ProcessorTypes ==
    ASSUME DataTypes, ProcessDirective
    PROVE  DataTypes'
<1> USE DEF sockVars, fwdVars, pauseVars, teeVars, stopVars, DataTypes
<1>d. "c2d" \in Dirs /\ "d2c" \in Dirs
  BY Zenon DEF Dirs
<1>e. <<>> \in Seq(Nat)
  OBVIOUS
<1>1. CASE ProcessorStops \/ HandleSimple \/ NoUpgrader \/ BeginPause \/ ResumeBegins \/ NudgeBoth
           \/ WaitForwardersParked \/ ClearDeadlines \/ PublishConns
  BY Zenon, <1>1 DEF ProcessorStops, HandleSimple, NoUpgrader, BeginPause, ResumeBegins, NudgeBoth, WaitForwardersParked,
              ClearDeadlines, PublishConns, SockTypes, CarryTypes, TeeTypes, ProcTypes
<1>2. CASE FlushPreDispatch
  <2>1. delivered["c2d"] \o stash["c2d"] \in Seq(Nat)
    BY Zenon, <1>d, UnitsAppend DEF CarryTypes
  <2>2. CarryTypes'
    BY Zenon, <1>2, <1>d, <1>e, <2>1 DEF FlushPreDispatch, CarryTypes
  <2>3. QED BY Zenon, <1>2, <2>2 DEF FlushPreDispatch, SockTypes, TeeTypes, ProcTypes
<1>3. CASE TakePreamble
  <2>3. stash["d2c"] \in Seq(Nat)
    BY Zenon, <1>d DEF CarryTypes
  <2>4. stash["d2c"] # <<>> => Tail(stash["d2c"]) \in Seq(Nat) /\ <<Head(stash["d2c"])>> \in Seq(Nat)
    BY <2>3
  <2>5. preamble' \in Seq(Nat) /\ stash' \in [Dirs -> Seq(Nat)]
    <3>1. CASE UNCHANGED <<preamble, stash>>
      BY Zenon, <3>1 DEF CarryTypes
    <3>2. CASE /\ stash["d2c"] # <<>> /\ preamble' = <<Head(stash["d2c"])>>
               /\ stash' = [stash EXCEPT !["d2c"] = Tail(@)]
      BY Zenon, <3>2, <1>d, <2>4 DEF CarryTypes
    <3>3. QED BY Zenon, <1>3, <3>1, <3>2 DEF TakePreamble
  <2>a. CarryTypes'
    BY Zenon, <1>3, <2>5 DEF TakePreamble, CarryTypes
  <2>6. QED BY Zenon, <1>3, <2>a DEF TakePreamble, SockTypes, TeeTypes, ProcTypes
<1>11. CASE ReadPreamble
  <2>b. taken' = taken \/ taken' = [taken EXCEPT !["d2c"] = @ + 1]
    BY Zenon, <1>11 DEF ReadPreamble
  <2>c. UNCHANGED <<sent, sock>>
    BY Zenon, <1>11 DEF ReadPreamble
  <2>1. SockTypes'
    BY <1>d, <2>b, <2>c DEF SockTypes
  <2>2. Next_("d2c", 1) \in Seq(Nat)
    BY Zenon, <1>d, NextUnits
  <2>a. CarryTypes'
    BY Zenon, <1>11, <2>2 DEF ReadPreamble, CarryTypes
  <2>6. QED BY Zenon, <1>11, <2>1, <2>a DEF ReadPreamble, TeeTypes, ProcTypes
<1>4. CASE ForwardPreamble
  <2>1. delivered["d2c"] \o preamble \in Seq(Nat) /\ Units(preamble) \in SUBSET Nat
    BY Zenon, <1>d, UnitsAppend, UnitsNat DEF CarryTypes
  <2>2. CarryTypes'
    BY Zenon, <1>4, <1>d, <1>e, <2>1 DEF ForwardPreamble, CarryTypes
  <2>3. TeeTypes'
    BY Zenon, <1>4, <1>d, <2>1 DEF ForwardPreamble, TeeTypes
  <2>4. QED BY Zenon, <1>4, <2>2, <2>3 DEF ForwardPreamble, SockTypes, ProcTypes
<1>5. ASSUME NEW d \in Dirs, HandshakeReads(d)
      PROVE  /\ taken' \in [Dirs -> Nat] /\ stash' \in [Dirs -> Seq(Nat)]
             /\ fed' \in [Dirs -> SUBSET Nat]
  <2>1. PICK k \in 0..Available(d) :
            /\ fed' = [fed EXCEPT ![d] = @ \cup Units(stash[d]) \cup Units(Next_(d, k))]
            /\ taken' = [taken EXCEPT ![d] = @ + k]
            /\ stash' = [stash EXCEPT ![d] = <<>>]
    BY Zenon, <1>5 DEF HandshakeReads
  <2>2. k \in Nat
    BY DEF Available, SockTypes
  <2>3. Units(stash[d]) \in SUBSET Nat /\ Units(Next_(d, k)) \in SUBSET Nat
    BY Zenon, <2>2, NextUnits, UnitsNat DEF CarryTypes
  <2>4. QED BY SMTT(20), <1>e, <2>1, <2>2, <2>3 DEF SockTypes, CarryTypes, TeeTypes
<1>6. CASE HandshakeDest
  <2>1. /\ taken' \in [Dirs -> Nat] /\ stash' \in [Dirs -> Seq(Nat)] /\ fed' \in [Dirs -> SUBSET Nat]
    BY Zenon, <1>6, <1>d, <1>5 DEF HandshakeDest, SockTypes, CarryTypes, TeeTypes
  <2>2. QED BY Zenon, <1>6, <2>1 DEF HandshakeDest, SockTypes, CarryTypes, TeeTypes, ProcTypes
<1>7. CASE HandshakeClient
  <2>1. /\ taken' \in [Dirs -> Nat] /\ stash' \in [Dirs -> Seq(Nat)] /\ fed' \in [Dirs -> SUBSET Nat]
    BY Zenon, <1>7, <1>d, <1>5 DEF HandshakeClient, SockTypes, CarryTypes, TeeTypes
  <2>2. sock' \in [Dirs -> {"open", "eof", "closed"}]
    BY Zenon, <1>7 DEF HandshakeClient, SockTypes
  <2>3. QED BY Zenon, <1>7, <2>1, <2>2 DEF HandshakeClient, SockTypes, CarryTypes, TeeTypes, ProcTypes
<1>8. CASE DrainStash
  <2>1. \A d \in Dirs : /\ delivered[d] \o stash[d] \in Seq(Nat) /\ delivered[d] \o <<>> \in Seq(Nat)
                         /\ Units(stash[d]) \in SUBSET Nat
    BY Zenon, <1>e, UnitsAppend, UnitsNat DEF CarryTypes
  <2>2. CarryTypes'
    BY ZenonT(40), <1>8, <1>e, <2>1 DEF DrainStash, CarryTypes
  <2>3. TeeTypes'
    BY Zenon, <1>8, <2>1, <1>d DEF DrainStash, TeeTypes
  <2>4. QED BY Zenon, <1>8, <2>2, <2>3 DEF DrainStash, SockTypes, ProcTypes
<1>9. CASE EndPause
  BY Zenon, <1>9, <1>e DEF EndPause, SockTypes, CarryTypes, TeeTypes, ProcTypes
<1>10. QED BY Zenon, <1>1, <1>2, <1>3, <1>4, <1>6, <1>7, <1>8, <1>9, <1>11 DEF ProcessDirective

(* Every step keeps the types of the data. *)
LEMMA DataStep == DataTypes /\ [RelayNext]_relayVars => DataTypes'
<1> SUFFICES ASSUME DataTypes, [RelayNext]_relayVars PROVE DataTypes'
  BY Zenon
<1> USE DEF sockVars, fwdVars, pauseVars, dirVars, teeVars, stopVars,
            DataTypes, SockTypes, CarryTypes, TeeTypes, ProcTypes
<1>1. CASE \E d \in Dirs : Forward(d)
  BY Zenon, <1>1, ForwardTypes
<1>2. CASE ProcessDirective
  BY ZenonT(20), <1>2, ProcessorTypes
<1>3. CASE \E d \in Dirs : PeerSends(d) \/ PeerCloses(d)
  <2>1. PICK d \in Dirs : PeerSends(d) \/ PeerCloses(d)
    BY Zenon, <1>3
  <2>2. UNCHANGED <<taken, hand, stash, delivered, preamble, fed, seen, noted, dreq, asked>>
    BY Zenon, <2>1 DEF PeerSends, PeerCloses
  <2>a. CASE PeerSends(d)
    <3>1. sent' = [sent EXCEPT ![d] = @ + 1] /\ sock' = sock
      BY Zenon, <2>a DEF PeerSends
    <3>2. QED BY <2>2, <3>1
  <2>b. CASE PeerCloses(d)
    <3>1. sock' = [sock EXCEPT ![d] = "eof"] /\ sent' = sent
      BY Zenon, <2>b DEF PeerCloses
    <3>2. QED BY Zenon, <2>2, <3>1
  <2>3. SockTypes'
    BY ZenonT(20), <2>1, <2>a, <2>b
  <2>4. QED BY Zenon, <2>2, <2>3
<1>4. CASE ParserSends \/ Cancel \/ CancelNudge \/ PauseTees \/ CloseTees \/ RunReturns
  <2>1. UNCHANGED <<sent, taken, sock, hand, stash, delivered, preamble, fed, seen, noted>>
    BY ZenonT(20), <1>4 DEF ParserSends, Cancel, CancelNudge, PauseTees, CloseTees, RunReturns
  <2>2. ProcTypes'
    BY SMTT(30), <1>4 DEF ParserSends, Cancel, CancelNudge, PauseTees, CloseTees, RunReturns
  <2>3. QED BY Zenon, <2>1, <2>2
<1>5. CASE UNCHANGED relayVars
  BY Zenon, <1>5 DEF relayVars
<1>6. QED BY Zenon, <1>1, <1>2, <1>3, <1>4, <1>5 DEF RelayNext

-----------------------------------------------------------------------------
(* What each kind of step leaves alone. *)

(* What a forwarder never touches. *)
LEMMA ForwardFrame ==
    ASSUME NEW d \in Dirs, Forward(d)
    PROVE  /\ UNCHANGED <<sent, sock, pause, windows, preDispatch, dpc, dreq, asked, preamble, refused>>
           /\ UNCHANGED <<muted, fed, ctx>>
           /\ Stops => Stops'
<1> USE DEF sockVars, pauseVars, dirVars, teeVars, stopVars, Forward, LoopTop, MarkParked, Unpark,
            ReadBegins, ReadReturns, Recheck, StashInflight, WritePeer, TeeChunk, TeeFailed,
            CheckErr, NudgeOther, CloseStopping
<1>1. UNCHANGED <<sent, sock, pause, windows, preDispatch, dpc, dreq, asked, preamble, refused>>
  BY Zenon
<1>2. UNCHANGED <<muted, fed, ctx>>
  BY Zenon
<1>3. stopping => stopping'
  BY Zenon
<1>4. QED BY Zenon, <1>1, <1>2, <1>3 DEF Stops

(* A forwarder moves its own pc, hand, stash, channel and units only. *)
LEMMA ForwardOther ==
    ASSUME PauseTypes, DataTypes, NEW d \in Dirs, Forward(d), NEW e \in Dirs, e # d
    PROVE  /\ pc'[e] = pc[e] /\ held'[e] = held[e] /\ hand'[e] = hand[e]
           /\ stash'[e] = stash[e] /\ delivered'[e] = delivered[e] /\ taken'[e] = taken[e]
           /\ seen'[e] = seen[e] /\ noted'[e] = noted[e]
<1> USE DEF sockVars, pauseVars, dirVars, teeVars, stopVars, Forward, LoopTop, MarkParked, Unpark,
            ReadBegins, ReadReturns, Recheck, StashInflight, WritePeer, TeeChunk, TeeFailed,
            CheckErr, NudgeOther, CloseStopping
<1>1. \E l : pc' = [pc EXCEPT ![d] = l]
  BY Zenon DEF Goto
<1>2. held' = held \/ \E x : held' = [held EXCEPT ![d] = x]
  BY Zenon
<1>3. hand' = hand \/ \E x : hand' = [hand EXCEPT ![d] = x]
  BY Zenon
<1>4. stash' = stash \/ \E x : stash' = [stash EXCEPT ![d] = x]
  BY Zenon
<1>5. delivered' = delivered \/ \E x : delivered' = [delivered EXCEPT ![d] = x]
  BY Zenon
<1>6. taken' = taken \/ \E x : taken' = [taken EXCEPT ![d] = x]
  BY Zenon
<1>7. seen' = seen \/ \E x : seen' = [seen EXCEPT ![d] = x]
  BY Zenon DEF Push
<1>8. noted' = noted \/ \E x : noted' = [noted EXCEPT ![d] = x]
  BY Zenon DEF Push
<1>9. pc'[e] = pc[e] /\ held'[e] = held[e]
  BY Zenon, <1>1, <1>2 DEF PauseTypes
<1>10. hand'[e] = hand[e] /\ stash'[e] = stash[e] /\ delivered'[e] = delivered[e]
  BY ZenonT(40), <1>3, <1>4, <1>5 DEF DataTypes, CarryTypes
<1>11. taken'[e] = taken[e] /\ seen'[e] = seen[e] /\ noted'[e] = noted[e]
  BY Zenon, <1>6, <1>7, <1>8 DEF DataTypes, SockTypes, TeeTypes
<1>12. QED BY Zenon, <1>9, <1>10, <1>11

(* What the directive processor never touches. *)
LEMMA ProcessorFrame ==
    ASSUME ProcessDirective
    PROVE  UNCHANGED <<sent, pc, hand, held, asked, seen, ctx, stopping>>
BY Zenon DEF sockVars, fwdVars, pauseVars, teeVars, stopVars, ProcessDirective, ProcessorStops, HandleSimple,
       NoUpgrader, BeginPause, ResumeBegins, NudgeBoth, WaitForwardersParked, ClearDeadlines, FlushPreDispatch,
       TakePreamble, ReadPreamble, ForwardPreamble, HandshakeDest, HandshakeClient, PublishConns, DrainStash, EndPause

(* The peers, the caller, the parser and Run touch no unit in the relay. *)
Outside ==
    \/ \E d \in Dirs : PeerSends(d) \/ PeerCloses(d)
    \/ Cancel \/ CancelNudge \/ PauseTees \/ ParserSends \/ CloseTees \/ RunReturns
    \/ UNCHANGED relayVars

(* Every step is a forwarder's, the directive processor's or an outside one. *)
LEMMA NextCases ==
    [RelayNext]_relayVars => (\E d \in Dirs : Forward(d)) \/ ProcessDirective \/ Outside
BY Zenon DEF RelayNext, Outside

(* What the outside steps leave alone. *)
LEMMA OutsideFrame ==
    ASSUME Outside
    PROVE  /\ UNCHANGED <<taken, pc, hand, held, pause, windows, preDispatch, stash, preamble, refused>>
           /\ UNCHANGED <<seen, noted, delivered, fed>>
           /\ Stops => Stops'
           /\ \/ UNCHANGED <<dpc, dreq, asked>>
              \/ ParserSends
<1> USE DEF sockVars, fwdVars, pauseVars, dirVars, teeVars, stopVars, relayVars, Outside, PeerSends, PeerCloses,
            Cancel, CancelNudge, PauseTees, ParserSends, CloseTees, RunReturns
<1>1. UNCHANGED <<taken, pc, hand, held, pause, windows, preDispatch, stash, preamble, refused>>
  BY Zenon
<1>2. UNCHANGED <<seen, noted, delivered, fed>>
  BY ZenonT(40)
<1>3. ctx => ctx'
  BY Zenon
<1>a. stopping => stopping'
  BY Zenon
<1>4. UNCHANGED <<dpc, dreq, asked>> \/ ParserSends
  BY Zenon
<1>5. QED BY Zenon, <1>1, <1>2, <1>3, <1>a, <1>4 DEF Stops

-----------------------------------------------------------------------------
(* What the parser sees of the client's units. *)

Accounted == seen["c2d"] \cup noted["c2d"]

(* handleResumePreDispatch runs only under the pre-dispatch pause. *)
ResumeInv ==
    dpc = "drain" \/ (dpc \in {"nudge", "wait"} /\ dreq.kind # "upgrade") => preDispatch

(* Only the unit a forwarder has just written and not yet teed may be      *)
(* unknown to the parser, and under the pre-dispatch pause the stash was   *)
(* teed when it was filled.                                                *)
SeenInv ==
    /\ preDispatch => Units(stash["c2d"]) \subseteq Accounted
    /\ pc["c2d"] # "tee" => Units(delivered["c2d"]) \subseteq Accounted
    /\ ClientUnitsSeen

(* Every step keeps ResumeInv. *)
LEMMA ResumeStep == ResumeInv /\ [RelayNext]_relayVars => ResumeInv'
<1> SUFFICES ASSUME ResumeInv, [RelayNext]_relayVars PROVE ResumeInv'
  BY Zenon
<1>1. CASE \E d \in Dirs : Forward(d)
  BY Zenon, <1>1, ForwardFrame DEF ResumeInv
<1>2. CASE Outside
  BY Zenon, <1>2, OutsideFrame DEF ResumeInv, ParserSends
<1>3. CASE ProcessDirective
  <2> USE DEF pauseVars
  <2>1. CASE ProcessorStops \/ HandleSimple \/ NoUpgrader \/ EndPause
    BY Zenon, <2>1 DEF ProcessorStops, HandleSimple, NoUpgrader, EndPause, ResumeInv
  <2>2. CASE BeginPause \/ ResumeBegins \/ NudgeBoth \/ WaitForwardersParked
    BY Zenon, <2>2 DEF BeginPause, ResumeBegins, NudgeBoth, WaitForwardersParked, ResumeInv
  <2>3. CASE ClearDeadlines \/ FlushPreDispatch \/ TakePreamble \/ ReadPreamble \/ ForwardPreamble
             \/ HandshakeDest \/ HandshakeClient \/ PublishConns \/ DrainStash
    <3>1. dpc' \in {"flush", "preamble", "readPreamble", "forward", "dest", "client", "publish", "end"}
      BY Zenon, <2>3 DEF ClearDeadlines, FlushPreDispatch, TakePreamble, ReadPreamble, ForwardPreamble,
                  HandshakeDest, HandshakeClient, PublishConns, DrainStash
    <3>2. QED BY Zenon, <3>1 DEF ResumeInv
  <2>4. QED BY Zenon, <1>3, <2>1, <2>2, <2>3 DEF ProcessDirective
<1>4. QED BY Zenon, <1>1, <1>2, <1>3, NextCases

(* The steps of the client's forwarder. *)
LEMMA SeenForward ==
    ASSUME PauseTypes, DataTypes, SeenInv, Forward("c2d")
    PROVE  SeenInv'
<1> DEFINE c == "c2d"
<1>d. c \in Dirs
  BY Zenon DEF Dirs
<1>h. hand[c] \in Seq(Nat) /\ stash[c] \in Seq(Nat) /\ delivered[c] \in Seq(Nat)
  BY Zenon, <1>d DEF DataTypes, CarryTypes
<1>t. seen \in [Dirs -> SUBSET Nat] /\ noted \in [Dirs -> SUBSET Nat] /\ pc \in [Dirs -> Labels]
  BY Zenon DEF DataTypes, TeeTypes, PauseTypes
<1>p. UNCHANGED preDispatch
  BY Zenon, <1>d, ForwardFrame
<1>a. \A us : Push(c, us) => Accounted' = Accounted \cup us
  BY Zenon, <1>d, <1>t DEF Push, Accounted
<1>1. CASE LoopTop(c) \/ MarkParked(c) \/ Unpark(c) \/ ReadBegins(c) \/ ReadReturns(c) \/ Recheck(c)
           \/ CheckErr(c) \/ NudgeOther(c) \/ CloseStopping(c)
  <2>1. pc[c] # "tee" /\ UNCHANGED <<stash, delivered, seen, noted>>
    BY Zenon, <1>1 DEF LoopTop, MarkParked, Unpark, ReadBegins, ReadReturns, Recheck, CheckErr, NudgeOther,
                CloseStopping, At, teeVars
  <2>2. QED BY ZenonT(20), <1>p, <2>1 DEF SeenInv, Accounted, ClientUnitsSeen
<1>2. CASE StashInflight(c)
  <2>1. /\ pc[c] # "tee" /\ UNCHANGED delivered /\ stash'[c] = stash[c] \o hand[c]
        /\ preDispatch => Push(c, Units(hand[c]))
        /\ ~preDispatch => UNCHANGED <<seen, noted>>
    BY Zenon, <1>2, <1>d DEF StashInflight, At, DataTypes, CarryTypes
  <2>2. Units(stash'[c]) = Units(stash[c]) \cup Units(hand[c])
    BY Zenon, <1>h, <2>1, UnitsAppend
  <2>3. preDispatch => Accounted' = Accounted \cup Units(hand[c])
    BY Zenon, <1>a, <2>1
  <2>4. ~preDispatch => Accounted' = Accounted
    BY ZenonT(20), <2>1 DEF Accounted
  <2>5. QED BY Zenon, <1>p, <2>1, <2>2, <2>3, <2>4 DEF SeenInv, Accounted, ClientUnitsSeen
<1>3. CASE WritePeer(c)
  <2>1. pc[c] # "tee" /\ UNCHANGED <<hand, stash, seen, noted>>
    BY Zenon, <1>3 DEF WritePeer, At, teeVars
  <2>2. \/ delivered'[c] = delivered[c] \o hand[c] /\ pc'[c] = "tee"
        \/ delivered'[c] = delivered[c] /\ pc'[c] = "teeFailed"
    BY Zenon, <1>3, <1>d, <1>t DEF WritePeer, Goto, DataTypes, CarryTypes
  <2>3. Units(delivered[c] \o hand[c]) = Units(delivered[c]) \cup Units(hand[c])
    BY Zenon, <1>h, UnitsAppend
  <2>4. QED BY Zenon, <1>p, <2>1, <2>2, <2>3 DEF SeenInv, Accounted, ClientUnitsSeen
<1>4. CASE TeeChunk(c)
  <2>1. Push(c, Units(hand[c])) /\ UNCHANGED <<stash, delivered>>
    BY Zenon, <1>4 DEF TeeChunk
  <2>2. Accounted' = Accounted \cup Units(hand[c])
    BY Zenon, <1>a, <2>1
  <2>3. Units(delivered[c]) \subseteq Accounted \cup Units(hand[c])
    BY Zenon DEF SeenInv, ClientUnitsSeen, Accounted
  <2>4. QED BY Zenon, <1>p, <2>1, <2>2, <2>3 DEF SeenInv, Accounted, ClientUnitsSeen
<1>5. CASE TeeFailed(c)
  <2>1. UNCHANGED <<stash, delivered>>
    BY Zenon, <1>5 DEF TeeFailed
  <2>2. Accounted \subseteq Accounted'
    BY Zenon, <1>5, <1>d, <1>t DEF TeeFailed, Accounted
  <2>3. pc[c] # "tee"
    BY Zenon, <1>5 DEF TeeFailed, At
  <2>4. QED BY Zenon, <1>p, <2>1, <2>2, <2>3 DEF SeenInv, Accounted, ClientUnitsSeen
<1>6. QED BY Zenon, <1>1, <1>2, <1>3, <1>4, <1>5 DEF Forward

(* A step that leaves the client's units and its forwarder alone. *)
LEMMA SeenKept ==
    ASSUME SeenInv, UNCHANGED preDispatch,
           UNCHANGED <<pc["c2d"], hand["c2d"], stash["c2d"], delivered["c2d"], seen["c2d"], noted["c2d"]>>
    PROVE  SeenInv'
<1>1. /\ Accounted' = Accounted /\ pc'["c2d"] = pc["c2d"]
      /\ Units(stash["c2d"])' = Units(stash["c2d"]) /\ Units(delivered["c2d"])' = Units(delivered["c2d"])
      /\ Units(hand["c2d"])' = Units(hand["c2d"])
  BY Zenon DEF Accounted
<1>2. preDispatch' => Units(stash["c2d"])' \subseteq Accounted'
  BY Zenon, <1>1 DEF SeenInv
<1>3. pc'["c2d"] # "tee" => Units(delivered["c2d"])' \subseteq Accounted'
  BY Zenon, <1>1 DEF SeenInv
<1>4. ClientUnitsSeen'
  BY Zenon, <1>1 DEF SeenInv, ClientUnitsSeen, Accounted
<1>5. QED BY Zenon, <1>2, <1>3, <1>4 DEF SeenInv

(* Every step keeps SeenInv. *)
LEMMA SeenStep ==
    ASSUME PauseTypes, DataTypes, ResumeInv, SeenInv, [RelayNext]_relayVars
    PROVE  SeenInv'
<1> DEFINE c == "c2d"
<1>d. c \in Dirs /\ Dirs = {c, "d2c"}
  BY Zenon DEF Dirs
<1>h. hand[c] \in Seq(Nat) /\ stash[c] \in Seq(Nat) /\ delivered[c] \in Seq(Nat)
  BY Zenon, <1>d DEF DataTypes, CarryTypes
<1>1. CASE Forward(c)
  BY Zenon, <1>1, SeenForward
<1>2. CASE Forward("d2c")
  <2>1. UNCHANGED <<pc[c], hand[c], stash[c], delivered[c], seen[c], noted[c]>> /\ UNCHANGED preDispatch
    BY Zenon, <1>2, <1>d, ForwardOther, ForwardFrame
  <2>2. QED BY Zenon, <2>1, SeenKept
<1>3. CASE Outside
  <2>1. UNCHANGED <<pc, hand, stash, delivered, seen, noted, preDispatch>>
    BY Zenon, <1>3, OutsideFrame
  <2>2. QED BY Zenon, <2>1, SeenKept
<1>4. CASE ProcessDirective
  <2> USE DEF pauseVars, teeVars
  <2>f. UNCHANGED <<pc, hand, seen>>
    BY Zenon, <1>4, ProcessorFrame
  <2>0. Units(delivered[c] \o stash[c]) = Units(delivered[c]) \cup Units(stash[c]) /\ Units(<<>>) = {}
    BY Zenon, <1>h, UnitsAppend, NoUnits
  <2>1. CASE UNCHANGED <<stash[c], delivered[c], noted, preDispatch>>
    BY ZenonT(20), <2>1, <2>f DEF SeenInv, ClientUnitsSeen, Accounted
  <2>2. CASE /\ stash'[c] = <<>> /\ Accounted \subseteq Accounted'
             /\ \/ delivered'[c] = delivered[c]
                \/ delivered'[c] = delivered[c] \o stash[c] /\ preDispatch
    <3>0. preDispatch => Units(stash[c]) \subseteq Accounted
      BY Zenon DEF SeenInv
    <3>1. Units(delivered'[c]) \subseteq Units(delivered[c]) \cup Accounted
      <4>1. CASE delivered'[c] = delivered[c]
        BY Zenon, <4>1
      <4>2. CASE delivered'[c] = delivered[c] \o stash[c] /\ preDispatch
        BY Zenon, <4>2, <2>0, <3>0
      <4>3. QED BY ZenonT(40), <2>2, <4>1, <4>2
    <3>2. QED BY Zenon, <2>2, <2>0, <2>f, <3>1 DEF SeenInv, ClientUnitsSeen, Accounted
  <2>3. CASE ProcessorStops \/ HandleSimple \/ NoUpgrader \/ BeginPause \/ ResumeBegins \/ NudgeBoth
             \/ WaitForwardersParked \/ ClearDeadlines \/ PublishConns
    BY Zenon, <2>1, <2>3 DEF ProcessorStops, HandleSimple, NoUpgrader, BeginPause, ResumeBegins, NudgeBoth,
                      WaitForwardersParked, ClearDeadlines, PublishConns
  <2>4. CASE TakePreamble \/ ReadPreamble \/ ForwardPreamble \/ HandshakeDest
    <3>1. UNCHANGED <<noted, preDispatch>>
      BY ZenonT(20), <2>4 DEF TakePreamble, ReadPreamble, ForwardPreamble, HandshakeDest
    <3>2. stash'[c] = stash[c] /\ delivered'[c] = delivered[c]
      BY Zenon, <2>4, <1>d DEF TakePreamble, ReadPreamble, ForwardPreamble, HandshakeDest, HandshakeReads,
                               DataTypes, CarryTypes
    <3>3. QED BY ZenonT(20), <2>1, <3>1, <3>2
  <2>5. CASE HandshakeClient
    <3>1. UNCHANGED <<noted, preDispatch, delivered>>
      BY Zenon, <2>5 DEF HandshakeClient
    <3>2. stash' = stash \/ stash'[c] = <<>>
      BY ZenonT(20), <2>5, <1>d DEF HandshakeClient, HandshakeReads, DataTypes, CarryTypes
    <3>3. QED BY Zenon, <2>1, <2>2, <2>f, <3>1, <3>2 DEF Accounted
  <2>6. CASE FlushPreDispatch
    <3>1. UNCHANGED <<noted, preDispatch>>
      BY Zenon, <2>6 DEF FlushPreDispatch
    <3>2. \/ stash' = stash /\ delivered' = delivered
          \/ stash'[c] = <<>> /\ preDispatch /\ (delivered' = delivered \/ delivered'[c] = delivered[c] \o stash[c])
      BY ZenonT(20), <2>6, <1>d DEF FlushPreDispatch, DataTypes, CarryTypes
    <3>3. QED BY Zenon, <2>1, <2>2, <2>f, <3>1, <3>2 DEF Accounted
  <2>7. CASE DrainStash
    <3>1. preDispatch /\ stash'[c] = <<>>
      BY Zenon, <2>7, <1>d DEF DrainStash, ResumeInv
    <3>2. \A e \in Dirs : delivered[e] \o <<>> = delivered[e]
      BY DEF DataTypes, CarryTypes
    <3>3. delivered'[c] = delivered[c] \/ delivered'[c] = delivered[c] \o stash[c]
      BY Zenon, <2>7, <1>d, <3>2 DEF DrainStash
    <3>4. Accounted \subseteq Accounted'
      BY Zenon, <2>7, <2>f, <1>d DEF DrainStash, Accounted, DataTypes, TeeTypes
    <3>5. QED BY Zenon, <2>2, <3>1, <3>3, <3>4
  <2>8. CASE EndPause
    <3>1. stash'[c] = <<>> /\ delivered' = delivered /\ noted' = noted
      BY Zenon, <2>8, <1>d DEF EndPause
    <3>2. QED BY Zenon, <2>2, <2>f, <3>1 DEF Accounted
  <2>9. QED BY Zenon, <1>4, <2>3, <2>4, <2>5, <2>6, <2>7, <2>8 DEF ProcessDirective
<1>5. QED BY Zenon, <1>d, <1>1, <1>2, <1>3, <1>4, NextCases

(* The parser of a connection sees every unit of the client that reaches   *)
(* the destination, or the mock is marked incomplete, whoever writes the   *)
(* unit: forward(), the flush of handleUpgradeTLS or the drain of          *)
(* handleResumePreDispatch.                                                *)
THEOREM ParserSeesClient == RelaySpec => []ClientUnitsSeen
<1>1. RelayInit => ResumeInv /\ SeenInv
  BY DEF RelayInit, ResumeInv, SeenInv, ClientUnitsSeen, Accounted, Units, Dirs
<1>2. PauseInv => PauseTypes
  BY Zenon DEF PauseInv
<1>3. PauseTypes /\ DataTypes /\ ResumeInv /\ SeenInv /\ [RelayNext]_relayVars => SeenInv'
  BY Zenon, SeenStep
<1>4. SeenInv => ClientUnitsSeen
  BY Zenon DEF SeenInv
<1>5. QED BY PauseInit, PauseStep, DataInit, DataStep, ResumeStep, <1>1, <1>2, <1>3, <1>4, PTL DEF RelaySpec

-----------------------------------------------------------------------------
(* The order of the units. *)

Sorted(s) == \A i, j \in DOMAIN s : i < j => s[i] < s[j]
Below(S, T) == \A x \in S, y \in T : x < y

(* Two sorted runs, the first below the second, make a sorted run. *)
LEMMA SortedAppend ==
    ASSUME NEW s \in Seq(Nat), NEW t \in Seq(Nat), Sorted(s), Sorted(t), Below(Units(s), Units(t))
    PROVE  Sorted(s \o t)
<1>1. /\ s \o t \in Seq(Nat) /\ DOMAIN (s \o t) = 1..(Len(s) + Len(t))
      /\ DOMAIN s = 1..Len(s) /\ DOMAIN t = 1..Len(t) /\ Len(s) \in Nat /\ Len(t) \in Nat
  OBVIOUS
<1>2. \A i \in 1..(Len(s) + Len(t)) :
          (s \o t)[i] = IF i <= Len(s) THEN s[i] ELSE t[i - Len(s)]
  OBVIOUS
<1>3. SUFFICES ASSUME NEW i \in 1..(Len(s) + Len(t)), NEW j \in 1..(Len(s) + Len(t)), i < j
               PROVE  (s \o t)[i] < (s \o t)[j]
  BY ZenonT(20), <1>1 DEF Sorted
<1>4. CASE j <= Len(s)
  <2>1. i \in DOMAIN s /\ j \in DOMAIN s
    BY <1>1, <1>3, <1>4
  <2>2. s[i] < s[j]
    BY Zenon, <1>3, <2>1 DEF Sorted
  <2>3. QED BY <1>1, <1>2, <1>3, <1>4, <2>2
<1>5. CASE i > Len(s)
  <2>1. i - Len(s) \in DOMAIN t /\ j - Len(s) \in DOMAIN t /\ i - Len(s) < j - Len(s)
    BY <1>1, <1>3, <1>5
  <2>2. t[i - Len(s)] < t[j - Len(s)]
    BY Zenon, <2>1 DEF Sorted
  <2>3. QED BY <1>1, <1>2, <1>3, <1>5, <2>2
<1>6. CASE i <= Len(s) /\ j > Len(s)
  <2>1. i \in DOMAIN s /\ j - Len(s) \in DOMAIN t
    BY <1>1, <1>3, <1>6
  <2>2. s[i] \in Units(s) /\ t[j - Len(s)] \in Units(t)
    BY Zenon, <2>1 DEF Units
  <2>3. QED BY <1>1, <1>2, <1>3, <1>6, <2>2 DEF Below
<1>7. QED BY SMTT(20), <1>1, <1>3, <1>4, <1>5, <1>6

(* The units one Read returns are sorted. *)
LEMMA NextSorted ==
    ASSUME SockTypes, NEW d \in Dirs, NEW k \in Nat
    PROVE  Sorted(Next_(d, k))
BY DEF SockTypes, Next_, Sorted

(* A buffer's units are its head and those of its tail. *)
LEMMA HeadUnits ==
    ASSUME NEW s \in Seq(Nat), s # <<>>
    PROVE  Units(<<Head(s)>>) = {Head(s)} /\ Units(s) = Units(<<Head(s)>>) \cup Units(Tail(s))
<1>1. /\ Len(s) \in Nat \ {0} /\ DOMAIN s = 1..Len(s) /\ Head(s) = s[1]
      /\ DOMAIN Tail(s) = 1..(Len(s) - 1)
      /\ \A i \in 1..(Len(s) - 1) : Tail(s)[i] = s[i + 1]
  OBVIOUS
<1>2. Units(<<Head(s)>>) = {Head(s)}
  <2>1. DOMAIN <<Head(s)>> = {1} /\ <<Head(s)>>[1] = Head(s)
    OBVIOUS
  <2>2. QED BY Zenon, <2>1 DEF Units
<1>3. ASSUME NEW x \in Units(s) PROVE x = Head(s) \/ x \in Units(Tail(s))
  <2>1. PICK i \in 1..Len(s) : x = s[i]
    BY Zenon, <1>1 DEF Units
  <2>2. CASE i = 1
    BY Zenon, <2>1, <2>2, <1>1
  <2>3. CASE i # 1
    <3>1. i - 1 \in 1..(Len(s) - 1) /\ Tail(s)[i - 1] = s[i]
      BY <1>1, <2>3
    <3>2. QED BY Zenon, <1>1, <2>1, <3>1 DEF Units
  <2>4. QED BY Zenon, <2>2, <2>3
<1>4. ASSUME NEW x \in Units(Tail(s)) PROVE x \in Units(s)
  BY <1>1 DEF Units
<1>5. Head(s) \in Units(s)
  BY <1>1 DEF Units
<1>6. QED BY Zenon, <1>2, <1>3, <1>4, <1>5

(* The head of a sorted run is below its sorted tail. *)
LEMMA HeadFirst ==
    ASSUME NEW s \in Seq(Nat), s # <<>>, Sorted(s)
    PROVE  /\ Sorted(Tail(s)) /\ Sorted(<<Head(s)>>) /\ Below({Head(s)}, Units(Tail(s)))
<1>1. /\ Len(s) \in Nat \ {0} /\ DOMAIN s = 1..Len(s) /\ Head(s) = s[1]
      /\ Tail(s) \in Seq(Nat) /\ DOMAIN Tail(s) = 1..(Len(s) - 1)
      /\ \A i \in 1..(Len(s) - 1) : Tail(s)[i] = s[i + 1]
  OBVIOUS
<1>2. Sorted(Tail(s))
  BY SMTT(60), <1>1 DEF Sorted
<1>3. Sorted(<<Head(s)>>)
  <2>1. DOMAIN <<Head(s)>> = {1}
    OBVIOUS
  <2>2. QED BY <2>1 DEF Sorted
<1>4. Below({Head(s)}, Units(Tail(s)))
  <2>1. ASSUME NEW i \in 1..(Len(s) - 1) PROVE Head(s) < Tail(s)[i]
    <3>1. 1 \in DOMAIN s /\ i + 1 \in DOMAIN s /\ 1 < i + 1
      BY <1>1
    <3>2. QED BY Zenon, <1>1, <3>1 DEF Sorted
  <2>2. QED BY Zenon, <1>1, <2>1 DEF Below, Units
<1>5. QED BY Zenon, <1>2, <1>3, <1>4

Calm == ~Stops \/ asked = 0

(* Where a stash can be filled: its forwarder waits on the open window, or *)
(* has left it for teardown.                                               *)
Stashing(d) ==
    \/ pc[d] \in {"stashed", "waitPost"} /\ pause # 0 /\ held[d] = pause
    \/ pc[d] \in {"exit", "close", "done"}

(* What is delivered comes before what is stashed and what is in hand, and *)
(* all of it before what is still in the socket.                           *)
Ordered(d) ==
    /\ Sorted(delivered[d]) /\ Sorted(stash[d]) /\ Sorted(hand[d])
    /\ \A x \in Units(delivered[d]) \cup Units(stash[d]) \cup Units(hand[d]) : x <= taken[d]
    /\ Below(Units(delivered[d]), Units(stash[d]))
    /\ pc[d] \in {"got", "stash", "write"} => Below(Units(delivered[d]), Units(hand[d]))
    /\ pc[d] = "stash" => pause # 0 /\ held[d] = pause
    /\ stash[d] # <<>> => Stashing(d)

PreambleOrdered ==
    /\ Sorted(preamble) /\ \A x \in Units(preamble) : x <= taken["d2c"]
    /\ Below(Units(delivered["d2c"]), Units(preamble))
    /\ Below(Units(preamble), Units(stash["d2c"]))

(* A forwarder's hand is empty but between its Read and its tee, and the   *)
(* processor holds a preamble only until it has forwarded it.              *)
Carrying == {"got", "stash", "write", "tee", "teeFailed"}
Upgrading == {"clear", "flush", "preamble", "readPreamble", "forward", "dest", "client", "publish"}
HoldInv ==
    /\ \A d \in Dirs : pc[d] \notin Carrying => hand[d] = <<>>
    /\ preamble # <<>> => dpc = "forward"
    /\ dpc \notin {"idle", "done"} => asked > 0
    /\ dpc \in Upgrading => dreq.kind = "upgrade"

(* Every step keeps HoldInv. *)
LEMMA HoldStep ==
    ASSUME PauseTypes, DataTypes, HoldInv, [RelayNext]_relayVars
    PROVE  HoldInv'
<1>1. ASSUME NEW d \in Dirs, Forward(d)
      PROVE  HoldInv'
  <2>1. \A e \in Dirs : e # d => (pc'[e] \notin Carrying => hand'[e] = <<>>)
    BY Zenon, <1>1, ForwardOther DEF HoldInv
  <2>2. pc'[d] \notin Carrying => hand'[d] = <<>>
    <3> USE DEF At, Goto, Carrying
    <3>0. pc \in [Dirs -> Labels] /\ hand \in [Dirs -> Seq(Nat)]
      BY Zenon DEF PauseTypes, DataTypes, CarryTypes
    <3>1. CASE LoopTop(d) \/ MarkParked(d) \/ Unpark(d) \/ ReadBegins(d) \/ CheckErr(d)
               \/ NudgeOther(d) \/ CloseStopping(d)
      <4>1. pc[d] \notin Carrying /\ hand' = hand
        BY Zenon, <3>1 DEF LoopTop, MarkParked, Unpark, ReadBegins, CheckErr, NudgeOther, CloseStopping, fwdVars
      <4>2. QED BY Zenon, <4>1 DEF HoldInv
    <3>2. CASE ReadReturns(d) \/ WritePeer(d)
      BY Zenon, <3>0, <3>2 DEF ReadReturns, WritePeer
    <3>3. CASE Recheck(d)
      BY Zenon, <3>0, <3>3 DEF Recheck
    <3>4. CASE StashInflight(d) \/ TeeChunk(d) \/ TeeFailed(d)
      BY Zenon, <3>0, <3>4 DEF StashInflight, TeeChunk, TeeFailed
    <3>5. QED BY Zenon, <1>1, <3>1, <3>2, <3>3, <3>4 DEF Forward
  <2>3. UNCHANGED <<preamble, dpc, asked, dreq>>
    BY Zenon, <1>1, ForwardFrame
  <2>4. QED BY ZenonT(20), <2>1, <2>2, <2>3 DEF HoldInv
<1>2. CASE Outside
  <2>1. UNCHANGED <<pc, hand, preamble>>
    BY Zenon, <1>2, OutsideFrame
  <2>2. CASE UNCHANGED <<dpc, dreq, asked>>
    BY Zenon, <2>1, <2>2 DEF HoldInv
  <2>3. CASE ParserSends
    <3>1. dpc' = "sent" /\ asked' = asked + 1 /\ dpc = "idle"
      BY Zenon, <2>3 DEF ParserSends
    <3>2. asked' > 0
      BY <3>1 DEF DataTypes, ProcTypes
    <3>3. QED BY Zenon, <2>1, <3>1, <3>2 DEF HoldInv, Upgrading
  <2>4. QED BY Zenon, <1>2, <2>2, <2>3, OutsideFrame
<1>3. CASE ProcessDirective
  <2>1. UNCHANGED <<pc, hand, asked>>
    BY Zenon, <1>3, ProcessorFrame
  <2>2. dpc \notin {"idle", "done"} \/ dpc' = "done"
    BY Zenon, <1>3 DEF ProcessDirective, ProcessorStops, HandleSimple, NoUpgrader, BeginPause, ResumeBegins,
                NudgeBoth, WaitForwardersParked, ClearDeadlines, FlushPreDispatch, TakePreamble, ReadPreamble,
                ForwardPreamble,
                HandshakeDest, HandshakeClient, PublishConns, DrainStash, EndPause
  <2>3. preamble' # <<>> => dpc' = "forward"
    <3>1. CASE TakePreamble \/ ReadPreamble \/ ForwardPreamble
      BY Zenon, <3>1 DEF TakePreamble, ReadPreamble, ForwardPreamble, HoldInv
    <3>2. CASE ~(TakePreamble \/ ReadPreamble \/ ForwardPreamble)
      <4>1. dpc # "forward" /\ preamble' = preamble
        BY Zenon, <1>3, <3>2 DEF ProcessDirective, ProcessorStops, HandleSimple, NoUpgrader, BeginPause, ResumeBegins,
                NudgeBoth, WaitForwardersParked, ClearDeadlines, FlushPreDispatch, HandshakeDest,
                HandshakeClient, PublishConns, DrainStash, EndPause
      <4>2. QED BY Zenon, <4>1 DEF HoldInv
    <3>3. QED BY Zenon, <3>1, <3>2
  <2>4. dpc' \in Upgrading => dreq'.kind = "upgrade"
    <3>1. CASE WaitForwardersParked
      BY Zenon, <3>1 DEF WaitForwardersParked, Upgrading
    <3>2. CASE dpc \in Upgrading /\ dreq' = dreq
      BY Zenon, <3>2 DEF HoldInv
    <3>3. CASE dpc' \notin Upgrading
      BY Zenon, <3>3
    <3>4. QED BY ZenonT(40), <1>3, <3>1, <3>2, <3>3 DEF ProcessDirective, ProcessorStops, HandleSimple, NoUpgrader,
                BeginPause, ResumeBegins, NudgeBoth, ClearDeadlines, FlushPreDispatch, TakePreamble, ReadPreamble,
                ForwardPreamble,
                HandshakeDest, HandshakeClient, PublishConns, DrainStash, EndPause, Upgrading
  <2>5. QED BY Zenon, <2>1, <2>2, <2>3, <2>4 DEF HoldInv
<1>4. QED BY Zenon, <1>1, <1>2, <1>3, NextCases

OrderInv == Calm => PreambleOrdered /\ \A d \in Dirs : Ordered(d)

(* The handler reads a preamble off the socket only behind an empty stash, *)
(* and no forwarder fills the stash meanwhile.                             *)
EmptyInv == Calm /\ dpc = "readPreamble" => stash["d2c"] = <<>>

(* Facts of arithmetic and sequences that the steps below cite. *)
LEMMA IntervalBounds ==
    ASSUME NEW a \in Nat, NEW k \in Nat, NEW y \in (a + 1)..(a + k)
    PROVE  y \in Nat /\ a < y /\ y <= a + k
  OBVIOUS

(* Arithmetic of the counters, stated once for the first-order prover. *)
LEMMA SumBounds ==
    ASSUME NEW a \in Nat, NEW k \in Nat
    PROVE  a + k \in Nat /\ a <= a + k /\ a + k <= a + k
  OBVIOUS

(* At most, then less. *)
LEMMA LessChain ==
    ASSUME NEW x \in Nat, NEW a \in Nat, NEW y \in Nat, x <= a, a < y
    PROVE  x < y
  OBVIOUS

(* At most, then at most. *)
LEMMA LeqChain ==
    ASSUME NEW x \in Nat, NEW a \in Nat, NEW b \in Nat, x <= a, a <= b
    PROVE  x <= b
  OBVIOUS

(* Nothing before a run is the run. *)
LEMMA ConcatEmpty ==
    ASSUME NEW S, NEW s \in Seq(S)
    PROVE  <<>> \o s = s
  OBVIOUS

(* The empty run is sorted and is below and above every set. *)
LEMMA NothingSorted ==
    /\ Sorted(<<>>) /\ \A S : Below(S, Units(<<>>)) /\ Below(Units(<<>>), S)
BY NoUnits DEF Sorted, Below

(* An empty preamble is in order. *)
LEMMA PreambleGone ==
    ASSUME preamble' = <<>>
    PROVE  PreambleOrdered'
BY Zenon, NothingSorted, NoUnits DEF PreambleOrdered

(* A step that leaves the units of a direction, its forwarder and the      *)
(* window alone.                                                           *)
LEMMA OrderedFrame ==
    ASSUME NEW d \in Dirs, Ordered(d),
           pc'[d] = pc[d], hand'[d] = hand[d], stash'[d] = stash[d], delivered'[d] = delivered[d],
           taken'[d] = taken[d], held'[d] = held[d], pause # 0 => pause' = pause
    PROVE  Ordered(d)'
BY Zenon DEF Ordered, Stashing

(* The handler empties the stash of a waiting forwarder, into the peer or  *)
(* into a handshake.                                                       *)
LEMMA OrderedEmptied ==
    ASSUME DataTypes, NEW d \in Dirs, Ordered(d), pc[d] \in Waiting,
           pc'[d] = pc[d], hand'[d] = hand[d], stash'[d] = <<>>,
           delivered'[d] = delivered[d] \/ delivered'[d] = delivered[d] \o stash[d],
           taken'[d] \in Nat, taken[d] <= taken'[d]
    PROVE  Ordered(d)'
<1>t. /\ hand[d] \in Seq(Nat) /\ stash[d] \in Seq(Nat) /\ delivered[d] \in Seq(Nat) /\ taken[d] \in Nat
      /\ Units(hand[d]) \in SUBSET Nat /\ Units(stash[d]) \in SUBSET Nat /\ Units(delivered[d]) \in SUBSET Nat
  BY Zenon, UnitsNat DEF DataTypes, CarryTypes, SockTypes
<1>1. Sorted(delivered'[d])
  BY Zenon, <1>t, SortedAppend DEF Ordered
<1>2. Units(delivered'[d]) \subseteq Units(delivered[d]) \cup Units(stash[d])
  <2>1. CASE delivered'[d] = delivered[d]
    BY ZenonT(20), <2>1
  <2>2. CASE delivered'[d] = delivered[d] \o stash[d]
    BY ZenonT(20), <1>t, <2>2, UnitsAppend
  <2>3. QED BY Zenon, <2>1, <2>2
<1>3. ASSUME NEW x \in Units(delivered'[d]) \cup Units(hand[d]) PROVE x <= taken'[d]
  <2>1. x \in Units(delivered[d]) \cup Units(stash[d]) \cup Units(hand[d])
    BY ZenonT(20), <1>2
  <2>2. x \in Nat /\ x <= taken[d]
    BY Zenon, <1>t, <2>1 DEF Ordered
  <2>3. QED BY ZenonT(20), <1>t, <2>2, LeqChain
<1>4. pc'[d] \notin {"got", "stash", "write"}
  BY Zenon DEF Waiting
<1>5. QED BY Zenon, <1>1, <1>3, <1>4, NothingSorted, NoUnits DEF Ordered

(* The steps of a forwarder on its own units. *)
LEMMA OrderedForward ==
    ASSUME PauseInv, DataTypes, HoldInv, NEW d \in Dirs, Forward(d), Ordered(d)
    PROVE  Ordered(d)'
<1>t. /\ hand[d] \in Seq(Nat) /\ stash[d] \in Seq(Nat) /\ delivered[d] \in Seq(Nat) /\ taken[d] \in Nat
      /\ Units(hand[d]) \in SUBSET Nat /\ Units(stash[d]) \in SUBSET Nat /\ Units(delivered[d]) \in SUBSET Nat
  BY Zenon, UnitsNat DEF DataTypes, CarryTypes, SockTypes
<1>y. /\ pc \in [Dirs -> Labels] /\ held \in [Dirs -> Nat] /\ hand \in [Dirs -> Seq(Nat)]
      /\ stash \in [Dirs -> Seq(Nat)] /\ delivered \in [Dirs -> Seq(Nat)] /\ taken \in [Dirs -> Nat]
  BY ZenonT(20) DEF PauseInv, PauseTypes, DataTypes, CarryTypes, SockTypes
<1>p. pause' = pause
  BY ZenonT(20), ForwardFrame
<1>e. pc[d] \notin {"stashed", "waitPost", "exit", "close", "done"} => stash[d] = <<>>
  BY Zenon DEF Ordered, Stashing
<1> USE DEF At, Goto
<1>1. CASE UNCHANGED <<hand, stash, delivered, taken>> /\ pc'[d] \notin {"got", "stash", "write"}
           /\ (stash[d] # <<>> => Stashing(d)')
  BY Zenon, <1>1 DEF Ordered
<1>2. CASE LoopTop(d) \/ CheckErr(d)
  <2>1. UNCHANGED <<hand, stash, delivered, taken>> /\ pc'[d] \notin {"got", "stash", "write"}
        /\ pc[d] \in {"top", "check"}
    BY Zenon, <1>2, <1>y DEF LoopTop, CheckErr, sockVars
  <2>2. QED BY Zenon, <1>1, <1>e, <2>1
<1>3. CASE MarkParked(d)
  <2>0. UNCHANGED <<hand, stash, delivered, taken, held>>
    BY Zenon, <1>3 DEF MarkParked, sockVars
  <2>1. \/ pc[d] = "parking" /\ pc'[d] = "waitTop"
        \/ pc[d] = "stashed" /\ pc'[d] = "waitPost"
    BY Zenon, <1>3, <1>y DEF MarkParked
  <2>2. stash[d] # <<>> => Stashing(d)'
    BY ZenonT(40), <2>0, <2>1, <1>p DEF Ordered, Stashing
  <2>3. QED BY Zenon, <1>1, <2>0, <2>1, <2>2
<1>4. CASE Unpark(d)
  <2>1. UNCHANGED <<hand, stash, delivered, taken>> /\ pc'[d] \notin {"got", "stash", "write"}
        /\ pc[d] \in {"waitTop", "waitPost"} /\ (held[d] # pause \/ pc'[d] = "exit")
    BY ZenonT(20), <1>4, <1>y DEF Unpark, sockVars
  <2>2. stash[d] # <<>> => Stashing(d)'
    BY Zenon, <2>1 DEF Ordered, Stashing
  <2>3. QED BY Zenon, <1>1, <2>1, <2>2
<1>5. CASE NudgeOther(d) \/ CloseStopping(d)
  <2>0. UNCHANGED <<hand, stash, delivered, taken>>
    BY Zenon, <1>5 DEF NudgeOther, CloseStopping, sockVars
  <2>1. pc'[d] \in {"close", "done"}
    BY Zenon, <1>5, <1>y DEF NudgeOther, CloseStopping
  <2>2. QED BY Zenon, <1>1, <2>0, <2>1 DEF Stashing
<1>6. CASE ReadBegins(d)
  <2>1. UNCHANGED <<hand, stash, delivered, taken>> /\ pc[d] = "read" /\ pc'[d] \in {"got", "blocked"}
    BY Zenon, <1>6, <1>y DEF ReadBegins, sockVars
  <2>2. hand[d] = <<>> /\ stash[d] = <<>>
    BY Zenon, <1>e, <2>1 DEF HoldInv, Carrying
  <2>3. QED BY Zenon, <2>1, <2>2, NothingSorted DEF Ordered
<1>7. CASE ReadReturns(d)
  <2>0. pc[d] = "blocked" /\ pc'[d] = "got" /\ UNCHANGED <<stash, delivered>>
    BY ZenonT(40), <1>7, <1>y DEF ReadReturns
  <2>e. hand[d] = <<>> /\ stash[d] = <<>>
    BY Zenon, <1>e, <2>0 DEF HoldInv, Carrying
  <2>1. CASE UNCHANGED <<hand, taken>>
    BY Zenon, <2>0, <2>e, <2>1, NothingSorted DEF Ordered
  <2>2. CASE \E k \in 1..Available(d) : /\ hand' = [hand EXCEPT ![d] = Next_(d, k)]
                                        /\ taken' = [taken EXCEPT ![d] = @ + k]
    <3>1. PICK k \in 1..Available(d) : /\ hand' = [hand EXCEPT ![d] = Next_(d, k)]
                                       /\ taken' = [taken EXCEPT ![d] = @ + k]
      BY Zenon, <2>2
    <3>2. k \in Nat /\ SockTypes
      BY DEF Available, DataTypes, SockTypes
    <3>3. hand'[d] = Next_(d, k) /\ taken'[d] = taken[d] + k
      BY Zenon, <1>y, <3>1
    <3>4. Units(hand'[d]) = (taken[d] + 1)..(taken[d] + k) /\ Sorted(hand'[d])
      BY Zenon, <3>2, <3>3, NextUnits, NextSorted
    <3>5. \A x \in Units(delivered[d]) : x \in Nat /\ x <= taken[d]
      BY ZenonT(40), <1>t DEF Ordered
    <3>n. taken[d] \in Nat /\ k \in Nat
      BY Zenon, <1>t, <3>2
    <3>a. ASSUME NEW y \in Units(hand'[d]) PROVE y \in Nat /\ taken[d] < y /\ y <= taken'[d]
      <4>1. y \in (taken[d] + 1)..(taken[d] + k)
        BY ZenonT(20), <3>4
      <4>2. QED BY ZenonT(20), <3>n, <3>3, <4>1, IntervalBounds
    <3>b. taken'[d] \in Nat /\ taken[d] <= taken'[d]
      BY ZenonT(20), <3>n, <3>3, SumBounds
    <3>6. ASSUME NEW x \in Units(delivered[d]), NEW y \in Units(hand'[d]) PROVE x < y
      <4>1. x \in Nat /\ x <= taken[d] /\ y \in Nat /\ taken[d] < y
        BY ZenonT(20), <3>5, <3>a
      <4>2. QED BY ZenonT(20), <3>n, <4>1, LessChain
    <3>c. Below(Units(delivered[d]), Units(hand'[d]))
      BY ZenonT(20), <3>6 DEF Below
    <3>7. ASSUME NEW x \in Units(delivered[d]) \cup Units(hand'[d]) PROVE x <= taken'[d]
      <4>1. CASE x \in Units(delivered[d])
        <5>1. x \in Nat /\ x <= taken[d]
          BY Zenon, <3>5, <4>1
        <5>2. QED BY ZenonT(20), <3>n, <3>b, <5>1, LeqChain
      <4>2. QED BY ZenonT(20), <3>a, <4>1
    <3>8. QED BY Zenon, <2>0, <2>e, <3>4, <3>c, <3>7, NothingSorted, NoUnits DEF Ordered
  <2>3. QED BY Zenon, <1>7, <2>1, <2>2 DEF ReadReturns
<1>8. CASE Recheck(d)
  <2>1. UNCHANGED <<hand, stash, delivered, taken>> /\ pc[d] = "got" /\ held'[d] = pause
    BY Zenon, <1>8, <1>y DEF Recheck, sockVars
  <2>2. \/ pause # 0 /\ pc'[d] \in {"stash", "stashed"}
        \/ pause = 0 /\ pc'[d] \in {"check", "write"}
    BY Zenon, <1>8, <1>y DEF Recheck
  <2>3. QED BY ZenonT(40), <1>e, <1>p, <2>1, <2>2 DEF Ordered
<1>9. CASE StashInflight(d)
  <2>1. /\ pc[d] = "stash" /\ pc'[d] = "stashed" /\ UNCHANGED <<delivered, taken, held>>
        /\ stash'[d] = stash[d] \o hand[d] /\ hand'[d] = <<>>
    BY ZenonT(20), <1>9, <1>y DEF StashInflight, sockVars
  <2>a. <<>> \o hand[d] = hand[d]
    BY ZenonT(20), <1>t, ConcatEmpty
  <2>2. stash[d] = <<>> /\ stash'[d] = hand[d]
    BY Zenon, <1>e, <2>1, <2>a
  <2>3. Stashing(d)'
    BY Zenon, <1>p, <2>1 DEF Ordered, Stashing
  <2>4. QED BY ZenonT(40), <2>1, <2>2, <2>3, NothingSorted, NoUnits DEF Ordered
<1>10. CASE WritePeer(d)
  <2>1. /\ pc[d] = "write" /\ UNCHANGED <<hand, stash, taken>> /\ pc'[d] \in {"tee", "teeFailed"}
        /\ delivered'[d] = delivered[d] \/ delivered'[d] = delivered[d] \o hand[d]
    BY Zenon, <1>10, <1>y DEF WritePeer, sockVars
  <2>2. stash[d] = <<>>
    BY Zenon, <1>e, <2>1
  <2>3. Sorted(delivered'[d])
    BY Zenon, <1>t, <2>1, SortedAppend DEF Ordered
  <2>4. Units(delivered'[d]) \subseteq Units(delivered[d]) \cup Units(hand[d])
    <3>1. CASE delivered'[d] = delivered[d]
      BY Zenon, <3>1
    <3>2. CASE delivered'[d] = delivered[d] \o hand[d]
      BY ZenonT(40), <1>t, <3>2, UnitsAppend
    <3>3. QED BY Zenon, <2>1, <3>1, <3>2
  <2>5. QED BY ZenonT(40), <2>1, <2>2, <2>3, <2>4, NothingSorted DEF Ordered
<1>11. CASE TeeChunk(d) \/ TeeFailed(d)
  <2>1. /\ pc[d] \in {"tee", "teeFailed"} /\ pc'[d] \in {"check", "exit"}
        /\ UNCHANGED <<stash, delivered, taken>> /\ hand'[d] = <<>>
    BY Zenon, <1>11, <1>y DEF TeeChunk, TeeFailed, sockVars
  <2>2. stash[d] = <<>>
    BY Zenon, <1>e, <2>1
  <2>3. QED BY Zenon, <2>1, <2>2, NothingSorted, NoUnits DEF Ordered
<1>12. QED BY ZenonT(20), <1>2, <1>3, <1>4, <1>5, <1>6, <1>7, <1>8, <1>9, <1>10, <1>11 DEF Forward

(* The processor is alone on the sockets whenever the connection is calm. *)
LEMMA Alone ==
    ASSUME PauseInv, DataTypes, HoldInv, Calm, dpc \in Owning
    PROVE  ~Stops /\ pause # 0 /\ \A d \in Dirs : pc[d] \in Waiting /\ held[d] = pause
<1>1. ~Stops
  BY DEF HoldInv, Calm, Owning, DataTypes, ProcTypes
<1>2. QED BY Zenon, <1>1 DEF PauseInv, Barrier

(* No forwarder moves then. *)
LEMMA AllParked ==
    ASSUME PauseInv, DataTypes, HoldInv, Calm, dpc \in Owning, NEW d \in Dirs, Forward(d)
    PROVE  FALSE
<1>1. ~Stops /\ pc[d] \in Waiting /\ held[d] = pause
  BY Zenon, Alone
<1>2. QED
  BY Zenon, <1>1 DEF Forward, LoopTop, MarkParked, Unpark, ReadBegins, ReadReturns, Recheck, StashInflight,
              WritePeer, TeeChunk, TeeFailed, CheckErr, NudgeOther, CloseStopping, At, Waiting

(* Every step keeps EmptyInv. *)
LEMMA EmptyStep ==
    ASSUME PauseInv, DataTypes, HoldInv, EmptyInv, [RelayNext]_relayVars
    PROVE  EmptyInv'
<1>1. ASSUME NEW d \in Dirs, Forward(d), Calm', dpc' = "readPreamble" PROVE FALSE
  <2>1. Calm /\ dpc \in Owning
    BY Zenon, <1>1, ForwardFrame DEF Calm, Owning
  <2>2. QED BY Zenon, <1>1, <2>1, AllParked
<1>2. CASE Outside
  <2>1. stash' = stash /\ (Stops => Stops')
    BY Zenon, <1>2, OutsideFrame
  <2>2. CASE ParserSends
    BY Zenon, <2>2 DEF ParserSends, EmptyInv
  <2>3. CASE UNCHANGED <<dpc, dreq, asked>>
    BY Zenon, <2>1, <2>3 DEF EmptyInv, Calm
  <2>4. QED BY Zenon, <1>2, <2>2, <2>3, OutsideFrame
<1>3. CASE ProcessDirective
  <2>1. CASE TakePreamble
    BY Zenon, <2>1 DEF TakePreamble, EmptyInv
  <2>2. CASE ~TakePreamble
    <3>1. dpc' # "readPreamble"
      BY Zenon, <1>3, <2>2 DEF ProcessDirective, ProcessorStops, HandleSimple, NoUpgrader, BeginPause,
                ResumeBegins, NudgeBoth, WaitForwardersParked, ClearDeadlines, FlushPreDispatch, ReadPreamble,
                ForwardPreamble, HandshakeDest, HandshakeClient, PublishConns, DrainStash, EndPause
    <3>2. QED BY Zenon, <3>1 DEF EmptyInv
  <2>3. QED BY Zenon, <2>1, <2>2
<1>4. QED BY Zenon, <1>1, <1>2, <1>3, NextCases DEF EmptyInv

(* A forwarder's step keeps the order. *)
LEMMA OrderForward ==
    ASSUME PauseInv, DataTypes, HoldInv, OrderInv, NEW d \in Dirs, Forward(d)
    PROVE  OrderInv'
<1>1. SUFFICES ASSUME Calm' PROVE PreambleOrdered' /\ \A e \in Dirs : Ordered(e)'
  BY Zenon DEF OrderInv
<1>2. Calm
  BY Zenon, <1>1, ForwardFrame DEF Calm
<1>3. ASSUME NEW e \in Dirs PROVE Ordered(e)'
  <2>1. CASE e = d
    BY ZenonT(20), <2>1, <1>2, OrderedForward DEF OrderInv
  <2>2. CASE e # d
    <3>1. PauseTypes /\ Ordered(e) /\ pause' = pause
      BY Zenon, <1>2, ForwardFrame DEF OrderInv, PauseInv
    <3>2. QED BY Zenon, <2>2, <3>1, ForwardOther, OrderedFrame
  <2>3. QED BY Zenon, <2>1, <2>2
<1>4. PreambleOrdered'
  <2>0. preamble' = preamble
    BY Zenon, ForwardFrame
  <2>1. CASE preamble = <<>>
    BY Zenon, <2>0, <2>1, PreambleGone
  <2>2. CASE preamble # <<>>
    <3>1. dpc \in Owning
      BY Zenon, <2>2 DEF HoldInv, Owning
    <3>2. QED BY Zenon, <1>2, <3>1, AllParked
  <2>3. QED BY Zenon, <2>1, <2>2
<1>5. QED BY Zenon, <1>3, <1>4

(* A directive processor's step keeps the order. *)
LEMMA OrderProcess ==
    ASSUME PauseInv, DataTypes, HoldInv, EmptyInv, OrderInv, ProcessDirective
    PROVE  OrderInv'
<1>d. "c2d" \in Dirs /\ "d2c" \in Dirs /\ "c2d" # "d2c" /\ \A e \in Dirs : e = "c2d" \/ e = "d2c"
  BY Zenon DEF Dirs
<1>f. UNCHANGED <<pc, hand, held, asked, ctx, stopping>>
  BY Zenon, ProcessorFrame
<1>1. SUFFICES ASSUME Calm' PROVE PreambleOrdered' /\ \A e \in Dirs : Ordered(e)'
  BY Zenon DEF OrderInv
<1>2. Calm
  BY Zenon, <1>1, <1>f DEF Calm, Stops
<1>3. PreambleOrdered /\ \A e \in Dirs : Ordered(e)
  BY Zenon, <1>2 DEF OrderInv
<1>t. /\ stash \in [Dirs -> Seq(Nat)] /\ delivered \in [Dirs -> Seq(Nat)] /\ taken \in [Dirs -> Nat]
      /\ preamble \in Seq(Nat)
  BY Zenon DEF DataTypes, CarryTypes, SockTypes
<1>u. /\ Units(preamble) \in SUBSET Nat
      /\ \A e \in Dirs : Units(stash[e]) \in SUBSET Nat /\ Units(delivered[e]) \in SUBSET Nat
  BY ZenonT(20), <1>t, UnitsNat
<1>w. dpc \in Owning => \A e \in Dirs : pc[e] \in Waiting
  BY Zenon, <1>2, Alone
<1>n. dpc # "forward" => preamble = <<>>
  BY Zenon DEF HoldInv
<1>s. ASSUME UNCHANGED <<stash, delivered, taken, preamble>>, pause # 0 => pause' = pause
      PROVE  PreambleOrdered' /\ \A e \in Dirs : Ordered(e)'
  <2>2. \A e \in Dirs : Ordered(e)'
    BY Zenon, <1>3, <1>f, <1>s, OrderedFrame
  <2>3. PreambleOrdered'
    BY Zenon, <1>3, <1>s DEF PreambleOrdered
  <2>4. QED BY ZenonT(20), <2>2, <2>3
<1>4. CASE ProcessorStops \/ HandleSimple \/ NoUpgrader \/ BeginPause \/ ResumeBegins \/ NudgeBoth
           \/ WaitForwardersParked \/ ClearDeadlines \/ PublishConns
  <2>1. UNCHANGED <<stash, delivered, taken, preamble>> /\ (pause # 0 => pause' = pause)
    BY Zenon, <1>4 DEF ProcessorStops, HandleSimple, NoUpgrader, BeginPause, ResumeBegins, NudgeBoth,
                WaitForwardersParked, ClearDeadlines, PublishConns, sockVars, pauseVars
  <2>2. QED BY Zenon, <1>s, <2>1
(* A step that empties stashes, each into its peer, a handshake or nowhere. *)
<1>5. ASSUME NEW D \in SUBSET Dirs, dpc \in Owning, preamble' = <<>>, pause' = pause \/ D = Dirs,
             \A e \in D : /\ stash'[e] = <<>> /\ taken'[e] \in Nat /\ taken[e] <= taken'[e]
                          /\ delivered'[e] = delivered[e] \/ delivered'[e] = delivered[e] \o stash[e],
             \A e \in Dirs \ D : /\ stash'[e] = stash[e] /\ taken'[e] = taken[e]
                                 /\ delivered'[e] = delivered[e]
      PROVE  PreambleOrdered' /\ \A e \in Dirs : Ordered(e)'
  <2>1. PreambleOrdered'
    BY Zenon, <1>5, PreambleGone
  <2>2. ASSUME NEW e \in D PROVE Ordered(e)'
    BY ZenonT(40), <1>5, <1>3, <1>f, <1>w, <2>2, OrderedEmptied
  <2>3. ASSUME NEW e \in Dirs \ D PROVE Ordered(e)'
    <3>1. pause' = pause
      BY Zenon, <1>5, <2>3
    <3>2. QED BY Zenon, <1>5, <1>3, <1>f, <2>3, <3>1, OrderedFrame
  <2>4. QED BY ZenonT(20), <2>1, <2>2, <2>3
<1>6. CASE FlushPreDispatch
  <2>1. dpc \in Owning /\ preamble' = <<>> /\ UNCHANGED <<taken, pause>>
    BY ZenonT(20), <1>6, <1>n DEF FlushPreDispatch, Owning, sockVars, pauseVars
  <2>2. CASE UNCHANGED <<stash, delivered>>
    BY Zenon, <1>s, <1>n, <1>6, <2>1, <2>2 DEF FlushPreDispatch
  <2>3. CASE /\ stash' = [stash EXCEPT !["c2d"] = <<>>]
             /\ delivered' = delivered \/ delivered' = [delivered EXCEPT !["c2d"] = @ \o stash["c2d"]]
    <3>1. /\ stash'["c2d"] = <<>> /\ stash'["d2c"] = stash["d2c"] /\ delivered'["d2c"] = delivered["d2c"]
          /\ delivered'["c2d"] = delivered["c2d"] \/ delivered'["c2d"] = delivered["c2d"] \o stash["c2d"]
      BY Zenon, <1>d, <1>t, <2>3
    <3>2. \A e \in Dirs : taken'[e] = taken[e] /\ taken'[e] \in Nat /\ taken[e] <= taken'[e]
      BY <1>t, <2>1
    <3>3. {"c2d"} \in SUBSET Dirs /\ Dirs \ {"c2d"} = {"d2c"}
      BY ZenonT(20), <1>d
    <3>4. QED BY Zenon, <1>5, <2>1, <3>1, <3>2, <3>3
  <2>4. QED BY ZenonT(40), <1>6, <2>2, <2>3 DEF FlushPreDispatch
<1>7. CASE HandshakeDest \/ HandshakeClient
  <2>1. dpc \in Owning /\ preamble' = <<>> /\ UNCHANGED <<delivered, pause>>
    BY ZenonT(20), <1>7, <1>n DEF HandshakeDest, HandshakeClient, Owning, pauseVars
  <2>2. CASE UNCHANGED <<stash, taken>>
    BY Zenon, <1>s, <1>n, <1>7, <2>1, <2>2 DEF HandshakeDest, HandshakeClient
  <2>3. ASSUME NEW e \in Dirs, HandshakeReads(e)
        PROVE  PreambleOrdered' /\ \A x \in Dirs : Ordered(x)'
    <3>1. PICK k \in 0..Available(e) : /\ taken' = [taken EXCEPT ![e] = @ + k]
                                       /\ stash' = [stash EXCEPT ![e] = <<>>]
      BY Zenon, <2>3 DEF HandshakeReads
    <3>2. k \in Nat
      BY DEF Available, DataTypes, SockTypes
    <3>3. stash'[e] = <<>> /\ taken'[e] \in Nat /\ taken[e] <= taken'[e]
      BY <1>t, <3>1, <3>2
    <3>4. \A x \in Dirs \ {e} : stash'[x] = stash[x] /\ taken'[x] = taken[x]
      BY Zenon, <1>t, <3>1
    <3>5. {e} \in SUBSET Dirs
      BY Zenon
    <3>6. QED BY Zenon, <1>5, <2>1, <3>3, <3>4, <3>5
  <2>4. QED BY ZenonT(20), <1>7, <1>d, <2>2, <2>3 DEF HandshakeDest, HandshakeClient
<1>8. CASE DrainStash
  <2>1. dpc \in Owning /\ preamble' = <<>> /\ UNCHANGED <<taken, pause>> /\ \A e \in Dirs : stash'[e] = <<>>
    BY Zenon, <1>8, <1>n DEF DrainStash, Owning, sockVars
  <2>2. \A e \in Dirs : delivered[e] \o <<>> = delivered[e]
    BY <1>t
  <2>3. \A e \in Dirs : delivered'[e] = delivered[e] \/ delivered'[e] = delivered[e] \o stash[e]
    BY ZenonT(40), <1>8, <2>2 DEF DrainStash
  <2>4. \A e \in Dirs : taken'[e] \in Nat /\ taken[e] <= taken'[e]
    BY <1>t, <2>1
  <2>5. Dirs \in SUBSET Dirs /\ Dirs \ Dirs = {}
    BY Zenon
  <2>6. QED BY Zenon, <1>5, <2>1, <2>3, <2>4, <2>5
<1>9. CASE EndPause
  <2>1. /\ dpc \in Owning /\ preamble' = <<>> /\ UNCHANGED <<taken, delivered>>
        /\ \A e \in Dirs : stash'[e] = <<>>
    BY ZenonT(20), <1>9, <1>n DEF EndPause, Owning, sockVars
  <2>4. \A e \in Dirs : taken'[e] \in Nat /\ taken[e] <= taken'[e]
    BY <1>t, <2>1
  <2>5. Dirs \in SUBSET Dirs /\ Dirs \ Dirs = {}
    BY ZenonT(20)
  <2>6. QED BY ZenonT(40), <1>5, <2>1, <2>4, <2>5
<1>10. CASE TakePreamble
  <2>0. dpc \in Owning /\ preamble = <<>> /\ UNCHANGED <<delivered, pause, taken>>
    BY Zenon, <1>10, <1>n DEF TakePreamble, Owning, pauseVars, sockVars
  <2>1. CASE UNCHANGED <<preamble, stash>>
    BY Zenon, <2>0, <2>1, <1>s
  <2>2. CASE /\ stash["d2c"] # <<>> /\ preamble' = <<Head(stash["d2c"])>>
             /\ stash' = [stash EXCEPT !["d2c"] = Tail(@)]
    <3>s. stash["d2c"] \in Seq(Nat) /\ Sorted(stash["d2c"])
      BY Zenon, <1>d, <1>t, <1>3 DEF Ordered
    <3>1. /\ stash'["d2c"] = Tail(stash["d2c"]) /\ stash'["c2d"] = stash["c2d"]
      BY ZenonT(20), <1>d, <1>t, <2>2
    <3>2. /\ Sorted(stash'["d2c"]) /\ Sorted(preamble') /\ Units(preamble') = {Head(stash["d2c"])}
          /\ Units(stash["d2c"]) = Units(preamble') \cup Units(stash'["d2c"])
          /\ Below(Units(preamble'), Units(stash'["d2c"]))
      BY ZenonT(20), <2>2, <3>s, <3>1, HeadFirst, HeadUnits
    <3>3. Ordered("c2d")'
      BY ZenonT(20), <1>d, <1>3, <1>f, <2>0, <2>2, <3>1, OrderedFrame
    <3>4. /\ Below(Units(delivered["d2c"]), Units(stash["d2c"]))
          /\ \A x \in Units(stash["d2c"]) : x <= taken["d2c"]
      BY ZenonT(20), <1>d, <1>3 DEF Ordered
    <3>5. PreambleOrdered'
      BY ZenonT(20), <2>0, <2>2, <3>2, <3>4 DEF PreambleOrdered, Below
    <3>6. Below(Units(delivered["d2c"]), Units(stash'["d2c"]))
      BY ZenonT(20), <3>2, <3>4 DEF Below
    <3>7. stash'["d2c"] # <<>> => Stashing("d2c")'
      BY Zenon, <1>d, <1>3, <1>f, <2>0, <2>2 DEF Ordered, Stashing
    <3>8. Ordered("d2c")'
      BY Zenon, <1>d, <1>3, <1>f, <2>0, <2>2, <3>2, <3>6, <3>7 DEF Ordered
    <3>9. QED BY Zenon, <1>d, <3>3, <3>5, <3>8
  <2>4. QED BY ZenonT(20), <1>10, <2>1, <2>2 DEF TakePreamble
<1>13. CASE ReadPreamble
  <2>0. /\ dpc \in Owning /\ preamble = <<>> /\ UNCHANGED <<delivered, pause, stash>>
        /\ stash["d2c"] = <<>>
    BY Zenon, <1>13, <1>n, <1>2 DEF ReadPreamble, Owning, pauseVars, EmptyInv
  <2>1. CASE UNCHANGED <<preamble, taken>>
    BY Zenon, <2>0, <2>1, <1>s
  <2>3. CASE /\ stash["d2c"] = <<>> /\ preamble' = Next_("d2c", 1) /\ stash' = stash
             /\ taken' = [taken EXCEPT !["d2c"] = @ + 1]
    <3>1. SockTypes /\ 1 \in Nat /\ taken["d2c"] \in Nat
      BY Zenon, <1>d DEF DataTypes, SockTypes
    <3>2. taken'["d2c"] = taken["d2c"] + 1 /\ taken'["c2d"] = taken["c2d"]
      BY Zenon, <1>d, <1>t, <2>3
    <3>3. Sorted(preamble') /\ Units(preamble') = (taken["d2c"] + 1)..(taken["d2c"] + 1)
      BY ZenonT(40), <1>d, <2>3, <3>1, NextSorted, NextUnits
    <3>4. Ordered("c2d")'
      BY Zenon, <1>d, <1>3, <1>f, <2>0, <2>3, <3>2, OrderedFrame
    <3>5. \A x \in Units(delivered["d2c"]) : x \in Nat /\ x <= taken["d2c"]
      BY Zenon, <1>d, <1>u, <1>3 DEF Ordered
    <3>a. Units(preamble') = {taken["d2c"] + 1}
      BY <3>1, <3>3
    <3>b. Below(Units(delivered["d2c"]), Units(preamble'))
      BY <3>1, <3>a, <3>5 DEF Below
    <3>7. /\ taken'["d2c"] \in Nat /\ taken["d2c"] <= taken'["d2c"] /\ taken'["d2c"] <= taken'["d2c"]
      BY ZenonT(20), <3>1, <3>2, SumBounds
    <3>c. \A x \in Units(preamble') : x <= taken'["d2c"]
      BY ZenonT(20), <3>2, <3>7, <3>a
    <3>6. PreambleOrdered'
      BY Zenon, <2>0, <2>3, <3>3, <3>b, <3>c, NothingSorted DEF PreambleOrdered
    <3>8. Ordered("d2c")'
      BY Zenon, <1>d, <1>3, <1>f, <1>w, <2>0, <2>3, <3>7, OrderedEmptied
    <3>9. QED BY Zenon, <1>d, <3>4, <3>6, <3>8
  <2>4. QED BY ZenonT(20), <1>13, <2>0, <2>1, <2>3 DEF ReadPreamble
<1>11. CASE ForwardPreamble
  <2>0. UNCHANGED <<stash, taken, pause>> /\ preamble' = <<>>
    BY ZenonT(20), <1>11 DEF ForwardPreamble, sockVars, pauseVars
  <2>1. delivered' = delivered \/ delivered' = [delivered EXCEPT !["d2c"] = @ \o preamble]
    BY Zenon, <1>11 DEF ForwardPreamble
  <2>2. PreambleOrdered'
    BY ZenonT(20), <2>0, PreambleGone
  <2>3. CASE delivered' = delivered
    BY Zenon, <1>3, <1>f, <2>0, <2>2, <2>3, OrderedFrame
  <2>4. CASE delivered' = [delivered EXCEPT !["d2c"] = @ \o preamble]
    <3>1. delivered'["c2d"] = delivered["c2d"] /\ delivered'["d2c"] = delivered["d2c"] \o preamble
      BY ZenonT(40), <1>d, <1>t, <2>4
    <3>2. Ordered("c2d")'
      BY ZenonT(40), <1>d, <1>3, <1>f, <2>0, <3>1, OrderedFrame
    <3>a. /\ delivered["d2c"] \in Seq(Nat) /\ Sorted(delivered["d2c"])
          /\ Sorted(preamble) /\ Below(Units(delivered["d2c"]), Units(preamble))
      BY Zenon, <1>d, <1>t, <1>3 DEF Ordered, PreambleOrdered
    <3>b. Sorted(delivered'["d2c"])
      BY Zenon, <1>t, <3>1, <3>a, SortedAppend
    <3>c. Units(delivered'["d2c"]) = Units(delivered["d2c"]) \cup Units(preamble)
      BY ZenonT(20), <1>t, <3>1, <3>a, UnitsAppend
    <3>3. /\ Sorted(delivered'["d2c"])
          /\ Units(delivered'["d2c"]) = Units(delivered["d2c"]) \cup Units(preamble)
      BY Zenon, <3>b, <3>c
    <3>4. /\ Below(Units(delivered'["d2c"]), Units(stash["d2c"]))
          /\ \A x \in Units(delivered'["d2c"]) : x <= taken["d2c"]
      BY ZenonT(40), <1>d, <1>3, <3>3 DEF Ordered, PreambleOrdered, Below
    <3>5. pc["d2c"] \notin {"got", "stash", "write"}
      BY Zenon, <1>11, <1>d, <1>w DEF ForwardPreamble, Owning, Waiting
    <3>6. stash'["d2c"] # <<>> => Stashing("d2c")'
      BY Zenon, <1>d, <1>3, <1>f, <2>0 DEF Ordered, Stashing
    <3>7. Ordered("d2c")'
      BY Zenon, <1>d, <1>3, <1>f, <2>0, <3>3, <3>4, <3>5, <3>6 DEF Ordered
    <3>8. QED BY Zenon, <1>d, <2>2, <3>2, <3>7
  <2>5. QED BY ZenonT(20), <2>1, <2>3, <2>4
<1>12. QED BY Zenon, <1>4, <1>6, <1>7, <1>8, <1>9, <1>10, <1>11, <1>13 DEF ProcessDirective

(* Every step keeps the order. *)
LEMMA OrderStep ==
    ASSUME PauseInv, DataTypes, HoldInv, EmptyInv, OrderInv, [RelayNext]_relayVars
    PROVE  OrderInv'
<1>1. CASE Outside
  <2>1. SUFFICES ASSUME Calm' PROVE PreambleOrdered' /\ \A e \in Dirs : Ordered(e)'
    BY Zenon DEF OrderInv
  <2>2. /\ UNCHANGED <<pc, hand, held, pause, stash, preamble, delivered, taken>>
        /\ Stops => Stops'
    BY Zenon, <1>1, OutsideFrame
  <2>3. asked = 0 \/ asked' # 0
    <3>1. CASE ParserSends
      BY <3>1 DEF ParserSends, DataTypes, ProcTypes
    <3>2. QED BY ZenonT(20), <1>1, <3>1, OutsideFrame
  <2>4. Calm
    BY ZenonT(20), <2>1, <2>2, <2>3 DEF Calm
  <2>5. \A e \in Dirs : Ordered(e)'
    BY Zenon, <2>2, <2>4, OrderedFrame DEF OrderInv
  <2>6. PreambleOrdered'
    BY Zenon, <2>2, <2>4 DEF OrderInv, PreambleOrdered
  <2>7. QED BY Zenon, <2>5, <2>6
<1>2. QED BY Zenon, <1>1, OrderForward, OrderProcess, NextCases

(* A new relay holds nothing, so what it holds is in order. *)
LEMMA OrderInit == RelayInit => HoldInv /\ EmptyInv /\ OrderInv
<1> SUFFICES ASSUME RelayInit PROVE HoldInv /\ EmptyInv /\ OrderInv
  BY ZenonT(20)
<1>1. /\ preamble = <<>> /\ dpc = "idle"
      /\ \A d \in Dirs : /\ pc[d] = "top" /\ hand[d] = <<>> /\ stash[d] = <<>> /\ delivered[d] = <<>>
  BY Zenon DEF RelayInit
<1>2. HoldInv
  BY ZenonT(20), <1>1 DEF HoldInv, Upgrading
<1>3. PreambleOrdered
  BY Zenon, <1>1, NothingSorted, NoUnits DEF PreambleOrdered
<1>4. \A d \in Dirs : Ordered(d)
  BY Zenon, <1>1, NothingSorted, NoUnits DEF Ordered
<1>5. EmptyInv
  BY Zenon, <1>1 DEF EmptyInv
<1>6. QED BY Zenon, <1>2, <1>3, <1>4, <1>5 DEF OrderInv

(* Each peer of a recorded connection receives the other's bytes in the    *)
(* order they were sent, although forward(), the flush and the preamble of *)
(* handleUpgradeTLS and the drain of handleResumePreDispatch all write to  *)
(* it; the exception is a directive handled during teardown.               *)
THEOREM BytesInOrder == RelaySpec => []InOrder
<1>1. PauseInv /\ DataTypes /\ HoldInv /\ [RelayNext]_relayVars => HoldInv'
  BY Zenon, HoldStep DEF PauseInv
<1>5. PauseInv /\ DataTypes /\ HoldInv /\ EmptyInv /\ [RelayNext]_relayVars => EmptyInv'
  BY Zenon, EmptyStep
<1>2. PauseInv /\ DataTypes /\ HoldInv /\ EmptyInv /\ OrderInv /\ [RelayNext]_relayVars => OrderInv'
  BY Zenon, OrderStep
<1>3. DataTypes /\ OrderInv => InOrder
  <2>1. SUFFICES ASSUME DataTypes, OrderInv, ~(Stops /\ asked > 0)
                 PROVE  \A d \in Dirs : Sorted(delivered[d])
    BY Zenon DEF InOrder, Sorted
  <2>2. Calm
    BY <2>1 DEF Calm, DataTypes, ProcTypes
  <2>3. QED BY Zenon, <2>1, <2>2 DEF OrderInv, Ordered
<1>4. QED BY PauseInit, PauseStep, DataInit, DataStep, OrderInit, <1>1, <1>5, <1>2, <1>3, PTL DEF RelaySpec


-----------------------------------------------------------------------------
(* No unit is lost. *)

(* Every upgrade of the parser is of both sides.  A directive with one nil *)
(* config leaves the other side's stash to endPause, which drops it.       *)
TwoSided == \A r \in Requests : r.kind = "upgrade" => r.dest /\ r.client

Excused(d) == Stops \/ refused \/ sock[Other(d)] # "open"
Held(d) == IF d = "d2c" THEN Units(preamble) ELSE {}
Kept(d) ==
    1..taken[d] = Units(delivered[d]) \cup Units(hand[d]) \cup Units(stash[d]) \cup fed[d] \cup Held(d)

(* What is in hand while it is teed was delivered, or the peer is gone;    *)
(* and each handshake leaves an empty stash behind for endPause.           *)
LostInv ==
    /\ \A d \in Dirs : pc[d] = "tee" => Units(hand[d]) \subseteq Units(delivered[d])
    /\ \A d \in Dirs : pc[d] = "teeFailed" => sock[Other(d)] # "open"
    /\ dpc \in {"client", "publish", "end"} /\ ~Stops /\ ~refused => stash["d2c"] = <<>>
    /\ dpc \in {"publish", "end"} /\ ~Stops /\ ~refused => stash["c2d"] = <<>>
    /\ \A d \in Dirs : Excused(d) \/ Kept(d)

(* There are two directions, each the other of the other. *)
LEMMA OtherDir ==
    /\ "c2d" \in Dirs /\ "d2c" \in Dirs /\ "c2d" # "d2c" /\ \A d \in Dirs : d = "c2d" \/ d = "d2c"
    /\ Other("c2d") = "d2c" /\ Other("d2c") = "c2d" /\ \A d \in Dirs : Other(d) \in Dirs
BY Zenon DEF Dirs, Other

(* The units read in one call extend what was taken so far. *)
LEMMA TakenExtends ==
    ASSUME NEW n \in Nat, NEW k \in Nat
    PROVE  1..(n + k) = (1..n) \cup ((n + 1)..(n + k))
OBVIOUS

(* A forwarder's steps on its own units. *)
LEMMA KeptForward ==
    ASSUME PauseTypes, DataTypes, HoldInv, LostInv, NEW d \in Dirs, Forward(d)
    PROVE  /\ pc'[d] = "tee" => Units(hand'[d]) \subseteq Units(delivered'[d])
           /\ pc'[d] = "teeFailed" => sock'[Other(d)] # "open"
           /\ Excused(d)' \/ Kept(d)'
<1>y. /\ pc \in [Dirs -> Labels] /\ hand \in [Dirs -> Seq(Nat)]
      /\ stash \in [Dirs -> Seq(Nat)] /\ delivered \in [Dirs -> Seq(Nat)] /\ taken \in [Dirs -> Nat]
  BY Zenon DEF PauseTypes, DataTypes, CarryTypes, SockTypes
<1>t. hand[d] \in Seq(Nat) /\ stash[d] \in Seq(Nat) /\ delivered[d] \in Seq(Nat) /\ taken[d] \in Nat
  BY Zenon, <1>y
<1>f. UNCHANGED <<sock, preamble, refused, fed>> /\ (Stops => Stops')
  BY Zenon, ForwardFrame
<1>e. Excused(d) => Excused(d)'
  BY Zenon, <1>f DEF Excused
<1>h. Held(d)' = Held(d)
  BY ZenonT(20), <1>f DEF Held
<1>k. Excused(d) \/ Kept(d)
  BY Zenon DEF LostInv
<1> USE DEF At, Goto
<1>1. CASE LoopTop(d) \/ MarkParked(d) \/ Unpark(d) \/ ReadBegins(d) \/ Recheck(d) \/ CheckErr(d)
           \/ NudgeOther(d) \/ CloseStopping(d)
  <2>1. UNCHANGED <<hand, stash, delivered, taken>>
    BY Zenon, <1>1 DEF LoopTop, MarkParked, Unpark, ReadBegins, Recheck, CheckErr, NudgeOther, CloseStopping,
                sockVars
  <2>2. pc'[d] \notin {"tee", "teeFailed"}
    BY Zenon, <1>1, <1>y DEF LoopTop, MarkParked, Unpark, ReadBegins, Recheck, CheckErr, NudgeOther, CloseStopping
  <2>3. QED BY Zenon, <1>e, <1>f, <1>h, <1>k, <2>1, <2>2 DEF Kept
<1>2. CASE ReadReturns(d)
  <2>0. pc[d] = "blocked" /\ pc'[d] = "got" /\ UNCHANGED <<stash, delivered>>
    BY Zenon, <1>2, <1>y DEF ReadReturns
  <2>1. CASE UNCHANGED <<hand, taken>>
    BY Zenon, <1>e, <1>f, <1>h, <1>k, <2>0, <2>1 DEF Kept
  <2>2. CASE \E k \in 1..Available(d) : /\ hand' = [hand EXCEPT ![d] = Next_(d, k)]
                                        /\ taken' = [taken EXCEPT ![d] = @ + k]
    <3>1. PICK k \in 1..Available(d) : /\ hand' = [hand EXCEPT ![d] = Next_(d, k)]
                                       /\ taken' = [taken EXCEPT ![d] = @ + k]
      BY Zenon, <2>2
    <3>2. k \in Nat /\ SockTypes
      BY DEF Available, DataTypes, SockTypes
    <3>3. hand'[d] = Next_(d, k) /\ taken'[d] = taken[d] + k
      BY ZenonT(20), <1>y, <3>1
    <3>4. Units(hand'[d]) = (taken[d] + 1)..(taken[d] + k)
      BY Zenon, <3>2, <3>3, NextUnits
    <3>5. Units(hand[d]) = {}
      BY ZenonT(40), <2>0, NoUnits DEF HoldInv, Carrying
    <3>6. 1..taken'[d] = (1..taken[d]) \cup Units(hand'[d])
      BY Zenon, <1>t, <3>2, <3>3, <3>4, TakenExtends
    <3>7. Kept(d) => Kept(d)'
      <4> SUFFICES ASSUME Kept(d) PROVE Kept(d)'
        BY Zenon
      <4> DEFINE A == Units(delivered[d])
                 C == Units(stash[d])
                 D == fed[d]
                 E == Held(d)
                 Y == Units(hand'[d])
      <4>1. 1..taken[d] = A \cup {} \cup C \cup D \cup E
        BY Zenon, <3>5 DEF Kept
      <4>2. Kept(d)' <=> (1..taken[d]) \cup Y = A \cup Y \cup C \cup D \cup E
        BY Zenon, <1>f, <1>h, <2>0, <3>6 DEF Kept
      <4> HIDE DEF A, C, D, E, Y
      <4>3. (A \cup {} \cup C \cup D \cup E) \cup Y = A \cup Y \cup C \cup D \cup E
        OBVIOUS
      <4>4. QED BY Zenon, <4>1, <4>2, <4>3
    <3>8. QED BY Zenon, <1>e, <1>k, <2>0, <3>7
  <2>3. QED BY Zenon, <1>2, <2>1, <2>2 DEF ReadReturns
<1>3. CASE StashInflight(d)
  <2>1. /\ pc'[d] = "stashed" /\ UNCHANGED <<delivered, taken>>
        /\ stash'[d] = stash[d] \o hand[d] /\ hand'[d] = <<>>
    BY ZenonT(20), <1>3, <1>y DEF StashInflight, sockVars
  <2>2. Units(stash'[d]) = Units(stash[d]) \cup Units(hand[d]) /\ Units(hand'[d]) = {}
    BY Zenon, <1>t, <2>1, UnitsAppend, NoUnits
  <2>3. QED BY ZenonT(40), <1>e, <1>f, <1>h, <1>k, <2>1, <2>2 DEF Kept
<1>4. CASE WritePeer(d)
  <2>0. UNCHANGED <<hand, stash, taken>>
    BY ZenonT(20), <1>4 DEF WritePeer, sockVars
  <2>1. \/ delivered'[d] = delivered[d] \o hand[d] /\ pc'[d] = "tee"
        \/ delivered'[d] = delivered[d] /\ pc'[d] = "teeFailed" /\ sock[Other(d)] # "open"
    BY ZenonT(20), <1>4, <1>y DEF WritePeer, WriteFails
  <2>2. CASE delivered'[d] = delivered[d] \o hand[d] /\ pc'[d] = "tee"
    <3>1. Units(delivered'[d]) = Units(delivered[d]) \cup Units(hand[d])
      BY ZenonT(40), <1>t, <2>2, UnitsAppend
    <3>2. QED BY ZenonT(40), <1>e, <1>f, <1>h, <1>k, <2>0, <2>2, <3>1 DEF Kept
  <2>3. CASE delivered'[d] = delivered[d] /\ pc'[d] = "teeFailed" /\ sock[Other(d)] # "open"
    BY Zenon, <1>f, <2>3 DEF Excused
  <2>4. QED BY Zenon, <2>1, <2>2, <2>3
<1>5. CASE TeeChunk(d) \/ TeeFailed(d)
  <2>1. /\ pc[d] \in {"tee", "teeFailed"} /\ pc'[d] \in {"check", "exit"}
        /\ UNCHANGED <<stash, delivered, taken>> /\ hand'[d] = <<>>
    BY Zenon, <1>5, <1>y DEF TeeChunk, TeeFailed, sockVars
  <2>2. Units(hand[d]) \subseteq Units(delivered[d]) \/ Excused(d)
    BY Zenon, <2>1 DEF LostInv, Excused
  <2>3. QED BY Zenon, <1>e, <1>f, <1>h, <1>k, <2>1, <2>2, NoUnits DEF Kept
<1>6. QED BY ZenonT(40), <1>1, <1>2, <1>3, <1>4, <1>5 DEF Forward

(* A forwarder's step loses no unit. *)
LEMMA LostForward ==
    ASSUME PauseInv, DataTypes, HoldInv, LostInv, NEW d \in Dirs, Forward(d)
    PROVE  LostInv'
<1>p. PauseTypes
  BY Zenon DEF PauseInv
<1>f. UNCHANGED <<sock, preamble, refused, fed, dpc>> /\ (Stops => Stops')
  BY Zenon, ForwardFrame
<1>1. ASSUME NEW e \in Dirs
      PROVE  /\ pc'[e] = "tee" => Units(hand'[e]) \subseteq Units(delivered'[e])
             /\ pc'[e] = "teeFailed" => sock'[Other(e)] # "open"
             /\ Excused(e)' \/ Kept(e)'
  <2>1. CASE e = d
    BY Zenon, <1>p, <2>1, KeptForward
  <2>2. CASE e # d
    <3>1. /\ pc'[e] = pc[e] /\ hand'[e] = hand[e] /\ stash'[e] = stash[e]
          /\ delivered'[e] = delivered[e] /\ taken'[e] = taken[e]
      BY Zenon, <1>p, <2>2, ForwardOther
    <3>2. Excused(e) => Excused(e)'
      BY ZenonT(20), <1>f DEF Excused
    <3>3. Kept(e) => Kept(e)'
      BY ZenonT(40), <1>f, <3>1 DEF Kept, Held
    <3>4. QED BY Zenon, <1>f, <3>1, <3>2, <3>3 DEF LostInv
  <2>3. QED BY Zenon, <2>1, <2>2
<1>2. ASSUME dpc \in Owning, ~Stops
      PROVE  FALSE
  <2>1. pc[d] \in Waiting /\ held[d] = pause
    BY Zenon, <1>2 DEF PauseInv, Barrier
  <2>2. QED BY Zenon, <1>2, <2>1 DEF Forward, LoopTop, MarkParked, Unpark, ReadBegins, ReadReturns, Recheck,
              StashInflight, WritePeer, TeeChunk, TeeFailed, CheckErr, NudgeOther, CloseStopping, At, Waiting
<1>3. dpc' \in {"client", "publish", "end"} => Stops'
  BY Zenon, <1>f, <1>2 DEF Owning
<1>4. QED BY ZenonT(40), <1>1, <1>3 DEF LostInv

(* The steps of the processor. *)
LEMMA LostProcess ==
    ASSUME TwoSided, PauseInv, DataTypes, HoldInv, LostInv, ProcessDirective
    PROVE  LostInv'
<1>d. /\ "c2d" \in Dirs /\ "d2c" \in Dirs /\ "c2d" # "d2c" /\ \A d \in Dirs : d = "c2d" \/ d = "d2c"
      /\ Other("c2d") = "d2c" /\ Other("d2c") = "c2d"
  BY Zenon, OtherDir
<1>f. UNCHANGED <<pc, hand, ctx, stopping>>
  BY Zenon, ProcessorFrame
<1>t. /\ stash \in [Dirs -> Seq(Nat)] /\ delivered \in [Dirs -> Seq(Nat)] /\ taken \in [Dirs -> Nat]
      /\ preamble \in Seq(Nat) /\ fed \in [Dirs -> SUBSET Nat]
  BY Zenon DEF DataTypes, CarryTypes, SockTypes, TeeTypes
<1>n. dpc # "forward" => preamble = <<>>
  BY Zenon DEF HoldInv
<1>s. \A d \in Dirs : sock[d] # "open" => sock'[d] # "open"
  <2>1. sock' = sock \/ sock' = [sock EXCEPT !["d2c"] = "closed"]
    BY Zenon DEF ProcessDirective, ProcessorStops, HandleSimple, NoUpgrader, BeginPause, ResumeBegins,
           NudgeBoth, WaitForwardersParked, ClearDeadlines, FlushPreDispatch, TakePreamble, ReadPreamble,
           ForwardPreamble,
           HandshakeDest, HandshakeClient, PublishConns, DrainStash, EndPause, sockVars
  <2>2. QED BY Zenon, <2>1 DEF DataTypes, SockTypes
<1>r. refused => refused'
  BY Zenon DEF ProcessDirective, ProcessorStops, HandleSimple, NoUpgrader, BeginPause, ResumeBegins,
         NudgeBoth, WaitForwardersParked, ClearDeadlines, FlushPreDispatch, TakePreamble, ReadPreamble,
         ForwardPreamble,
         HandshakeDest, HandshakeClient, PublishConns, DrainStash, EndPause
<1>z. ~Stops' /\ ~refused' => ~Stops /\ ~refused
  BY Zenon, <1>f, <1>r DEF Stops
<1>e. \A d \in Dirs : Excused(d) => Excused(d)'
  BY ZenonT(20), <1>f, <1>r, <1>s, OtherDir DEF Excused, Stops
(* It is enough to look at the units, and only while nothing was refused. *)
<1>1. ASSUME \A d \in Dirs : Units(delivered[d]) \subseteq Units(delivered'[d]),
             ~Stops' /\ ~refused' => \A d \in Dirs : Kept(d) => Kept(d)',
             dpc' \in {"client", "publish", "end"} /\ ~Stops' /\ ~refused' => stash'["d2c"] = <<>>,
             dpc' \in {"publish", "end"} /\ ~Stops' /\ ~refused' => stash'["c2d"] = <<>>
      PROVE  LostInv'
  <2>1. \A d \in Dirs : pc'[d] = "tee" => Units(hand'[d]) \subseteq Units(delivered'[d])
    BY Zenon, <1>1, <1>f DEF LostInv
  <2>2. \A d \in Dirs : pc'[d] = "teeFailed" => sock'[Other(d)] # "open"
    BY Zenon, <1>f, <1>s, OtherDir DEF LostInv
  <2>3. \A d \in Dirs : Excused(d)' \/ Kept(d)'
    BY Zenon, <1>1, <1>e DEF LostInv, Excused
  <2>4. QED BY Zenon, <1>1, <2>1, <2>2, <2>3 DEF LostInv
<1>2. CASE ProcessorStops \/ HandleSimple \/ NoUpgrader \/ BeginPause \/ ResumeBegins \/ NudgeBoth
           \/ WaitForwardersParked \/ ClearDeadlines \/ PublishConns
  <2>1. UNCHANGED <<stash, delivered, taken, preamble, fed>>
    BY Zenon, <1>2 DEF ProcessorStops, HandleSimple, NoUpgrader, BeginPause, ResumeBegins, NudgeBoth,
                WaitForwardersParked, ClearDeadlines, PublishConns, sockVars, pauseVars
  <2>2. dpc' \in {"client", "publish", "end"} => dpc = "publish"
    BY Zenon, <1>2 DEF ProcessorStops, HandleSimple, NoUpgrader, BeginPause, ResumeBegins, NudgeBoth,
                WaitForwardersParked, ClearDeadlines, PublishConns
  <2>3. \A d \in Dirs : Kept(d) => Kept(d)'
    BY ZenonT(40), <1>f, <2>1 DEF Kept, Held
  <2>4. dpc = "publish" /\ ~Stops' /\ ~refused' => stash["d2c"] = <<>> /\ stash["c2d"] = <<>>
    BY ZenonT(20), <1>z DEF LostInv
  <2>5. QED BY Zenon, <1>1, <2>1, <2>2, <2>3, <2>4
<1>3. CASE FlushPreDispatch
  <2>0. UNCHANGED <<taken, preamble, fed>> /\ (dpc' = "preamble" \/ refused')
    BY ZenonT(40), <1>3 DEF FlushPreDispatch, sockVars
  <2>1. CASE UNCHANGED <<stash, delivered>>
    BY Zenon, <1>1, <1>f, <2>0, <2>1 DEF Kept, Held
  <2>2. CASE refused' /\ delivered' = delivered
    BY Zenon, <1>1, <2>2
  <2>3. CASE /\ stash' = [stash EXCEPT !["c2d"] = <<>>]
             /\ delivered' = [delivered EXCEPT !["c2d"] = @ \o stash["c2d"]]
    <3>1. /\ stash'["c2d"] = <<>> /\ stash'["d2c"] = stash["d2c"] /\ delivered'["d2c"] = delivered["d2c"]
          /\ delivered'["c2d"] = delivered["c2d"] \o stash["c2d"]
      <4>1. stash'["c2d"] = <<>> /\ stash'["d2c"] = stash["d2c"]
        BY Zenon, <1>d, <1>t, <2>3
      <4>2. delivered'["d2c"] = delivered["d2c"] /\ delivered'["c2d"] = delivered["c2d"] \o stash["c2d"]
        BY Zenon, <1>d, <1>t, <2>3
      <4>3. QED BY Zenon, <4>1, <4>2
    <3>2. Units(delivered'["c2d"]) = Units(delivered["c2d"]) \cup Units(stash["c2d"])
      <4>1. stash["c2d"] \in Seq(Nat) /\ delivered["c2d"] \in Seq(Nat)
        BY Zenon, <1>d, <1>t
      <4>2. Units(delivered["c2d"] \o stash["c2d"]) = Units(delivered["c2d"]) \cup Units(stash["c2d"])
        BY Zenon, <4>1, UnitsAppend
      <4>3. QED BY Zenon, <3>1, <4>2
    <3>h. Held("c2d")' = Held("c2d") /\ Units(stash'["c2d"]) = {}
      BY Zenon, <2>0, <3>1, NoUnits DEF Held
    <3>3. Kept("c2d") => Kept("c2d")'
      <4> SUFFICES ASSUME Kept("c2d") PROVE Kept("c2d")'
        BY Zenon
      <4> DEFINE A == Units(delivered["c2d"])
                 B == Units(hand["c2d"])
                 C == Units(stash["c2d"])
                 D == fed["c2d"]
                 E == Held("c2d")
      <4>1. 1..taken["c2d"] = A \cup B \cup C \cup D \cup E
        BY Zenon DEF Kept
      <4>2. Kept("c2d")' <=> 1..taken["c2d"] = (A \cup C) \cup B \cup {} \cup D \cup E
        BY Zenon, <1>f, <2>0, <3>2, <3>h DEF Kept
      <4> HIDE DEF A, B, C, D, E
      <4>3. A \cup B \cup C \cup D \cup E = (A \cup C) \cup B \cup {} \cup D \cup E
        OBVIOUS
      <4>4. QED BY Zenon, <4>1, <4>2, <4>3
    <3>4. Kept("d2c") => Kept("d2c")'
      BY Zenon, <1>f, <2>0, <3>1 DEF Kept, Held
    <3>5. \A d \in Dirs : Units(delivered[d]) \subseteq Units(delivered'[d])
      BY Zenon, <1>d, <3>1, <3>2
    <3>6. \A d \in Dirs : Kept(d) => Kept(d)'
      BY ZenonT(20), <1>d, <3>3, <3>4
    <3>7. QED BY Zenon, <1>1, <2>0, <3>5, <3>6
  <2>4. QED BY Zenon, <1>3, <2>1, <2>2, <2>3 DEF FlushPreDispatch
<1>4. CASE TakePreamble
  <2>0. /\ UNCHANGED <<delivered, fed>> /\ preamble = <<>>
        /\ dpc' \in {"dest", "forward", "readPreamble"} /\ UNCHANGED taken
    BY Zenon, <1>4, <1>n DEF TakePreamble, sockVars
  <2>p. Held("d2c") = {} /\ Held("c2d") = {} /\ Held("c2d")' = {} /\ Held("d2c")' = Units(preamble')
    BY Zenon, <2>0, NoUnits DEF Held
  <2>2. CASE UNCHANGED <<preamble, stash>>
    BY ZenonT(40), <1>1, <1>f, <2>0, <2>2 DEF Kept, Held
  <2>3. CASE /\ stash["d2c"] # <<>> /\ preamble' = <<Head(stash["d2c"])>>
             /\ stash' = [stash EXCEPT !["d2c"] = Tail(@)]
    <3>2. stash["d2c"] \in Seq(Nat) /\ stash'["d2c"] = Tail(stash["d2c"]) /\ stash'["c2d"] = stash["c2d"]
      BY Zenon, <1>d, <1>t, <2>3
    <3>3. Units(stash["d2c"]) = Units(preamble') \cup Units(stash'["d2c"])
      BY Zenon, <2>3, <3>2, HeadUnits
    <3>4. Kept("c2d") => Kept("c2d")'
      BY ZenonT(40), <1>d, <1>f, <2>0, <2>p, <2>3, <3>2 DEF Kept
    <3>5. Kept("d2c") => Kept("d2c")'
      BY ZenonT(40), <1>d, <1>f, <2>0, <2>p, <2>3, <3>3 DEF Kept
    <3>6. QED BY ZenonT(40), <1>1, <1>d, <2>0, <3>4, <3>5
  <2>5. QED BY ZenonT(20), <1>4, <2>2, <2>3 DEF TakePreamble
<1>11. CASE ReadPreamble
  <2>0. /\ UNCHANGED <<delivered, fed, stash>> /\ preamble = <<>>
        /\ dpc' = "forward" \/ refused'
    BY Zenon, <1>11, <1>n DEF ReadPreamble
  <2>p. Held("d2c") = {} /\ Held("c2d") = {} /\ Held("c2d")' = {} /\ Held("d2c")' = Units(preamble')
    BY Zenon, <2>0, NoUnits DEF Held
  <2>1. CASE refused'
    BY Zenon, <1>1, <2>0, <2>1
  <2>4. CASE /\ preamble' = Next_("d2c", 1) /\ stash' = stash
             /\ taken' = [taken EXCEPT !["d2c"] = @ + 1]
    <3>2. SockTypes /\ 1 \in Nat /\ taken["d2c"] \in Nat
      BY Zenon, <1>d DEF DataTypes, SockTypes
    <3>3. taken'["d2c"] = taken["d2c"] + 1 /\ taken'["c2d"] = taken["c2d"]
      BY Zenon, <1>d, <1>t, <2>4
    <3>4. Units(preamble') = (taken["d2c"] + 1)..(taken["d2c"] + 1)
      BY Zenon, <1>d, <2>4, <3>2, NextUnits
    <3>5. 1..taken'["d2c"] = (1..taken["d2c"]) \cup Units(preamble')
      BY Zenon, <3>2, <3>3, <3>4, TakenExtends
    <3>6. Kept("c2d") => Kept("c2d")'
      BY Zenon, <1>d, <1>f, <2>0, <2>p, <2>4, <3>3 DEF Kept
    <3>7. Kept("d2c") => Kept("d2c")'
      BY ZenonT(40), <1>d, <1>f, <2>0, <2>p, <2>4, <3>5 DEF Kept
    <3>8. QED BY ZenonT(20), <1>1, <1>d, <2>0, <2>4, <3>6, <3>7
  <2>5. QED BY ZenonT(20), <1>11, <2>0, <2>1, <2>4 DEF ReadPreamble
<1>5. CASE ForwardPreamble
  <2>0. UNCHANGED <<stash, taken>> /\ preamble' = <<>> /\ (dpc' = "dest" \/ refused')
    BY Zenon, <1>5 DEF ForwardPreamble, sockVars
  <2>p. Held("d2c") = Units(preamble) /\ Held("c2d") = {} /\ Held("c2d")' = {} /\ Held("d2c")' = {}
    BY ZenonT(20), <2>0, NoUnits DEF Held
  <2>1. \/ delivered' = delivered /\ fed' = fed /\ refused'
        \/ delivered' = [delivered EXCEPT !["d2c"] = @ \o preamble] /\ fed' = fed
        \/ delivered' = delivered /\ fed' = [fed EXCEPT !["d2c"] = @ \cup Units(preamble)]
    BY Zenon, <1>5 DEF ForwardPreamble
  <2>2. CASE delivered' = delivered /\ fed' = fed /\ refused'
    BY ZenonT(40), <1>1, <2>2
  <2>3. CASE delivered' = [delivered EXCEPT !["d2c"] = @ \o preamble] /\ fed' = fed
    <3>1. delivered'["c2d"] = delivered["c2d"] /\ delivered'["d2c"] = delivered["d2c"] \o preamble
      BY ZenonT(20), <1>d, <1>t, <2>3
    <3>2. Units(delivered'["d2c"]) = Units(delivered["d2c"]) \cup Units(preamble)
      BY Zenon, <1>d, <1>t, <3>1, UnitsAppend
    <3>3. Kept("c2d") => Kept("c2d")'
      BY Zenon, <1>f, <2>0, <2>p, <2>3, <3>1 DEF Kept
    <3>4. Kept("d2c") => Kept("d2c")'
      BY Zenon, <1>f, <2>0, <2>p, <2>3, <3>2 DEF Kept
    <3>5. \A d \in Dirs : Units(delivered[d]) \subseteq Units(delivered'[d])
      BY ZenonT(40), <1>d, <3>1, <3>2
    <3>6. QED BY ZenonT(20), <1>1, <1>d, <2>0, <3>3, <3>4, <3>5
  <2>4. CASE delivered' = delivered /\ fed' = [fed EXCEPT !["d2c"] = @ \cup Units(preamble)]
    <3>1. fed'["c2d"] = fed["c2d"] /\ fed'["d2c"] = fed["d2c"] \cup Units(preamble)
      BY ZenonT(20), <1>d, <1>t, <2>4
    <3>2. Kept("c2d") => Kept("c2d")'
      BY ZenonT(40), <1>f, <2>0, <2>p, <2>4, <3>1 DEF Kept
    <3>3. Kept("d2c") => Kept("d2c")'
      BY ZenonT(40), <1>f, <2>0, <2>p, <2>4, <3>1 DEF Kept
    <3>4. \A d \in Dirs : Kept(d) => Kept(d)'
      BY ZenonT(20), <1>d, <3>2, <3>3
    <3>5. QED BY Zenon, <1>1, <2>0, <2>4, <3>4
  <2>5. QED BY ZenonT(20), <2>1, <2>2, <2>3, <2>4
(* A handshake takes the stash and what it needs from the socket. *)
<1>h. ASSUME NEW d \in Dirs, HandshakeReads(d), UNCHANGED <<delivered, preamble>>
      PROVE  /\ \A e \in Dirs : Kept(e) => Kept(e)'
             /\ stash'[d] = <<>> /\ \A e \in Dirs : e # d => stash'[e] = stash[e]
  <2>1. PICK k \in 0..Available(d) :
            /\ fed' = [fed EXCEPT ![d] = @ \cup Units(stash[d]) \cup Units(Next_(d, k))]
            /\ taken' = [taken EXCEPT ![d] = @ + k]
            /\ stash' = [stash EXCEPT ![d] = <<>>]
    BY Zenon, <1>h DEF HandshakeReads
  <2>2. k \in Nat /\ SockTypes /\ taken[d] \in Nat
    BY DEF Available, DataTypes, SockTypes
  <2>3. /\ fed'[d] = fed[d] \cup Units(stash[d]) \cup Units(Next_(d, k))
        /\ taken'[d] = taken[d] + k /\ stash'[d] = <<>>
    BY ZenonT(20), <1>t, <2>1
  <2>4. \A e \in Dirs : e # d => fed'[e] = fed[e] /\ taken'[e] = taken[e] /\ stash'[e] = stash[e]
    BY ZenonT(20), <1>t, <2>1
  <2>5. 1..taken'[d] = (1..taken[d]) \cup Units(Next_(d, k))
    BY ZenonT(40), <2>2, <2>3, NextUnits, TakenExtends
  <2>6. Held(d)' = Held(d)
    BY ZenonT(20), <1>h DEF Held
  <2>7. Kept(d) => Kept(d)'
    BY Zenon, <1>f, <1>h, <2>3, <2>5, <2>6, NoUnits DEF Kept
  <2>8. ASSUME NEW e \in Dirs, e # d PROVE Kept(e) => Kept(e)'
    BY Zenon, <1>f, <1>h, <2>4, <2>8 DEF Kept, Held
  <2>9. QED BY Zenon, <2>3, <2>4, <2>7, <2>8
<1>q. dpc \in {"dest", "client"} => dreq.dest /\ dreq.client
  <2>1. dpc \in {"dest", "client"} => dreq.kind = "upgrade" /\ dreq \in Requests \cup {NoRequest}
    BY Zenon DEF HoldInv, Upgrading, DataTypes, ProcTypes
  <2>2. NoRequest.kind # "upgrade"
    BY Zenon DEF NoRequest
  <2>3. QED BY ZenonT(20), <2>1, <2>2 DEF TwoSided
<1>6. CASE HandshakeDest
  <2>1. /\ HandshakeReads("d2c") /\ UNCHANGED <<delivered, preamble>>
        /\ dpc' = "client" \/ refused'
    BY ZenonT(20), <1>6, <1>q DEF HandshakeDest
  <2>2. stash'["d2c"] = <<>> /\ \A e \in Dirs : Kept(e) => Kept(e)'
    BY Zenon, <1>d, <1>h, <2>1
  <2>3. QED BY ZenonT(40), <1>1, <2>1, <2>2
<1>7. CASE HandshakeClient
  <2>1. HandshakeReads("c2d") /\ UNCHANGED <<delivered, preamble>> /\ dpc = "client"
    BY ZenonT(20), <1>7, <1>q DEF HandshakeClient
  <2>2. /\ stash'["c2d"] = <<>> /\ stash'["d2c"] = stash["d2c"]
        /\ \A e \in Dirs : Kept(e) => Kept(e)'
    BY ZenonT(20), <1>d, <1>h, <2>1
  <2>3. ~Stops' /\ ~refused' => stash["d2c"] = <<>>
    BY ZenonT(20), <1>z, <2>1 DEF LostInv
  <2>4. QED BY ZenonT(40), <1>1, <2>1, <2>2, <2>3
<1>8. CASE DrainStash
  <2>0. UNCHANGED <<taken, preamble, fed>> /\ \A d \in Dirs : stash'[d] = <<>>
    BY Zenon, <1>8 DEF DrainStash, sockVars
  <2>1. \A d \in Dirs : /\ delivered[d] \o <<>> = delivered[d]
                        /\ Units(delivered[d] \o stash[d]) = Units(delivered[d]) \cup Units(stash[d])
    BY <1>t, UnitsAppend
  <2>2. \A d \in Dirs : delivered'[d] = delivered[d] \/ delivered'[d] = delivered[d] \o stash[d]
    BY Zenon, <1>8, <2>1 DEF DrainStash
  <2>3. ~refused' => \A d \in Dirs : delivered'[d] = delivered[d] \o stash[d]
    BY ZenonT(40), <1>8 DEF DrainStash
  <2>4. \A d \in Dirs : Units(delivered[d]) \subseteq Units(delivered'[d])
    BY ZenonT(40), <2>1, <2>2
  <2>5. ASSUME ~refused', NEW d \in Dirs PROVE Kept(d) => Kept(d)'
    <3>1. Units(delivered'[d]) = Units(delivered[d]) \cup Units(stash[d]) /\ Units(stash'[d]) = {}
      BY ZenonT(40), <2>0, <2>1, <2>3, <2>5, NoUnits
    <3>2. Held(d)' = Held(d)
      BY Zenon, <2>0 DEF Held
    <3>3. QED BY Zenon, <1>f, <2>0, <3>1, <3>2 DEF Kept
  <2>6. QED BY Zenon, <1>1, <1>d, <2>0, <2>4, <2>5
<1>9. CASE EndPause
  <2>0. UNCHANGED <<taken, preamble, fed, delivered, refused>> /\ dpc' = "idle" /\ dpc = "end"
    BY Zenon, <1>9 DEF EndPause, sockVars
  <2>1. \A d \in Dirs : stash'[d] = <<>>
    BY Zenon, <1>9 DEF EndPause
  <2>2. ~Stops /\ ~refused => \A d \in Dirs : stash[d] = <<>>
    BY Zenon, <1>d, <2>0 DEF LostInv
  <2>3. ASSUME ~Stops', ~refused' PROVE \A d \in Dirs : Kept(d) => Kept(d)'
    BY Zenon, <1>f, <1>z, <2>0, <2>1, <2>2, <2>3 DEF Kept, Held
  <2>4. QED BY ZenonT(40), <1>1, <2>0, <2>3
<1>10. QED BY Zenon, <1>2, <1>3, <1>4, <1>5, <1>6, <1>7, <1>8, <1>9, <1>11 DEF ProcessDirective

(* No step loses a unit. *)
LEMMA LostStep ==
    ASSUME TwoSided, PauseInv, DataTypes, HoldInv, LostInv, [RelayNext]_relayVars
    PROVE  LostInv'
<1>1. CASE Outside
  <2>1. /\ UNCHANGED <<taken, pc, hand, stash, preamble, refused, delivered, fed>>
        /\ Stops => Stops'
    BY ZenonT(20), <1>1, OutsideFrame
  <2>2. dpc' = dpc \/ dpc' = "sent"
    BY Zenon, <1>1, OutsideFrame DEF ParserSends
  <2>3. \A d \in Dirs : sock[d] # "open" => sock'[d] # "open"
    <3>1. sock' = sock \/ \E d \in Dirs : sock' = [sock EXCEPT ![d] = "eof"]
      BY Zenon, <1>1 DEF Outside, PeerSends, PeerCloses, Cancel, CancelNudge, PauseTees, ParserSends, CloseTees,
                  RunReturns, relayVars, sockVars
    <3>2. QED BY Zenon, <3>1 DEF DataTypes, SockTypes
  <2>4. \A d \in Dirs : (Excused(d) => Excused(d)') /\ (Kept(d) => Kept(d)')
    BY Zenon, <2>1, <2>3, OtherDir DEF Excused, Kept, Held
  <2>5. QED BY ZenonT(40), <2>1, <2>2, <2>3, <2>4, OtherDir DEF LostInv
<1>2. QED BY Zenon, <1>1, LostForward, LostProcess, NextCases

(* A unit read off a socket is delivered, on its way, or was consumed by a *)
(* handshake, until the relay tears down, the peer is gone or a directive  *)
(* was refused: no interleaving of forward(), stashInflight, the handlers  *)
(* and endPause drops one, provided every upgrade is of both sides.        *)
THEOREM NoByteLost == TwoSided => (RelaySpec => []NothingLost)
<1> SUFFICES ASSUME TwoSided PROVE RelaySpec => []NothingLost
  BY ZenonT(20)
<1>1. PauseInv /\ DataTypes /\ HoldInv /\ [RelayNext]_relayVars => HoldInv'
  BY Zenon, HoldStep DEF PauseInv
<1>2. PauseInv /\ DataTypes /\ HoldInv /\ LostInv /\ [RelayNext]_relayVars => LostInv'
  BY Zenon, LostStep
<1>3. LostInv => NothingLost
  BY Zenon DEF LostInv, NothingLost, Excused, Kept, Held
<1>4. RelayInit => LostInv
  <2>1. ASSUME RelayInit
        PROVE  /\ preamble = <<>> /\ dpc = "idle"
               /\ \A d \in Dirs : /\ pc[d] = "top" /\ hand[d] = <<>> /\ stash[d] = <<>>
                                  /\ delivered[d] = <<>> /\ taken[d] = 0 /\ fed[d] = {}
    BY Zenon, <2>1 DEF RelayInit
  <2>2. 1..0 = {}
    OBVIOUS
  <2>3. QED BY ZenonT(40), <2>1, <2>2, NoUnits DEF LostInv, Kept, Held
<1>5. QED BY PauseInit, PauseStep, DataInit, DataStep, OrderInit, <1>1, <1>2, <1>3, <1>4, PTL DEF RelaySpec
=============================================================================

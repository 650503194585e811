------------------------------ MODULE Recorder ------------------------------
(***************************************************************************)
(* The CLI's recording session: Recorder.Start and GetTestAndMockChans     *)
(* (pkg/service/record/record.go), the goroutines of AgentClient that      *)
(* decode the agent's three streams (pkg/platform/http/agent.go), the      *)
(* mapping store (pkg/platform/yaml/mapdb/db.go) and the bounded drains of *)
(* the teardown (utils/drain.go).                                          *)
(*                                                                         *)
(* An item of a stream is decoded by the client, handed on by the          *)
(* forwarder and stored by the inserter.  The channels between them are    *)
(* unbuffered, so an item is always in somebody's hand and place says in   *)
(* whose; an item the client decoded but could not hand on counts as never *)
(* received.  Start's own control is pc; its deferred calls run in the     *)
(* order closeMock, closeTest, stop, drainApp, drainReq, drainRecord,      *)
(* cleanup.  Locals that are never read again are reset.                   *)
(***************************************************************************)
EXTENDS Integers, Sequences, FiniteSets

CONSTANTS
    Feed,        \* Feed[s]: the items of stream s, in the order the agent sends them
    EntryTest,   \* EntryTest[e]: test name of mapping entry e
    EntryMocks,  \* EntryMocks[e]: its mock IDs, in order
    Compose,     \* the values CommandType = DockerCompose may take
    RecordTimer, \* whether a recording timer is set
    ErrCap,      \* capacity of the two insert error channels
    MaxFaults,   \* bound on failed inserts and connects
    CanCancel    \* whether the user may interrupt

Streams == {"tests", "mocks", "maps"}
ItemsOf(s) == {Feed[s][n] : n \in 1..Len(Feed[s])}
Items == UNION {ItemsOf(s) : s \in Streams}
TestNames == {EntryTest[e] : e \in ItemsOf("maps")}

ASSUME FeedAssumption ==
    /\ DOMAIN Feed = Streams
    /\ \A s, r \in Streams : s # r => ItemsOf(s) \cap ItemsOf(r) = {}
    /\ \A e \in ItemsOf("maps") : EntryMocks[e] \in Seq(ItemsOf("mocks"))
ASSUME BoundsAssumption ==
    /\ Compose \subseteq BOOLEAN /\ RecordTimer \in BOOLEAN
    /\ ErrCap \in Nat \ {0} /\ MaxFaults \in Nat /\ CanCancel \in BOOLEAN

VARIABLES
    pc,          \* where Start is
    compose,     \* whether the application runs under Docker Compose
    stopReason,  \* stopReason # ""
    ctx,         \* whether the session's context is cancelled
    app,         \* the application's runner
    appErr,      \* whether appErrChan holds an error
    fwd,         \* forwarding goroutine of each stream
    frame,       \* the channel of FrameChan for each stream: "nil", "live", "closed"
    ins,         \* inserting goroutine of each stream
    place,       \* where each item is
    errs,        \* errors waiting in insertTestErrChan and insertMockErrChan
    errOpen,     \* those of the two that are not closed
    correlationMap, \* temporary mock IDs that have a real entry
    todo, found, \* the mapping inserter's remaining IDs and entries found
    mapping,     \* mappings.yaml: the mocks of each test name
    panicked,    \* a goroutine sent on a closed channel
    faults

pipeVars  == <<fwd, frame, ins, place>>
errVars   == <<errs, errOpen>>
mapVars   == <<correlationMap, todo, found, mapping>>
startVars == <<pc, compose, stopReason>>
appVars   == <<app, appErr>>
vars == <<startVars, ctx, appVars, pipeVars, errVars, mapVars, panicked, faults>>

(* The contexts that only Start's teardown cancels. *)
appCtx == pc \in {"drainApp", "drainReq", "drainRecord", "cleanup", "returned"}
reqCtx == pc \in {"drainReq", "drainRecord", "cleanup", "returned"}

(* The process is there: Start has not returned and nothing has panicked. *)
Alive == pc # "returned" /\ ~panicked

Selecting == pc \in {"setup", "awaitAgent", "frames", "started", "select"}

At(s, p) == {i \in ItemsOf(s) : place[i] = p}
Held(s, p) == CHOOSE i \in At(s, p) : TRUE
Move(i, p) == place' = [place EXCEPT ![i] = p]
Fault == faults < MaxFaults /\ faults' = faults + 1

(* A call that fails on a cancelled context, or by a fault. *)
Fails(cancelled) == (cancelled /\ UNCHANGED faults) \/ (~cancelled /\ Fault)

Init ==
    /\ pc = "setup"
    /\ compose \in Compose
    /\ stopReason = FALSE /\ ctx = FALSE
    /\ app = "off" /\ appErr = FALSE
    /\ fwd = [s \in Streams |-> "off"]
    /\ frame = [s \in Streams |-> "nil"]
    /\ ins = [s \in Streams |-> "off"]
    /\ place = [i \in Items |-> "feed"]
    /\ errs = [s \in {"tests", "mocks"} |-> 0]
    /\ errOpen = {"tests", "mocks"}
    /\ correlationMap = {} /\ todo = <<>> /\ found = {}
    /\ mapping = [t \in TestNames |-> {}]
    /\ panicked = FALSE /\ faults = 0

-----------------------------------------------------------------------------
(* Start, up to its select. *)

ReturnWith(reason) ==
    /\ pc' = "closeMock"
    /\ stopReason' = reason

(* GetNextTestSetID, the check of ctx, and instrumentation.Setup. A failure  *)
(* after the user's interrupt is no reason to stop. Under Compose the runner *)
(* starts here.                                                              *)
Setup ==
    /\ pc = "setup"
    /\ \/ /\ Fails(ctx)
          /\ ReturnWith(~ctx)
          /\ UNCHANGED app
       \/ /\ ~ctx
          /\ pc' = IF compose THEN "awaitAgent" ELSE "frames"
          /\ app' = IF compose THEN "running" ELSE app
          /\ UNCHANGED <<stopReason, faults>>
    /\ UNCHANGED <<compose, ctx, appErr, pipeVars, errVars, mapVars, panicked>>

(* The wait for the agent's health: neither the interrupt nor the time-out   *)
(* sets a stop reason.                                                       *)
AwaitAgent ==
    /\ pc = "awaitAgent"
    /\ \/ Fails(ctx) /\ ReturnWith(FALSE)
       \/ pc' = "frames" /\ UNCHANGED <<stopReason, faults>>
    /\ UNCHANGED <<compose, ctx, appVars, pipeVars, errVars, mapVars, panicked>>

(* GetTestAndMockChans. A stream that cannot be opened ends the session,     *)
(* unless the error is one of shutdown: then the frames made so far are      *)
(* returned, with the channels of the failed streams closed and no mappings. *)
GetTestAndMockChans ==
    /\ pc = "frames"
    /\ \/ /\ fwd' = [s \in Streams |-> IF s = "maps" THEN "connect" ELSE "recv"]
          /\ frame' = [s \in Streams |-> "live"]
          /\ pc' = "started"
          /\ UNCHANGED <<stopReason, faults>>
       \/ \E opened \in {{}, {"tests"}} :
             /\ Fault
             /\ fwd' = [s \in Streams |-> IF s \in opened THEN "recv" ELSE "off"]
             /\ \/ /\ frame' = [s \in Streams |-> IF s = "maps" THEN "nil"
                                ELSE IF s \in opened THEN "live" ELSE "closed"]
                   /\ pc' = "started"
                   /\ UNCHANGED stopReason
                \/ ReturnWith(TRUE) /\ UNCHANGED frame
    /\ UNCHANGED <<compose, ctx, appVars, ins, place, errVars, mapVars, panicked>>

(* The three inserting goroutines, the application and the timer start,      *)
(* unless the session was interrupted while the streams were opened.         *)
StartGoroutines ==
    /\ pc = "started"
    /\ \/ /\ ctx
          /\ ReturnWith(FALSE)
          /\ UNCHANGED <<ins, app>>
       \/ /\ ~ctx
          /\ ins' = [s \in Streams |-> "recv"]
          /\ app' = IF compose THEN app ELSE "running"
          /\ pc' = "select"
          /\ UNCHANGED stopReason
    /\ UNCHANGED <<compose, ctx, appErr, fwd, frame, place, errVars, mapVars, panicked, faults>>

(* The select: an application error, an insert error or the interrupt. *)
Select ==
    /\ pc = "select"
    /\ \/ appErr /\ ReturnWith(TRUE)
       \/ (\E s \in {"tests", "mocks"} : errs[s] > 0) /\ ReturnWith(TRUE)
       \/ ctx /\ ReturnWith(FALSE)
    /\ appErr' = FALSE
    /\ UNCHANGED <<compose, ctx, app, pipeVars, errVars, mapVars, panicked, faults>>

-----------------------------------------------------------------------------
(* Start's deferred calls. *)

CloseErrChan(s) ==
    /\ pc = IF s = "mocks" THEN "closeMock" ELSE "closeTest"
    /\ pc' = IF s = "mocks" THEN "closeTest" ELSE "stop"
    /\ errOpen' = errOpen \ {s}
    /\ errs' = [errs EXCEPT ![s] = 0]
    /\ UNCHANGED <<compose, stopReason, ctx, appVars, pipeVars, mapVars, panicked, faults>>

(* utils.Stop, which refuses to stop without a reason; the notification of   *)
(* the agent, which returns within its time-out; runAppCtxCancel.            *)
Stop ==
    /\ pc = "stop" /\ pc' = "drainApp"
    /\ ctx' = (ctx \/ stopReason)
    /\ stopReason' = FALSE
    /\ UNCHANGED <<compose, appVars, pipeVars, errVars, mapVars, panicked, faults>>

GroupDone(g) ==
    CASE g = "app"    -> app # "running"
      [] g = "req"    -> \A s \in Streams : fwd[s] \in {"off", "done"}
      [] g = "record" -> /\ \A s \in Streams : ins[s] \in {"off", "done"}
                         /\ RecordTimer /\ ins["maps"] # "off" => ctx

(* Mutant: a drain without a time-out. *)
DrainUnbounded(g) == GroupDone(g)

(* DrainErrGroup returns when the group is done or the time-out fires,       *)
(* whichever is first: it never waits for good.                              *)
DrainErrGroup(g) == GroupDone(g) \/ ~GroupDone(g)

(* The bounded drains. The group of Setup's goroutines, drained between req  *)
(* and record, belongs to the agent.                                         *)
Teardown ==
    /\ \/ pc = "drainApp" /\ DrainErrGroup("app") /\ pc' = "drainReq"
       \/ pc = "drainReq" /\ DrainErrGroup("req") /\ pc' = "drainRecord"
       \/ pc = "drainRecord" /\ DrainErrGroup("record") /\ pc' = "cleanup"
    /\ UNCHANGED <<compose, stopReason, ctx, appVars, pipeVars, errVars, mapVars, panicked, faults>>

(* The registered cleanups, the mock database's Close among them. *)
Cleanup ==
    /\ pc = "cleanup" /\ pc' = "returned"
    /\ UNCHANGED <<compose, stopReason, ctx, appVars, pipeVars, errVars, mapVars, panicked, faults>>

-----------------------------------------------------------------------------
(* The application, the timer and the user. *)

(* Run returns with an error, which the runner sends, or without one. On     *)
(* cancellation either happens: a process ended by a signal reports that.    *)
AppExits ==
    /\ Alive /\ app = "running"
    /\ app' = "exited"
    /\ \/ appErr' = Selecting
       \/ (appCtx \/ compose) /\ UNCHANGED appErr
    /\ UNCHANGED <<startVars, ctx, pipeVars, errVars, mapVars, panicked, faults>>

(* The recording timer calls utils.Stop; a signal cancels the context. *)
Interrupt ==
    /\ Alive /\ ~ctx
    /\ CanCancel \/ (RecordTimer /\ ins["maps"] # "off")
    /\ ctx' = TRUE
    /\ UNCHANGED <<startVars, appVars, pipeVars, errVars, mapVars, panicked, faults>>

-----------------------------------------------------------------------------
(* The goroutines of one stream. *)

(* GetMappings, called by the forwarder itself; its error closes the channel. *)
GetMappings ==
    /\ Alive /\ fwd["maps"] = "connect"
    /\ \/ fwd' = [fwd EXCEPT !["maps"] = "recv"] /\ UNCHANGED faults
       \/ Fails(reqCtx) /\ fwd' = [fwd EXCEPT !["maps"] = "done"]
    /\ UNCHANGED <<startVars, ctx, appVars, frame, ins, place, errVars, mapVars, panicked>>

(* The forwarder receives the next item from the client. *)
Forward(s) ==
    /\ Alive /\ fwd[s] = "recv"
    /\ \E n \in 1..Len(Feed[s]) :
          /\ place[Feed[s][n]] = "feed" /\ \A k \in 1..(n - 1) : place[Feed[s][k]] # "feed"
          /\ Move(Feed[s][n], "fwd")
    /\ fwd' = [fwd EXCEPT ![s] = "held"]
    /\ UNCHANGED <<startVars, ctx, appVars, frame, ins, errVars, mapVars, panicked, faults>>

(* The forwarder sees reqCtx done, or the end of the client's channel: the   *)
(* agent closed the stream, and the client with it.                          *)
ForwardEnds(s) ==
    /\ Alive /\ fwd[s] = "recv"
    /\ fwd' = [fwd EXCEPT ![s] = "done"]
    /\ UNCHANGED <<startVars, ctx, appVars, frame, ins, place, errVars, mapVars, panicked, faults>>

(* With an item in hand the forwarder of mocks hands it over even after      *)
(* reqCtx is done; the others drop it.                                       *)
HandOver(s) ==
    /\ Alive /\ fwd[s] \in {"held", "last"}
    /\ \/ /\ ins[s] = "recv"
          /\ Move(Held(s, "fwd"), "ins")
          /\ ins' = [ins EXCEPT ![s] = IF s = "maps" THEN "correlate" ELSE "insert"]
          /\ fwd' = [fwd EXCEPT ![s] = IF @ = "last" THEN "done" ELSE "recv"]
          /\ todo' = IF s = "maps" THEN EntryMocks[Held(s, "fwd")] ELSE todo
       \/ /\ reqCtx /\ fwd[s] = "held" /\ s = "mocks"
          /\ fwd' = [fwd EXCEPT ![s] = "last"]
          /\ UNCHANGED <<place, ins, todo>>
       \/ /\ reqCtx /\ fwd[s] = "held" /\ s # "mocks"
          /\ Move(Held(s, "fwd"), "lost")
          /\ fwd' = [fwd EXCEPT ![s] = "done"]
          /\ UNCHANGED <<ins, todo>>
    /\ UNCHANGED <<startVars, ctx, appVars, frame, errVars, correlationMap, found, mapping, panicked, faults>>

(* range over the frame's channel ends when it is closed; a nil one never is. *)
RangeEnds(s) ==
    /\ Alive /\ ins[s] = "recv"
    /\ frame[s] = "closed" \/ (frame[s] = "live" /\ fwd[s] = "done")
    /\ ins' = [ins EXCEPT ![s] = "done"]
    /\ UNCHANGED <<startVars, ctx, appVars, fwd, frame, place, errVars, mapVars, panicked, faults>>

(* Mutants: the name is published before the mock is stored; a refused item  *)
(* is put back to be sent again.                                             *)
InsertPublishing(s) ==
    /\ Alive /\ s # "maps" /\ ins[s] = "insert"
    /\ LET i == Held(s, "ins") IN
       /\ \/ Move(i, "stored") /\ UNCHANGED faults
          \/ Fails(ctx /\ s = "mocks") /\ Move(i, "lost")
       /\ correlationMap' = IF s = "mocks" THEN correlationMap \cup {i} ELSE correlationMap
    /\ ins' = [ins EXCEPT ![s] = "recv"]
    /\ UNCHANGED <<startVars, ctx, appVars, fwd, frame, errVars, todo, found, mapping, panicked>>
InsertRequeueing(s) ==
    /\ Alive /\ s # "maps" /\ ins[s] = "insert"
    /\ Fails(ctx /\ s = "mocks") /\ Move(Held(s, "ins"), "feed")
    /\ ins' = [ins EXCEPT ![s] = "recv"]
    /\ UNCHANGED <<startVars, ctx, appVars, fwd, frame, errVars, mapVars, panicked>>

(* InsertTestCase and InsertMock. A disk may refuse either; a mock is also   *)
(* refused, or by luck accepted, once ctx is cancelled. A refusal is passed  *)
(* over when ctx is cancelled, else it is to be reported to Start. The name  *)
(* of an accepted mock becomes known to the mapping inserter.                *)
Insert(s) ==
    /\ Alive /\ s # "maps" /\ ins[s] = "insert"
    /\ LET i == Held(s, "ins") IN
       \/ /\ Move(i, "stored")
          /\ ins' = [ins EXCEPT ![s] = "recv"]
          /\ correlationMap' = IF s = "mocks" THEN correlationMap \cup {i} ELSE correlationMap
          /\ UNCHANGED faults
       \/ /\ Fails(ctx /\ s = "mocks")
          /\ Move(i, "lost")
          /\ ins' = [ins EXCEPT ![s] = IF ctx THEN "recv" ELSE "report"]
          /\ UNCHANGED correlationMap
    /\ UNCHANGED <<startVars, ctx, appVars, fwd, frame, errVars, todo, found, mapping, panicked>>

(* The send of the error: a panic once Start has closed the channel. *)
Report(s) ==
    /\ Alive /\ ins[s] = "report"
    /\ \/ /\ s \in errOpen /\ errs[s] < ErrCap
          /\ errs' = [errs EXCEPT ![s] = @ + 1]
          /\ ins' = [ins EXCEPT ![s] = "recv"]
          /\ UNCHANGED panicked
       \/ /\ s \notin errOpen
          /\ panicked' = TRUE
          /\ UNCHANGED <<errs, ins>>
    /\ UNCHANGED <<startVars, ctx, appVars, fwd, frame, place, errOpen, mapVars, faults>>

(* One mock ID of a mapping: wait for the mock inserter to store it, take    *)
(* its entry, or give up after the last retry.                               *)
Correlate ==
    /\ Alive /\ ins["maps"] = "correlate" /\ todo # <<>>
    /\ \/ /\ Head(todo) \in correlationMap
          /\ found' = found \cup {Head(todo)}
          /\ correlationMap' = correlationMap \ {Head(todo)}
       \/ /\ Head(todo) \notin correlationMap
          /\ UNCHANGED <<found, correlationMap>>
    /\ todo' = Tail(todo)
    /\ UNCHANGED <<startVars, ctx, appVars, pipeVars, errVars, mapping, panicked, faults>>

(* MappingDb.Upsert: the entries replace those the file has for the test. An *)
(* existing file cannot be read once ctx is cancelled.                       *)
Upsert(t, entries) ==
    /\ ~(ctx /\ \E u \in TestNames : mapping[u] # {})
    /\ mapping' = [mapping EXCEPT ![t] = entries]

(* The end of a mapping: nothing found, nothing written; an error of the     *)
(* store is only logged.                                                     *)
SaveMapping ==
    /\ Alive /\ ins["maps"] = "correlate" /\ todo = <<>>
    /\ LET e == Held("maps", "ins") IN
       \/ found # {} /\ Upsert(EntryTest[e], found) /\ Move(e, "stored") /\ UNCHANGED faults
       \/ Fails(found = {} \/ ctx) /\ Move(e, "lost") /\ UNCHANGED mapping
    /\ ins' = [ins EXCEPT !["maps"] = "recv"]
    /\ found' = {}
    /\ UNCHANGED <<startVars, ctx, appVars, fwd, frame, errVars, correlationMap, todo, panicked>>

-----------------------------------------------------------------------------
Main == \/ Setup \/ AwaitAgent \/ GetTestAndMockChans \/ StartGoroutines \/ Select
        \/ (\E s \in {"tests", "mocks"} : CloseErrChan(s)) \/ Stop \/ Teardown \/ Cleanup

Goroutine(s) == \/ Forward(s) \/ ForwardEnds(s) \/ HandOver(s)
                \/ RangeEnds(s) \/ Insert(s) \/ Report(s)

Next == \/ ~panicked /\ Main
        \/ AppExits \/ Interrupt
        \/ \E s \in Streams : Goroutine(s)
        \/ GetMappings \/ Correlate \/ SaveMapping

Spec == Init /\ [][Next]_vars

-----------------------------------------------------------------------------
(* Properties. *)

TypeOK ==
    /\ pc \in {"setup", "awaitAgent", "frames", "started", "select", "closeMock", "closeTest",
               "stop", "drainApp", "drainReq", "drainRecord", "cleanup", "returned"}
    /\ compose \in BOOLEAN /\ stopReason \in BOOLEAN /\ ctx \in BOOLEAN
    /\ app \in {"off", "running", "exited"} /\ appErr \in BOOLEAN
    /\ fwd \in [Streams -> {"off", "connect", "recv", "held", "last", "done"}]
    /\ frame \in [Streams -> {"nil", "live", "closed"}]
    /\ ins \in [Streams -> {"off", "recv", "insert", "report", "correlate", "done"}]
    /\ place \in [Items -> {"feed", "fwd", "ins", "stored", "lost"}]
    /\ errs \in [{"tests", "mocks"} -> 0..ErrCap] /\ errOpen \subseteq {"tests", "mocks"}
    /\ correlationMap \subseteq ItemsOf("mocks") /\ found \subseteq ItemsOf("mocks")
    /\ todo \in Seq(ItemsOf("mocks"))
    /\ mapping \in [TestNames -> SUBSET ItemsOf("mocks")]
    /\ panicked \in BOOLEAN /\ faults \in 0..MaxFaults

(* The correlation of the mapping loop: mappings.yaml names only mocks that  *)
(* the mock database accepted, however the two inserters interleave.         *)
MappingNamesStored ==
    \A t \in TestNames : \A m \in mapping[t] : place[m] = "stored"

(* syncMock's comment on the late mapping entries, and Upsert: what one      *)
(* entry wrote for its test is still there after later entries.              *)
MappingKept ==
    \A e \in ItemsOf("maps") : place[e] = "stored" =>
       \E n \in 1..Len(EntryMocks[e]) : EntryMocks[e][n] \in mapping[EntryTest[e]]

(* The pipeline of GetTestAndMockChans: an item is in one goroutine's hand,  *)
(* moves only forward, and is stored or lost once and for all.               *)
Path == INSTANCE Journey WITH
    Departure <- "feed",
    Roads <- {<<"feed", "fwd">>, <<"fwd", "ins">>, <<"ins", "stored">>,
              <<"fwd", "lost">>, <<"ins", "lost">>},
    at <- place

OneWayPath == Path!Spec

=============================================================================

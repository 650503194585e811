----------------------------- MODULE MockErrors -----------------------------
(***************************************************************************)
(* How a mock miss during a replay reaches the report of the test that     *)
(* caused it (pkg/agent/proxy/proxy.go): parsers send misses to the        *)
(* bounded errChannel, one goroutine (StartErrorDrain) files them into the *)
(* capture window of the running test, and the replayer opens the window   *)
(* before a test's request and collects it after the response, with a      *)
(* marker that flushes the channel first.                                  *)
(***************************************************************************)
EXTENDS Naturals, Sequences, FiniteSets

CONSTANTS
    NumTests,   \* tests replayed one after the other
    ChanCap,    \* capacity of errChannel
    MaxPending, \* maxPendingMockErrors
    MaxMisses,  \* bound on the errors sent
    MaxFaults   \* bound on timeouts, lost requests and replies

VARIABLES
    chan,       \* errChannel: errors and markers
    held,       \* what the drain goroutine has received and not yet filed
    draining,   \* errDrainActive
    window,     \* activeTestErrors: <<>> for nil, else <<errors>>
    pending,    \* pendingMockErrors
    test,       \* the replayer: the current test, where it stands, and
                \* whether a call or a rendezvous has failed so far
    reports,    \* the unmatched calls attached to each test
    sent,       \* every error that entered the channel
    faults
vars == <<chan, held, draining, window, pending, test, reports, sent, faults>>

(* An error belongs to the test whose request caused it; test 0 is traffic *)
(* of the application's own. "miss" is ErrNoMockMatched (with or without a *)
(* report), "decode" a failure sendMockNotFoundError labels as a miss, and *)
(* "noise" an error of another type.                                       *)
Kinds == {"miss", "decode", "noise"}
Marker(t) == [test |-> t, kind |-> "marker", id |-> 0]
isMockNotFoundErr(e) == e.kind \in {"miss", "decode"}

Init ==
    /\ chan = <<>> /\ held = <<>> /\ draining = TRUE
    /\ window = <<>> /\ pending = <<>>
    /\ test = [n |-> 1, pc |-> "begin", marked |-> FALSE, active |-> FALSE,
               degraded |-> FALSE]
    /\ reports = [t \in 1 .. NumTests |-> <<>>]
    /\ sent = {} /\ faults = 0

Fault == faults < MaxFaults /\ faults' = faults + 1
Bounded(acc, e) == IF Len(acc) >= MaxPending THEN acc ELSE Append(acc, e)

-----------------------------------------------------------------------------
(* sendMockNotFoundError and SendError: dropped when the channel is full.  *)
(* A test's own misses come while its request is served; the application's *)
(* own traffic may miss at any time.                                       *)
SendError(t, kind) ==
    /\ Cardinality(sent) < MaxMisses
    /\ t = 0 \/ (t = test.n /\ test.pc = "request")
    /\ LET e == [test |-> t, kind |-> kind, id |-> Cardinality(sent) + 1]
       IN IF Len(chan) < ChanCap
          THEN chan' = Append(chan, e) /\ sent' = sent \cup {e}
          ELSE UNCHANGED <<chan, sent>>
    /\ UNCHANGED <<held, draining, window, pending, test, reports, faults>>

(* The drain goroutine takes the oldest entry ...                          *)
DrainReceive ==
    /\ draining /\ held = <<>> /\ chan # <<>>
    /\ chan' = Tail(chan)
    /\ IF Head(chan).kind = "marker"
       THEN /\ test' = [test EXCEPT !.marked = @ \/ Head(chan).test = test.n]
            /\ held' = held
       ELSE held' = <<Head(chan)>> /\ test' = test
    /\ UNCHANGED <<draining, window, pending, reports, sent, faults>>

(* ... and files it under captureMu: in the open window, or a miss among   *)
(* the pending ones.                                                       *)
DrainFile ==
    /\ held # <<>>
    /\ held' = <<>>
    /\ IF window # <<>>
       THEN window' = <<Bounded(window[1], held[1])>> /\ pending' = pending
       ELSE /\ window' = window
            /\ pending' = IF isMockNotFoundErr(held[1])
                          THEN Bounded(pending, held[1]) ELSE pending
    /\ UNCHANGED <<chan, draining, test, reports, sent, faults>>

(* The context ends: the goroutine returns once it has filed what it holds. *)
DrainStops ==
    /\ draining /\ held = <<>> /\ Fault
    /\ draining' = FALSE
    /\ UNCHANGED <<chan, held, window, pending, test, reports, sent>>

-----------------------------------------------------------------------------
(* BeginTestErrorCapture, called by the replayer right before the request; *)
(* the call is best effort and may not arrive.                             *)
BeginTestErrorCapture ==
    /\ test.pc = "begin"
    /\ \/ /\ window' = << <<>> >> /\ pending' = <<>> /\ faults' = faults
          /\ test' = [test EXCEPT !.pc = "request"]
       \/ /\ Fault /\ UNCHANGED <<window, pending>>
          /\ test' = [test EXCEPT !.pc = "request", !.degraded = TRUE]
    /\ UNCHANGED <<chan, held, draining, reports, sent>>

(* The application has responded.                                          *)
Responded ==
    /\ test.pc = "request"
    /\ test' = [test EXCEPT !.pc = "flush"]
    /\ UNCHANGED <<chan, held, draining, window, pending, reports, sent, faults>>

(* GetMockErrors pushes a marker if the drain goroutine runs and there is  *)
(* room in the channel.                                                    *)
PushMarker ==
    /\ test.pc = "flush"
    /\ IF draining /\ Len(chan) < ChanCap
       THEN /\ chan' = Append(chan, Marker(test.n))
            /\ test' = [test EXCEPT !.pc = "wait", !.active = draining]
       ELSE /\ chan' = chan
            /\ test' = [test EXCEPT !.pc = "collect", !.active = draining]
    /\ UNCHANGED <<held, draining, window, pending, reports, sent, faults>>

(* Mutant: the window is collected without waiting for the marker.         *)
AwaitMarkerNot ==
    /\ test.pc = "wait"
    /\ test' = [test EXCEPT !.pc = "collect", !.marked = TRUE]
    /\ UNCHANGED <<chan, held, draining, window, pending, reports, sent, faults>>

(* The rendezvous, or its two-second limit.                                *)
AwaitMarker ==
    /\ test.pc = "wait"
    /\ test' = [test EXCEPT !.pc = "collect"]
    /\ \/ (test.marked \/ ~draining) /\ faults' = faults
       \/ ~test.marked /\ draining /\ Fault
    /\ UNCHANGED <<chan, held, draining, window, pending, reports, sent>>

(* Only a genuine miss becomes an unmatched call of the report.            *)
Unmatched(errs) == SelectSeq(errs, LAMBDA e : e.kind = "miss")

(* Under captureMu: the pending errors, the channel's when nobody drains   *)
(* it, and the window's, which is closed unless the rendezvous failed. The *)
(* reply to the replayer may be lost.                                      *)
GetMockErrors ==
    LET swept == IF test.active THEN <<>>
                 ELSE SelectSeq(chan, LAMBDA e : e.kind # "marker")
        raw == pending \o swept \o (IF window = <<>> THEN <<>> ELSE window[1])
    IN /\ test.pc = "collect"
       /\ \E lost \in BOOLEAN :
            /\ reports' = IF lost THEN reports
                          ELSE [reports EXCEPT ![test.n] = Unmatched(raw)]
            /\ IF lost THEN Fault ELSE faults' = faults
            /\ test' = [n |-> test.n + 1, marked |-> FALSE, active |-> FALSE,
                        pc |-> IF test.n = NumTests THEN "over" ELSE "begin",
                        degraded |-> \/ test.degraded \/ lost
                                     \/ test.active /\ ~test.marked]
       /\ pending' = <<>>
       /\ chan' = IF test.active THEN chan ELSE <<>>
       /\ window' = IF window = <<>> \/ test.marked \/ ~test.active
                    THEN <<>> ELSE << <<>> >>
       /\ UNCHANGED <<held, draining, sent>>

Finished ==
    /\ test.pc = "over" /\ UNCHANGED vars

Next ==
    \/ \E t \in 0 .. NumTests, k \in Kinds : SendError(t, k)
    \/ DrainReceive \/ DrainFile \/ DrainStops
    \/ BeginTestErrorCapture \/ Responded \/ PushMarker \/ AwaitMarker
    \/ GetMockErrors \/ Finished

Spec == Init /\ [][Next]_vars

-----------------------------------------------------------------------------
TypeOK ==
    /\ Len(chan) <= ChanCap /\ Len(held) <= 1 /\ Len(window) <= 1
    /\ Len(pending) <= MaxPending
    /\ test.pc \in {"begin", "request", "flush", "wait", "collect", "over"}

Reported(t) == {reports[t][i] : i \in DOMAIN reports[t]}

(* A miss lands in the report of its own test: as long as every call of    *)
(* the replayer arrived and every rendezvous was answered in time, each    *)
(* miss of a collected test that entered the channel is in that test's     *)
(* report, once, and no report holds another test's miss. A window that    *)
(* was full may have dropped one.                                          *)
MissesAttributed ==
    ~test.degraded => \A t \in 1 .. test.n - 1 :
        /\ \A e \in Reported(t) : e.test \in {0, t}
        /\ Cardinality({e \in sent : e.test \in {0, t}}) <= MaxPending =>
             \A e \in {d \in sent : d.test = t /\ d.kind = "miss"} :
                Cardinality({i \in DOMAIN reports[t] : reports[t][i] = e}) = 1
=============================================================================

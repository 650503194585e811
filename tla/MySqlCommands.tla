---------------------------- MODULE MySqlCommands ---------------------------
(***************************************************************************)
(* Replay of the MySQL command phase (replayer/query.go, matchCommand of   *)
(* replayer/match.go): the connections of the application send commands,   *)
(* and each is answered from one pool of recorded mocks that all of them   *)
(* share.  A connection picks a mock from a snapshot of the pool and only  *)
(* then consumes or reorders it (updateMock), so two connections can pick  *)
(* the same one.  The pool is rebuilt for every test (SetMocksWithWindow)  *)
(* as it is with KEPLOY_STRICT_MOCK_WINDOW unset: per-test mocks recorded  *)
(* outside the test are promoted into the session tree.                    *)
(*                                                                         *)
(* A mock is the position of the call it was recorded for.  A call is      *)
(* [c, w, k, q, p]: connection, test window (0 is start-up), command,      *)
(* query text and bound parameter.  session.run is what the application    *)
(* sends now: the same calls, except where a value has drifted.  A tree    *)
(* entry is [m, id, moved]: the mock, its position in the list the tree    *)
(* was built from, and whether it has a SortOrder later than that.         *)
(***************************************************************************)
EXTENDS Integers, Sequences, FiniteSets, SequencesExt, FiniteSetsExt

CONSTANTS Sessions,      \* [rec, run, lax, strict]
          Shape(_),      \* structure of a query text
          Width(_),      \* its length
          IsDML(_)       \* INSERT, UPDATE or DELETE

VARIABLES session,
          win,           \* outer test window in force
          pt,            \* per-test tree, in SortOrder
          ss,            \* session tree (before the first test: startup tree)
          ledger,        \* consumed mocks as reported: [m, how], latest last
          conn,          \* per connection: [stmts, pick, st, done]
          answers        \* <<call, mock>> pairs served; mock 0 was synthesized

vars == <<session, win, pt, ss, ledger, conn, answers>>

Calls == DOMAIN session.run
Conns == {session.run[i].c : i \in Calls}
Windows == {session.run[i].w : i \in Calls}
Entry(m, id, moved) == [m |-> m, id |-> id, moved |-> moved]
NoEntry == Entry(0, 0, FALSE)
NoPick == [entry |-> NoEntry, how |-> "none"]

-----------------------------------------------------------------------------
(* Lifetimes the recorders give (emitMockV2, recordMock) and DeriveLifetime *)
(* completes: PREPAREs belong to their connection, a ping is reusable.      *)
Lifetime(m) ==
    CASE session.rec[m].k = "PREP" -> "connection"
      [] session.rec[m].k = "PING" -> "session"
      [] OTHER -> IF session.lax THEN "session" ELSE "test"

WindowActive == win > 0
InWindow(m) == WindowActive => session.rec[m].w = win

(* The pool matchCommand assembles: per-test, then session and connection. *)
Pool == pt \o ss

(* buildRecordedPrepIndex / lookupRecordedQuery: the query a recorded      *)
(* statement id stood for, when its PREPARE mock is in the pool.           *)
RecordedQuery(m) ==
    LET preps == {e \in Range(Pool) : /\ session.rec[e.m].k = "PREP"
                                      /\ session.rec[e.m].c = session.rec[m].c
                                      /\ session.rec[e.m].q = session.rec[m].q}
    IN IF preps = {} THEN "" ELSE session.rec[m].q

(* decodeCtx.StmtIDToQuery of the live connection.                         *)
LiveQuery(call) ==
    IF call.q \in conn[call.c].stmts THEN call.q ELSE ""

SameBody(call, r) == IF call.k = "EXEC" THEN call.p = r.p ELSE call.q = r.q
GateAllows(call, m) == session.strict => SameBody(call, session.rec[m])

First(S) == IF S = {} THEN NoEntry ELSE Pool[Min(S)]
OfKind(k) == {i \in DOMAIN Pool : session.rec[Pool[i].m].k = k}

(* The pool position with the highest positive score, the first of equals. *)
Best(S, Score(_)) ==
    LET top == {i \in S : Score(Pool[i].m) > 0 /\ \A j \in S : Score(Pool[j].m) <= Score(Pool[i].m)}
    IN First(top)

-----------------------------------------------------------------------------
(* matchQuery: similarity of two texts that are not equal.                 *)
TextScore(e, a) ==
    LET len == IF Width(e) = Width(a) THEN 1 ELSE 0
    IN CASE IsDML(e) # IsDML(a) -> 0
         [] IsDML(e) /\ Shape(e) = Shape(a) -> len + 6
         [] OTHER -> len

MatchQueryAnyWindow(call) ==   \* mutant: the first equal text wins, whatever its test
    LET exact == {i \in OfKind("QUERY") : session.rec[Pool[i].m].q = call.q}
    IN First(exact)

MatchQuery(call) ==
    LET allowed == {i \in OfKind("QUERY") : GateAllows(call, Pool[i].m)}
        exact == {i \in allowed : session.rec[Pool[i].m].q = call.q}
        inside == {i \in exact : InWindow(Pool[i].m)}
        Score(m) == TextScore(session.rec[m].q, call.q)
    IN CASE inside # {} -> First(inside)
         [] exact # {} -> First(exact)
         [] OTHER -> Best(allowed, Score)

MatchPrepare(call) ==
    LET allowed == {i \in OfKind("PREP") : GateAllows(call, Pool[i].m)}
        exact == {i \in allowed : session.rec[Pool[i].m].q = call.q}
        Score(m) == TextScore(session.rec[m].q, call.q)
    IN IF exact # {} THEN First(exact) ELSE Best(allowed, Score)

(* matchStmtExecutePacketQueryAware.                                       *)
ParamsMatch(call, m) == session.rec[m].p = call.p
QueryExact(call, m) == RecordedQuery(m) # "" /\ RecordedQuery(m) = LiveQuery(call)
Definitive(call, m) ==
    ParamsMatch(call, m) /\ (QueryExact(call, m) \/ RecordedQuery(m) = "")
ExecScore(call, m) ==
    5 + (IF ParamsMatch(call, m) THEN 1 ELSE 0)
      + (CASE QueryExact(call, m) -> 10
           [] RecordedQuery(m) # "" /\ LiveQuery(call) # ""
                /\ Shape(RecordedQuery(m)) = Shape(LiveQuery(call)) -> 6
           [] OTHER -> 0)

(* In order: a definitive match recorded in this window; a mock of the     *)
(* same query in this window; one outside; a definitive match outside; the *)
(* best score.                                                             *)
MatchExecute(call) ==
    LET allowed == {i \in OfKind("EXEC") : GateAllows(call, Pool[i].m)}
        def == {i \in allowed : Definitive(call, Pool[i].m)}
        fifo == {i \in allowed : QueryExact(call, Pool[i].m)} \ def
        inside(S) == {i \in S : WindowActive /\ InWindow(Pool[i].m)}
        Score(m) == ExecScore(call, m)
    IN CASE inside(def) # {} -> First(inside(def))
         [] inside(fifo) # {} -> First(inside(fifo))
         [] fifo \ inside(fifo) # {} -> First(fifo \ inside(fifo))
         [] def # {} -> First(def)
         [] OTHER -> Best(allowed, Score)

(* matchCloseWithQuery: the header always agrees; the query decides.       *)
MatchClose(call) ==
    LET Score(m) == 2 + (IF QueryExact(call, m) THEN 10 ELSE 0)
    IN Best(OfKind("CLOSE"), Score)

(* COM_STMT_SEND_LONG_DATA: the first mock allowed, this window's before   *)
(* another's.                                                              *)
MatchLongData(call) ==
    LET allowed == {i \in OfKind("DATA") : GateAllows(call, Pool[i].m)}
        inside == {i \in allowed : WindowActive /\ InWindow(Pool[i].m)}
    IN IF inside # {} THEN First(inside) ELSE First(allowed)

Matched(call) ==
    CASE call.k = "QUERY" -> MatchQuery(call)
      [] call.k = "PREP" -> MatchPrepare(call)
      [] call.k = "EXEC" -> MatchExecute(call)
      [] call.k = "CLOSE" -> MatchClose(call)
      [] call.k = "DATA" -> MatchLongData(call)
      [] call.k = "PING" -> First(OfKind("PING"))
      [] OTHER -> NoEntry

(* What matchCommand answers when nothing matched: an OK for transaction   *)
(* and schema statements and for a statement reset, a PREPARE_OK made up   *)
(* on the spot, nothing for streamed data that was never recorded.         *)
SyntheticOk(call) == call.k = "QUERY" /\ call.q = "BEGIN"
SyntheticAccept(call) == call.k = "DATA" /\ OfKind("DATA") = {}
SyntheticReset(call) == call.k = "RESET"
SyntheticPrepare(call) == call.k = "PREP"

Synthesized(call) ==
    SyntheticOk(call) \/ SyntheticAccept(call) \/ SyntheticReset(call) \/ SyntheticPrepare(call)

-----------------------------------------------------------------------------
AllMocks == [i \in DOMAIN session.rec |-> i]
PerTest(m) == Lifetime(m) = "test"
Reusable(m) == Lifetime(m) # "test"
Listed(seq) == [i \in DOMAIN seq |-> Entry(seq[i], i, FALSE)]

(* Initial staging: everything is served from the startup tree.            *)
Init ==
    /\ session \in Sessions
    /\ win = 0 /\ pt = <<>> /\ ledger = <<>>
    /\ ss = Listed(SelectSeq(AllMocks, PerTest) \o SelectSeq(AllMocks, Reusable))
    /\ conn = [c \in {session.run[i].c : i \in DOMAIN session.run} |->
                  [stmts |-> {}, pick |-> NoPick, st |-> "ready", done |-> {}]]
    /\ answers = {}

Pending(c) == {i \in Calls : /\ session.run[i].c = c /\ i \notin conn[c].done
                             /\ session.run[i].w <= win}

(* filterOutDeleted: what was reported deleted stays away, what was        *)
(* reported updated keeps the SortOrder of its last use.                   *)
Deleted == {r.m : r \in {x \in Range(ledger) : x.how = "deleted"}}
Updated == [i \in DOMAIN ledger |-> ledger[i].m]

FilteredTree(seq) ==
    LET Fresh(e) == e.m \notin Range(Updated)
        Old(m) == m \in Range(seq)
        again == SelectSeq(Updated, Old)
    IN SelectSeq(Listed(seq), Fresh)
         \o [i \in DOMAIN again |-> Entry(again[i], CHOOSE k \in DOMAIN seq : seq[k] = again[i], TRUE)]

(* The next test (UpdateMockParams, SetMocksWithWindow): both trees are    *)
(* built anew from the stored mocks, reusable before promoted ones.        *)
NextWindow ==
    /\ \E w \in Windows : w > win
    /\ \A c \in Conns : conn[c].st = "closed" \/ (conn[c].st = "ready" /\ Pending(c) = {})
    /\ win' = win + 1
    /\ LET InTest(m) == PerTest(m) /\ session.rec[m].w = win + 1 /\ m \notin Deleted
           Promoted(m) == PerTest(m) /\ session.rec[m].w # win + 1
       IN /\ pt' = FilteredTree(SelectSeq(AllMocks, InTest))
          /\ ss' = Listed(SelectSeq(AllMocks, Reusable) \o SelectSeq(AllMocks, Promoted))
    /\ UNCHANGED <<session, ledger, conn, answers>>

Call(c) == session.run[Min(Pending(c))]

(* matchCommand up to the point where the mock is chosen.                  *)
MatchCommand(c) ==
    /\ conn[c].st = "ready" /\ Pending(c) # {}
    /\ LET e == Matched(Call(c))
           how == IF e # NoEntry THEN "mock" ELSE IF Synthesized(Call(c)) THEN "made" ELSE "miss"
       IN conn' = [conn EXCEPT ![c].pick = [entry |-> e, how |-> how], ![c].st = "chosen"]
    /\ UNCHANGED <<session, win, pt, ss, ledger, answers>>

(* The per-test tree is asked for the SortOrder and ID of the mock, which  *)
(* a promoted mock can share with another one; the session tree falls back *)
(* on the ID alone.                                                        *)
SameKey(x, e) == x.id = e.id /\ x.moved = e.moved /\ (e.moved => x.m = e.m)
CanDelete(e) == Lifetime(e.m) = "test" /\ \E x \in Range(pt) : SameKey(x, e)
CanUpdate(e) ==
    IF win = 0 THEN Lifetime(e.m) = "test" => SelectSeq(AllMocks, Reusable) # <<>>
    ELSE \E x \in Range(ss) : x.id = e.id

Report(m, how) == ledger' = Append(SelectSeq(ledger, LAMBDA r : r.m # m), [m |-> m, how |-> how])

(* updateMock: DeleteFilteredMock, or else UpdateUnFilteredMock, which     *)
(* does not reach the startup tree.                                        *)
UpdateMock(e) ==
    \/ /\ CanDelete(e)
       /\ pt' = SelectSeq(pt, LAMBDA x : ~SameKey(x, e)) /\ Report(e.m, "deleted")
       /\ UNCHANGED ss
    \/ /\ ~CanDelete(e) /\ CanUpdate(e)
       /\ ss' = IF win = 0 THEN ss
                ELSE Append(SelectSeq(ss, LAMBDA x : x.id # e.id), Entry(e.m, e.id, TRUE))
       /\ Report(e.m, "updated")
       /\ UNCHANGED pt

Advance(c, i) ==
    LET call == session.run[i]
    IN [conn EXCEPT ![c] = [stmts |-> CASE call.k = "PREP" -> @.stmts \union {call.q}
                                        [] call.k = "CLOSE" -> @.stmts \ {call.q}
                                        [] OTHER -> @.stmts,
                            pick |-> NoPick, st |-> "ready", done |-> @.done \union {i}]]

Usable(e) == CanDelete(e) \/ CanUpdate(e)

(* Streamed data is acknowledged whether or not its mock could be updated. *)
Serve(c) ==
    /\ conn[c].st = "chosen" /\ conn[c].pick.how # "miss"
    /\ LET i == Min(Pending(c))
           e == conn[c].pick.entry
       IN /\ conn[c].pick.how = "mock" => Usable(e) \/ Call(c).k = "DATA"
          /\ answers' = answers \union {<<i, e.m>>}
          /\ conn' = Advance(c, i)
          /\ IF conn[c].pick.how = "mock" /\ Usable(e) THEN UpdateMock(e) ELSE UNCHANGED <<pt, ss, ledger>>
    /\ UNCHANGED <<session, win>>

(* A miss, or a mock neither tree knows any more: the connection closes.   *)
CloseConnection(c) ==
    /\ conn[c].st = "chosen"
    /\ \/ conn[c].pick.how = "miss"
       \/ conn[c].pick.how = "mock" /\ ~Usable(conn[c].pick.entry) /\ Call(c).k # "DATA"
    /\ conn' = [conn EXCEPT ![c].st = "closed", ![c].pick = NoPick, ![c].stmts = {}]
    /\ UNCHANGED <<session, win, pt, ss, ledger, answers>>

Done ==
    /\ \A c \in Conns : conn[c].st = "closed" \/ Pending(c) = {}
    /\ ~\E w \in Windows : w > win
    /\ UNCHANGED vars

Next ==
    \/ NextWindow \/ Done
    \/ \E c \in Conns : MatchCommand(c) \/ Serve(c) \/ CloseConnection(c)

Spec == Init /\ [][Next]_vars

-----------------------------------------------------------------------------
Reads == {"QUERY", "EXEC"}
Key(x) == <<x.k, x.q, x.p>>

(* Inside a test window a command the recording knows is answered with a   *)
(* response recorded in that very test for the same text and parameters,   *)
(* on whatever connection, however connections interleave, and whether the *)
(* mocks are consumed or only rotated.                                     *)
OwnAnswer ==
    \A a \in answers :
        LET call == session.run[a[1]]
        IN (call.k \in Reads /\ call.w > 0
              /\ \E m \in DOMAIN session.rec : Key(session.rec[m]) = Key(call)
                                               /\ session.rec[m].w = call.w)
           => /\ a[2] # 0
              /\ Key(session.rec[a[2]]) = Key(call)
              /\ session.rec[a[2]].w = call.w

(* Repeating a command within a test walks through its recorded responses  *)
(* in the order they were recorded.                                        *)
RecordedOrder ==
    \A a, b \in answers :
        LET x == session.run[a[1]]
            y == session.run[b[1]]
        IN (x.k \in Reads /\ Key(x) = Key(y)
              /\ x.w = y.w /\ x.w > 0 /\ x.c = y.c /\ a[1] < b[1] /\ a[2] > 0
              /\ Cardinality({m \in DOMAIN session.rec : Key(session.rec[m]) = Key(x)
                                                         /\ session.rec[m].w = x.w})
                 >= Cardinality({i \in Calls : Key(session.run[i]) = Key(x)
                                               /\ session.run[i].w = x.w}))
           => a[2] < b[2]
=============================================================================

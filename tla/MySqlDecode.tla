---------------------------- MODULE MySqlDecode ----------------------------
(***************************************************************************)
(* How the command phase of one recorded MySQL connection becomes mocks.   *)
(* Two recorders read the same dialogue.  The legacy one                   *)
(* (recorder/query.go) relays chunks itself and feeds a background decoder *)
(* through a bounded channel that drops when it is full; the second        *)
(* generation (recorder/record_v2.go) pulls packets from the two tee'd     *)
(* streams.  Both decode with wire.DecodePayload, whose result depends on  *)
(* the operation it decoded last, so one packet missed can change what the *)
(* next one means.                                                         *)
(*                                                                         *)
(* A packet is one of a few shapes, named for what its first byte says.    *)
(* A session is a script of commands; dialogue is the sequence of packets  *)
(* the client and the server exchange for it.                              *)
(***************************************************************************)
EXTENDS Integers, Sequences, FiniteSets, SequencesExt

CONSTANTS Sessions,     \* [script, deof, drops, cancel]: commands, CLIENT_DEPRECATE_EOF, faults
          BuffCap,      \* capacity of clientBuffChan / destBuffChan
          DecodeCap     \* capacity of decodeChan

VARIABLES session,      \* one of Sessions with its dialogue
          rd,           \* packets the two readRelay goroutines have read
          fw,           \* packets the main loop has taken from the channels
          reader,       \* [c, s]: "reading" or "exited"
          errs,         \* errors queued in errChan
          cancelled,    \* the parent context is done
          main,         \* program counter of handleClientQueries
          tail,         \* packets read when the cleanup began
          chan,         \* decodeChan: positions in the dialogue
          missed,       \* positions the decoder was never given
          d,            \* state of asyncMySQLDecode
          v             \* state of handleCommandsV2

relay == <<rd, fw, reader, errs, cancelled, main, tail, chan, missed>>
vars == <<session, relay, d, v>>

-----------------------------------------------------------------------------
(* The dialogue of a script (external: the MySQL protocol).                *)

Client(p) == [from |-> "c", p |-> p]
Server(p) == [from |-> "s", p |-> p]

Eof(deof) == IF deof THEN <<>> ELSE <<Server("EOF")>>

ResultSet(deof) ==
    <<Server("RS"), Server("COL")>> \o Eof(deof)
        \o <<Server("ROW"), Server(IF deof THEN "TERM" ELSE "EOF")>>

Exchange(k, deof) ==
    CASE k = "QUERY" -> <<Client("QUERY")>> \o ResultSet(deof)
      [] k = "EXEC" -> <<Client("EXEC")>> \o ResultSet(deof)
      [] k = "PREP" -> <<Client("PREP"), Server("PREPOK"), Server("COL")>>
                         \o Eof(deof) \o <<Server("COL")>> \o Eof(deof)
      [] k = "PING" -> <<Client("PING"), Server("OK")>>
      [] k = "BAD" -> <<Client("QUERY"), Server("ERR")>>
      [] k = "CLOSE" -> <<Client("CLOSE")>>
      [] k = "CALL" -> <<Client("QUERY")>> \o ResultSet(deof) \o <<Server("OK")>>

Dialogue(s) ==
    LET one(n) == LET x == Exchange(s.script[n], s.deof)
                  IN [i \in DOMAIN x |-> [from |-> x[i].from, p |-> x[i].p, n |-> n]]
    IN FlattenSeq([n \in DOMAIN s.script |-> one(n)])

dialogue == session.dialogue
Of(side) == SelectSeq(dialogue, LAMBDA x : x.from = side)
CommandOf(k) == Exchange(k, FALSE)[1].p

-----------------------------------------------------------------------------
(* wire.DecodePayload in record mode: what a packet is taken for, and the  *)
(* LastOp it leaves behind.                                                *)

Decoded(t, op) == [t |-> t, op |-> op]

HandleQueryStmtResponse(op, p) ==
    CASE p \in {"OK", "PREPOK"} -> Decoded("OK", "RESET")
      [] p = "ERR" -> Decoded("ERR", "RESET")
      [] p \in {"EOF", "TERM"} -> Decoded("EOF", "RESET")
      [] OTHER -> Decoded(IF op = "EXEC" THEN "Binary" ELSE "Text", op)

(* An EXECUTE is decoded with the parameter list of its statement; the     *)
(* statements known are the ones whose PREPARE_OK has been decoded.        *)
DecodePacket(op, p, stmts) ==
    CASE p = "OK" -> IF op = "PREP" THEN Decoded("error", op) ELSE Decoded("OK", "OK")
      [] p = "PREPOK" -> IF op = "PREP" THEN Decoded("PREPOK", op) ELSE Decoded("OK", "OK")
      [] p = "RS" -> Decoded("QUIT", "QUIT")
      [] p = "COL" -> Decoded("QUERY", "QUERY")
      [] p \in {"ROW", "TERM"} -> Decoded("AUTH", "AUTH")
      [] p = "EXEC" -> IF stmts THEN Decoded(p, p) ELSE Decoded("error", op)
      [] OTHER -> Decoded(p, p)

DecodePayload(op, p, stmts) ==
    IF op \in {"QUERY", "EXEC"} THEN HandleQueryStmtResponse(op, p)
                                ELSE DecodePacket(op, p, stmts)

IsNoResponseCommand(t) == t = "CLOSE"
IsCommandPacket(t) == t \in {"QUERY", "EXEC", "PREP", "PING", "CLOSE", "QUIT"}

(* Column count a packet announces when it is read as a result set header: *)
(* its first byte.  A column definition begins with the length of "def".   *)
ColumnCount(p) == IF p = "COL" THEN 3 ELSE 1

NoPkt == [n |-> 0, t |-> "nil", end |-> "none"]
Pkt(n, t, end) == [n |-> n, t |-> t, end |-> end]
Mock(cmd, resp) == [req |-> cmd.n, op |-> cmd.t, resp |-> resp.n, end |-> resp.end]

Fresh == [st |-> "Command", cmd |-> NoPkt, resp |-> NoPkt, cols |-> 0,
          op |-> "RESET", last |-> "OK", stmts |-> FALSE, dead |-> FALSE,
          out |-> {}, cp |-> 0, sp |-> 0]

(* rowscols.DecodeColumn accepts a column definition; on a shorter packet  *)
(* it returns an error or runs off the end of the slice.                   *)
ColumnOutcomes(p) == IF p = "COL" THEN {"ok"} ELSE {"error", "panic"}

-----------------------------------------------------------------------------
(* asyncMySQLDecode, one packet at a time.                                 *)

CloseIncompleteResultSet(x) ==
    IF x.st \in {"Rows", "EofCols", "Cols"} /\ x.resp.end = "part"
    THEN [x.resp EXCEPT !.end = "closed"]
    ELSE x.resp

FlushMock(x) ==
    IF NoPkt \in {x.cmd, x.resp} THEN x
    ELSE [x EXCEPT !.out = @ \union {Mock(x.cmd, CloseIncompleteResultSet(x))},
                   !.cmd = NoPkt, !.resp = NoPkt, !.st = "Command"]

ClientPacket(x, k) ==
    LET y == IF x.st # "Command" /\ x.cmd # NoPkt THEN FlushMock(x) ELSE x
        r == DecodePayload(y.last, k.p, y.stmts)
        z == [y EXCEPT !.last = r.op]
    IN CASE r.t = "error" -> [z EXCEPT !.st = "Command", !.cmd = NoPkt]
         [] IsNoResponseCommand(r.t) ->
                [z EXCEPT !.out = @ \union {Mock(Pkt(k.n, r.t, "whole"), NoPkt)},
                          !.cmd = NoPkt, !.resp = NoPkt, !.st = "Command"]
         [] OTHER -> [z EXCEPT !.cmd = Pkt(k.n, r.t, "whole"), !.op = r.op,
                               !.st = "Response"]

Heads(x, r) == \/ x.op = "QUERY" /\ r.t = "Text"
               \/ x.op = "EXEC" /\ r.t = "Binary"

ProcessFirstResponse(x, k) ==
    LET r == DecodePayload(x.last, k.p, x.stmts)
        y == [x EXCEPT !.last = r.op, !.stmts = @ \/ r.t = "PREPOK"]
        done == [y EXCEPT !.resp = Pkt(k.n, r.t, "whole"), !.st = "Command"]
        more(st) == [y EXCEPT !.resp = Pkt(k.n, r.t, "part"), !.st = st,
                              !.cols = ColumnCount(k.p)]
    IN CASE r.t = "error" -> FlushMock([y EXCEPT !.st = "Command"])
         [] IsCommandPacket(r.t) -> FlushMock([done EXCEPT !.last = "RESET"])
         [] Heads(x, r) -> more("Cols")
         [] x.op = "PREP" /\ r.t = "PREPOK" -> more("Params")
         [] OTHER -> FlushMock(done)

(* What a column definition that does not decode does to the decoder.      *)
BadColumn(x, o) == IF o = "panic" THEN [x EXCEPT !.dead = TRUE]
                                  ELSE [x EXCEPT !.st = "Command"]

ExpectColumns(x, o) ==
    IF o # "ok" THEN BadColumn(x, o)
    ELSE [x EXCEPT !.cols = @ - 1,
                   !.st = IF x.cols > 1 THEN @
                          ELSE IF session.deof THEN "Rows" ELSE "EofCols"]

ExpectRows(x, k) ==
    IF k.p = "EOF" \/ (session.deof /\ k.p = "TERM")
    THEN FlushMock([x EXCEPT !.last = "RESET", !.resp.end = "whole"])
    ELSE x

Prepared(x) == FlushMock([x EXCEPT !.last = "OK", !.resp.end = "whole"])

ExpectStmtParams(x, o) ==
    IF o # "ok" THEN BadColumn(x, o)
    ELSE [x EXCEPT !.st = IF session.deof THEN "StmtCols" ELSE "EofParams"]

ExpectStmtColumns(x, o) ==
    CASE o # "ok" -> BadColumn(x, o)
      [] session.deof -> Prepared(x)
      [] OTHER -> [x EXCEPT !.st = "EofStmtCols"]

ServerPacket(x, k, o) ==
    CASE x.st = "Command" -> x
      [] x.st = "Response" -> ProcessFirstResponse(x, k)
      [] x.st = "Cols" -> ExpectColumns(x, o)
      [] x.st = "EofCols" -> [x EXCEPT !.st = "Rows"]
      [] x.st = "Rows" -> ExpectRows(x, k)
      [] x.st = "Params" -> ExpectStmtParams(x, o)
      [] x.st = "EofParams" -> [x EXCEPT !.st = "StmtCols"]
      [] x.st = "StmtCols" -> ExpectStmtColumns(x, o)
      [] x.st = "EofStmtCols" -> Prepared(x)

-----------------------------------------------------------------------------
(* handleCommandsV2 / collectResponseV2: the parser reads a client packet  *)
(* when it wants a command and a server packet when it wants a response.   *)

EmitV2(x, resp) ==
    [x EXCEPT !.out = @ \union {Mock(x.cmd, resp)}, !.cmd = NoPkt, !.resp = NoPkt,
              !.st = "Command"]

CommandV2(x, k) ==
    LET r == DecodePayload(x.last, k.p, x.stmts)
        y == [x EXCEPT !.last = r.op, !.op = r.op, !.cmd = Pkt(k.n, r.t, "whole")]
    IN CASE r.t = "error" -> [x EXCEPT !.last = "RESET"]
         [] IsNoResponseCommand(r.t) -> EmitV2(y, NoPkt)
         [] OTHER -> [y EXCEPT !.st = "Response"]

CollectResponseV2(x, k) ==
    LET r == DecodePayload(x.last, k.p, x.stmts)
        y == [x EXCEPT !.last = r.op, !.stmts = @ \/ r.t = "PREPOK"]
        more(st) == [y EXCEPT !.resp = Pkt(k.n, r.t, "part"), !.st = st,
                              !.cols = ColumnCount(k.p)]
    IN CASE r.t = "error" -> [y EXCEPT !.cmd = NoPkt, !.st = "Command"]
         [] Heads(x, r) -> more("Cols")
         [] x.op = "PREP" /\ r.t = "PREPOK" -> more("Params")
         [] OTHER -> EmitV2(y, Pkt(k.n, r.t, "whole"))

(* A column that does not decode, or panics, ends the parser.              *)
AssembleResultSetV2(x, k, o) ==
    CASE x.st = "Cols" /\ o # "ok" -> [x EXCEPT !.dead = TRUE]
      [] x.st = "Cols" -> ExpectColumns(x, o)
      [] x.st = "EofCols" -> [x EXCEPT !.st = "Rows"]
      [] k.p = "EOF" \/ (session.deof /\ k.p = "TERM") ->
             EmitV2([x EXCEPT !.last = "RESET"], [x.resp EXCEPT !.end = "whole"])
      [] OTHER -> x

AssembleStmtPrepareV2(x, o) ==
    LET done == EmitV2([x EXCEPT !.last = "OK"], [x.resp EXCEPT !.end = "whole"])
    IN CASE x.st \in {"Params", "StmtCols"} /\ o # "ok" -> [x EXCEPT !.dead = TRUE]
         [] x.st = "Params" -> ExpectStmtParams(x, o)
         [] x.st = "EofParams" -> [x EXCEPT !.st = "StmtCols"]
         [] x.st = "StmtCols" /\ ~session.deof -> [x EXCEPT !.st = "EofStmtCols"]
         [] OTHER -> done

ResponseV2(x, k, o) ==
    CASE x.st = "Response" -> CollectResponseV2(x, k)
      [] x.st \in {"Cols", "EofCols", "Rows"} -> AssembleResultSetV2(x, k, o)
      [] OTHER -> AssembleStmtPrepareV2(x, o)

-----------------------------------------------------------------------------
Init ==
    /\ session \in {[script |-> s.script, deof |-> s.deof, drops |-> s.drops, cancel |-> s.cancel,
                    dialogue |-> Dialogue(s)] : s \in Sessions}
    /\ rd = 0 /\ fw = 0 /\ errs = 0 /\ tail = 0
    /\ reader = [side \in {"c", "s"} |-> "reading"]
    /\ cancelled = FALSE
    /\ main = "loop"
    /\ chan = <<>> /\ missed = {}
    /\ d = Fresh /\ v = Fresh

(* readRelay.  The peers speak in turn, so packets in flight at one time   *)
(* come from one side (external); a reader that sees the context done      *)
(* leaves after the chunk it was blocked on.                               *)
Read ==
    /\ rd < Len(dialogue) /\ main # "done"
    /\ LET side == dialogue[rd + 1].from
       IN /\ reader[side] = "reading"
          /\ rd > fw => dialogue[rd].from = side
          /\ rd - fw < BuffCap
          /\ rd' = rd + 1
          /\ reader' = [reader EXCEPT ![side] = IF cancelled THEN "exited" ELSE @]
    /\ UNCHANGED <<session, fw, errs, cancelled, main, tail, chan, missed, d, v>>

ReaderLeaves(side) ==
    /\ cancelled /\ reader[side] = "reading"
    /\ reader' = [reader EXCEPT ![side] = "exited"]
    /\ UNCHANGED <<session, rd, fw, errs, cancelled, main, tail, chan, missed, d, v>>

(* The peer hangs up (or a panic closed the socket): conn.Read fails.      *)
ReadFails(side) ==
    /\ reader[side] = "reading"
    /\ (rd = Len(dialogue) /\ fw = rd) \/ d.dead
    /\ reader' = [reader EXCEPT ![side] = "exited"]
    /\ errs' = IF cancelled THEN errs ELSE errs + 1
    /\ UNCHANGED <<session, rd, fw, cancelled, main, tail, chan, missed, d, v>>

Cancel ==
    /\ session.cancel /\ ~cancelled
    /\ cancelled' = TRUE
    /\ UNCHANGED <<session, rd, fw, reader, errs, main, tail, chan, missed, d, v>>

Cleanup(why) ==
    /\ main = "loop"
    /\ main' = "drain"
    /\ tail' = rd

CtxDone ==
    /\ cancelled /\ Cleanup("ctx")
    /\ UNCHANGED <<session, rd, fw, reader, errs, cancelled, chan, missed, d, v>>

ErrChan ==
    /\ errs > 0 /\ Cleanup("err")
    /\ errs' = errs - 1
    /\ UNCHANGED <<session, rd, fw, reader, cancelled, chan, missed, d, v>>

(* The packet is handed to the decoder unless decodeChan is full.          *)
Offer(i) ==
    \/ /\ Len(chan) < DecodeCap
       /\ chan' = Append(chan, i) /\ UNCHANGED missed
    \/ /\ Len(chan) >= DecodeCap
       /\ d.dead \/ Cardinality(missed) < session.drops
       /\ missed' = missed \union {i} /\ UNCHANGED chan

Forward ==
    /\ main = "loop" /\ fw < rd /\ ~d.dead
    /\ fw' = fw + 1 /\ Offer(fw + 1)
    /\ UNCHANGED <<session, rd, reader, errs, cancelled, main, tail, d, v>>

(* A write to a closed peer fails: the packet is not decoded.              *)
WriteFails ==
    /\ main = "loop" /\ fw < rd /\ d.dead
    /\ fw' = fw + 1 /\ missed' = missed \union {fw + 1} /\ Cleanup("write")
    /\ UNCHANGED <<session, rd, reader, errs, cancelled, chan, d, v>>

DrainForward ==
    /\ main \in {"drain", "sweep"} /\ fw < rd
    /\ fw' = fw + 1 /\ Offer(fw + 1)
    /\ UNCHANGED <<session, rd, reader, errs, cancelled, main, tail, d, v>>

DrainEndsAtOnce ==   \* mutant: cleanup closes decodeChan without draining
    /\ main \in {"drain", "sweep"}
    /\ main' = "closed"
    /\ UNCHANGED <<session, rd, fw, reader, errs, cancelled, tail, chan, missed, d, v>>

DrainEnds ==
    /\ \/ main = "drain" /\ reader = [side \in {"c", "s"} |-> "exited"]
       \/ main = "sweep"
    /\ fw = rd
    /\ main' = "closed"
    /\ UNCHANGED <<session, rd, fw, reader, errs, cancelled, tail, chan, missed, d, v>>

Deadline ==
    /\ main = "drain" /\ main' = "sweep"
    /\ UNCHANGED <<session, rd, fw, reader, errs, cancelled, tail, chan, missed, d, v>>

Decode ==
    /\ chan # <<>> /\ ~d.dead
    /\ LET k == dialogue[Head(chan)]
       IN IF k.from = "c" THEN d' = ClientPacket(d, k)
          ELSE \E o \in ColumnOutcomes(k.p) : d' = ServerPacket(d, k, o)
    /\ chan' = Tail(chan)
    /\ UNCHANGED <<session, rd, fw, reader, errs, cancelled, main, tail, missed, v>>

DecodeDone ==
    /\ main = "closed" /\ (chan = <<>> \/ d.dead)
    /\ d' = IF d.dead THEN d ELSE FlushMock(d)
    /\ main' = "done" /\ chan' = <<>>
    /\ UNCHANGED <<session, rd, fw, reader, errs, cancelled, tail, missed, v>>

(* The second-generation parser over the same dialogue.  The two recorders *)
(* never run on one connection; running them in turn compares them.        *)
V2Step ==
    /\ main = "done" /\ ~v.dead /\ session.drops = 0 /\ ~session.cancel
    /\ \/ /\ v.st = "Command" /\ v.cp < Len(Of("c"))
          /\ v' = [CommandV2(v, Of("c")[v.cp + 1]) EXCEPT !.cp = @ + 1]
       \/ /\ v.st # "Command" /\ v.sp < Len(Of("s"))
          /\ LET k == Of("s")[v.sp + 1]
             IN \E o \in ColumnOutcomes(k.p) : v' = [ResponseV2(v, k, o) EXCEPT !.sp = @ + 1]
    /\ UNCHANGED <<session, relay, d>>

Done == main = "done" /\ ~ENABLED V2Step /\ UNCHANGED vars

Next ==
    \/ Read \/ Cancel \/ CtxDone \/ ErrChan
    \/ \E side \in {"c", "s"} : ReaderLeaves(side) \/ ReadFails(side)
    \/ Forward \/ WriteFails \/ DrainForward \/ DrainEnds \/ Deadline
    \/ Decode \/ DecodeDone \/ V2Step \/ Done

Spec == Init /\ [][Next]_vars

-----------------------------------------------------------------------------
Commands == DOMAIN session.script
Silent(n) == session.script[n] = "CLOSE"
Right(n) == [req |-> n, op |-> CommandOf(session.script[n]),
             resp |-> IF Silent(n) THEN 0 ELSE n,
             end |-> IF Silent(n) THEN "none" ELSE "whole"]
(* An EXECUTE of a statement prepared before the recording cannot be       *)
(* decoded.                                                                *)
Known(n) == session.script[n] = "EXEC" => \E m \in 1 .. n - 1 : session.script[m] = "PREP"
Positions(n) == {i \in DOMAIN dialogue : dialogue[i].n = n}

(* A command the relay had read, with its whole response, when it began to *)
(* clean up is recorded with that response, however the cancellation, the  *)
(* two readers and the decoder interleave: cleanup drains the channels,    *)
(* closes decodeChan and waits, and the decoder's context is detached.     *)
TailKept ==
    (main = "done" /\ missed = {}) =>
        \A n \in Commands :
            Known(n) /\ (\A i \in Positions(n) : i <= tail) => Right(n) \in d.out

(* A packet the decoder never saw spoils the command it belongs to and the *)
(* next command that has an answer, whose first byte is read as a result   *)
(* set header because LastOp still says a query is open.  Everything       *)
(* before, and everything after, is recorded right, unless it executes a   *)
(* statement whose PREPARE was spoiled or the decoder panicked.            *)
Resyncs ==
    (main = "done" /\ Cardinality(missed) = 1 /\ ~d.dead /\ ~cancelled) =>
        LET f == dialogue[CHOOSE i \in missed : TRUE].n
            later == {n \in Commands : n > f /\ ~Silent(n)}
            g == IF later = {} THEN Len(session.script)
                 ELSE CHOOSE n \in later : \A m \in later : n <= m
            exempt(n) == session.script[n] = "EXEC"
                            /\ \E m \in f .. g : session.script[m] = "PREP"
        IN \A n \in Commands : (n < f \/ n > g) /\ Known(n) /\ ~exempt(n) => Right(n) \in d.out

(* A procedure call whose result set is followed by an OK.                 *)
Calls == {n \in Commands : session.script[n] = "CALL"}

(* Up to the first procedure call of a dialogue, and for the call itself,  *)
(* the second-generation recorder produces the mocks the legacy one does.  *)
(* The OK that follows the call's result set separates them: the legacy    *)
(* decoder, which is fed every packet, drops it, and handleCommandsV2      *)
(* leaves it in the stream, where it is read as the answer to the next     *)
(* command.                                                                *)
PathsAgree ==
    (main = "done" /\ session.drops = 0 /\ ~session.cancel /\ v.cp = Len(Of("c"))
        /\ v.st = "Command") =>
        LET same == {n \in Commands : \A c \in Calls : n <= c}
            upTo(out) == {m \in out : m.req \in same}
        IN upTo(v.out) = upTo(d.out)
=============================================================================

------------------------------ MODULE GobWriter ------------------------------
(***************************************************************************)
(* The asynchronous writer of mocks.gob (pkg/platform/yaml/mockdb/db.go)    *)
(* under the recorder that uses it (pkg/service/record/record.go): the      *)
(* insert goroutine of a recording session hands mocks to a bounded queue,  *)
(* one writer goroutine encodes them into a buffered file, a full queue     *)
(* falls back to a synchronous write, and Close drains the queue, flushes   *)
(* the file and reports what went wrong.  Sessions follow each other on the *)
(* same MockYaml, each with a test set, and so a file, of its own.          *)
(*                                                                         *)
(* gobLifecycleMu is held from the beginning of InsertMock to its end and   *)
(* over the whole of Close; gobMu makes one write of the file atomic.  The  *)
(* order of the mocks in a file is not observed, so a file is the set of    *)
(* its entries, each with the encoder that wrote it.                        *)
(***************************************************************************)
EXTENDS Integers, FiniteSets, Sequences

CONSTANTS
  NumSessions,   \* recording sessions on the same MockYaml
  MocksOf,       \* mocks the insert goroutine of each session handles
  QueueCap,      \* capacity of gobQueue (4096 in the code)
  MaxFaults,     \* failed opens, writes and flushes of the file system
  Overruns       \* sessions whose drain may give up on the insert goroutine

ASSUME GobAssumption ==
  /\ NumSessions \in Nat /\ MocksOf \in Nat /\ MaxFaults \in Nat
  /\ QueueCap \in Nat \ {0}
  /\ Overruns \subseteq 1..NumSessions

Sessions == 1..NumSessions
Mocks == Sessions \X (1..MocksOf)
Closed == 0                          \* gobFile = nil

VARIABLES
  phase,       \* per session: "idle", "recording", "closing", "closed"
  cancelled,   \* sessions whose context is done
  overran,     \* sessions that were closed while their goroutine still ran
  ins,         \* per session, its insert goroutine: "idle", "calling", "sync", "ended"
  next,        \* per session, the number of the mock being or next inserted
  accepted,    \* mocks for which InsertMock returned nil
  closeErr,    \* sessions whose Close returned an error
  running,     \* gobRunning
  stopClosed,  \* gobStopClosed: gobStop is closed
  queue,       \* gobQueue
  writer,      \* the writer goroutine: "none", "loop", "write", "drain", "drainWrite", "exited"
  job,         \* the job it has taken from the queue
  flushErr,    \* gobFlushErr # nil
  out          \* the output file, see Files

vars == <<phase, cancelled, overran, ins, next, accepted, closeErr,
          running, stopClosed, queue, writer, job, flushErr, out>>

(***************************************************************************)
(* The file.  "open" is the session whose file is open, "buf" the entries   *)
(* in the bufio.Writer, "disk" those of each file, "broken" the sticky      *)
(* error of the bufio.Writer, "enc" the number of the current encoder and   *)
(* "faults" the file-system errors still to come.  Each operator gives the  *)
(* set of possible outcomes, a new file and whether an error is returned.   *)
(***************************************************************************)
Files == [open : Sessions \cup {Closed}, buf : SUBSET (Nat \X Mocks),
          disk : [Sessions -> SUBSET (Nat \X Mocks)], broken : BOOLEAN,
          enc : Nat, faults : 0..MaxFaults]

Outcome(f, e) == [file |-> f, err |-> e]

\* bufio.Writer.Flush: a failed write leaves some of the buffer on the disk
\* and makes every later operation fail.
Flush(f) ==
  IF f.broken THEN {Outcome(f, TRUE)}
  ELSE {Outcome([f EXCEPT !.disk[f.open] = @ \cup f.buf, !.buf = {}], FALSE)}
       \cup {Outcome([f EXCEPT !.disk[f.open] = @ \cup part, !.broken = TRUE,
                               !.faults = @ - 1], TRUE) :
               part \in IF f.faults > 0 THEN SUBSET f.buf ELSE {}}

Dropped(f) == [f EXCEPT !.open = Closed, !.buf = {}, !.broken = FALSE]

\* The mutant does not truncate the file it opens.
OpenAppending(f, s) ==
  {Outcome([f EXCEPT !.open = s, !.enc = @ + 1], FALSE)}
  \cup {Outcome([f EXCEPT !.faults = @ - 1], TRUE) :
          e \in IF f.faults > 0 THEN {1} ELSE {}}

\* MkdirAll and OpenFile with O_TRUNC, then the magic header and a new encoder.
OpenTruncating(f, s) ==
  {Outcome([f EXCEPT !.open = s, !.disk[s] = {}, !.enc = @ + 1], FALSE)}
  \cup {Outcome([f EXCEPT !.faults = @ - 1], TRUE) :
          e \in IF f.faults > 0 THEN {1} ELSE {}}

\* gobReopenLocked: the errors of flushing and closing the old file are ignored.
GobReopen(f, s) ==
  UNION {OpenTruncating(Dropped(o.file), s) :
           o \in IF f.open = Closed THEN {Outcome(f, FALSE)} ELSE Flush(f)}

\* gob.Encoder.Encode into the bufio.Writer, which may write out what it holds.
Encode(f, m) ==
  LET put(g) == [g EXCEPT !.buf = @ \cup {<<g.enc, m>>}]
  IN {Outcome(IF o.err THEN o.file ELSE put(o.file), o.err) :
        o \in Flush(f) \cup {Outcome(f, f.broken)}}

GobWriteOne(f, m) ==
  LET opened == IF f.open = m[1] THEN {Outcome(f, FALSE)} ELSE GobReopen(f, m[1])
  IN UNION {IF o.err THEN {o} ELSE Encode(o.file, m) : o \in opened}

\* gobWriteSync: as the writer does, then flushed before it returns.
GobWriteSync(f, m) ==
  UNION {IF o.err THEN {o} ELSE Flush(o.file) : o \in GobWriteOne(f, m)}
-----------------------------------------------------------------------------
Init ==
  /\ phase = [s \in Sessions |-> "idle"]
  /\ cancelled = {} /\ overran = {}
  /\ ins = [s \in Sessions |-> "idle"]
  /\ next = [s \in Sessions |-> 1]
  /\ accepted = {} /\ closeErr = {}
  /\ running = FALSE /\ stopClosed = FALSE
  /\ queue = <<>> /\ writer = "none" /\ job = <<0, 0>>
  /\ flushErr = FALSE
  /\ out = [open |-> Closed, buf |-> {}, disk |-> [s \in Sessions |-> {}],
            broken |-> FALSE, enc |-> 0, faults |-> MaxFaults]

\* gobLifecycleMu is free: no Close and no synchronous write is in progress.
LifecycleFree == \A s \in Sessions : phase[s] # "closing" /\ ins[s] # "sync"
-----------------------------------------------------------------------------
(***************************************************************************)
(* The recorder: Start, its insert goroutine, and the registered cleanup.   *)
(***************************************************************************)
StartSession(s) ==
  /\ phase[s] = "idle"
  /\ s > 1 => phase[s - 1] = "closed"
  /\ phase' = [phase EXCEPT ![s] = "recording"]
  /\ UNCHANGED <<cancelled, overran, ins, next, accepted, closeErr, running,
                 stopClosed, queue, writer, job, flushErr, out>>

CancelContext(s) ==
  /\ phase[s] = "recording" /\ s \notin cancelled
  /\ cancelled' = cancelled \cup {s}
  /\ UNCHANGED <<phase, overran, ins, next, accepted, closeErr, running,
                 stopClosed, queue, writer, job, flushErr, out>>

\* A mock arrives on frames.Outgoing and the goroutine calls InsertMock.
CallInsert(s) ==
  /\ phase[s] # "idle" /\ ins[s] = "idle" /\ next[s] <= MocksOf
  /\ ins' = [ins EXCEPT ![s] = "calling"]
  /\ UNCHANGED <<phase, cancelled, overran, next, accepted, closeErr, running,
                 stopClosed, queue, writer, job, flushErr, out>>

\* frames.Outgoing is closed.
EndInserts(s) ==
  /\ phase[s] # "idle" /\ ins[s] = "idle"
  /\ ins' = [ins EXCEPT ![s] = "ended"]
  /\ UNCHANGED <<phase, cancelled, overran, next, accepted, closeErr, running,
                 stopClosed, queue, writer, job, flushErr, out>>

\* InsertMock returns nil (ok) or an error, and the goroutine takes the next mock.
Return(s, ok) ==
  /\ ins' = [ins EXCEPT ![s] = "idle"]
  /\ next' = [next EXCEPT ![s] = @ + 1]
  /\ accepted' = IF ok THEN accepted \cup {<<s, next[s]>>} ELSE accepted
-----------------------------------------------------------------------------
(***************************************************************************)
(* insertMockGob.  Under gobLifecycleMu it is refused while a Close is      *)
(* unfinished, starts the writer if none runs, and selects: the queue, the  *)
(* context, or, when neither is ready, the synchronous write, during which  *)
(* the lock stays held.                                                     *)
(***************************************************************************)
InsertRefused(s) ==
  /\ stopClosed
  /\ Return(s, FALSE)
  /\ UNCHANGED <<running, queue, writer>>

StartWriter ==
  /\ running' = TRUE
  /\ writer' = IF running THEN writer ELSE "loop"

InsertQueued(s) ==
  /\ ~stopClosed
  /\ ~running \/ Len(queue) < QueueCap
  /\ StartWriter
  /\ queue' = Append(IF running THEN queue ELSE <<>>, <<s, next[s]>>)
  /\ Return(s, TRUE)

InsertCancelled(s) ==
  /\ ~stopClosed
  /\ s \in cancelled
  /\ StartWriter
  /\ queue' = IF running THEN queue ELSE <<>>
  /\ Return(s, FALSE)

InsertOverflows(s) ==
  /\ ~stopClosed
  /\ running /\ Len(queue) >= QueueCap /\ s \notin cancelled
  /\ ins' = [ins EXCEPT ![s] = "sync"]
  /\ UNCHANGED <<next, accepted, running, queue, writer>>

InsertMockGob(s) ==
  /\ ins[s] = "calling"
  /\ LifecycleFree
  /\ InsertRefused(s) \/ InsertQueued(s) \/ InsertCancelled(s) \/ InsertOverflows(s)
  /\ UNCHANGED <<phase, cancelled, overran, closeErr, stopClosed, job, flushErr, out>>

\* The mutant returns for a cancelled context without giving back the lock.
InsertSyncHolding(s) ==
  /\ ins[s] = "sync"
  /\ s \notin cancelled
  /\ \E o \in GobWriteSync(out, <<s, next[s]>>) : out' = o.file /\ Return(s, ~o.err)
  /\ UNCHANGED <<phase, cancelled, overran, closeErr, running, stopClosed,
                 queue, writer, job, flushErr>>

\* The synchronous fallback, which looks at the context once more.
InsertSync(s) ==
  /\ ins[s] = "sync"
  /\ \/ s \in cancelled /\ Return(s, FALSE) /\ UNCHANGED out
     \/ /\ s \notin cancelled
        /\ \E o \in GobWriteSync(out, <<s, next[s]>>) :
             out' = o.file /\ Return(s, ~o.err)
  /\ UNCHANGED <<phase, cancelled, overran, closeErr, running, stopClosed,
                 queue, writer, job, flushErr>>
-----------------------------------------------------------------------------
(***************************************************************************)
(* gobWriterLoop and drainAndClose.                                         *)
(***************************************************************************)
WriterTakes ==
  /\ writer \in {"loop", "drain"} /\ queue # <<>>
  /\ job' = Head(queue) /\ queue' = Tail(queue)
  /\ writer' = IF writer = "loop" THEN "write" ELSE "drainWrite"
  /\ UNCHANGED <<phase, cancelled, overran, ins, next, accepted, closeErr,
                 running, stopClosed, flushErr, out>>

\* A failed write is remembered for Close and the writer goes on.
WriterWrites ==
  /\ writer \in {"write", "drainWrite"}
  /\ \E o \in GobWriteOne(out, job) :
       out' = o.file /\ flushErr' = (flushErr \/ o.err)
  /\ writer' = IF writer = "write" THEN "loop" ELSE "drain"
  /\ UNCHANGED <<phase, cancelled, overran, ins, next, accepted, closeErr,
                 running, stopClosed, queue, job>>

\* The select takes gobStop, whether or not the queue has jobs left.
WriterStops ==
  /\ writer = "loop" /\ stopClosed
  /\ writer' = "drain"
  /\ UNCHANGED <<phase, cancelled, overran, ins, next, accepted, closeErr,
                 running, stopClosed, queue, job, flushErr, out>>

\* The mutant overwrites the errors of the session with that of the last flush.
FlushAndCloseForgets ==
  /\ writer = "drain" /\ queue = <<>>
  /\ \E o \in IF out.open = Closed THEN {Outcome(out, FALSE)} ELSE Flush(out) :
       /\ out' = Dropped(o.file)
       /\ flushErr' = o.err
  /\ writer' = "exited"
  /\ UNCHANGED <<phase, cancelled, overran, ins, next, accepted, closeErr,
                 running, stopClosed, queue, job>>

\* gobFlushAndClose, then gobDone is closed.
FlushAndClose ==
  /\ writer = "drain" /\ queue = <<>>
  /\ \E o \in IF out.open = Closed THEN {Outcome(out, FALSE)} ELSE Flush(out) :
       /\ out' = Dropped(o.file)
       /\ flushErr' = (flushErr \/ o.err)
  /\ writer' = "exited"
  /\ UNCHANGED <<phase, cancelled, overran, ins, next, accepted, closeErr,
                 running, stopClosed, queue, job>>
-----------------------------------------------------------------------------
(***************************************************************************)
(* Close, the cleanup that Start runs after its bounded drain of the insert *)
(* goroutine.                                                               *)
(***************************************************************************)
BeginClose(s) ==
  /\ phase[s] = "recording"
  /\ ins[s] = "ended" \/ s \in Overruns
  /\ LifecycleFree
  /\ overran' = IF ins[s] = "ended" THEN overran ELSE overran \cup {s}
  /\ phase' = [phase EXCEPT ![s] = IF running THEN "closing" ELSE "closed"]
  /\ stopClosed' = running
  /\ UNCHANGED <<cancelled, ins, next, accepted, closeErr, running, queue,
                 writer, job, flushErr, out>>

CloseDone(s) ==
  /\ phase[s] = "closing" /\ writer = "exited"
  /\ phase' = [phase EXCEPT ![s] = "closed"]
  /\ running' = FALSE /\ stopClosed' = FALSE
  /\ closeErr' = IF flushErr THEN closeErr \cup {s} ELSE closeErr
  /\ flushErr' = FALSE
  /\ UNCHANGED <<cancelled, overran, ins, next, accepted, queue, writer, job, out>>

\* After five seconds Close leaves the writer to finish; a later Close waits again.
CloseTimesOut(s) ==
  /\ phase[s] = "closing"
  /\ phase' = [phase EXCEPT ![s] = "closed"]
  /\ closeErr' = closeErr \cup {s}
  /\ UNCHANGED <<cancelled, overran, ins, next, accepted, running, stopClosed,
                 queue, writer, job, flushErr, out>>
-----------------------------------------------------------------------------
Inserter(s) == CallInsert(s) \/ EndInserts(s) \/ InsertMockGob(s) \/ InsertSync(s)
Closer(s) == BeginClose(s) \/ CloseDone(s) \/ CloseTimesOut(s)
Writer == WriterTakes \/ WriterWrites \/ WriterStops \/ FlushAndClose

Next ==
  \/ \E s \in Sessions : StartSession(s) \/ CancelContext(s) \/ Inserter(s) \/ Closer(s)
  \/ Writer

Spec == Init /\ [][Next]_vars

-----------------------------------------------------------------------------
\* Every variable keeps its type and the queue its capacity.
TypeOK ==
  /\ phase \in [Sessions -> {"idle", "recording", "closing", "closed"}]
  /\ cancelled \subseteq Sessions /\ overran \subseteq Overruns /\ closeErr \subseteq Sessions
  /\ ins \in [Sessions -> {"idle", "calling", "sync", "ended"}]
  /\ next \in [Sessions -> 1..(MocksOf + 1)]
  /\ accepted \subseteq Mocks
  /\ running \in BOOLEAN /\ stopClosed \in BOOLEAN /\ flushErr \in BOOLEAN
  /\ queue \in Seq(Mocks) /\ Len(queue) <= QueueCap
  /\ writer \in {"none", "loop", "write", "drain", "drainWrite", "exited"}
  /\ job \in Mocks \cup {<<0, 0>>}
  /\ out \in Files

\* A job that insertMockGob queued is taken by the writer that was running then:
\* no writer exits, and no Close resets gobRunning, with a job in the queue,
\* whatever the order of late inserts, timed-out Closes and stops.
QueueDrained == writer = "exited" \/ ~running => queue = <<>>

\* When Close returns nil, every mock for which InsertMock returned nil in that
\* session is in the session's file: what was lost to the file system, in the
\* writer, in its drain or in the last flush, was reported.  It is promised to a
\* recorder whose insert goroutines end before Close; one that outlives the
\* bounded drain makes the next write truncate a file that was already complete.
AcceptedIsDurable ==
  overran = {} =>
    \A s \in Sessions : phase[s] = "closed" /\ s \notin closeErr =>
      \A m \in accepted : m[1] = s => \E e \in out.disk[s] : e[2] = m

\* All that a file holds was written by one encoder, so that the single decoder of
\* readGobMocks can read it, even after failed opens, switches between the files
\* of two sessions and inserts that come after Close.
OneEncoderPerFile ==
  \A s \in Sessions :
    \A d, e \in out.disk[s] \cup (IF out.open = s THEN out.buf ELSE {}) : d[1] = e[1]

=============================================================================

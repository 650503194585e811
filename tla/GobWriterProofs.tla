--------------------------- MODULE GobWriterProofs ---------------------------
(***************************************************************************)
(* Proofs about the asynchronous gob writer, for any number of sessions,    *)
(* mocks and file-system errors and any capacity of the queue.              *)
(***************************************************************************)
EXTENDS GobWriter, TLAPS

-----------------------------------------------------------------------------
(***************************************************************************)
(* What the proofs need of every state.  A mock is pending from the moment  *)
(* it is queued until the writer has written it.  A session is live as long *)
(* as the writer may still hold mocks of it; Kept is what its file holds.   *)
(***************************************************************************)
Taken == writer \in {"write", "drainWrite"}
Pending(m) == (\E i \in 1..Len(queue) : queue[i] = m) \/ (Taken /\ job = m)
Live(s) == \/ phase[s] = "recording" /\ ~stopClosed
           \/ stopClosed /\ (phase[s] = "closing" \/ s \in closeErr)
Active(s) == phase[s] \in {"recording", "closing"}
Kept(f, s) == f.disk[s] \cup (IF f.open = s THEN f.buf ELSE {})

Types ==
  /\ phase \in [Sessions -> {"idle", "recording", "closing", "closed"}]
  /\ ins \in [Sessions -> {"idle", "calling", "sync", "ended"}]
  /\ next \in [Sessions -> Nat \ {0}]
  /\ \A s \in Sessions : ins[s] \in {"calling", "sync"} => next[s] \in 1..MocksOf
  /\ running \in BOOLEAN /\ stopClosed \in BOOLEAN /\ flushErr \in BOOLEAN
  /\ queue \in Seq(Mocks)
  /\ Taken => job \in Mocks
  /\ out \in Files

\* The life of the writer: one runs exactly between the first insert and the end
\* of Close, and after gobStop is closed nothing is queued.
LifeInv ==
  /\ stopClosed => running
  /\ ~running => queue = <<>> /\ writer \in {"none", "exited"}
  /\ running /\ ~stopClosed => writer \in {"loop", "write"}
  /\ running => writer # "none"
  /\ writer = "exited" => queue = <<>>

\* Who may hold gobLifecycleMu, and that at most one session is active.
LockInv ==
  /\ \A s \in Sessions : phase[s] = "closing" => stopClosed
  /\ \A s \in Sessions : ins[s] = "sync" => running /\ ~stopClosed
  /\ \A s, t \in Sessions : s < t /\ phase[t] # "idle" => phase[s] = "closed"
  /\ \A s \in Sessions : s \in closeErr => phase[s] = "closed"

FileInv ==
  /\ out.open = Closed => out.buf = {}
  /\ ~running \/ writer = "exited" => out.open = Closed

\* All that a file holds comes from one encoder, the current one if it is open.
EncInv(f) ==
  \A s \in Sessions :
    /\ \A d, e \in Kept(f, s) : d[1] = e[1]
    /\ f.open = s => \A e \in Kept(f, s) : e[1] = f.enc

\* While no session has outlived its drain: the writer only holds mocks of one
\* live session and writes to its file alone, and an active session whose file is
\* not open has written nothing.
OwnInv ==
  /\ \A s \in Sessions : /\ phase[s] = "idle" => ins[s] = "idle" /\ out.disk[s] = {}
                         /\ phase[s] \in {"closing", "closed"} => ins[s] = "ended"
  /\ out.open # Closed => Live(out.open)
  /\ \A m \in Mocks : Pending(m) => Live(m[1]) /\ out.open \in {Closed, m[1]}
  /\ \A m, n \in Mocks : Pending(m) /\ Pending(n) => m[1] = n[1]
  /\ \A s \in Sessions : Active(s) /\ out.open # s /\ (running => writer # "exited")
                           => out.disk[s] = {}

\* An accepted mock is in the file of its session, or its loss was reported by
\* Close, or it is on its way or its loss is remembered for Close.
Account(m) ==
  \/ \E e \in Kept(out, m[1]) : e[2] = m
  \/ m[1] \in closeErr
  \/ running /\ Active(m[1]) /\ (Pending(m) \/ flushErr)

AccountInv == accepted \subseteq Mocks /\ \A m \in accepted : Account(m)
-----------------------------------------------------------------------------
(***************************************************************************)
(* What the operations on the file do, stated once.                         *)
(***************************************************************************)
LEMMA Plain ==
  ASSUME NEW f, NEW e
  PROVE  Outcome(f, e).file = f /\ Outcome(f, e).err = e
BY Zenon DEF Outcome

LEMMA NoSession == Closed \notin Sessions
BY GobAssumption DEF Closed, Sessions

\* bufio.Writer.Flush on the open file loses nothing of what file and buffer hold.
LEMMA Flushes ==
  ASSUME NEW f \in Files, f.open \in Sessions, NEW o \in Flush(f)
  PROVE  /\ o.file \in Files /\ o.err \in BOOLEAN
         /\ o.file.open = f.open /\ o.file.enc = f.enc
         /\ \A r \in Sessions : r # f.open => o.file.disk[r] = f.disk[r]
         /\ f.disk[f.open] \subseteq o.file.disk[f.open]
         /\ Kept(o.file, f.open) = Kept(f, f.open)
         /\ ~o.err => f.buf \subseteq o.file.disk[f.open]
         /\ f.broken => o.err
<1>1. CASE f.broken
  <2>1. o = Outcome(f, TRUE)
    BY Zenon, <1>1 DEF Flush
  <2> QED
    BY Zenon, <1>1, <2>1 DEF Outcome, Kept
<1>2. CASE ~f.broken
  <2>1. CASE o = Outcome([f EXCEPT !.disk[f.open] = @ \cup f.buf, !.buf = {}], FALSE)
    BY Zenon, <1>2, <2>1 DEF Outcome, Kept, Files
  <2>2. CASE \E part \in SUBSET f.buf :
               /\ f.faults > 0
               /\ o = Outcome([f EXCEPT !.disk[f.open] = @ \cup part, !.broken = TRUE,
                                        !.faults = @ - 1], TRUE)
    <3>1. PICK part \in SUBSET f.buf :
               /\ f.faults > 0
               /\ o = Outcome([f EXCEPT !.disk[f.open] = @ \cup part, !.broken = TRUE,
                                        !.faults = @ - 1], TRUE)
      BY Zenon, <2>2
    <3>2. f.faults - 1 \in 0..MaxFaults
      BY <3>1, GobAssumption DEF Files
    <3> QED
      BY Zenon, <1>2, <3>1, <3>2 DEF Outcome, Kept, Files
  <2>3. \/ o = Outcome([f EXCEPT !.disk[f.open] = @ \cup f.buf, !.buf = {}], FALSE)
        \/ \E part \in IF f.faults > 0 THEN SUBSET f.buf ELSE {} :
              o = Outcome([f EXCEPT !.disk[f.open] = @ \cup part, !.broken = TRUE,
                                    !.faults = @ - 1], TRUE)
    BY Zenon, <1>2 DEF Flush
  <2> QED
    BY Zenon, <2>1, <2>2, <2>3
<1> QED
  BY Zenon, <1>1, <1>2 DEF Files

\* Opening the file of session s.
LEMMA Opens ==
  ASSUME NEW f \in Files, NEW s \in Sessions, NEW o \in OpenTruncating(f, s),
         f.open = Closed, f.buf = {}
  PROVE  /\ o.file \in Files /\ o.err \in BOOLEAN /\ o.file.buf = {}
         /\ \A r \in Sessions : r # s => o.file.disk[r] = f.disk[r]
         /\ o.err => o.file.open = Closed /\ o.file.disk = f.disk
         /\ ~o.err => o.file.open = s /\ o.file.disk[s] = {}
<1>1. CASE o = Outcome([f EXCEPT !.open = s, !.disk[s] = {}, !.enc = @ + 1], FALSE)
  <2>1. o.file = [f EXCEPT !.open = s, !.disk[s] = {}, !.enc = @ + 1] /\ o.err = FALSE
    BY Zenon, <1>1 DEF Outcome
  <2>2. /\ o.file.open = s /\ o.file.buf = {} /\ o.file.disk = [f.disk EXCEPT ![s] = {}]
        /\ o.file.broken = f.broken /\ o.file.enc = f.enc + 1 /\ o.file.faults = f.faults
    BY Zenon, <2>1 DEF Files
  <2>3. o.file = [open |-> s, buf |-> f.buf, disk |-> [f.disk EXCEPT ![s] = {}],
                  broken |-> f.broken, enc |-> f.enc + 1, faults |-> f.faults]
    BY Zenon, <2>1 DEF Files
  <2>4. /\ f.enc + 1 \in Nat /\ f.buf \in SUBSET (Nat \X Mocks)
        /\ [f.disk EXCEPT ![s] = {}] \in [Sessions -> SUBSET (Nat \X Mocks)]
        /\ f.broken \in BOOLEAN /\ f.faults \in 0..MaxFaults
    BY DEF Files
  <2>5. o.file \in Files
    BY <2>3, <2>4 DEF Files
  <2> QED
    BY Zenon, <2>1, <2>2, <2>5 DEF Files
<1>2. CASE f.faults > 0 /\ o = Outcome([f EXCEPT !.faults = @ - 1], TRUE)
  <2>1. f.faults - 1 \in 0..MaxFaults
    BY <1>2, GobAssumption DEF Files
  <2> QED
    BY Zenon, <1>2, <2>1 DEF Outcome, Files
<1> QED
  BY Zenon, <1>1, <1>2 DEF OpenTruncating

\* The effect of writing mock m to file f with outcome o.  If the file of m's
\* session was open, or no file was and that one is empty, nothing is lost from
\* any file; the mock is in its file or an error is returned; and only that file
\* is open afterwards.
WriteEffect(f, m, o) ==
  /\ o.file \in Files /\ o.err \in BOOLEAN
  /\ o.file.open \in {Closed, m[1]}
  /\ o.file.open = Closed => o.file.buf = {} /\ f.open # m[1]
  /\ f.open = Closed /\ o.file.open = Closed => o.file.disk = f.disk
  /\ f.open \in {Closed, m[1]} =>
       \A r \in Sessions : r # m[1] => o.file.disk[r] = f.disk[r]
  /\ f.open = m[1] \/ (f.open = Closed /\ f.disk[m[1]] = {}) =>
       Kept(f, m[1]) \subseteq Kept(o.file, m[1])
  /\ ~o.err => o.file.open = m[1] /\ \E e \in Kept(o.file, m[1]) : e[2] = m

\* gobWriteOne.
LEMMA Writes ==
  ASSUME NEW f \in Files, f.open = Closed => f.buf = {},
         NEW m \in Mocks, NEW o \in GobWriteOne(f, m)
  PROVE  WriteEffect(f, m, o)
<1> USE DEF WriteEffect
<1> DEFINE s == m[1]
           opened == IF f.open = s THEN {Outcome(f, FALSE)} ELSE GobReopen(f, s)
<1>1. s \in Sessions /\ s # Closed
  BY Zenon, NoSession DEF Mocks
<1>2. ASSUME NEW p \in opened
      PROVE  /\ p.file \in Files /\ p.err \in BOOLEAN
             /\ p.err => p.file.open = Closed /\ p.file.buf = {} /\ f.open # s
             /\ ~p.err => p.file.open = s
             /\ f.open = Closed /\ p.err => p.file.disk = f.disk
             /\ f.open \in {Closed, s} =>
                  \A r \in Sessions : r # s => p.file.disk[r] = f.disk[r]
             /\ f.open = s \/ (f.open = Closed /\ f.disk[s] = {}) =>
                  Kept(f, s) \subseteq Kept(p.file, s)
  <2>1. CASE f.open = s
    <3>1. p.file = f /\ p.err = FALSE
      BY <1>2, <2>1 DEF Outcome
    <3> QED
      BY Zenon, <1>1, <2>1, <3>1
  <2>2. CASE f.open # s
    <3>1. PICK q \in IF f.open = Closed THEN {Outcome(f, FALSE)} ELSE Flush(f) :
                 p \in OpenTruncating(Dropped(q.file), s)
      BY Zenon, <1>2, <2>2 DEF GobReopen
    <3>2. q.file \in Files /\ (f.open = Closed => q.file = f)
      <4>1. CASE f.open = Closed
        BY <3>1, <4>1 DEF Outcome
      <4>2. CASE f.open # Closed
        <5>1. f.open \in Sessions
          BY Zenon, <4>2 DEF Files
        <5> QED
          BY Zenon, <3>1, <4>2, <5>1, Flushes
      <4> QED
        BY Zenon, <4>1, <4>2
    <3> DEFINE g == Dropped(q.file)
    <3>3. g \in Files /\ g.open = Closed /\ g.buf = {} /\ g.disk = q.file.disk
      BY Zenon, <3>2 DEF Dropped, Files
    <3> HIDE DEF g
    <3>4. p \in OpenTruncating(g, s)
      BY Zenon, <3>1 DEF g
    <3> QED
      BY <1>1, <2>2, <3>2, <3>3, <3>4, Opens DEF Kept
  <2> QED
    BY Zenon, <2>1, <2>2
<1>3. PICK p \in opened : o \in IF p.err THEN {p} ELSE Encode(p.file, m)
  BY Zenon DEF GobWriteOne
<1> HIDE DEF opened
<1>4. CASE p.err
  BY Zenon, <1>2, <1>3, <1>4
<1>5. CASE ~p.err
  <2>1. o \in Encode(p.file, m) /\ p.file \in Files /\ p.file.open = s
    BY Zenon, <1>2, <1>3, <1>5
  <2> DEFINE put(g) == [g EXCEPT !.buf = @ \cup {<<g.enc, m>>}]
  <2>2. PICK q \in Flush(p.file) \cup {Outcome(p.file, p.file.broken)} :
               o = Outcome(IF q.err THEN q.file ELSE put(q.file), q.err)
    BY Zenon, <2>1 DEF Encode
  <2>3. /\ q.file \in Files /\ q.err \in BOOLEAN /\ q.file.open = s
        /\ \A r \in Sessions : r # s => q.file.disk[r] = p.file.disk[r]
        /\ Kept(q.file, s) = Kept(p.file, s)
    <3>1. CASE q \in Flush(p.file)
      BY <1>1, <2>1, <3>1, Flushes
    <3>2. CASE q = Outcome(p.file, p.file.broken)
      BY Zenon, <2>1, <3>2 DEF Outcome, Files
    <3> QED
      BY Zenon, <2>2, <3>1, <3>2
  <2>4. o.err = q.err /\ o.file = IF q.err THEN q.file ELSE put(q.file)
    BY Zenon, <2>2 DEF Outcome
  <2>5. CASE q.err
    BY <1>1, <1>2, <1>5, <2>3, <2>4, <2>5
  <2>6. CASE ~q.err
    <3>1. <<q.file.enc, m>> \in Nat \X Mocks
      BY Zenon, <2>3 DEF Files
    <3>2. o.file = [q.file EXCEPT !.buf = @ \cup {<<q.file.enc, m>>}]
      BY Zenon, <2>4, <2>6
    <3>3. /\ o.file \in Files /\ o.file.open = s /\ o.file.disk = q.file.disk
          /\ o.file.buf = q.file.buf \cup {<<q.file.enc, m>>}
      BY <2>3, <3>1, <3>2 DEF Files
    <3>4. Kept(o.file, s) = Kept(q.file, s) \cup {<<q.file.enc, m>>}
      BY Zenon, <2>3, <3>3 DEF Kept
    <3>5. \E e \in Kept(o.file, s) : e[2] = m
      <4>1. <<q.file.enc, m>>[2] = m
        BY Zenon
      <4> QED
        BY Zenon, <3>4, <4>1
    <3> QED
      BY Zenon, <1>1, <1>2, <1>5, <2>3, <2>4, <2>6, <3>3, <3>4, <3>5
  <2> QED
    BY Zenon, <2>3, <2>5, <2>6
<1> QED
  BY Zenon, <1>2, <1>4, <1>5

\* gobWriteSync does what gobWriteOne does.
LEMMA SyncWrites ==
  ASSUME NEW f \in Files, f.open = Closed => f.buf = {},
         NEW m \in Mocks, NEW o \in GobWriteSync(f, m)
  PROVE  WriteEffect(f, m, o)
<1> USE DEF WriteEffect
<1>1. m[1] \in Sessions /\ m[1] # Closed
  BY Zenon, NoSession DEF Mocks
<1>2. PICK p \in GobWriteOne(f, m) : o \in IF p.err THEN {p} ELSE Flush(p.file)
  BY Zenon DEF GobWriteSync
<1>3. CASE p.err
  BY <1>2, <1>3, Writes
<1>4. CASE ~p.err
  <2>1. /\ p.file \in Files /\ p.file.open = m[1]
        /\ f.open \in {Closed, m[1]} =>
              \A r \in Sessions : r # m[1] => p.file.disk[r] = f.disk[r]
        /\ f.open = m[1] \/ (f.open = Closed /\ f.disk[m[1]] = {}) =>
              Kept(f, m[1]) \subseteq Kept(p.file, m[1])
        /\ \E e \in Kept(p.file, m[1]) : e[2] = m
    BY <1>2, <1>4, Writes
  <2>2. o \in Flush(p.file)
    BY Zenon, <1>2, <1>4
  <2>3. /\ o.file \in Files /\ o.err \in BOOLEAN /\ o.file.open = m[1]
        /\ \A r \in Sessions : r # m[1] => o.file.disk[r] = p.file.disk[r]
        /\ Kept(o.file, m[1]) = Kept(p.file, m[1])
    BY <1>1, <2>1, <2>2, Flushes
  <2> QED
    BY Zenon, <1>1, <2>1, <2>3
<1>5. p.err \in BOOLEAN
  BY Zenon, <1>2, Writes
<1> QED
  BY Zenon, <1>3, <1>4, <1>5

\* gobFlushAndClose writes out all that the files hold, or returns an error.
LEMMA Closes ==
  ASSUME NEW f \in Files, f.open = Closed => f.buf = {},
         NEW o \in IF f.open = Closed THEN {Outcome(f, FALSE)} ELSE Flush(f)
  PROVE  /\ Dropped(o.file) \in Files /\ o.err \in BOOLEAN
         /\ Dropped(o.file).open = Closed /\ Dropped(o.file).buf = {}
         /\ \A r \in Sessions : /\ f.disk[r] \subseteq Dropped(o.file).disk[r]
                                /\ r # f.open => Dropped(o.file).disk[r] = f.disk[r]
                                /\ Dropped(o.file).disk[r] \subseteq Kept(f, r)
                                /\ ~o.err => Kept(f, r) = Dropped(o.file).disk[r]
<1>1. /\ o.file \in Files /\ o.err \in BOOLEAN
      /\ \A r \in Sessions : /\ f.disk[r] \subseteq o.file.disk[r]
                             /\ r # f.open => o.file.disk[r] = f.disk[r]
                             /\ o.file.disk[r] \subseteq Kept(f, r)
                             /\ ~o.err => Kept(f, r) = o.file.disk[r]
  <2>1. CASE f.open = Closed
    <3>1. o.file = f /\ o.err = FALSE
      BY <2>1 DEF Outcome
    <3> QED
      BY Zenon, <2>1, <3>1, NoSession DEF Kept
  <2>2. CASE f.open # Closed
    <3>1. f.open \in Sessions
      BY Zenon, <2>2 DEF Files
    <3> QED
      BY <2>2, <3>1, Flushes DEF Kept
  <2> QED
    BY Zenon, <2>1, <2>2
<1>2. /\ Dropped(o.file) \in Files /\ Dropped(o.file).open = Closed
      /\ Dropped(o.file).buf = {} /\ Dropped(o.file).disk = o.file.disk
  BY Zenon, <1>1 DEF Dropped, Files
<1> QED
  BY Zenon, <1>1, <1>2
-----------------------------------------------------------------------------
(***************************************************************************)
(* Types, the life of the writer, the lock and the file.                    *)
(***************************************************************************)
Base == Types /\ LifeInv /\ LockInv /\ FileInv

\* What every form of InsertMock that does not write leaves alone.
InsertFrame(s) ==
  /\ ins[s] = "calling" /\ LifecycleFree
  /\ UNCHANGED <<phase, cancelled, overran, closeErr, stopClosed, job, flushErr, out>>

LEMMA BaseInit == Init => Base
<1> SUFFICES ASSUME Init PROVE Base
  BY Zenon
<1>1. out \in Files
  BY GobAssumption DEF Init, Files, Closed
<1>2. queue \in Seq(Mocks) /\ ~Taken
  BY DEF Init, Taken
<1>3. Types
  <2>1. /\ phase \in [Sessions -> {"idle", "recording", "closing", "closed"}]
        /\ ins \in [Sessions -> {"idle", "calling", "sync", "ended"}]
        /\ next \in [Sessions -> Nat \ {0}]
    BY DEF Init
  <2>2. \A s \in Sessions : ins[s] = "idle"
    BY Zenon DEF Init
  <2>3. running \in BOOLEAN /\ stopClosed \in BOOLEAN /\ flushErr \in BOOLEAN
    BY Zenon DEF Init
  <2> QED
    BY Zenon, <1>1, <1>2, <2>1, <2>2, <2>3 DEF Types
<1>4. LifeInv /\ LockInv /\ FileInv
  BY Zenon DEF Init, LifeInv, LockInv, FileInv
<1> QED
  BY Zenon, <1>3, <1>4 DEF Base

LEMMA BaseStartSession ==
  ASSUME Base, NEW s \in Sessions, StartSession(s)
  PROVE  Base'
<1> USE DEF Base
<1>1. Types'
  BY Zenon DEF Types, Taken, StartSession, Sessions
<1>2. LifeInv'
  BY Zenon DEF Types, LifeInv, LockInv, StartSession, Sessions
<1>3. LockInv'
  <2>1. s \in 1..NumSessions /\ NumSessions \in Nat
    BY Zenon, GobAssumption DEF Sessions
  <2>2. \A r \in Sessions : r < s => phase[r] = "closed"
    <3> SUFFICES ASSUME NEW r \in Sessions, r < s PROVE phase[r] = "closed"
      BY Zenon
    <3>1. s - 1 \in Sessions /\ r \in Int /\ s > 1 /\ (r = s - 1 \/ r < s - 1)
      BY <2>1 DEF Sessions
    <3>2. phase[s - 1] = "closed"
      BY Zenon, <3>1 DEF StartSession
    <3> QED
      BY Zenon, <3>1, <3>2 DEF LockInv
  <2> QED
    BY Zenon, <2>2 DEF Types, LockInv, StartSession
<1>4. FileInv'
  BY Zenon DEF Types, LifeInv, LockInv, FileInv, StartSession, Sessions
<1> QED
  BY Zenon, <1>1, <1>2, <1>3, <1>4

LEMMA BaseCancelContext ==
  ASSUME Base, NEW s \in Sessions, CancelContext(s)
  PROVE  Base'
<1> USE DEF Base
<1>1. Types'
  BY Zenon DEF Types, Taken, CancelContext
<1>2. LifeInv'
  BY Zenon DEF Types, LifeInv, LockInv, CancelContext
<1>3. LockInv'
  BY Zenon DEF Types, LifeInv, LockInv, LifecycleFree, CancelContext
<1>4. FileInv'
  BY Zenon DEF Types, LifeInv, LockInv, FileInv, CancelContext
<1> QED
  BY Zenon, <1>1, <1>2, <1>3, <1>4

LEMMA BaseCallInsert ==
  ASSUME Base, NEW s \in Sessions, CallInsert(s)
  PROVE  Base'
<1> USE DEF Base
<1>1. Types'
  BY DEF Types, Taken, CallInsert
<1>2. LifeInv'
  BY Zenon DEF Types, LifeInv, LockInv, CallInsert
<1>3. LockInv'
  BY Zenon DEF Types, LifeInv, LockInv, LifecycleFree, CallInsert
<1>4. FileInv'
  BY Zenon DEF Types, LifeInv, LockInv, FileInv, CallInsert
<1> QED
  BY Zenon, <1>1, <1>2, <1>3, <1>4

LEMMA BaseEndInserts ==
  ASSUME Base, NEW s \in Sessions, EndInserts(s)
  PROVE  Base'
<1> USE DEF Base
<1>1. Types'
  BY Zenon DEF Types, Taken, EndInserts
<1>2. LifeInv'
  BY Zenon DEF Types, LifeInv, LockInv, EndInserts
<1>3. LockInv'
  BY Zenon DEF Types, LifeInv, LockInv, LifecycleFree, EndInserts
<1>4. FileInv'
  BY Zenon DEF Types, LifeInv, LockInv, FileInv, EndInserts
<1> QED
  BY Zenon, <1>1, <1>2, <1>3, <1>4

LEMMA BaseInsertRefused ==
  ASSUME Base, NEW s \in Sessions, InsertFrame(s), InsertRefused(s)
  PROVE  Base'
<1> USE DEF Base
<1>1. Types'
  BY DEF Types, Taken, InsertFrame, Return, InsertRefused
<1>2. LifeInv'
  BY Zenon DEF Types, LifeInv, LockInv, InsertFrame, Return, InsertRefused
<1>3. LockInv'
  BY Zenon DEF Types, LifeInv, LockInv, LifecycleFree, InsertFrame, Return, InsertRefused
<1>4. FileInv'
  BY Zenon DEF Types, LifeInv, LockInv, FileInv, InsertFrame, Return, InsertRefused
<1> QED
  BY Zenon, <1>1, <1>2, <1>3, <1>4

LEMMA BaseInsertQueued ==
  ASSUME Base, NEW s \in Sessions, InsertFrame(s), InsertQueued(s)
  PROVE  Base'
<1> USE DEF Base
<1>1. Types'
  BY DEF Types, Taken, InsertFrame, Return, StartWriter, Mocks, InsertQueued
<1>2. LifeInv'
  BY Zenon DEF Types, LifeInv, LockInv, InsertFrame, Return, StartWriter, Mocks, InsertQueued
<1>3. LockInv'
  BY Zenon DEF Types, LifeInv, LockInv, LifecycleFree, InsertFrame, Return, StartWriter, Mocks, InsertQueued
<1>4. FileInv'
  BY Zenon DEF Types, LifeInv, LockInv, FileInv, InsertFrame, Return, StartWriter, Mocks, InsertQueued
<1> QED
  BY Zenon, <1>1, <1>2, <1>3, <1>4

LEMMA BaseInsertCancelled ==
  ASSUME Base, NEW s \in Sessions, InsertFrame(s), InsertCancelled(s)
  PROVE  Base'
<1> USE DEF Base
<1>1. Types'
  BY DEF Types, Taken, InsertFrame, Return, StartWriter, Mocks, InsertCancelled
<1>2. LifeInv'
  BY Zenon DEF Types, LifeInv, LockInv, InsertFrame, Return, StartWriter, Mocks, InsertCancelled
<1>3. LockInv'
  BY Zenon DEF Types, LifeInv, LockInv, LifecycleFree, InsertFrame, Return, StartWriter, Mocks, InsertCancelled
<1>4. FileInv'
  BY Zenon DEF Types, LifeInv, LockInv, FileInv, InsertFrame, Return, StartWriter, Mocks, InsertCancelled
<1> QED
  BY Zenon, <1>1, <1>2, <1>3, <1>4

LEMMA BaseInsertOverflows ==
  ASSUME Base, NEW s \in Sessions, InsertFrame(s), InsertOverflows(s)
  PROVE  Base'
<1> USE DEF Base
<1>1. Types'
  BY Zenon DEF Types, Taken, InsertFrame, InsertOverflows
<1>2. LifeInv'
  BY Zenon DEF Types, LifeInv, LockInv, InsertFrame, InsertOverflows
<1>3. LockInv'
  BY Zenon DEF Types, LifeInv, LockInv, LifecycleFree, InsertFrame, InsertOverflows
<1>4. FileInv'
  BY Zenon DEF Types, LifeInv, LockInv, FileInv, InsertFrame, InsertOverflows
<1> QED
  BY Zenon, <1>1, <1>2, <1>3, <1>4

LEMMA BaseWriterTakes ==
  ASSUME Base, WriterTakes
  PROVE  Base'
<1> USE DEF Base
<1>1. Types'
  BY DEF Types, Taken, WriterTakes
<1>2. LifeInv'
  BY Zenon DEF Types, LifeInv, LockInv, WriterTakes
<1>3. LockInv'
  BY Zenon DEF Types, LifeInv, LockInv, LifecycleFree, WriterTakes
<1>4. FileInv'
  BY Zenon DEF Types, LifeInv, LockInv, FileInv, WriterTakes
<1> QED
  BY Zenon, <1>1, <1>2, <1>3, <1>4

LEMMA BaseWriterStops ==
  ASSUME Base, WriterStops
  PROVE  Base'
<1> USE DEF Base
<1>1. Types'
  BY Zenon DEF Types, Taken, WriterStops
<1>2. LifeInv'
  BY Zenon DEF Types, LifeInv, LockInv, WriterStops
<1>3. LockInv'
  BY Zenon DEF Types, LifeInv, LockInv, LifecycleFree, WriterStops
<1>4. FileInv'
  BY Zenon DEF Types, LifeInv, LockInv, FileInv, WriterStops
<1> QED
  BY Zenon, <1>1, <1>2, <1>3, <1>4

LEMMA BaseBeginClose ==
  ASSUME Base, NEW s \in Sessions, BeginClose(s)
  PROVE  Base'
<1> USE DEF Base
<1>1. Types'
  BY Zenon DEF Types, Taken, BeginClose, Sessions
<1>2. LifeInv'
  BY Zenon DEF Types, LifeInv, LockInv, BeginClose, Sessions
<1>3. LockInv'
  BY Zenon DEF Types, LifeInv, LockInv, LifecycleFree, BeginClose, Sessions
<1>4. FileInv'
  BY Zenon DEF Types, LifeInv, LockInv, FileInv, BeginClose, Sessions
<1> QED
  BY Zenon, <1>1, <1>2, <1>3, <1>4

LEMMA BaseCloseDone ==
  ASSUME Base, NEW s \in Sessions, CloseDone(s)
  PROVE  Base'
<1> USE DEF Base
<1>1. Types'
  BY Zenon DEF Types, Taken, CloseDone, Sessions
<1>2. LifeInv'
  BY Zenon DEF Types, LifeInv, LockInv, CloseDone, Sessions
<1>3. LockInv'
  BY DEF Types, LifeInv, LockInv, LifecycleFree, CloseDone, Sessions
<1>4. FileInv'
  BY Zenon DEF Types, LifeInv, LockInv, FileInv, CloseDone, Sessions
<1> QED
  BY Zenon, <1>1, <1>2, <1>3, <1>4

LEMMA BaseCloseTimesOut ==
  ASSUME Base, NEW s \in Sessions, CloseTimesOut(s)
  PROVE  Base'
<1> USE DEF Base
<1>1. Types'
  BY Zenon DEF Types, Taken, CloseTimesOut
<1>2. LifeInv'
  BY Zenon DEF Types, LifeInv, LockInv, CloseTimesOut
<1>3. LockInv'
  BY Zenon DEF Types, LifeInv, LockInv, LifecycleFree, CloseTimesOut
<1>4. FileInv'
  BY Zenon DEF Types, LifeInv, LockInv, FileInv, CloseTimesOut
<1> QED
  BY Zenon, <1>1, <1>2, <1>3, <1>4

LEMMA BaseInsertSync ==
  ASSUME Base, NEW s \in Sessions, InsertSync(s)
  PROVE  Base'
<1> USE DEF Base
<1>1. <<s, next[s]>> \in Mocks
  BY Zenon DEF Types, InsertSync, Mocks
<1>2. /\ out' \in Files
      /\ out'.open = Closed => out'.buf = {}
  <2>1. CASE UNCHANGED out
    BY Zenon, <2>1 DEF Types, FileInv
  <2>2. CASE \E o \in GobWriteSync(out, <<s, next[s]>>) : out' = o.file
    BY <1>1, <2>2, SyncWrites, SMTT(30) DEF Types, FileInv, WriteEffect
  <2> QED
    BY Zenon, <2>1, <2>2 DEF InsertSync
<1>3. Types'
  <2>1. ins' = [ins EXCEPT ![s] = "idle"] /\ next' = [next EXCEPT ![s] = @ + 1]
    BY Zenon DEF InsertSync, Return
  <2>2. /\ UNCHANGED <<phase, running, stopClosed, flushErr, queue, job>>
        /\ Taken' = Taken
    BY Zenon DEF InsertSync, Taken
  <2> QED
    BY <1>2, <2>1, <2>2 DEF Types
<1>4. LifeInv' /\ LockInv'
  BY Zenon DEF Types, LifeInv, LockInv, InsertSync, Return
<1>5. FileInv'
  BY Zenon, <1>2 DEF FileInv, LifeInv, LockInv, InsertSync
<1> QED
  BY Zenon, <1>3, <1>4, <1>5

LEMMA BaseWriterWrites ==
  ASSUME Base, WriterWrites
  PROVE  Base'
<1> USE DEF Base
<1>1. PICK o \in GobWriteOne(out, job) :
         out' = o.file /\ flushErr' = (flushErr \/ o.err)
  BY Zenon DEF WriterWrites
<1>2. job \in Mocks
  BY Zenon DEF WriterWrites, Types, Taken
<1>3. out' \in Files /\ (out'.open = Closed => out'.buf = {}) /\ o.err \in BOOLEAN
  BY Zenon, <1>1, <1>2, Writes DEF Types, FileInv, WriteEffect
<1>4. Types'
  BY Zenon, <1>1, <1>3 DEF Types, Taken, WriterWrites
<1>5. LifeInv' /\ LockInv'
  BY Zenon DEF Types, LifeInv, LockInv, WriterWrites
<1>6. FileInv'
  BY Zenon, <1>3 DEF FileInv, LifeInv, WriterWrites
<1> QED
  BY Zenon, <1>4, <1>5, <1>6

LEMMA BaseFlushAndClose ==
  ASSUME Base, FlushAndClose
  PROVE  Base'
<1> USE DEF Base
<1>1. PICK o \in IF out.open = Closed THEN {Outcome(out, FALSE)} ELSE Flush(out) :
         out' = Dropped(o.file) /\ flushErr' = (flushErr \/ o.err)
  BY Zenon DEF FlushAndClose
<1>2. out' \in Files /\ out'.open = Closed /\ out'.buf = {} /\ o.err \in BOOLEAN
  BY Zenon, <1>1, Closes DEF Types, FileInv
<1>3. Types'
  BY Zenon, <1>1, <1>2 DEF Types, Taken, FlushAndClose
<1>4. LifeInv' /\ LockInv'
  BY Zenon DEF Types, LifeInv, LockInv, FlushAndClose
<1>5. FileInv'
  BY Zenon, <1>2 DEF FileInv
<1> QED
  BY Zenon, <1>3, <1>4, <1>5
-----------------------------------------------------------------------------
(***************************************************************************)
(* Sessions that do not outlive their drain: ownership and accounting.      *)
(***************************************************************************)
LEMMA Alone ==
  ASSUME Base, NEW s \in Sessions, NEW t \in Sessions, Active(s), Active(t)
  PROVE  s = t
<1>1. s \in Int /\ t \in Int
  BY DEF Sessions
<1> QED
  BY <1>1 DEF Base, LockInv, Active

LEMMA OfSession == ASSUME NEW m \in Mocks PROVE m[1] \in Sessions
BY Zenon DEF Mocks

\* A goroutine that calls InsertMock belongs to the recording session.
LEMMA Inserting ==
  ASSUME Base, OwnInv, NEW s \in Sessions, ins[s] \in {"calling", "sync"}
  PROVE  phase[s] = "recording"
BY Zenon DEF Base, Types, OwnInv

\* While gobStop is open, all that the writer holds is of the recording session.
LEMMA Recording ==
  ASSUME Base, OwnInv, NEW s \in Sessions, phase[s] = "recording", ~stopClosed
  PROVE  /\ out.open \in {Closed, s}
         /\ \A m \in Mocks : Pending(m) => m[1] = s
<1>1. \A r \in Sessions : Live(r) => r = s
  BY Zenon, Alone DEF Live, Active
<1>2. out.open \in {Closed, s}
  BY Zenon, <1>1 DEF Base, Types, Files, OwnInv
<1> QED
  BY Zenon, <1>1, <1>2, OfSession DEF OwnInv

LEMMA OwnStartSession ==
  ASSUME Base, OwnInv, AccountInv, NEW s \in Sessions, StartSession(s)
  PROVE  OwnInv' /\ AccountInv'
<1>1. \A m : Pending(m)' <=> Pending(m)
  BY Zenon DEF Pending, Taken, StartSession
<1>2. \A r \in Sessions : (Live(r) => Live(r)') /\ (Active(r) => Active(r)')
  BY Zenon DEF Base, Types, Live, Active, StartSession
<1>3. OwnInv'
  <2>1. \A r \in Sessions : /\ phase'[r] = "idle" => ins'[r] = "idle" /\ out'.disk[r] = {}
                            /\ phase'[r] \in {"closing", "closed"} => ins'[r] = "ended"
    BY Zenon DEF Base, Types, OwnInv, StartSession
  <2>2. out'.open # Closed => Live(out.open)'
    BY Zenon, <1>2 DEF Base, Types, Files, OwnInv, StartSession
  <2>3. /\ \A m \in Mocks : Pending(m)' => Live(m[1])' /\ out'.open \in {Closed, m[1]}
        /\ \A m, n \in Mocks : Pending(m)' /\ Pending(n)' => m[1] = n[1]
    BY Zenon, <1>1, <1>2, OfSession DEF OwnInv, StartSession
  <2>4. \A r \in Sessions : Active(r)' /\ out'.open # r /\ (running' => writer' # "exited")
                              => out'.disk[r] = {}
    BY Zenon DEF Base, Types, OwnInv, Active, StartSession
  <2> QED
    BY Zenon, <2>1, <2>2, <2>3, <2>4 DEF OwnInv
<1>4. AccountInv'
  BY Zenon, <1>1, <1>2, OfSession DEF AccountInv, Account, Kept, StartSession
<1> QED
  BY Zenon, <1>3, <1>4

LEMMA OwnCancelContext ==
  ASSUME Base, OwnInv, AccountInv, NEW s \in Sessions, CancelContext(s)
  PROVE  OwnInv' /\ AccountInv'
<1>1. \A m : Pending(m)' <=> Pending(m)
  BY Zenon DEF Pending, Taken, CancelContext
<1>2. \A r : (Live(r)' <=> Live(r)) /\ (Active(r)' <=> Active(r))
  BY Zenon DEF Live, Active, CancelContext
<1>3. OwnInv'
  BY Zenon, <1>1, <1>2 DEF Base, Types, OwnInv, CancelContext
<1>4. AccountInv'
  BY Zenon, <1>1, <1>2 DEF AccountInv, Account, Kept, CancelContext
<1> QED
  BY Zenon, <1>3, <1>4

LEMMA OwnCallInsert ==
  ASSUME Base, OwnInv, AccountInv, NEW s \in Sessions, CallInsert(s)
  PROVE  OwnInv' /\ AccountInv'
<1>1. \A m : Pending(m)' <=> Pending(m)
  BY Zenon DEF Pending, Taken, CallInsert
<1>2. \A r : (Live(r)' <=> Live(r)) /\ (Active(r)' <=> Active(r))
  BY Zenon DEF Live, Active, CallInsert
<1>3. OwnInv'
  BY Zenon, <1>1, <1>2 DEF Base, Types, OwnInv, CallInsert
<1>4. AccountInv'
  BY Zenon, <1>1, <1>2 DEF AccountInv, Account, Kept, CallInsert
<1> QED
  BY Zenon, <1>3, <1>4

LEMMA OwnEndInserts ==
  ASSUME Base, OwnInv, AccountInv, NEW s \in Sessions, EndInserts(s)
  PROVE  OwnInv' /\ AccountInv'
<1>1. \A m : Pending(m)' <=> Pending(m)
  BY Zenon DEF Pending, Taken, EndInserts
<1>2. \A r : (Live(r)' <=> Live(r)) /\ (Active(r)' <=> Active(r))
  BY Zenon DEF Live, Active, EndInserts
<1>3. OwnInv'
  BY Zenon, <1>1, <1>2 DEF Base, Types, OwnInv, EndInserts
<1>4. AccountInv'
  BY Zenon, <1>1, <1>2 DEF AccountInv, Account, Kept, EndInserts
<1> QED
  BY Zenon, <1>3, <1>4

LEMMA OwnInsertRefused ==
  ASSUME Base, OwnInv, AccountInv, NEW s \in Sessions, InsertFrame(s), InsertRefused(s)
  PROVE  OwnInv' /\ AccountInv'
<1>1. \A m : Pending(m)' <=> Pending(m)
  BY Zenon DEF Pending, Taken, InsertFrame, Return, InsertRefused
<1>2. \A r : (Live(r)' <=> Live(r)) /\ (Active(r)' <=> Active(r))
  BY Zenon DEF Live, Active, InsertFrame, Return, InsertRefused
<1>3. OwnInv'
  BY Zenon, <1>1, <1>2 DEF Base, Types, OwnInv, InsertFrame, Return, InsertRefused
<1>4. AccountInv'
  BY Zenon, <1>1, <1>2 DEF AccountInv, Account, Kept, InsertFrame, Return, InsertRefused
<1> QED
  BY Zenon, <1>3, <1>4

LEMMA OwnInsertOverflows ==
  ASSUME Base, OwnInv, AccountInv, NEW s \in Sessions, InsertFrame(s), InsertOverflows(s)
  PROVE  OwnInv' /\ AccountInv'
<1>1. \A m : Pending(m)' <=> Pending(m)
  BY Zenon DEF Pending, Taken, InsertFrame, InsertOverflows
<1>2. \A r : (Live(r)' <=> Live(r)) /\ (Active(r)' <=> Active(r))
  BY Zenon DEF Live, Active, InsertFrame, InsertOverflows
<1>3. OwnInv'
  BY Zenon, <1>1, <1>2 DEF Base, Types, OwnInv, InsertFrame, InsertOverflows
<1>4. AccountInv'
  BY Zenon, <1>1, <1>2 DEF AccountInv, Account, Kept, InsertFrame, InsertOverflows
<1> QED
  BY Zenon, <1>3, <1>4

LEMMA OwnInsertQueued ==
  ASSUME Base, OwnInv, AccountInv, NEW s \in Sessions, InsertFrame(s), InsertQueued(s)
  PROVE  OwnInv' /\ AccountInv'
<1>0. <<s, next[s]>> \in Mocks
  BY Zenon DEF Base, Types, InsertFrame, Mocks
<1>1. PICK n \in Mocks : n = <<s, next[s]>> /\ n[1] = s
  BY Zenon, <1>0
<1>2. \A r : (Live(r)' <=> Live(r)) /\ (Active(r)' <=> Active(r))
  BY Zenon DEF Live, Active, InsertFrame
<1>3. phase[s] = "recording" /\ Live(s)
  BY Zenon, Inserting DEF InsertFrame, InsertQueued, Live
<1>4. \A m \in Mocks : (Pending(m)' <=> Pending(m) \/ m = n)
  <2>1. CASE running
    <3>1. queue' = Append(queue, n) /\ UNCHANGED <<writer, job>> /\ queue \in Seq(Mocks)
      BY Zenon, <1>1, <2>1 DEF InsertFrame, InsertQueued, StartWriter, Base, Types
    <3>2. /\ Len(queue') = Len(queue) + 1 /\ queue'[Len(queue) + 1] = n
          /\ \A k \in 1..Len(queue) : queue'[k] = queue[k]
          /\ Len(queue) \in Nat
      BY <1>1, <3>1
    <3>3. 1..(Len(queue) + 1) = (1..Len(queue)) \cup {Len(queue) + 1}
      BY <3>2
    <3> QED
      BY Zenon, <3>1, <3>2, <3>3 DEF Pending, Taken
  <2>2. CASE ~running
    <3>1. queue' = <<n>> /\ writer' = "loop" /\ queue = <<>> /\ writer \in {"none", "exited"}
      BY <1>1, <2>2 DEF InsertQueued, StartWriter, Base, LifeInv
    <3>2. Len(queue') = 1 /\ queue'[1] = n /\ Len(queue) = 0
      BY Zenon, <3>1
    <3> QED
      BY <3>1, <3>2 DEF Pending, Taken
  <2> QED
    BY Zenon, <2>1, <2>2 DEF Base, Types
<1>5. out.open \in {Closed, s} /\ \A m \in Mocks : Pending(m) => m[1] = s
  BY Zenon, <1>3, Recording DEF InsertQueued
<1>6. OwnInv'
  <2>1. \A r \in Sessions : /\ phase'[r] = "idle" => ins'[r] = "idle" /\ out'.disk[r] = {}
                            /\ phase'[r] \in {"closing", "closed"} => ins'[r] = "ended"
    BY Zenon, <1>3 DEF Base, Types, OwnInv, InsertFrame, InsertQueued, Return
  <2>2. out'.open # Closed => Live(out.open)'
    BY Zenon, <1>2 DEF OwnInv, InsertFrame
  <2>3. /\ \A m \in Mocks : Pending(m)' => Live(m[1])' /\ out'.open \in {Closed, m[1]}
        /\ \A m, l \in Mocks : Pending(m)' /\ Pending(l)' => m[1] = l[1]
    BY Zenon, <1>1, <1>2, <1>3, <1>4, <1>5 DEF InsertFrame
  <2>4. \A r \in Sessions : Active(r)' /\ out'.open # r /\ (running' => writer' # "exited")
                              => out'.disk[r] = {}
    BY Zenon, <1>2 DEF Base, LifeInv, OwnInv, InsertFrame, InsertQueued, StartWriter
  <2> QED
    BY Zenon, <2>1, <2>2, <2>3, <2>4 DEF OwnInv
<1>7. AccountInv'
  <2>1. accepted' = accepted \cup {n}
    BY Zenon, <1>1 DEF InsertQueued, Return
  <2>2. Account(n)'
    BY Zenon, <1>1, <1>3, <1>4 DEF Account, Active, InsertFrame, InsertQueued, StartWriter
  <2>3. \A m \in accepted : Account(m)'
    BY Zenon, <1>2, <1>4 DEF AccountInv, Account, Kept, InsertFrame, InsertQueued, StartWriter
  <2> QED
    BY Zenon, <1>1, <2>1, <2>2, <2>3 DEF AccountInv
<1> QED
  BY Zenon, <1>6, <1>7

LEMMA OwnInsertCancelled ==
  ASSUME Base, OwnInv, AccountInv, NEW s \in Sessions, InsertFrame(s), InsertCancelled(s)
  PROVE  OwnInv' /\ AccountInv'
<1>1. \A m \in Mocks : Pending(m)' <=> Pending(m)
  <2>1. CASE running
    BY Zenon, <2>1 DEF InsertFrame, InsertCancelled, StartWriter, Pending, Taken
  <2>2. CASE ~running
    <3>1. queue' = queue /\ ~Taken /\ ~Taken'
      BY Zenon, <2>2 DEF InsertCancelled, StartWriter, Taken, Base, LifeInv
    <3> QED
      BY Zenon, <3>1 DEF Pending
  <2> QED
    BY Zenon, <2>1, <2>2
<1>2. \A r : (Live(r)' <=> Live(r)) /\ (Active(r)' <=> Active(r))
  BY Zenon DEF Live, Active, InsertFrame
<1>3. phase[s] = "recording"
  BY Zenon, Inserting DEF InsertFrame
<1>4. OwnInv'
  <2>1. \A r \in Sessions : /\ phase'[r] = "idle" => ins'[r] = "idle" /\ out'.disk[r] = {}
                            /\ phase'[r] \in {"closing", "closed"} => ins'[r] = "ended"
    BY Zenon, <1>3 DEF Base, Types, OwnInv, InsertFrame, InsertCancelled, Return
  <2>2. \A r \in Sessions : Active(r)' /\ out'.open # r /\ (running' => writer' # "exited")
                              => out'.disk[r] = {}
    BY Zenon, <1>2 DEF Base, LifeInv, OwnInv, InsertFrame, InsertCancelled, StartWriter
  <2> QED
    BY Zenon, <1>1, <1>2, <2>1, <2>2 DEF OwnInv, InsertFrame
<1>5. AccountInv'
  BY Zenon, <1>1, <1>2 DEF AccountInv, Account, Kept, InsertFrame, InsertCancelled, StartWriter, Return
<1> QED
  BY Zenon, <1>4, <1>5

LEMMA OwnWriterTakes ==
  ASSUME Base, OwnInv, AccountInv, WriterTakes
  PROVE  OwnInv' /\ AccountInv'
<1>1. \A m \in Mocks : Pending(m)' <=> Pending(m)
  <2>1. queue \in Seq(Mocks) /\ queue # <<>> /\ ~Taken /\ Taken'
    BY Zenon DEF Base, Types, Taken, WriterTakes
  <2>2. /\ Len(queue) \in Nat \ {0} /\ Len(queue') = Len(queue) - 1
        /\ \A k \in 1..Len(queue') : queue'[k] = queue[k + 1]
        /\ job' = queue[1]
    BY <2>1 DEF WriterTakes
  <2>3. \A m \in Mocks : Pending(m)' => Pending(m)
    BY <2>1, <2>2 DEF Pending
  <2>4. ASSUME NEW m \in Mocks, Pending(m) PROVE Pending(m)'
    <3>1. PICK k \in 1..Len(queue) : queue[k] = m
      BY Zenon, <2>1, <2>4 DEF Pending
    <3>2. CASE k = 1
      BY Zenon, <2>1, <2>2, <3>1, <3>2 DEF Pending
    <3>3. CASE k # 1
      <4>1. k - 1 \in 1..Len(queue') /\ queue'[k - 1] = m
        BY <2>2, <3>1, <3>3
      <4> QED
        BY Zenon, <4>1 DEF Pending
    <3> QED
      BY Zenon, <3>2, <3>3
  <2> QED
    BY Zenon, <2>3, <2>4
<1>2. \A r : (Live(r)' <=> Live(r)) /\ (Active(r)' <=> Active(r))
  BY Zenon DEF Live, Active, WriterTakes
<1>3. OwnInv'
  BY Zenon, <1>1, <1>2 DEF OwnInv, WriterTakes
<1>4. AccountInv'
  BY Zenon, <1>1, <1>2 DEF AccountInv, Account, Kept, WriterTakes
<1> QED
  BY Zenon, <1>3, <1>4

LEMMA OwnWriterStops ==
  ASSUME Base, OwnInv, AccountInv, WriterStops
  PROVE  OwnInv' /\ AccountInv'
<1>1. \A m \in Mocks : Pending(m)' <=> Pending(m)
  BY Zenon DEF Pending, Taken, WriterStops
<1>2. \A r : (Live(r)' <=> Live(r)) /\ (Active(r)' <=> Active(r))
  BY Zenon DEF Live, Active, WriterStops
<1>3. OwnInv'
  BY Zenon, <1>1, <1>2 DEF OwnInv, WriterStops
<1>4. AccountInv'
  BY Zenon, <1>1, <1>2 DEF AccountInv, Account, Kept, WriterStops
<1> QED
  BY Zenon, <1>3, <1>4

\* A write of a mock of the live session keeps the files of all others, and the
\* ownership of the writer.
LEMMA OwnWrite ==
  ASSUME Base, OwnInv, NEW m \in Mocks, NEW o, WriteEffect(out, m, o), out' = o.file,
         Live(m[1]), out.open \in {Closed, m[1]}, running, writer # "exited",
         \A n \in Mocks : Pending(n) => n[1] = m[1],
         \A n \in Mocks : Pending(n)' => Pending(n),
         UNCHANGED <<phase, stopClosed, closeErr>>
  PROVE  /\ \A r \in Sessions : phase'[r] = "idle" => out'.disk[r] = {}
         /\ out'.open # Closed => Live(out.open)'
         /\ \A n \in Mocks : Pending(n)' => Live(n[1])' /\ out'.open \in {Closed, n[1]}
         /\ \A n, l \in Mocks : Pending(n)' /\ Pending(l)' => n[1] = l[1]
         /\ \A r \in Sessions : Active(r)' /\ out'.open # r => out'.disk[r] = {}
         /\ \A r \in Sessions : r \notin closeErr => Kept(out, r) \subseteq Kept(out', r)
<1>1. \A r : (Live(r)' <=> Live(r)) /\ (Active(r)' <=> Active(r))
  BY Zenon DEF Live, Active
<1>2. m[1] \in Sessions /\ m[1] # Closed /\ phase[m[1]] # "idle"
  BY Zenon, OfSession, NoSession DEF Base, LockInv, Live
<1>3. \A r \in Sessions : r # m[1] => out'.disk[r] = out.disk[r]
  BY Zenon DEF WriteEffect
<1>4. m[1] \notin closeErr /\ out.open # m[1] => out.open = Closed /\ out.disk[m[1]] = {}
  BY Zenon, <1>2 DEF Live, Active, OwnInv
<1>5. \A r \in Sessions : phase'[r] = "idle" => out'.disk[r] = {}
  BY Zenon, <1>2, <1>3 DEF OwnInv
<1>6. out'.open \in {Closed, m[1]}
  BY Zenon DEF WriteEffect
<1>7. \A r \in Sessions : Active(r)' /\ out'.open # r => out'.disk[r] = {}
  <2> SUFFICES ASSUME NEW r \in Sessions, Active(r), out'.open # r PROVE out'.disk[r] = {}
    BY Zenon, <1>1
  <2>1. CASE r = m[1]
    <3>1. out'.open = Closed /\ out.open = Closed /\ out'.disk = out.disk
      BY Zenon, <1>6, <2>1 DEF WriteEffect
    <3> QED
      BY Zenon, <1>2, <2>1, <3>1 DEF OwnInv
  <2>2. CASE r # m[1]
    <3>1. out.open # r
      BY Zenon, <2>2, NoSession
    <3> QED
      BY Zenon, <1>3, <2>2, <3>1 DEF OwnInv
  <2> QED
    BY Zenon, <2>1, <2>2
<1>8. \A r \in Sessions : r \notin closeErr => Kept(out, r) \subseteq Kept(out', r)
  <2> SUFFICES ASSUME NEW r \in Sessions, r \notin closeErr
               PROVE  Kept(out, r) \subseteq Kept(out', r)
    BY Zenon
  <2>1. CASE r = m[1]
    BY Zenon, <1>4, <2>1 DEF WriteEffect
  <2>2. CASE r # m[1]
    <3>1. Kept(out, r) = out.disk[r]
      BY Zenon, <2>2, NoSession DEF Kept
    <3> QED
      BY Zenon, <1>3, <2>2, <3>1 DEF Kept
  <2> QED
    BY Zenon, <2>1, <2>2
<1>9. out'.open # Closed => Live(out.open)'
  <2>1. out'.open # Closed => out'.open = m[1]
    BY Zenon, <1>6
  <2>2. Live(m[1])'
    BY Zenon, <1>1
  <2>3. PICK r : r = out'.open
    BY Zenon
  <2>4. r # Closed => Live(r)'
    BY Zenon, <2>1, <2>2, <2>3
  <2> QED
    BY Zenon, <2>3, <2>4 DEF Live
<1>10. ASSUME NEW n \in Mocks, Pending(n)'
       PROVE  n[1] = m[1] /\ Live(n[1])' /\ out'.open \in {Closed, n[1]}
  <2>1. n[1] = m[1]
    BY Zenon, <1>10
  <2>2. Live(m[1])'
    BY Zenon, <1>1
  <2> QED
    BY Zenon, <1>6, <2>1, <2>2
<1>11. \A n, l \in Mocks : Pending(n)' /\ Pending(l)' => n[1] = l[1]
  BY Zenon, <1>10
<1> QED
  BY Zenon, <1>5, <1>7, <1>8, <1>9, <1>10, <1>11


LEMMA OwnInsertSync ==
  ASSUME Base, OwnInv, AccountInv, NEW s \in Sessions, InsertSync(s)
  PROVE  OwnInv' /\ AccountInv'
<1>0. <<s, next[s]>> \in Mocks
  BY Zenon DEF Base, Types, InsertSync, Mocks
<1>1. PICK n \in Mocks : n = <<s, next[s]>> /\ n[1] = s
  BY Zenon, <1>0
<1>2. \A m : Pending(m)' <=> Pending(m)
  BY Zenon DEF Pending, Taken, InsertSync
<1>3. \A r : (Live(r)' <=> Live(r)) /\ (Active(r)' <=> Active(r))
  BY Zenon DEF Live, Active, InsertSync
<1>4. /\ phase[s] = "recording" /\ Live(s) /\ running /\ writer # "exited"
      /\ out.open \in {Closed, s} /\ \A m \in Mocks : Pending(m) => m[1] = s
  <2>1. phase[s] = "recording" /\ running /\ ~stopClosed
    BY Zenon, Inserting DEF InsertSync, Base, LockInv
  <2> QED
    BY Zenon, <2>1, Recording DEF Live, Base, LifeInv
<1>5. \A r \in Sessions : phase'[r] \in {"closing", "closed"} => ins'[r] = "ended"
  BY Zenon, <1>4 DEF Base, Types, OwnInv, InsertSync, Return
<1>6. \A r \in Sessions : phase'[r] = "idle" => ins'[r] = "idle"
  BY ZenonT(40), <1>4 DEF Base, Types, OwnInv, InsertSync, Return
<1>7. CASE s \in cancelled
  <2>1. UNCHANGED <<out, accepted, running, writer, flushErr, closeErr>>
    BY Zenon, <1>7 DEF InsertSync, Return
  <2>0. phase' = phase
    BY Zenon DEF InsertSync
  <2>2. OwnInv'
    <3>1. \A r \in Sessions : phase'[r] = "idle" => out'.disk[r] = {}
      BY Zenon, <2>0, <2>1 DEF OwnInv
    <3>2. out'.open # Closed => Live(out.open)'
      BY Zenon, <1>3, <2>1 DEF OwnInv
    <3>3. /\ \A m \in Mocks : Pending(m)' => Live(m[1])' /\ out'.open \in {Closed, m[1]}
          /\ \A m, l \in Mocks : Pending(m)' /\ Pending(l)' => m[1] = l[1]
      BY Zenon, <1>2, <1>3, <2>1 DEF OwnInv
    <3>4. \A r \in Sessions : Active(r)' /\ out'.open # r /\ (running' => writer' # "exited")
                                => out'.disk[r] = {}
      BY Zenon, <1>3, <2>1 DEF OwnInv
    <3> QED
      BY Zenon, <1>5, <1>6, <3>1, <3>2, <3>3, <3>4 DEF OwnInv
  <2>3. AccountInv'
    BY Zenon, <1>2, <1>3, <2>1 DEF AccountInv, Account, Kept
  <2> QED
    BY Zenon, <2>2, <2>3
<1>8. CASE s \notin cancelled
  <2>1. PICK o \in GobWriteSync(out, n) : out' = o.file /\ Return(s, ~o.err)
    BY Zenon, <1>1, <1>8 DEF InsertSync
  <2>2. WriteEffect(out, n, o)
    BY Zenon, <2>1, SyncWrites DEF Base, Types, FileInv
  <2>3. UNCHANGED <<phase, stopClosed, closeErr, running, writer, flushErr>>
    BY Zenon DEF InsertSync
  <2>4. /\ \A r \in Sessions : phase'[r] = "idle" => out'.disk[r] = {}
        /\ out'.open # Closed => Live(out.open)'
        /\ \A m \in Mocks : Pending(m)' => Live(m[1])' /\ out'.open \in {Closed, m[1]}
        /\ \A m, l \in Mocks : Pending(m)' /\ Pending(l)' => m[1] = l[1]
        /\ \A r \in Sessions : Active(r)' /\ out'.open # r => out'.disk[r] = {}
        /\ \A r \in Sessions : r \notin closeErr => Kept(out, r) \subseteq Kept(out', r)
    BY Zenon, <1>1, <1>2, <1>4, <2>1, <2>2, <2>3, OwnWrite
  <2>5. OwnInv'
    BY Zenon, <1>5, <1>6, <2>4 DEF OwnInv
  <2>6. \A m \in accepted : Account(m)'
    BY Zenon, <1>2, <1>3, <2>3, <2>4, OfSession DEF AccountInv, Account
  <2>7. ~o.err => Account(n)'
    BY Zenon, <1>1, <2>1, <2>2 DEF WriteEffect, Account
  <2>8. accepted' = IF ~o.err THEN accepted \cup {n} ELSE accepted
    BY Zenon, <1>1, <2>1 DEF Return
  <2>9. AccountInv'
    BY Zenon, <2>6, <2>7, <2>8 DEF AccountInv
  <2> QED
    BY Zenon, <2>5, <2>9
<1> QED
  BY Zenon, <1>7, <1>8

LEMMA OwnWriterWrites ==
  ASSUME Base, OwnInv, AccountInv, WriterWrites
  PROVE  OwnInv' /\ AccountInv'
<1>1. PICK n \in Mocks : n = job /\ Pending(n)
  BY Zenon DEF Base, Types, Taken, Pending, WriterWrites
<1>2. PICK o \in GobWriteOne(out, n) : out' = o.file /\ flushErr' = (flushErr \/ o.err)
  BY Zenon, <1>1 DEF WriterWrites
<1>3. WriteEffect(out, n, o)
  BY Zenon, <1>2, Writes DEF Base, Types, FileInv
<1>4. /\ UNCHANGED <<phase, stopClosed, closeErr, running, ins, accepted, queue, job>>
      /\ running /\ writer # "exited" /\ ~Taken'
  BY Zenon DEF WriterWrites, Base, LifeInv, Taken
<1>5. \A m : (Pending(m)' => Pending(m)) /\ (Pending(m) => Pending(m)' \/ m = n)
  BY Zenon, <1>1, <1>4 DEF Pending, Taken, WriterWrites
<1>6. \A r : (Live(r)' <=> Live(r)) /\ (Active(r)' <=> Active(r))
  BY Zenon, <1>4 DEF Live, Active
<1>7. Live(n[1]) /\ out.open \in {Closed, n[1]} /\ \A m \in Mocks : Pending(m) => m[1] = n[1]
  BY Zenon, <1>1 DEF OwnInv
<1>8. /\ \A r \in Sessions : phase'[r] = "idle" => out'.disk[r] = {}
      /\ out'.open # Closed => Live(out.open)'
      /\ \A m \in Mocks : Pending(m)' => Live(m[1])' /\ out'.open \in {Closed, m[1]}
      /\ \A m, l \in Mocks : Pending(m)' /\ Pending(l)' => m[1] = l[1]
      /\ \A r \in Sessions : Active(r)' /\ out'.open # r => out'.disk[r] = {}
      /\ \A r \in Sessions : r \notin closeErr => Kept(out, r) \subseteq Kept(out', r)
  BY Zenon, <1>2, <1>3, <1>4, <1>5, <1>7, OwnWrite
<1>9. OwnInv'
  BY Zenon, <1>4, <1>8 DEF OwnInv
<1>10. ASSUME NEW m \in accepted PROVE Account(m)'
  <2>1. m \in Mocks /\ m[1] \in Sessions /\ Account(m)
    BY Zenon, <1>10, OfSession DEF AccountInv
  <2>2. CASE m[1] \in closeErr
    BY Zenon, <1>4, <2>2 DEF Account
  <2>3. CASE m[1] \notin closeErr /\ \E e \in Kept(out, m[1]) : e[2] = m
    BY Zenon, <1>8, <2>1, <2>3 DEF Account
  <2>4. CASE running /\ Active(m[1]) /\ flushErr
    BY Zenon, <1>2, <1>4, <1>6, <2>4 DEF Account
  <2>5. CASE running /\ Active(m[1]) /\ Pending(m)
    <3>1. CASE Pending(m)'
      BY Zenon, <1>4, <1>6, <2>5, <3>1 DEF Account
    <3>2. CASE m = n /\ o.err
      BY Zenon, <1>2, <1>4, <1>6, <2>5, <3>2 DEF Account
    <3>3. CASE m = n /\ ~o.err
      BY Zenon, <1>2, <1>3, <3>3 DEF Account, WriteEffect
    <3> QED
      BY Zenon, <1>5, <2>5, <3>1, <3>2, <3>3
  <2> QED
    BY Zenon, <2>1, <2>2, <2>3, <2>4, <2>5 DEF Account
<1>11. AccountInv'
  BY Zenon, <1>4, <1>10 DEF AccountInv
<1> QED
  BY Zenon, <1>9, <1>11

LEMMA OwnFlushAndClose ==
  ASSUME Base, OwnInv, AccountInv, FlushAndClose
  PROVE  OwnInv' /\ AccountInv'
<1>1. PICK o \in IF out.open = Closed THEN {Outcome(out, FALSE)} ELSE Flush(out) :
         out' = Dropped(o.file) /\ flushErr' = (flushErr \/ o.err)
  BY Zenon DEF FlushAndClose
<1>2. /\ out'.open = Closed /\ out'.buf = {} /\ o.err \in BOOLEAN
      /\ \A r \in Sessions : /\ out.disk[r] \subseteq out'.disk[r]
                             /\ r # out.open => out'.disk[r] = out.disk[r]
                             /\ ~o.err => Kept(out, r) = out'.disk[r]
  <2>1. out \in Files /\ (out.open = Closed => out.buf = {})
    BY Zenon DEF Base, Types, FileInv
  <2>a. o \in IF out.open = Closed THEN {Outcome(out, FALSE)} ELSE Flush(out)
    BY Zenon, <1>1
  <2>2. /\ Dropped(o.file) \in Files /\ o.err \in BOOLEAN
        /\ Dropped(o.file).open = Closed /\ Dropped(o.file).buf = {}
        /\ \A r \in Sessions : /\ out.disk[r] \subseteq Dropped(o.file).disk[r]
                               /\ r # out.open => Dropped(o.file).disk[r] = out.disk[r]
                               /\ Dropped(o.file).disk[r] \subseteq Kept(out, r)
                               /\ ~o.err => Kept(out, r) = Dropped(o.file).disk[r]
    BY Zenon, <2>1, <2>a, Closes
  <2> QED BY Zenon, <1>1, <2>2
<1>3. /\ UNCHANGED <<phase, stopClosed, closeErr, running, ins, accepted, queue, job>>
      /\ running /\ writer' = "exited" /\ queue = <<>> /\ ~Taken /\ ~Taken'
  BY Zenon DEF FlushAndClose, Base, LifeInv, Taken
<1>4. \A m : ~Pending(m) /\ ~Pending(m)'
  BY <1>3 DEF Pending
<1>5. \A r : (Live(r)' <=> Live(r)) /\ (Active(r)' <=> Active(r))
  BY Zenon, <1>3 DEF Live, Active
<1>6. OwnInv'
  <2>1. \A r \in Sessions : phase'[r] = "idle" => ins'[r] = "idle" /\ out'.disk[r] = {}
    <3> SUFFICES ASSUME NEW r \in Sessions, phase[r] = "idle"
                 PROVE  ins[r] = "idle" /\ out'.disk[r] = {}
      BY Zenon, <1>3
    <3>1. r # out.open
      BY NoSession DEF OwnInv, Live, Base, LockInv
    <3> QED
      BY Zenon, <1>2, <3>1 DEF OwnInv
  <2> QED
    BY Zenon, <1>2, <1>3, <1>4, <2>1 DEF OwnInv
<1>7. ASSUME NEW m \in accepted PROVE Account(m)'
  <2>1. m \in Mocks /\ m[1] \in Sessions /\ Account(m)
    BY Zenon, <1>7, OfSession DEF AccountInv
  <2>2. CASE m[1] \in closeErr
    BY Zenon, <1>3, <2>2 DEF Account
  <2>3. CASE running /\ Active(m[1]) /\ flushErr
    BY Zenon, <1>1, <1>3, <1>5, <2>3 DEF Account
  <2>4. CASE m[1] \notin closeErr /\ \E e \in Kept(out, m[1]) : e[2] = m
    <3>1. CASE \E e \in out'.disk[m[1]] : e[2] = m
      BY Zenon, <3>1 DEF Account, Kept
    <3>2. CASE ~ \E e \in out'.disk[m[1]] : e[2] = m
      <4>1. o.err /\ out.open = m[1]
        BY <1>2, <2>1, <2>4, <3>2 DEF Kept
      <4>2. Active(m[1])
        BY <2>1, <2>4, <4>1, NoSession DEF OwnInv, Live, Active
      <4> QED
        BY Zenon, <1>1, <1>3, <1>5, <4>1, <4>2 DEF Account
    <3> QED
      BY Zenon, <3>1, <3>2
  <2> QED
    BY Zenon, <1>4, <2>1, <2>2, <2>3, <2>4 DEF Account
<1> QED
  BY Zenon, <1>3, <1>6, <1>7 DEF AccountInv

LEMMA OwnBeginClose ==
  ASSUME Base, OwnInv, AccountInv, NEW s \in Sessions, BeginClose(s), overran' = {}
  PROVE  OwnInv' /\ AccountInv'
<1>1. /\ UNCHANGED <<closeErr, running, ins, accepted, queue, writer, job, out, flushErr>>
      /\ ins[s] = "ended" /\ stopClosed' = running /\ phase[s] = "recording"
      /\ phase' = [phase EXCEPT ![s] = IF running THEN "closing" ELSE "closed"]
  BY Zenon DEF BeginClose
<1>2. \A m : Pending(m)' <=> Pending(m)
  BY Zenon, <1>1 DEF Pending, Taken
<1>3. running => \A r \in Sessions : /\ Live(r) => Live(r)'
                                     /\ Active(r)' <=> Active(r)
  <2>1. \A r \in Sessions : phase[r] = "recording" => r = s
    BY Zenon, <1>1, Alone DEF Active
  <2> QED
    BY Zenon, <1>1, <2>1 DEF Base, Types, LifeInv, Live, Active
<1>4. ~running => out.open = Closed /\ \A m : ~Pending(m)
  <2>1. ~running => queue = <<>> /\ ~Taken
    BY Zenon DEF Base, LifeInv, Taken
  <2> QED
    BY <2>1 DEF Base, FileInv, Pending
<1>5. OwnInv'
  <2>1. \A r \in Sessions : /\ phase'[r] = "idle" => ins'[r] = "idle" /\ out'.disk[r] = {}
                            /\ phase'[r] \in {"closing", "closed"} => ins'[r] = "ended"
    BY Zenon, <1>1 DEF Base, Types, OwnInv
  <2>2. out'.open # Closed => Live(out.open)'
    BY Zenon, <1>1, <1>3, <1>4 DEF Base, Types, Files, OwnInv
  <2>3. /\ \A m \in Mocks : Pending(m)' => Live(m[1])' /\ out'.open \in {Closed, m[1]}
        /\ \A m, l \in Mocks : Pending(m)' /\ Pending(l)' => m[1] = l[1]
    BY Zenon, <1>1, <1>2, <1>3, <1>4, OfSession DEF OwnInv
  <2>4. \A r \in Sessions : Active(r)' => Active(r)
    BY Zenon, <1>1 DEF Base, Types, Active
  <2>5. \A r \in Sessions : Active(r)' /\ out'.open # r /\ (running' => writer' # "exited")
                              => out'.disk[r] = {}
    BY Zenon, <1>1, <2>4 DEF OwnInv
  <2> QED
    BY Zenon, <2>1, <2>2, <2>3, <2>5 DEF OwnInv
<1>6. AccountInv'
  BY Zenon, <1>1, <1>2, <1>3, OfSession DEF AccountInv, Account, Kept
<1> QED
  BY Zenon, <1>5, <1>6

LEMMA OwnCloseDone ==
  ASSUME Base, OwnInv, AccountInv, NEW s \in Sessions, CloseDone(s)
  PROVE  OwnInv' /\ AccountInv'
<1>1. /\ UNCHANGED <<ins, accepted, queue, writer, job, out>>
      /\ phase[s] = "closing" /\ writer = "exited" /\ queue = <<>>
      /\ out.open = Closed /\ closeErr \subseteq closeErr'
      /\ flushErr => s \in closeErr'
      /\ phase' = [phase EXCEPT ![s] = "closed"]
  BY Zenon DEF CloseDone, Base, LifeInv, FileInv
<1>2. \A m : ~Pending(m) /\ ~Pending(m)'
  BY <1>1 DEF Pending, Taken
<1>3. \A r \in Sessions : (Active(r) => r = s) /\ ~Active(r)'
  <2>1. \A r \in Sessions : Active(r) => r = s
    BY Zenon, <1>1, Alone DEF Active
  <2> QED
    BY Zenon, <1>1, <2>1 DEF Base, Types, Active
<1>4. OwnInv'
  <2>1. \A r \in Sessions : /\ phase'[r] = "idle" => ins'[r] = "idle" /\ out'.disk[r] = {}
                            /\ phase'[r] \in {"closing", "closed"} => ins'[r] = "ended"
    BY Zenon, <1>1 DEF Base, Types, OwnInv
  <2> QED
    BY Zenon, <1>1, <1>2, <1>3, <2>1 DEF OwnInv
<1>5. AccountInv'
  BY Zenon, <1>1, <1>2, <1>3, OfSession DEF AccountInv, Account, Kept
<1> QED
  BY Zenon, <1>4, <1>5

LEMMA OwnCloseTimesOut ==
  ASSUME Base, OwnInv, AccountInv, NEW s \in Sessions, CloseTimesOut(s)
  PROVE  OwnInv' /\ AccountInv'
<1>1. /\ UNCHANGED <<ins, accepted, queue, writer, job, out, running, stopClosed, flushErr>>
      /\ phase[s] = "closing" /\ stopClosed
      /\ closeErr' = closeErr \cup {s}
      /\ phase' = [phase EXCEPT ![s] = "closed"]
  BY Zenon DEF CloseTimesOut, Base, LockInv
<1>2. \A m : Pending(m)' <=> Pending(m)
  BY Zenon, <1>1 DEF Pending, Taken
<1>3. \A r \in Sessions : /\ Live(r) => Live(r)'
                          /\ Active(r)' => Active(r)
                          /\ Active(r) /\ r # s => Active(r)'
  BY Zenon, <1>1 DEF Base, Types, Live, Active
<1>4. OwnInv'
  <2>1. \A r \in Sessions : /\ phase'[r] = "idle" => ins'[r] = "idle" /\ out'.disk[r] = {}
                            /\ phase'[r] \in {"closing", "closed"} => ins'[r] = "ended"
    BY Zenon, <1>1 DEF Base, Types, OwnInv
  <2>2. out'.open # Closed => Live(out.open)'
    BY Zenon, <1>1, <1>3 DEF Base, Types, Files, OwnInv
  <2>3. /\ \A m \in Mocks : Pending(m)' => Live(m[1])' /\ out'.open \in {Closed, m[1]}
        /\ \A m, l \in Mocks : Pending(m)' /\ Pending(l)' => m[1] = l[1]
    BY Zenon, <1>1, <1>2, <1>3, OfSession DEF OwnInv
  <2>4. \A r \in Sessions : Active(r)' /\ out'.open # r /\ (running' => writer' # "exited")
                              => out'.disk[r] = {}
    BY Zenon, <1>1, <1>3 DEF OwnInv
  <2> QED
    BY Zenon, <2>1, <2>2, <2>3, <2>4 DEF OwnInv
<1>5. AccountInv'
  BY Zenon, <1>1, <1>2, <1>3, OfSession DEF AccountInv, Account, Kept
<1> QED
  BY Zenon, <1>4, <1>5
-----------------------------------------------------------------------------
LEMMA BaseStep == Base /\ [Next]_vars => Base'
<1> SUFFICES ASSUME Base, [Next]_vars PROVE Base'
  BY Zenon
<1>1. ASSUME NEW s \in Sessions, StartSession(s) PROVE Base'
  BY Zenon, <1>1, BaseStartSession
<1>2. ASSUME NEW s \in Sessions, CancelContext(s) PROVE Base'
  BY Zenon, <1>2, BaseCancelContext
<1>3. ASSUME NEW s \in Sessions, CallInsert(s) PROVE Base'
  BY Zenon, <1>3, BaseCallInsert
<1>4. ASSUME NEW s \in Sessions, EndInserts(s) PROVE Base'
  BY Zenon, <1>4, BaseEndInserts
<1>5. ASSUME NEW s \in Sessions, InsertSync(s) PROVE Base'
  BY Zenon, <1>5, BaseInsertSync
<1>6. ASSUME NEW s \in Sessions, BeginClose(s) PROVE Base'
  BY Zenon, <1>6, BaseBeginClose
<1>7. ASSUME NEW s \in Sessions, CloseDone(s) PROVE Base'
  BY Zenon, <1>7, BaseCloseDone
<1>8. ASSUME NEW s \in Sessions, CloseTimesOut(s) PROVE Base'
  BY Zenon, <1>8, BaseCloseTimesOut
<1>9. ASSUME NEW s \in Sessions, InsertMockGob(s) PROVE Base'
  <2>1. InsertFrame(s)
    BY Zenon, <1>9 DEF InsertMockGob, InsertFrame
  <2> QED
    BY Zenon, <1>9, <2>1, BaseInsertRefused, BaseInsertQueued, BaseInsertCancelled, BaseInsertOverflows DEF InsertMockGob
<1>10. CASE WriterTakes
  BY Zenon, <1>10, BaseWriterTakes
<1>11. CASE WriterWrites
  BY Zenon, <1>11, BaseWriterWrites
<1>12. CASE WriterStops
  BY Zenon, <1>12, BaseWriterStops
<1>13. CASE FlushAndClose
  BY Zenon, <1>13, BaseFlushAndClose
<1>14. CASE UNCHANGED vars
  BY Zenon, <1>14 DEF vars, Base, Types, Taken, LifeInv, LockInv, FileInv
<1> QED
  BY Zenon, <1>1, <1>2, <1>3, <1>4, <1>5, <1>6, <1>7, <1>8, <1>9, <1>10, <1>11, <1>12, <1>13, <1>14 DEF Next, Inserter, Closer, Writer

LEMMA OwnInit == Init => OwnInv /\ AccountInv
<1> SUFFICES ASSUME Init PROVE OwnInv /\ AccountInv
  BY Zenon
<1>1. \A m : ~Pending(m)
  BY DEF Init, Pending, Taken
<1> QED
  BY Zenon, <1>1 DEF Init, OwnInv, AccountInv, Active

LEMMA OwnStep ==
  ASSUME Base, OwnInv, AccountInv, [Next]_vars, overran' = {}
  PROVE  OwnInv' /\ AccountInv'
<1>1. ASSUME NEW s \in Sessions, StartSession(s) PROVE OwnInv' /\ AccountInv'
  BY Zenon, <1>1, OwnStartSession
<1>2. ASSUME NEW s \in Sessions, CancelContext(s) PROVE OwnInv' /\ AccountInv'
  BY Zenon, <1>2, OwnCancelContext
<1>3. ASSUME NEW s \in Sessions, CallInsert(s) PROVE OwnInv' /\ AccountInv'
  BY Zenon, <1>3, OwnCallInsert
<1>4. ASSUME NEW s \in Sessions, EndInserts(s) PROVE OwnInv' /\ AccountInv'
  BY Zenon, <1>4, OwnEndInserts
<1>5. ASSUME NEW s \in Sessions, InsertSync(s) PROVE OwnInv' /\ AccountInv'
  BY Zenon, <1>5, OwnInsertSync
<1>6. ASSUME NEW s \in Sessions, BeginClose(s) PROVE OwnInv' /\ AccountInv'
  BY Zenon, <1>6, OwnBeginClose
<1>7. ASSUME NEW s \in Sessions, CloseDone(s) PROVE OwnInv' /\ AccountInv'
  BY Zenon, <1>7, OwnCloseDone
<1>8. ASSUME NEW s \in Sessions, CloseTimesOut(s) PROVE OwnInv' /\ AccountInv'
  BY Zenon, <1>8, OwnCloseTimesOut
<1>9. ASSUME NEW s \in Sessions, InsertMockGob(s) PROVE OwnInv' /\ AccountInv'
  <2>1. InsertFrame(s)
    BY Zenon, <1>9 DEF InsertMockGob, InsertFrame
  <2> QED
    BY Zenon, <1>9, <2>1, OwnInsertRefused, OwnInsertQueued, OwnInsertCancelled, OwnInsertOverflows DEF InsertMockGob
<1>10. CASE WriterTakes
  BY Zenon, <1>10, OwnWriterTakes
<1>11. CASE WriterWrites
  BY Zenon, <1>11, OwnWriterWrites
<1>12. CASE WriterStops
  BY Zenon, <1>12, OwnWriterStops
<1>13. CASE FlushAndClose
  BY Zenon, <1>13, OwnFlushAndClose
<1>14. CASE UNCHANGED vars
  <2>1. \A m : Pending(m)' <=> Pending(m)
    BY Zenon, <1>14 DEF vars, Pending, Taken
  <2>2. \A r : (Live(r)' <=> Live(r)) /\ (Active(r)' <=> Active(r))
    BY Zenon, <1>14 DEF vars, Live, Active
  <2> QED
    BY Zenon, <1>14, <2>1, <2>2 DEF vars, OwnInv, AccountInv, Account, Kept
<1> QED
  BY Zenon, <1>1, <1>2, <1>3, <1>4, <1>5, <1>6, <1>7, <1>8, <1>9, <1>10, <1>11, <1>12, <1>13, <1>14 DEF Next, Inserter, Closer, Writer

\* Once a session has outlived its drain it stays so recorded.
LEMMA OverranGrows == ASSUME [Next]_vars, overran' = {} PROVE overran = {}
BY Zenon DEF Next, Inserter, Closer, Writer, vars, StartSession, CancelContext, CallInsert,
       EndInserts, InsertMockGob, InsertSync, BeginClose, CloseDone, CloseTimesOut,
       WriterTakes, WriterWrites, WriterStops, FlushAndClose

\* What insertMockGob queues is never left behind: no writer goroutine exits and no
\* Close resets gobRunning with a job in gobQueue, for any number of sessions,
\* timed-out Closes and inserts that come late.
THEOREM NothingLeftInQueue == Spec => []QueueDrained
<1>1. Base => QueueDrained
  BY Zenon DEF Base, LifeInv, QueueDrained
<1> QED
  BY <1>1, BaseInit, BaseStep, PTL DEF Spec

\* A nil from InsertMock followed by a nil from Close means that the mock is in the
\* file of its session, whatever file-system errors, full queues, synchronous
\* writes and timed-out Closes there were, if the insert goroutines end in time.
THEOREM AcceptedMocksDurable == Spec => []AcceptedIsDurable
<1> DEFINE Inv == Base /\ (overran = {} => OwnInv /\ AccountInv)
<1>1. Init => Inv
  BY Zenon, BaseInit, OwnInit
<1>2. Inv /\ [Next]_vars => Inv'
  BY Zenon, BaseStep, OwnStep, OverranGrows
<1>3. Inv => AcceptedIsDurable
  <2> SUFFICES ASSUME Base, OwnInv, AccountInv, NEW s \in Sessions,
                      phase[s] = "closed", s \notin closeErr,
                      NEW m \in accepted, m[1] = s
               PROVE  \E e \in out.disk[s] : e[2] = m
    BY Zenon DEF AcceptedIsDurable
  <2>1. out.open # s
    BY NoSession DEF OwnInv, Live
  <2>2. \E e \in Kept(out, s) : e[2] = m
    BY Zenon DEF AccountInv, Account, Active
  <2> QED
    BY Zenon, <2>1, <2>2 DEF Kept
<1> QED
  BY <1>1, <1>2, <1>3, PTL DEF Spec
-----------------------------------------------------------------------------
(***************************************************************************)
(* One encoder per file.                                                    *)
(***************************************************************************)
\* The entries and the encoder stay.
LEMMA EncSame ==
  ASSUME NEW f, NEW g, EncInv(f), g.open = f.open, g.enc = f.enc,
         \A r \in Sessions : Kept(g, r) = Kept(f, r)
  PROVE  EncInv(g)
BY Zenon DEF EncInv

\* The file of s is opened anew, the others hold no more than they did.
LEMMA EncFresh ==
  ASSUME NEW f, NEW g, NEW s \in Sessions, EncInv(f), g.open = s, Kept(g, s) = {},
         \A r \in Sessions : r # s => Kept(g, r) \subseteq Kept(f, r)
  PROVE  EncInv(g)
<1> SUFFICES ASSUME NEW r \in Sessions
             PROVE  /\ \A d, e \in Kept(g, r) : d[1] = e[1]
                    /\ g.open = r => \A e \in Kept(g, r) : e[1] = g.enc
  BY Zenon DEF EncInv
<1>1. CASE r = s
  BY Zenon, <1>1
<1>2. CASE r # s
  <2>1. \A d, e \in Kept(f, r) : d[1] = e[1]
    BY Zenon DEF EncInv
  <2>2. Kept(g, r) \subseteq Kept(f, r) /\ g.open # r
    BY Zenon, <1>2
  <2> QED
    BY Zenon, <2>1, <2>2
<1> QED
  BY Zenon, <1>1, <1>2

LEMMA EncFlush ==
  ASSUME NEW f \in Files, f.open \in Sessions, EncInv(f), NEW o \in Flush(f)
  PROVE  EncInv(o.file)
<1>1. \A r \in Sessions : Kept(o.file, r) = Kept(f, r)
  <2> SUFFICES ASSUME NEW r \in Sessions PROVE Kept(o.file, r) = Kept(f, r)
    BY Zenon
  <2>1. CASE r = f.open
    BY Zenon, <2>1, Flushes
  <2>2. CASE r # f.open
    <3>1. o.file.open = f.open /\ o.file.disk[r] = f.disk[r]
      BY Zenon, <2>2, Flushes
    <3> QED
      BY Zenon, <2>2, <3>1 DEF Kept
  <2> QED
    BY Zenon, <2>1, <2>2
<1>2. o.file.open = f.open /\ o.file.enc = f.enc
  BY Zenon, Flushes
<1> QED
  BY Zenon, <1>1, <1>2, EncSame

\* Nothing is open, and every file holds no more than it did.
LEMMA EncShrinks ==
  ASSUME NEW f, NEW g, EncInv(f), g.open = Closed,
         \A r \in Sessions : g.disk[r] \subseteq Kept(f, r)
  PROVE  EncInv(g)
<1>1. \A r \in Sessions : g.open # r /\ Kept(g, r) = g.disk[r]
  BY Zenon, NoSession DEF Kept
<1> QED
  BY <1>1 DEF EncInv

LEMMA EncReopen ==
  ASSUME NEW f \in Files, f.open = Closed => f.buf = {}, EncInv(f),
         NEW s \in Sessions, NEW p \in GobReopen(f, s)
  PROVE  EncInv(p.file) /\ p.file \in Files /\ (~p.err => p.file.open = s)
<1>1. PICK q \in IF f.open = Closed THEN {Outcome(f, FALSE)} ELSE Flush(f) :
             p \in OpenTruncating(Dropped(q.file), s)
  BY Zenon DEF GobReopen
<1>2. PICK g : g = Dropped(q.file)
  BY Zenon
<1>3. /\ g \in Files /\ g.open = Closed /\ g.buf = {}
      /\ \A r \in Sessions : g.disk[r] \subseteq Kept(f, r)
  BY Zenon, <1>1, <1>2, Closes
<1>4. EncInv(g)
  BY Zenon, <1>3, EncShrinks
<1>5. /\ p.file \in Files /\ p.err \in BOOLEAN /\ p.file.buf = {}
      /\ \A r \in Sessions : r # s => p.file.disk[r] = g.disk[r]
      /\ p.err => p.file.open = Closed /\ p.file.disk = g.disk
      /\ ~p.err => p.file.open = s /\ p.file.disk[s] = {}
  BY <1>1, <1>2, <1>3, Opens, ZenonT(30)
<1>6. CASE p.err
  <2>1. \A r \in Sessions : p.file.disk[r] \subseteq Kept(g, r)
    BY Zenon, <1>5, <1>6 DEF Kept
  <2>2. p.file.open = Closed
    BY Zenon, <1>5, <1>6
  <2>3. EncInv(p.file)
    BY Zenon, <1>4, <2>1, <2>2, EncShrinks
  <2> QED
    BY Zenon, <1>5, <1>6, <2>3
<1>7. CASE ~p.err
  <2>1. Kept(p.file, s) = {}
    BY Zenon, <1>5, <1>7 DEF Kept
  <2>2. \A r \in Sessions : r # s => p.file.open # r /\ Kept(p.file, r) \subseteq Kept(g, r)
    BY Zenon, <1>5, <1>7 DEF Kept
  <2>3. p.file.open = s
    BY Zenon, <1>5, <1>7
  <2>4. EncInv(p.file)
    <3>1. PICK h : h = p.file
      BY Zenon
    <3>2. h.open = s /\ Kept(h, s) = {}
      BY Zenon, <2>1, <2>3, <3>1
    <3>3. \A r \in Sessions : r # s => Kept(h, r) \subseteq Kept(g, r)
      BY Zenon, <2>2, <3>1
    <3>4. EncInv(h)
      BY Zenon, <1>4, <3>2, <3>3, EncFresh
    <3> QED
      BY Zenon, <3>1, <3>4
  <2> QED
    BY Zenon, <1>5, <2>3, <2>4
<1> QED
  BY Zenon, <1>5, <1>6, <1>7

LEMMA EncEncode ==
  ASSUME NEW f \in Files, f.open \in Sessions, EncInv(f), NEW m \in Mocks,
         NEW o \in Encode(f, m)
  PROVE  EncInv(o.file)
<1> DEFINE put(g) == [g EXCEPT !.buf = @ \cup {<<g.enc, m>>}]
<1>1. PICK q \in Flush(f) \cup {Outcome(f, f.broken)} :
             o = Outcome(IF q.err THEN q.file ELSE put(q.file), q.err)
  BY Zenon DEF Encode
<1>2. q.file \in Files /\ q.file.open \in Sessions /\ EncInv(q.file)
  <2>1. CASE q \in Flush(f)
    BY Zenon, <2>1, Flushes, EncFlush
  <2>2. CASE q = Outcome(f, f.broken)
    BY Zenon, <2>2, Plain
  <2> QED
    BY Zenon, <1>1, <2>1, <2>2
<1>3. o.file = IF q.err THEN q.file ELSE put(q.file)
  BY Zenon, <1>1, Plain
<1>4. CASE o.file = q.file
  BY Zenon, <1>2, <1>4
<1>5. CASE o.file = put(q.file)
  <2>0. <<q.file.enc, m>>[1] = q.file.enc
    BY Zenon
  <2>1. PICK e : e = <<q.file.enc, m>> /\ e[1] = q.file.enc
    BY Zenon, <2>0
  <2>2. /\ o.file.open = q.file.open /\ o.file.disk = q.file.disk
        /\ o.file.buf = q.file.buf \cup {e} /\ o.file.enc = q.file.enc
    BY Zenon, <1>2, <1>5, <2>1 DEF Files
  <2>3. \A r \in Sessions : /\ r # q.file.open => Kept(o.file, r) = Kept(q.file, r)
                            /\ r = q.file.open => Kept(o.file, r) = Kept(q.file, r) \cup {e}
    BY Zenon, <2>2 DEF Kept
  <2>4. \A d \in Kept(q.file, q.file.open) : d[1] = e[1]
    BY Zenon, <1>2, <2>1 DEF EncInv
  <2>5. ASSUME NEW r \in Sessions, r # q.file.open
        PROVE  /\ \A d, c \in Kept(o.file, r) : d[1] = c[1]
               /\ o.file.open # r
    <3>1. Kept(o.file, r) = Kept(q.file, r)
      BY Zenon, <2>3, <2>5
    <3>2. \A d, c \in Kept(q.file, r) : d[1] = c[1]
      BY Zenon, <1>2 DEF EncInv
    <3> QED
      BY Zenon, <2>2, <2>5, <3>1, <3>2
  <2>6. \A c \in Kept(o.file, q.file.open) : c[1] = e[1]
    <3>1. Kept(o.file, q.file.open) = Kept(q.file, q.file.open) \cup {e}
      BY Zenon, <1>2, <2>3
    <3> QED
      BY Zenon, <2>4, <3>1
  <2>7. e[1] = o.file.enc
    BY Zenon, <2>1, <2>2
  <2>8. ASSUME NEW r \in Sessions
        PROVE  /\ \A d, c \in Kept(o.file, r) : d[1] = c[1]
               /\ o.file.open = r => \A c \in Kept(o.file, r) : c[1] = o.file.enc
    <3>1. CASE r = q.file.open
      BY Zenon, <2>6, <2>7, <3>1
    <3>2. CASE r # q.file.open
      BY Zenon, <2>5, <3>2
    <3> QED
      BY Zenon, <3>1, <3>2
  <2> QED
    BY Zenon, <2>8 DEF EncInv
<1> QED
  BY Zenon, <1>3, <1>4, <1>5

LEMMA EncWrite ==
  ASSUME NEW f \in Files, f.open = Closed => f.buf = {}, EncInv(f), NEW m \in Mocks,
         NEW o \in GobWriteOne(f, m)
  PROVE  EncInv(o.file)
<1>1. PICK p \in IF f.open = m[1] THEN {Outcome(f, FALSE)} ELSE GobReopen(f, m[1]) :
             o \in IF p.err THEN {p} ELSE Encode(p.file, m)
  BY Zenon DEF GobWriteOne
<1>2. /\ EncInv(p.file) /\ p.file \in Files /\ m[1] \in Sessions
      /\ ~p.err => p.file.open = m[1]
  <2>1. CASE f.open = m[1]
    <3>1. p = Outcome(f, FALSE)
      BY Zenon, <1>1, <2>1
    <3>2. p.file = f
      BY Zenon, <3>1, Plain
    <3> QED
      BY Zenon, <2>1, <3>2, OfSession
  <2>2. CASE f.open # m[1]
    <3>1. p \in GobReopen(f, m[1]) /\ m[1] \in Sessions
      BY Zenon, <1>1, <2>2, OfSession
    <3> QED
      BY Zenon, <3>1, EncReopen
  <2> QED
    BY Zenon, <2>1, <2>2
<1>3. CASE p.err
  BY Zenon, <1>1, <1>2, <1>3
<1>4. CASE ~p.err
  <2>1. o \in Encode(p.file, m) /\ p.file.open \in Sessions
    BY Zenon, <1>1, <1>2, <1>4
  <2> QED
    BY Zenon, <1>2, <2>1, EncEncode
<1> QED
  BY Zenon, <1>3, <1>4

LEMMA EncStep ==
  ASSUME Base, EncInv(out), [Next]_vars
  PROVE  EncInv(out')
<1>1. ASSUME NEW s \in Sessions, InsertSync(s) PROVE EncInv(out')
  <2>1. <<s, next[s]>> \in Mocks
    BY Zenon, <1>1 DEF Base, Types, InsertSync, Mocks
  <2>2. CASE UNCHANGED out
    BY Zenon, <2>2
  <2>3. CASE \E o \in GobWriteSync(out, <<s, next[s]>>) : out' = o.file
    <3>1. PICK p \in GobWriteOne(out, <<s, next[s]>>) :
                 \E o \in IF p.err THEN {p} ELSE Flush(p.file) : out' = o.file
      BY Zenon, <2>3 DEF GobWriteSync
    <3>2. EncInv(p.file) /\ WriteEffect(out, <<s, next[s]>>, p)
      BY Zenon, <2>1, <3>1, EncWrite, Writes DEF Base, Types, FileInv
    <3>3. p.file \in Files /\ (~p.err => p.file.open \in Sessions)
      BY Zenon, <2>1, <3>2, OfSession DEF WriteEffect
    <3> QED
      BY Zenon, <3>1, <3>2, <3>3, EncFlush
  <2> QED
    BY Zenon, <1>1, <2>2, <2>3 DEF InsertSync
<1>2. CASE WriterWrites
  BY Zenon, <1>2, EncWrite DEF WriterWrites, Base, Types, Taken, FileInv
<1>3. CASE FlushAndClose
  <2>1. PICK o \in IF out.open = Closed THEN {Outcome(out, FALSE)} ELSE Flush(out) :
               out' = Dropped(o.file)
    BY Zenon, <1>3 DEF FlushAndClose
  <2>2. out'.open = Closed /\ \A r \in Sessions : out'.disk[r] \subseteq Kept(out, r)
    BY Zenon, <2>1, Closes DEF Base, Types, FileInv
  <2> QED
    BY Zenon, <2>2, EncShrinks
<1>4. CASE UNCHANGED out
  BY Zenon, <1>4
<1> QED
  BY Zenon, <1>1, <1>2, <1>3, <1>4 DEF Next, Inserter, Closer, Writer, vars, StartSession,
     CancelContext, CallInsert, EndInserts, InsertMockGob, BeginClose, CloseDone,
     CloseTimesOut, WriterTakes, WriterStops

\* Every mocks.gob holds the output of one encoder, so that readGobMocks can decode
\* all of it: failed opens, switches between files and inserts after Close
\* included.
THEOREM FilesDecodable == Spec => []OneEncoderPerFile
<1>1. Init => Base /\ EncInv(out)
  <2>1. Init => \A s \in Sessions : Kept(out, s) = {}
    <3> SUFFICES ASSUME Init, NEW s \in Sessions PROVE Kept(out, s) = {}
      BY Zenon
    <3>1. out = [open |-> Closed, buf |-> {}, disk |-> [r \in Sessions |-> {}],
                 broken |-> FALSE, enc |-> 0, faults |-> MaxFaults]
      BY Zenon DEF Init
    <3>2. out.open = Closed /\ out.buf = {} /\ out.disk[s] = {}
      BY Zenon, <3>1
    <3> QED
      BY Zenon, <3>2 DEF Kept
  <2> QED
    BY Zenon, <2>1, BaseInit DEF EncInv
<1>2. Base /\ EncInv(out) /\ [Next]_vars => Base' /\ EncInv(out')
  BY Zenon, BaseStep, EncStep
<1>3. EncInv(out) => OneEncoderPerFile
  BY Zenon DEF EncInv, Kept, OneEncoderPerFile
<1>4. Base /\ EncInv(out) /\ [Next]_vars => (Base /\ EncInv(out))'
  BY Zenon, <1>2
<1> QED
  BY <1>1, <1>3, <1>4, PTL DEF Spec
=============================================================================

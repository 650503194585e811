----------------------------- MODULE MockStore -----------------------------
(***************************************************************************)
(* The mock file of one test set, pkg/platform/yaml/mockdb/db.go: callers  *)
(* append mocks (InsertMock), prune them (UpdateMocks), write learned      *)
(* noise onto them (PersistMockNoise) and delete them (DeleteMocksForSet), *)
(* while a replay reads them (GetFilteredMocks, GetUnFilteredMocks).       *)
(*                                                                         *)
(* A file is [there, docs, torn]: docs is the set of whole documents, each *)
(* [name, doc], and torn says that a document is only partly written.  The *)
(* asynchronous gob writer is module GobWriter; here a gob file is one an  *)
(* earlier recording left.                                                 *)
(***************************************************************************)
EXTENDS MockCodec, FiniteSets

CONSTANTS
    Callers,      \* goroutines that call the store
    Stores,       \* the scenarios: see store below
    MaxCalls      \* calls that change the file, over all callers

Exts == {"yaml", "json", "gob"}
NoFile == [there |-> FALSE, docs |-> {}, torn |-> FALSE]
Idle == [at |-> "idle"]
Free == "free"

VARIABLES
    store,        \* the scenario: [callers, format, strict, files, mocks,
                  \*   ops, learn, faults]
    files,        \* extension -> file
    lock,         \* lock of mockFileLockKey(path, name, format) -> its writer
    call,         \* caller -> the call it is in
    idCounter,    \* MockYaml.idCounter
    calls,        \* calls started
    cancelled,    \* the callers' context is done
    owed          \* mocks the store has accepted and not been told to drop:
                  \*   [name, mock, crossed], crossed when a rewrite that
                  \*   holds another lock was under way

vars == <<store, files, lock, call, idCounter, calls, cancelled, owed>>

-----------------------------------------------------------------------------
(* Files and locks.                                                        *)

otherFormat(f) == IF f = "json" THEN "yaml" ELSE "json"

\* The existing text file, the configured format first.
FileExistsAny ==
    LET found == {f \in {"yaml", "json"} : files[f].there}
    IN IF store.format \in found THEN {store.format} ELSE found

\* The lock is chosen by the path with the format's extension.
getMockFileLock(format) == format

Docs(f) ==
    IF files[f].torn THEN {} ELSE
    UNION {{[name |-> d.name, mock |-> m] :
              m \in IF f = "gob" THEN {d.doc} ELSE DecodeDoc(f, d.doc)} : d \in files[f].docs}

Encoded(f, m) == IF f = "gob" THEN {m} ELSE Encode(f, m)

\* Replacing or removing a file leaves another caller's open handle on a
\* file that has no name any more.
Unlink(f, p, why) ==
    [q \in Callers |-> IF q # p /\ call[q].at = "flush" /\ call[q].fmt = f
                       THEN [call[q] EXCEPT !.file = why] ELSE call[q]]

-----------------------------------------------------------------------------
(* What readers return.                                                    *)

ReadFrom == IF files["gob"].there THEN {"gob"} ELSE FileExistsAny

Lifetime(m) == DeriveLifetime(m, store.strict)

GetFilteredMocks ==
    UNION {{r \in Docs(f) : Lifetime(r.mock) = "perTest" \/ (f = "gob" /\ r.mock.kind = "PostgresV2")}
             : f \in ReadFrom}

GetUnFilteredMocks ==
    UNION {{r \in Docs(f) : Lifetime(r.mock) \in {"session", "connection"}} : f \in ReadFrom}

-----------------------------------------------------------------------------
Init ==
    /\ store \in Stores
    /\ files = store.files
    /\ lock = [f \in {"yaml", "json"} |-> Free]
    /\ call = [p \in Callers |-> Idle]
    /\ idCounter = 0
    /\ calls = 0
    /\ cancelled = FALSE
    /\ owed = {[name |-> r.name, mock |-> r.mock, crossed |-> FALSE] :
                 r \in GetFilteredMocks \cup GetUnFilteredMocks}

Begin(p, op) ==
    /\ op \in store.ops
    /\ p \in store.callers
    /\ call[p] = Idle
    /\ calls < MaxCalls
    /\ calls' = calls + 1

Return(p) == call' = [call EXCEPT ![p] = Idle]

Release(f) == lock' = [lock EXCEPT ![f] = Free]

(* InsertMock.                                                             *)

getNextID == idCounter + 1

\* The format of an existing file, found before the lock is taken.
EffFormat == IF FileExistsAny = {} THEN store.format ELSE CHOOSE f \in FileExistsAny : TRUE

InsertMock(p, m) ==
    /\ Begin(p, "insert")
    /\ idCounter' = getNextID
    /\ call' = [call EXCEPT ![p] = [at |-> "create", fmt |-> EffFormat, file |-> "closed",
                                    name |-> getNextID, mock |-> m]]
    /\ UNCHANGED <<store, files, lock, cancelled, owed>>

\* Under the lock: a cancelled context returns before the file is touched.
CreateFileF(p) ==
    LET f == call[p].fmt IN
    /\ call[p].at = "create"
    /\ lock[getMockFileLock(f)] = Free
    /\ \/ /\ cancelled
          /\ Return(p)
          /\ UNCHANGED <<files, lock>>
       \/ /\ ~cancelled
          /\ files' = [files EXCEPT ![f].there = TRUE]
          /\ lock' = [lock EXCEPT ![getMockFileLock(f)] = p]
          /\ call' = [call EXCEPT ![p].at = "open"]
    /\ UNCHANGED <<store, idCounter, calls, cancelled, owed>>

\* Opening fails when the file was deleted meanwhile.  A mock the encoder
\* refuses leaves at most a separator; else its first bytes may reach the file
\* before the writer is flushed.
AppendMock(p) ==
    LET f == call[p].fmt IN
    /\ call[p].at = "open"
    /\ \/ /\ ~files[f].there \/ Encode(f, call[p].mock) = {}
          /\ Return(p)
          /\ Release(getMockFileLock(f))
          /\ UNCHANGED files
       \/ /\ files[f].there
          /\ Encode(f, call[p].mock) # {}
          /\ \E part \in BOOLEAN : files' = [files EXCEPT ![f].torn = part]
          /\ call' = [call EXCEPT ![p].at = "flush", ![p].file = "open"]
          /\ UNCHANGED lock
    /\ UNCHANGED <<store, idCounter, calls, cancelled, owed>>

\* A rewrite of file f between its read and its rename; the lock it holds is
\* the configured format's, an insert's that of the file's format.
BeingRewritten(f) ==
    \E q \in Callers : call[q].at \in {"replace", "retry"} /\ call[q].fmt = f

\* The writer is always flushed, whatever the context says by now.  What is
\* written to a deleted file goes with it.
FlushMock(p) ==
    LET c == call[p]
        f == c.fmt
        new == {[name |-> c.name, doc |-> d] : d \in Encode(f, c.mock)}
    IN
    /\ c.at = "flush"
    /\ files' = IF c.file = "open"
                THEN [files EXCEPT ![f].docs = @ \cup new, ![f].torn = FALSE] ELSE files
    /\ owed' = IF c.file = "deleted" THEN owed
               ELSE owed \cup {[name |-> c.name, mock |-> c.mock,
                                crossed |-> c.file = "replaced" \/ BeingRewritten(f)]}
    /\ Return(p)
    /\ Release(getMockFileLock(f))
    /\ UNCHANGED <<store, idCounter, calls, cancelled>>

(* UpdateMocks.                                                            *)

\* mutant: the newly detected noise replaces what the file had
mergeReqBodyNoiseLast(existing, detected) == detected

mergeReqBodyNoise(existing, detected) == existing \cup detected

Learn(r, learned) == [r EXCEPT !.mock.paths = mergeReqBodyNoise(@, learned)]

\* The mocks a prune keeps, the used ones with what was learned about them.
\* The times are those of the replay: a mock it has recorded itself is kept,
\* and one from before the cutoff is a startup mock.
Kept(found, used, learned) ==
    {r \in found : r.mock.type = "config"}
    \cup {Learn(r, learned) : r \in {s \in found : s.mock.type # "config" /\ s.name \in used}}
    \cup {r \in found : r.mock.type # "config" /\ r.name \notin used /\ r.mock.time \in {"startup", "replay"}}

KeptGob(found, used, learned) == Kept(found, used, learned)

\* Read the file under the lock of the configured format.  No file: nothing
\* to do.  A torn document fails the read.
UpdateMocks(p, used, learned) ==
    LET key == getMockFileLock(store.format) IN
    /\ Begin(p, "update")
    /\ lock[key] = Free
    /\ \/ /\ ReadFrom = {} \/ (\E f \in ReadFrom : files[f].torn)
          /\ UNCHANGED <<lock, call>>
       \/ \E f \in ReadFrom :
            /\ ~files[f].torn
            /\ lock' = [lock EXCEPT ![key] = p]
            /\ call' = [call EXCEPT ![p] =
                 [at |-> "replace", fmt |-> f, used |-> used, learned |-> learned, prune |-> TRUE,
                  new |-> IF f = "gob" THEN KeptGob(Docs(f), used, learned)
                          ELSE Kept(Docs(f), used, learned)]]
    /\ UNCHANGED <<store, files, idCounter, cancelled, owed>>

(* PersistMockNoise: the same rewrite without pruning.                     *)

PersistMockNoise(p, used, learned) ==
    LET key == getMockFileLock(store.format)
        merged(f) == {IF r.name \in used THEN Learn(r, learned) ELSE r : r \in Docs(f)}
    IN
    /\ Begin(p, "noise")
    /\ learned # {}
    /\ lock[key] = Free
    /\ \/ /\ \A f \in ReadFrom : files[f].torn \/ merged(f) = Docs(f)
          /\ UNCHANGED <<lock, call>>
       \/ \E f \in ReadFrom :
            /\ ~files[f].torn
            /\ merged(f) # Docs(f)
            /\ lock' = [lock EXCEPT ![key] = p]
            /\ call' = [call EXCEPT ![p] =
                 [at |-> "replace", fmt |-> f, used |-> used, learned |-> learned,
                  prune |-> FALSE, new |-> merged(f)]]
    /\ UNCHANGED <<store, files, idCounter, cancelled, owed>>

\* What the store owes after the rewrite: a prune may drop a mock that is no
\* config mock, that no test used and that is neither a startup mock nor one
\* the replay recorded; a used mock has the noise learned about it, except that
\* a prune leaves config mocks as they are.
Settled(c) ==
    {IF o.name \in c.used /\ ~(c.prune /\ o.mock.type = "config") THEN [o EXCEPT !.mock.paths = @ \cup c.learned] ELSE o :
       o \in {o \in owed : ~c.prune \/ o.mock.type = "config" \/ o.name \in c.used
                           \/ o.mock.time \in {"startup", "replay"}}}

\* The rewritten documents.
Rewritten(c) ==
    UNION {{[name |-> r.name, doc |-> d] : d \in Encoded(c.fmt, r.mock)} : r \in c.new}

\* The temporary file takes the place of the old one.
Swap(p, file) ==
    LET c == call[p] IN
    /\ files' = [files EXCEPT ![c.fmt] = file]
    /\ owed' = Settled(c)
    /\ call' = [Unlink(c.fmt, p, "replaced") EXCEPT ![p] = Idle]
    /\ Release(getMockFileLock(store.format))
    /\ UNCHANGED <<store, idCounter, calls, cancelled>>

\* A text file with no mock left is removed.
writeMocksAtomically(p) ==
    LET c == call[p] IN
    /\ c.at = "replace" /\ c.fmt # "gob"
    /\ Swap(p, IF c.new = {} THEN NoFile ELSE [there |-> TRUE, docs |-> Rewritten(c), torn |-> FALSE])

writeGobMocksAtomically(p) ==
    LET c == call[p] IN
    /\ c.at = "replace" /\ c.fmt = "gob"
    /\ Swap(p, [there |-> TRUE, docs |-> Rewritten(c), torn |-> FALSE])

\* An error before the rename removes the temporary file and nothing else.
WriteFails(p) ==
    /\ call[p].at = "replace"
    /\ "write" \in store.faults
    /\ Return(p)
    /\ Release(getMockFileLock(store.format))
    /\ UNCHANGED <<store, files, idCounter, calls, cancelled, owed>>

\* The rename is refused because the target exists: remove it and try again.
\* Nobody else can create the target meanwhile without the lock.
replaceFile(p) ==
    LET c == call[p] IN
    /\ c.at = "replace"
    /\ "rename" \in store.faults
    /\ c.fmt # "gob"
    /\ c.new # {}
    /\ files[c.fmt].there
    /\ files' = [files EXCEPT ![c.fmt] = NoFile]
    /\ call' = [Unlink(c.fmt, p, "replaced") EXCEPT ![p] = [c EXCEPT !.at = "retry"]]
    /\ UNCHANGED <<store, lock, idCounter, calls, cancelled, owed>>

RetryRename(p) ==
    LET c == call[p] IN
    /\ c.at = "retry"
    /\ Swap(p, [there |-> TRUE, docs |-> Rewritten(c), torn |-> FALSE])

(* DeleteMocksForSet takes no lock: the three files go one after the other. *)

RemoveFile(p, f, next) ==
    /\ files' = [files EXCEPT ![f] = NoFile]
    /\ owed' = {o \in owed : \A d \in files[f].docs : d.name # o.name}
    /\ call' = [Unlink(f, p, "deleted") EXCEPT ![p] = next]
    /\ UNCHANGED <<store, lock, idCounter, cancelled>>

DeleteMocksForSet(p) ==
    \/ /\ Begin(p, "delete")
       /\ RemoveFile(p, "yaml", [at |-> "json"])
    \/ /\ call[p].at = "json"
       /\ RemoveFile(p, "json", [at |-> "gob"])
       /\ UNCHANGED calls
    \/ /\ call[p].at = "gob"
       /\ RemoveFile(p, "gob", Idle)
       /\ UNCHANGED calls

Cancel ==
    /\ "cancel" \in store.faults
    /\ ~cancelled
    /\ cancelled' = TRUE
    /\ UNCHANGED <<store, files, lock, call, idCounter, calls, owed>>

Next ==
    \/ \E p \in Callers :
         \/ \E m \in store.mocks : InsertMock(p, m)
         \/ CreateFileF(p) \/ AppendMock(p) \/ FlushMock(p)
         \/ \E used \in SUBSET {o.name : o \in owed}, learned \in store.learn :
              UpdateMocks(p, used, learned) \/ PersistMockNoise(p, used, learned)
         \/ writeMocksAtomically(p) \/ writeGobMocksAtomically(p) \/ WriteFails(p) \/ replaceFile(p) \/ RetryRename(p)
         \/ DeleteMocksForSet(p)
    \/ Cancel

Spec == Init /\ [][Next]_vars
-----------------------------------------------------------------------------
(* Properties.                                                             *)

\* A caller may read: one is idle, and nobody holds the lock of the
\* configured format.
Readable ==
    /\ lock[getMockFileLock(store.format)] = Free
    /\ \E p \in store.callers : call[p] = Idle

\* What the mock is to a replay: everything but the time it was created.
Same(o, m) ==
    /\ m.kind = o.kind
    /\ o.parts \ {"created"} \subseteq m.parts
    /\ m.shape = o.shape

\* An insert into a file of the other format, which readers do not wait for.
InsertAside ==
    \E p \in Callers : call[p].at = "flush" /\ getMockFileLock(call[p].fmt) # getMockFileLock(store.format)

\* Whenever a reader holds the read lock, every mock the store accepted and
\* no prune was entitled to drop comes back from GetFilteredMocks or from
\* GetUnFilteredMocks, with its kind, its members and its typed payload,
\* through any number of appends, prunes, noise updates and failed rewrites.
\* The locks fail it only when the file has not the configured format: then an
\* insert that overlaps a rewrite may be lost, one under way may keep a reader
\* from decoding the file, and one that looks while a refused rename is tried
\* again, or across a delete, starts another file that hides the first.
Hiding == files["yaml"].there /\ files["json"].there
MocksKept ==
    /\ Readable /\ ~InsertAside /\ ~Hiding =>
          \A o \in owed : o.crossed \/ \E r \in GetFilteredMocks \cup GetUnFilteredMocks :
              r.name = o.name /\ Same(o.mock, r.mock)
    /\ Hiding \/ (\E o \in owed : o.crossed) => store.files[otherFormat(store.format)].there
    /\ Hiding => "rename" \in store.faults \/ "delete" \in store.ops

\* Noise a replay learned about a mock it used is read back with the mock,
\* whether the file was pruned or only annotated; a prune (UpdateMocks) passes
\* over config mocks, an annotation (PersistMockNoise) does not.
NoiseKept ==
    Readable /\ ~Hiding => \A o \in owed, r \in GetFilteredMocks \cup GetUnFilteredMocks :
                   r.name = o.name => o.mock.paths \subseteq r.mock.paths
=============================================================================

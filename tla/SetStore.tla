----------------------------- MODULE SetStore ------------------------------
(***************************************************************************)
(* The files of one test set besides its mocks: the test cases             *)
(* (pkg/platform/yaml/testdb), the mapping of tests to mocks (mapdb) and   *)
(* the report (reportdb), written by recorders and tools that may run at   *)
(* the same time, may fail half way and may be killed.                     *)
(*                                                                         *)
(* A test file is NoFile, Empty (the reservation claimName makes) or a     *)
(* document of module TestCodec.  The names of all test cases share one    *)
(* slug, so a name is its index.                                           *)
(***************************************************************************)
EXTENDS TestCodec, FiniteSets

CONSTANTS
    Procs,            \* processes that use the test set
    Scenes,           \* [procs, format: procs -> format, naming, tests,
                      \*   kinds, faults]
    MaxIndex,         \* bound on the index of a test case
    MaxClaims,        \* maxNameClaimAttempts
    MaxCalls          \* bound on the calls that change a file

Formats == {"yaml", "json"}
Indices == 1..MaxIndex
NoFile == [tag |-> "none"]
Empty == [tag |-> "empty"]
Doc(entries) == [tag |-> "doc", entries |-> entries]
Idle == [at |-> "idle"]
Docs == {"mapping", "report"}

VARIABLES
    scene,
    tests,            \* <<index, format>> -> test file
    assets,           \* index -> the test case whose body assets/<name>/ holds
    docs,             \* mapping and report: [yaml, json] -> contents
    proc,             \* process -> its call
    lastIndex,        \* process -> TestYaml.lastIndex of the directory, 0 if unset
    calls,
    owedTests,        \* every test case written and not deleted, as last
                      \*   written: [name, fmt, test, robbed], robbed when
                      \*   another took the place of its body
    owedDocs          \* document -> the entries of its completed writes,
                      \*   [entry, alone]: alone when no other write overlapped

vars == <<scene, tests, assets, docs, proc, lastIndex, calls, owedTests, owedDocs>>
testVars == <<tests, assets, lastIndex, owedTests>>
docVars == <<docs, owedDocs>>

-----------------------------------------------------------------------------
Format(p) == scene.format[p]
otherFormat(f) == IF f = "json" THEN "yaml" ELSE "json"
Max0(S) == IF S = {} THEN 0 ELSE CHOOSE n \in S : \A m \in S : m <= n

\* Both extensions count.
Taken == {n \in Indices : \E f \in Formats : tests[n, f] # NoFile}
FindLastIndexAny == Max0(Taken) + 1
NextIndexForPrefix == Max0(Taken) + 1

-----------------------------------------------------------------------------
(* What readers return.                                                    *)

\* The preferred format's file when there is one, even an empty one, which
\* is then skipped; else the other's.
ReadFileAny(p, n) == IF tests[n, Format(p)] # NoFile THEN Format(p) ELSE otherFormat(Format(p))

GetTestCase(p, n) == LET f == ReadFileAny(p, n) IN DecodeTest(f, tests[n, f])

GetTestCases(p) == {n \in Indices : tests[n, ReadFileAny(p, n)] \notin {NoFile, Empty}}

FileExistsAny(d, p) ==
    LET found == {f \in Formats : docs[d][f] # NoFile}
    IN IF Format(p) \in found THEN {Format(p)} ELSE found

EffFormat(d, p) ==
    IF FileExistsAny(d, p) = {} THEN Format(p) ELSE CHOOSE f \in FileExistsAny(d, p) : TRUE

\* The mapping's Get and the report's GetReport.
ReadDoc(d, p) == docs[d][EffFormat(d, p)]

-----------------------------------------------------------------------------
Init ==
    /\ scene \in Scenes
    /\ tests = [x \in Indices \X Formats |-> NoFile]
    /\ assets = [n \in Indices |-> 0]
    /\ docs = [d \in Docs |-> [f \in Formats |-> NoFile]]
    /\ proc = [p \in Procs |-> Idle]
    /\ lastIndex = [p \in Procs |-> 0]
    /\ calls = 0
    /\ owedTests = {}
    /\ owedDocs = [d \in Docs |-> {}]

Begin(p, kind) ==
    /\ p \in scene.procs
    /\ kind \in scene.kinds
    /\ proc[p] = Idle
    /\ calls < MaxCalls
    /\ calls' = calls + 1
    /\ UNCHANGED scene

Step == UNCHANGED <<scene, calls>>
Return(p) == proc' = [proc EXCEPT ![p] = Idle]

\* Test cases are deleted when no recorder writes to their test set.
Quiet == \A q \in Procs : proc[q] = Idle

Owe(n, f, test) ==
    owedTests' = {o \in owedTests : o.name # n \/ o.test.tc # test.tc}
                   \cup {[name |-> n, fmt |-> f, test |-> test,
                          robbed |-> test.ref # 0 /\ assets[test.ref] # test.tc]}

(* upsert.                                                                 *)

\* An unnamed test case first claims a name; a named one is overwritten.
InsertTestCase(p, t, big) ==
    /\ Begin(p, "insert")
    /\ proc' = [proc EXCEPT ![p] = [at |-> "name", tries |-> 0, reserved |-> TRUE,
                                    test |-> [t EXCEPT !.tc = calls'], big |-> big]]
    /\ UNCHANGED <<testVars, docVars>>

\* A tool that read the test case writes it back under its name.
UpdateTestCase(p, n) ==
    /\ Begin(p, "update")
    /\ n \in GetTestCases(p)
    /\ proc' = [proc EXCEPT ![p] = [at |-> "assets", name |-> n, reserved |-> FALSE,
                  test |-> [GetTestCase(p, n) EXCEPT !.rev = @ + 1], big |-> FALSE]]
    /\ UNCHANGED <<testVars, docVars>>

\* Sequential names count in memory after the first scan, descriptive ones
\* scan every time.
nextTestIndex(p) ==
    /\ lastIndex' = [lastIndex EXCEPT ![p] = IF @ = 0 THEN FindLastIndexAny ELSE @ + 1]
    /\ proc' = [proc EXCEPT ![p] = [at |-> "claim", name |-> lastIndex'[p], tries |-> proc[p].tries + 1,
                                    reserved |-> TRUE, test |-> proc[p].test, big |-> proc[p].big]]

generateName(p) ==
    /\ proc[p].at = "name"
    /\ \/ /\ scene.naming = "sequential"
          /\ nextTestIndex(p)
       \/ /\ scene.naming = "descriptive"
          /\ proc' = [proc EXCEPT ![p] = [at |-> "claim", name |-> NextIndexForPrefix,
                        tries |-> proc[p].tries + 1, reserved |-> TRUE,
                        test |-> proc[p].test, big |-> proc[p].big]]
          /\ UNCHANGED lastIndex
    /\ UNCHANGED <<tests, assets, owedTests, docVars>>
    /\ Step

\* mutant: the reservation does not insist on creating the file
claimNameShared(p) ==
    LET n == proc[p].name IN
    /\ proc[p].at = "claim"
    /\ n \in Indices
    /\ tests' = [tests EXCEPT ![n, Format(p)] = Empty]
    /\ proc' = [proc EXCEPT ![p].at = "assets"]
    /\ UNCHANGED <<assets, lastIndex, owedTests, docVars>>
    /\ Step

\* The name is reserved by creating its file, which must not exist; else a
\* new name is generated, a bounded number of times.
claimName(p) ==
    LET n == proc[p].name IN
    /\ proc[p].at = "claim"
    /\ n \in Indices
    /\ \/ /\ tests[n, Format(p)] = NoFile
          /\ tests' = [tests EXCEPT ![n, Format(p)] = Empty]
          /\ proc' = [proc EXCEPT ![p].at = "assets"]
       \/ /\ tests[n, Format(p)] # NoFile
          /\ IF proc[p].tries < MaxClaims THEN proc' = [proc EXCEPT ![p].at = "name"] ELSE Return(p)
          /\ UNCHANGED tests
    /\ UNCHANGED <<assets, lastIndex, owedTests, docVars>>
    /\ Step

\* A body above the threshold moves to assets/<name>/body.txt and the test
\* case keeps a reference; other bodies stay.
saveAssets(p) ==
    LET c == proc[p] IN
    /\ c.at = "assets"
    /\ assets' = IF c.big THEN [assets EXCEPT ![c.name] = c.test.tc] ELSE assets
    /\ owedTests' = {IF c.big /\ o.test.ref = c.name /\ o.test.tc # c.test.tc
                     THEN [o EXCEPT !.robbed = TRUE] ELSE o : o \in owedTests}
    /\ proc' = [proc EXCEPT ![p].at = "write",
                            ![p].test.ref = IF c.big THEN c.name ELSE @]
    /\ UNCHANGED <<tests, lastIndex, docVars>>
    /\ Step

\* The finished temporary file replaces the reservation or the old test.
Rename(p) ==
    LET c == proc[p] IN
    /\ c.at = "write"
    /\ tests' = [tests EXCEPT ![c.name, Format(p)] = EncodeTest(Format(p), c.test)]
    /\ Owe(c.name, Format(p), c.test)
    /\ Return(p)
    /\ UNCHANGED <<assets, lastIndex, docVars>>
    /\ Step

\* An error on the way returns; the reservation is removed, not a test.
UpsertFails(p) ==
    LET c == proc[p] IN
    /\ c.at \in {"assets", "write"}
    /\ "write" \in scene.faults
    /\ tests' = IF c.reserved THEN [tests EXCEPT ![c.name, Format(p)] = NoFile] ELSE tests
    /\ Return(p)
    /\ UNCHANGED <<assets, lastIndex, owedTests, docVars>>
    /\ Step

(* Deleting and annotating test cases.                                     *)

DeleteTests(p, n) ==
    /\ Begin(p, "delete")
    /\ Quiet
    /\ n \in GetTestCases(p)
    /\ IF tests[n, Format(p)] = NoFile
       THEN UNCHANGED <<tests, owedTests>>
       ELSE /\ tests' = [tests EXCEPT ![n, Format(p)] = NoFile]
            /\ owedTests' = {o \in owedTests : o.name # n \/ o.fmt # Format(p)}
    /\ UNCHANGED <<proc, assets, lastIndex, docVars>>

DeleteTestSet(p) ==
    /\ Begin(p, "deleteSet")
    /\ Quiet
    /\ tests' = [x \in Indices \X Formats |-> NoFile]
    /\ assets' = [n \in Indices |-> 0]
    /\ owedTests' = {}
    /\ docs' = [docs EXCEPT !["mapping"] = [f \in Formats |-> NoFile]]
    /\ owedDocs' = [owedDocs EXCEPT !["mapping"] = {}]
    /\ UNCHANGED <<proc, lastIndex>>

\* Read, then create if missing and replace in the format the file has.  The
\* caller's assertions take the place of all but the noise.
UpdateAssertions(p, n, custom) ==
    /\ Begin(p, "assert")
    /\ n \in GetTestCases(p)
    /\ proc' = [proc EXCEPT ![p] = [at |-> "touch", name |-> n, fmt |-> ReadFileAny(p, n),
                  test |-> [GetTestCase(p, n) EXCEPT !.rev = @ + 1, !.custom = custom]]]
    /\ UNCHANGED <<testVars, docVars>>

TouchTest(p) ==
    LET c == proc[p] IN
    /\ c.at = "touch"
    /\ tests' = IF tests[c.name, c.fmt] = NoFile THEN [tests EXCEPT ![c.name, c.fmt] = Empty] ELSE tests
    /\ proc' = [proc EXCEPT ![p].at = "asserted"]
    /\ UNCHANGED <<assets, lastIndex, owedTests, docVars>>
    /\ Step

ReplaceTest(p) ==
    LET c == proc[p] IN
    /\ c.at = "asserted"
    /\ \/ /\ tests' = [tests EXCEPT ![c.name, c.fmt] = EncodeTest(c.fmt, c.test)]
          /\ Owe(c.name, c.fmt, c.test)
       \/ /\ "write" \in scene.faults
          /\ UNCHANGED <<tests, owedTests>>
    /\ Return(p)
    /\ UNCHANGED <<assets, lastIndex, docVars>>
    /\ Step

(* The mapping and the report: WriteFileF.                                 *)

\* The file's mapping overlaid with the new entries.
Overlaid(old, entries) == entries \cup IF old \in {NoFile, Empty} THEN {} ELSE old.entries

\* Read the mapping in the format it has and write the whole back.  An empty
\* JSON file does not decode, an empty YAML file is an empty mapping.
WriteMapping(p, entries) ==
    LET old == ReadDoc("mapping", p) IN
    /\ Begin(p, "mapping")
    /\ old = Empty => EffFormat("mapping", p) = "yaml"
    /\ proc' = [proc EXCEPT ![p] = [at |-> "create", doc |-> "mapping", entries |-> entries,
                  fmt |-> EffFormat("mapping", p), data |-> Doc(Overlaid(old, entries))]]
    /\ UNCHANGED <<testVars, docVars>>

Insert(p, entries) == WriteMapping(p, entries)
Upsert(p, test) == WriteMapping(p, {test})

InsertReport(p) ==
    /\ Begin(p, "report")
    /\ proc' = [proc EXCEPT ![p] = [at |-> "create", doc |-> "report", entries |-> {calls'},
                                    fmt |-> Format(p), data |-> Doc({calls'})]]
    /\ UNCHANGED <<testVars, docVars>>

\* A missing file is created empty.
CreateFileF(p) ==
    LET c == proc[p] IN
    /\ c.at = "create"
    /\ docs' = IF docs[c.doc][c.fmt] = NoFile THEN [docs EXCEPT ![c.doc][c.fmt] = Empty] ELSE docs
    /\ proc' = [proc EXCEPT ![p].at = "replace"]
    /\ UNCHANGED <<testVars, owedDocs>>
    /\ Step

\* Another write of the same document has read it and not replaced it yet:
\* nothing keeps the two apart.
Overlapped(p) ==
    \E q \in Procs \ {p} : proc[q].at \in {"create", "replace"} /\ proc[q].doc = proc[p].doc

\* The temporary file is synced and renamed over the target.  A cancelled
\* context or an error returns before the rename.
atomicReplaceFile(p) ==
    LET c == proc[p] IN
    /\ c.at = "replace"
    /\ \/ /\ docs' = [docs EXCEPT ![c.doc][c.fmt] = c.data]
          /\ owedDocs' = [owedDocs EXCEPT ![c.doc] = @ \cup {[entry |-> e, alone |-> ~Overlapped(p)] : e \in c.entries}]
       \/ /\ "write" \in scene.faults
          /\ UNCHANGED docVars
    /\ Return(p)
    /\ UNCHANGED testVars
    /\ Step

\* A process is killed wherever it is.
Crash(p) ==
    /\ "crash" \in scene.faults
    /\ proc[p] # Idle
    /\ Return(p)
    /\ lastIndex' = [lastIndex EXCEPT ![p] = 0]
    /\ UNCHANGED <<tests, assets, owedTests, docVars>>
    /\ Step

Next ==
    \E p \in Procs :
      \/ \E t \in scene.tests, big \in BOOLEAN : InsertTestCase(p, t, big)
      \/ generateName(p) \/ claimName(p) \/ saveAssets(p) \/ Rename(p) \/ UpsertFails(p)
      \/ \E n \in Indices : UpdateTestCase(p, n) \/ DeleteTests(p, n)
      \/ \E n \in Indices, custom \in {{}, {"status"}} : UpdateAssertions(p, n, custom)
      \/ TouchTest(p) \/ ReplaceTest(p)
      \/ DeleteTestSet(p)
      \/ \E t \in Indices : Upsert(p, t)
      \/ \E u \in Indices : Insert(p, 1..u)
      \/ InsertReport(p)
      \/ CreateFileF(p) \/ atomicReplaceFile(p)
      \/ Crash(p)

Spec == Init /\ [][Next]_vars
-----------------------------------------------------------------------------
(* Properties.                                                             *)

\* A file of the reader's own format hides the test of that name in the other.
Hidden(o, p) == Format(p) # o.fmt /\ tests[o.name, Format(p)] # NoFile
OneFormat == \A p, q \in scene.procs : Format(p) = Format(q)

\* Every test case whose insert or update returned is what a reader finds
\* under its name, as it was last written, until it is deleted, with its noise,
\* its assertions and the request body that belongs to it, whatever other
\* recorders, failed writes and killed processes did in the same directory
\* (testdb.upsert and claimName).  Recorders of different formats may claim one
\* name twice: each reader then sees the test of its own format, and the two
\* share one body.
TestsKept ==
    \A o \in owedTests :
      /\ \A p \in scene.procs : Hidden(o, p) \/
           /\ o.name \in GetTestCases(p)
           /\ LET t == GetTestCase(p, o.name) IN
                /\ <<t.tc, t.rev, t.ref, t.kind>> = <<o.test.tc, o.test.rev, o.test.ref, o.test.kind>>
                /\ o.test.noise \subseteq t.noise
                /\ t.custom = o.test.custom
                /\ t.description = o.test.description
      /\ o.test.ref # 0 => assets[o.test.ref] = o.test.tc \/ o.robbed
      /\ o.robbed => ~OneFormat

\* The mapping holds the entry of every write that completed and that no other
\* write of the mapping overlapped, and a killed or failed write loses none of
\* them (mapdb.Insert and Upsert).  Processes of different formats that create
\* the mapping at the same time leave two files and read their own.
TwoFiles == \A f \in Formats : docs["mapping"][f] # NoFile
MappingKept ==
    /\ TwoFiles \/
       \A o \in owedDocs["mapping"], p \in scene.procs :
          o.alone => ReadDoc("mapping", p) \notin {NoFile, Empty} /\ o.entry \in ReadDoc("mapping", p).entries
    /\ TwoFiles => ~OneFormat

=============================================================================

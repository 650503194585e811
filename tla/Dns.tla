-------------------------------- MODULE Dns --------------------------------
(***************************************************************************)
(* The agent's DNS server (pkg/agent/proxy/dns.go, dns_forward.go): every  *)
(* query runs in a goroutine of its own against the response cache, the    *)
(* pool of DNS mocks, the resolvers captured at startup and, while         *)
(* recording, the tracker of queries already recorded. Sessions and mock   *)
(* pools change underneath the queries.                                    *)
(*                                                                         *)
(* A question is a name in one of two spellings (upper and lower case);    *)
(* the cache is keyed by spelling, mocks and the tracker by name.          *)
(***************************************************************************)
EXTENDS Naturals, Sequences, FiniteSets

CONSTANTS
    Queries,    \* the query goroutines
    Questions,  \* [name, upper, kind], see QuestionType
    Sessions,   \* the sessions the client starts, a sequence of modes
    Resolvers,  \* what resolv.conf lists, [loopback, self]
    MaxPools    \* how often the client replaces the mocks

Names == {q.name : q \in Questions}
QuestionType ==
    [name : Names, upper : BOOLEAN, kind : {"A", "TXT", "other"}]

VARIABLES
    cache,      \* dnsCache: question -> answer, with the session it is owed to
    pool,       \* the names that have a mock, per tier
    recorded,   \* recordedDNSMocks: the session whose query marked a name; 0: none
    session,    \* number of sessions started; 0 before the first
    setter,     \* the agent's SetMocks call in progress
    query,      \* per goroutine: pc, question, what it has read so far
    emitted,    \* the DNS mocks sent: <<session, name>>
    answered    \* names answered while recording: [session, name, owner]
vars == <<cache, pool, recorded, session, setter, query, emitted, answered>>

Answer(source, rcode) == [source |-> source, rcode |-> rcode]
NoEntry == [ans |-> Answer("none", "none"), owner |-> 0]
Unmarked == [n \in Names |-> 0]

(* captureDNSUpstream: the resolvers of resolv.conf without the ones that  *)
(* are the agent itself.                                                   *)
Upstream == {r \in Resolvers : ~(r.loopback /\ r.self)}

(* The session's mode; without one the mode is "none".                     *)
Mode(s) == IF s = 0 THEN "none" ELSE Sessions[s]

Init ==
    /\ cache = [q \in Questions |-> NoEntry]
    /\ pool = [filtered |-> {}, unfiltered |-> {}]
    /\ recorded = Unmarked /\ session = 0
    /\ setter = [pc |-> "idle", n |-> 0]
    /\ query = [i \in Queries |-> [pc |-> "idle"]]
    /\ emitted = {} /\ answered = {}

-----------------------------------------------------------------------------
(* Record replaces the tracker and the session, Mock the session; neither  *)
(* touches the cache.                                                      *)
StartSession ==
    /\ session < Len(Sessions)
    /\ session' = session + 1
    /\ recorded' = IF Sessions[session + 1] = "record" THEN Unmarked ELSE recorded
    /\ UNCHANGED <<cache, pool, setter, query, emitted, answered>>

(* SetMocks: both tiers are replaced, one after the other, then the cache  *)
(* is purged.                                                              *)
SetFilteredMocks ==
    /\ setter.pc = "idle" /\ setter.n < MaxPools /\ Mode(session) = "test"
    /\ \E with \in SUBSET Names : pool' = [pool EXCEPT !.filtered = with]
    /\ setter' = [pc |-> "unfiltered", n |-> setter.n + 1]
    /\ UNCHANGED <<cache, recorded, session, query, emitted, answered>>

SetUnFilteredMocks ==
    /\ setter.pc = "unfiltered"
    /\ \E with \in SUBSET Names : pool' = [pool EXCEPT !.unfiltered = with]
    /\ setter' = [setter EXCEPT !.pc = "purge"]
    /\ UNCHANGED <<cache, recorded, session, query, emitted, answered>>

PurgeCache ==
    /\ setter.pc = "purge"
    /\ cache' = [q \in Questions |-> NoEntry]
    /\ setter' = [setter EXCEPT !.pc = "idle"]
    /\ UNCHANGED <<pool, recorded, session, query, emitted, answered>>

(* A cache entry or a tracker entry times out, or is evicted by size.      *)
Expire ==
    /\ \/ \E q \in Questions : /\ cache[q] # NoEntry
                               /\ cache' = [cache EXCEPT ![q] = NoEntry]
                               /\ recorded' = recorded
       \/ \E n \in Names : /\ recorded[n] # 0
                           /\ recorded' = [recorded EXCEPT ![n] = 0]
                           /\ cache' = cache
    /\ UNCHANGED <<pool, session, setter, query, emitted, answered>>

-----------------------------------------------------------------------------
Goto(i, upd) == query' = [query EXCEPT ![i] = upd]

(* The reply is written to the application.                                *)
Reply(s, q, entry) ==
    answered' = IF Mode(s) = "record" /\ entry.ans.rcode = "success"
                THEN answered \cup {[session |-> s, name |-> q.name, owner |-> entry.owner]}
                ELSE answered

(* ServeDNS reads the session and looks into the cache; a hit is answered  *)
(* at once.                                                                *)
Ask(i) ==
    /\ query[i].pc = "idle"
    /\ \E q \in Questions :
        /\ cache[q] = NoEntry
        /\ Goto(i, [pc |-> "resolve", q |-> q, session |-> session])
    /\ UNCHANGED <<cache, pool, recorded, session, setter, emitted, answered>>

AskCached(i) ==
    /\ query[i].pc = "idle"
    /\ \E q \in Questions :
        /\ cache[q] # NoEntry
        /\ Reply(session, q, cache[q])
    /\ UNCHANGED <<cache, pool, recorded, session, setter, query, emitted>>

(* findDNSMock in the filtered tier, then in the unfiltered one; the name  *)
(* is compared without regard to case.                                     *)
findDNSMock(q) == q.name \in pool.filtered \cup pool.unfiltered

(* forwardDNSUpstream asks the captured resolvers, for common types only.  *)
ForwardResults(q) ==
    IF Upstream = {} \/ q.kind = "other" THEN {"fail"}
    ELSE {"success", "negative", "fail"}

(* defaultDNSResponse: the proxy's own address for an address query, an    *)
(* empty answer otherwise.                                                 *)
defaultDNSResponse(q) ==
    Answer("synthetic", IF q.kind = "A" THEN "success" ELSE "empty")

(* What a recording query gets: it is owed to the session of the query, or *)
(* to the one whose query marked the name before.                          *)
Resolved(i, r) ==
    LET marked == recorded[query[i].q.name]
    IN  [ans |-> IF r = "fail" THEN Answer("failed", "servfail") ELSE Answer("upstream", r),
         owner |-> IF marked = 0 THEN query[i].session ELSE marked]

(* Mutant: a negative answer marks the name as recorded.                   *)
RecordResolveMarksAll(i) ==
    /\ query[i].pc = "resolve"
    /\ Mode(query[i].session) = "record"
    /\ \E r \in {"success", "negative", "fail"} :
        Goto(i, [pc |-> IF r = "success" /\ recorded[query[i].q.name] = 0
                        THEN "emit" ELSE "store",
                 q |-> query[i].q, session |-> query[i].session,
                 entry |-> Resolved(i, r)])
    /\ recorded' = [recorded EXCEPT ![query[i].q.name] = query[i].session]
    /\ UNCHANGED <<cache, pool, session, setter, emitted, answered>>

(* shouldCacheDNSResponse: FromUpstream is also set on a mock's answer.    *)
shouldCacheDNSResponse(mode, ans) ==
    /\ ans.source \in {"upstream", "mock"}
    /\ mode \in {"test", "live", "record"}

(* resolveUncachedDNSResponse. "test" replays with mocking, "live" without *)
(* it; "record" asks an upstream resolver (or a public one); without a     *)
(* session the answer is synthetic.                                        *)
TestAnswers(q, mode) ==
    IF mode = "test" /\ findDNSMock(q)
    THEN {Answer("mock", "success")}
    ELSE {CASE r = "success" -> Answer("upstream", "success")
            [] r = "negative" /\ mode = "live" -> Answer("upstream", "negative")
            [] OTHER -> defaultDNSResponse(q) : r \in ForwardResults(q)}

Resolve(i) ==
    LET mode == Mode(query[i].session)
    IN /\ query[i].pc = "resolve"
       /\ mode # "record"
       /\ \E ans \in IF mode = "none" THEN {defaultDNSResponse(query[i].q)}
                     ELSE TestAnswers(query[i].q, mode) :
            Goto(i, [pc |-> "store", q |-> query[i].q, session |-> query[i].session,
                     entry |-> [ans |-> ans, owner |-> query[i].session]])
       /\ UNCHANGED <<cache, pool, recorded, session, setter, emitted, answered>>

(* recordDNSMock: only a successful answer is recorded, and only if the    *)
(* tracker does not have the name ...                                      *)
RecordResolve(i) ==
    /\ query[i].pc = "resolve"
    /\ Mode(query[i].session) = "record"
    /\ \E r \in {"success", "negative", "fail"} :
        Goto(i, [pc |-> IF r = "success" /\ recorded[query[i].q.name] = 0
                        THEN "mark" ELSE "store",
                 q |-> query[i].q, session |-> query[i].session,
                 entry |-> Resolved(i, r)])
    /\ UNCHANGED <<cache, pool, recorded, session, setter, emitted, answered>>

(* ... which is then told, whichever session's it is by now.               *)
MarkRecorded(i) ==
    /\ query[i].pc = "mark"
    /\ recorded' = [recorded EXCEPT ![query[i].q.name] = query[i].session]
    /\ Goto(i, [query[i] EXCEPT !.pc = "emit"])
    /\ UNCHANGED <<cache, pool, session, setter, emitted, answered>>

EmitMock(i) ==
    /\ query[i].pc = "emit"
    /\ emitted' = emitted \cup {<<query[i].session, query[i].q.name>>}
    /\ Goto(i, [query[i] EXCEPT !.pc = "store"])
    /\ UNCHANGED <<cache, pool, recorded, session, setter, answered>>

(* The rest of ServeDNS: the answer is cached and written.                 *)
StoreAndReply(i) ==
    /\ query[i].pc = "store"
    /\ cache' = IF shouldCacheDNSResponse(Mode(query[i].session), query[i].entry.ans)
                THEN [cache EXCEPT ![query[i].q] = query[i].entry] ELSE cache
    /\ Reply(query[i].session, query[i].q, query[i].entry)
    /\ Goto(i, [pc |-> "idle"])
    /\ UNCHANGED <<pool, recorded, session, setter, emitted>>

Next ==
    \/ StartSession \/ SetFilteredMocks \/ SetUnFilteredMocks \/ PurgeCache \/ Expire
    \/ \E i \in Queries : \/ Ask(i) \/ AskCached(i) \/ Resolve(i)
                          \/ RecordResolve(i) \/ MarkRecorded(i) \/ EmitMock(i)
                          \/ StoreAndReply(i)

Spec == Init /\ [][Next]_vars

-----------------------------------------------------------------------------
TypeOK ==
    /\ recorded \in [Names -> 0 .. session] /\ session \in 0 .. Len(Sessions)
    /\ \A q \in Questions : cache[q].ans.source \in {"none", "upstream", "mock"}

(* A name another query of session s has marked and is about to emit.      *)
BeingRecorded ==
    {<<query[i].session, query[i].q.name>> :
        i \in {j \in Queries : query[j].pc = "emit"}}

(* Every name whose successful answer was delivered in a recording session *)
(* is recorded in that session, so that a replay can answer it: the cache, *)
(* the tracker and concurrent queries of one name never lose it. (Two      *)
(* spellings of a name share the tracker and not the cache.) An answer is  *)
(* excepted when a query of an earlier session left it in the cache, which *)
(* Record does not purge, or marked the name in the tracker after Record   *)
(* replaced it.                                                            *)
AnswerRecorded ==
    \A a \in answered :
        a.owner = a.session => <<a.session, a.name>> \in emitted \cup BeingRecorded
=============================================================================

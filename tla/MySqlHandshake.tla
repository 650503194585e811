--------------------------- MODULE MySqlHandshake ---------------------------
(***************************************************************************)
(* The connection phase of MySQL, recorded and then replayed.  While        *)
(* recording, the recorder sits between a client and a server, keeps what   *)
(* each of them says and emits one "config" mock per connection; there are  *)
(* three recorders, the legacy one, the one over the supervisor's streams   *)
(* ("v2") and the one that only joins after TLS ("post").  While replaying  *)
(* the application opens the same connections, in any order, and the        *)
(* replayer plays the server's part from the recorded mocks.                *)
(*                                                                          *)
(* A packet is its type: what a packet carries is decided by the            *)
(* connection it belongs to.  A connection of the application is a record   *)
(*   [user, ssl, plugin, switch, auth, final, mid, stored]                  *)
(* naming the user, whether it asks for TLS, the plugin of the greeting,    *)
(* the plugin the server switches to ("none"), how the server authenticates *)
(* ("ok" at once, "fast", "full" or "err"), the last packet, whether the    *)
(* recorder joins it only after its handshake, and whether a recorder that  *)
(* joins after TLS finds its entry in the TLSHandshakeStore.                *)
(***************************************************************************)
EXTENDS Naturals, Sequences, FiniteSets, SequencesExt

CONSTANTS
    Sessions,   \* what may be recorded: [path, conns]
    MaxFaults   \* failed reads, writes, decodes or TLS upgrades in a session

VARIABLES
    session,    \* the recorded session
    wire,       \* the packet its sender has put on the connection
    rec,        \* the recorder of the current connection
    mocks,      \* the config mocks, in the order the pool returns them
    rep,        \* the replayer of each connection
    kept,       \* the connections whose handshake was recorded
    served,     \* how each replayed connection ended for the client
    faults

vars == <<session, wire, rec, mocks, rep, kept, served, faults>>

Conns == DOMAIN session.conns
ConnOf(i) == session.conns[i]

ClientPackets == {"SSLRequest", "HandshakeResponse41", "AuthSwithResponse", "PublicKeyRequest", "EncryptedPassword", "PlainPassword"}
ServerPackets == {"HandshakeV10", "AuthSwitchRequest", "FullAuth", "FastAuthSuccess", "PublicKey", "OK", "ERR"}
AuthMoreData == {"FullAuth", "FastAuthSuccess"}

\* The first packet of the server's verdict, once the plugin is settled.
Verdict(c) == CASE c.auth = "ok" -> "OK" [] c.auth = "err" -> "ERR" [] c.auth = "fast" -> "FastAuthSuccess" [] c.auth = "full" -> "FullAuth"

\* What a client that speaks the protocol answers to a server packet.
Answer(c, p) ==
    CASE p = "HandshakeV10"      -> IF c.ssl THEN "SSLRequest" ELSE "HandshakeResponse41"
      [] p = "AuthSwitchRequest" -> "AuthSwithResponse"
      [] p = "FullAuth"          -> IF c.ssl THEN "PlainPassword" ELSE "PublicKeyRequest"
      [] p = "PublicKey"         -> "EncryptedPassword"
      [] OTHER                   -> "none"

\* The packet that follows p when c talks to its real server.
Follow(c, p) ==
    CASE p \in {"HandshakeV10", "AuthSwitchRequest", "FullAuth", "PublicKey"} -> Answer(c, p)
      [] p = "SSLRequest"          -> "HandshakeResponse41"
      [] p = "HandshakeResponse41" -> IF c.switch # "none" THEN "AuthSwitchRequest" ELSE Verdict(c)
      [] p = "AuthSwithResponse"   -> Verdict(c)
      [] p = "PublicKeyRequest"    -> "PublicKey"
      [] p \in {"FastAuthSuccess", "PlainPassword", "EncryptedPassword"} -> c.final
      [] OTHER                     -> "none"

-----------------------------------------------------------------------------
(***************************************************************************)
(* Recording.  pc names the read the recorder is blocked in.                *)
(***************************************************************************)
Idle == [conn |-> 0, pc |-> "idle", req |-> <<>>, resp |-> <<>>, plugin |-> "none"]
NoMock == [conn |-> 0, req |-> <<>>, resp |-> <<>>, user |-> "", ssl |-> FALSE]
Waiting == [pc |-> "idle", wire |-> "none", snap |-> <<>>, mock |-> NoMock, req |-> 0, resp |-> 0]

Init ==
    /\ session \in Sessions
    /\ wire = "none"
    /\ rec = Idle
    /\ mocks = <<>>
    /\ rep = [i \in Conns |-> Waiting]
    /\ kept = {}
    /\ served = [i \in Conns |-> "none"]
    /\ faults = 0

Recording == session.path # "replay"

\* The application opens its next connection: the server greets.
Accept ==
    /\ Recording /\ rec.pc = "idle" /\ rec.conn < Len(session.conns)
    /\ rec' = [Idle EXCEPT !.conn = rec.conn + 1, !.pc = IF session.path = "post" THEN "store" ELSE "greeting"]
    /\ wire' = "HandshakeV10"
    /\ UNCHANGED <<session, mocks, rep, kept, served, faults>>

\* A packet read, forwarded and, in keep, appended to the mock's requests
\* or responses; the peer answers it.
Take(p, keep, pc) ==
    /\ wire = p
    /\ rec' = [rec EXCEPT !.pc = pc,
                          !.req = IF keep /\ p \in ClientPackets THEN Append(@, p) ELSE @,
                          !.resp = IF keep /\ p \in ServerPackets THEN Append(@, p) ELSE @]
    /\ wire' = Follow(ConnOf(rec.conn), p)
    /\ UNCHANGED <<session, mocks, rep, kept, served, faults>>

\* As Take, for the packet that names the plugin.
TakePlugin(p, plugin, pc) ==
    /\ wire = p
    /\ rec' = [rec EXCEPT !.pc = pc, !.resp = Append(@, p), !.plugin = plugin]
    /\ wire' = Follow(ConnOf(rec.conn), p)
    /\ UNCHANGED <<session, mocks, rep, kept, served, faults>>

\* A step that fails: the handshake returns an error and no mock is emitted.
Fail == rec' = [Idle EXCEPT !.conn = rec.conn] /\ wire' = "none" /\ UNCHANGED <<session, mocks, rep, kept, served>>

\* Where each verdict leads: the packet that settles the handshake is kept,
\* or the mechanism's own exchange follows.
AfterMechanism(p) == IF p = "FastAuthSuccess" THEN "final" ELSE IF ConnOf(rec.conn).ssl THEN "plain" ELSE "pubkeyreq"

\* handleAuth and handleCachingSha2Password of the legacy recorder: the
\* native plugin takes any packet, caching_sha2 only AuthMoreData, and every
\* other plugin is an error.
AuthLegacy(p) ==
    \/ rec.plugin = "native" /\ Take(p, TRUE, "emit")
    \/ rec.plugin = "sha2" /\ p \in AuthMoreData /\ Take(p, TRUE, AfterMechanism(p))
    \/ /\ rec.plugin = "other" \/ (rec.plugin = "sha2" /\ p \notin AuthMoreData)
       /\ wire = p /\ Fail /\ UNCHANGED faults

\* handleAuthV2: an OK settles caching_sha2 as well, and an OK or ERR any
\* plugin it does not know.
AuthV2(p) ==
    \/ rec.plugin = "native" /\ Take(p, TRUE, "emit")
    \/ rec.plugin = "sha2" /\ p \in AuthMoreData /\ Take(p, TRUE, AfterMechanism(p))
    \/ rec.plugin = "sha2" /\ p = "OK" /\ Take(p, TRUE, "emit")
    \/ rec.plugin = "other" /\ p \in {"OK", "ERR"} /\ Take(p, TRUE, "emit")
    \/ /\ <<rec.plugin, p>> \in {<<"sha2", "ERR">>} \cup ({"other"} \X AuthMoreData)
       /\ wire = p /\ Fail /\ UNCHANGED faults

Decider == {"OK", "ERR"} \cup AuthMoreData

\* The legacy recorder's greeting, client hello, verdict and auth switch.
GreetingLegacy == session.path = "legacy" /\ rec.pc = "greeting" /\ TakePlugin("HandshakeV10", ConnOf(rec.conn).plugin, "hello")
HelloLegacy ==
    /\ session.path = "legacy" /\ rec.pc = "hello"
    /\ (Take("SSLRequest", TRUE, "hr41") \/ Take("HandshakeResponse41", TRUE, "decider"))
Hr41Legacy == session.path = "legacy" /\ rec.pc = "hr41" /\ Take("HandshakeResponse41", TRUE, "decider")
DeciderLegacy ==
    /\ session.path = "legacy" /\ rec.pc \in {"decider", "decider2"}
    /\ \/ rec.pc = "decider" /\ TakePlugin("AuthSwitchRequest", ConnOf(rec.conn).switch, "switch")
       \/ \E p \in {"OK"} \cup AuthMoreData : AuthLegacy(p)
       \/ Take("ERR", FALSE, "emit")
SwitchLegacy == session.path = "legacy" /\ rec.pc = "switch" /\ Take("AuthSwithResponse", TRUE, "decider2")

\* The same five reads over the supervisor's streams.
GreetingV2 == session.path = "v2" /\ rec.pc = "greeting" /\ TakePlugin("HandshakeV10", ConnOf(rec.conn).plugin, "hello")
HelloV2 == session.path = "v2" /\ rec.pc = "hello" /\ (Take("SSLRequest", TRUE, "hr41") \/ Take("HandshakeResponse41", TRUE, "decider"))
Hr41V2 == session.path = "v2" /\ rec.pc = "hr41" /\ Take("HandshakeResponse41", TRUE, "decider")
DeciderV2 ==
    /\ session.path = "v2" /\ rec.pc \in {"decider", "decider2"}
    /\ \/ rec.pc = "decider" /\ TakePlugin("AuthSwitchRequest", ConnOf(rec.conn).switch, "switch")
       \/ \E p \in Decider : AuthV2(p)
SwitchV2 == session.path = "v2" /\ rec.pc = "switch" /\ Take("AuthSwithResponse", TRUE, "decider2")

\* Recording behind TLS: the plaintext stage stored the greeting and the
\* SSLRequest and skipped the mock; the later stage pops them, or asks the
\* server for a greeting of its own when the entry never came.
SkipTlsMitm ==
    /\ session.path = "post" /\ rec.pc = "store" /\ ~ConnOf(rec.conn).mid
    /\ rec' = [rec EXCEPT !.pc = "posthr41", !.plugin = ConnOf(rec.conn).plugin,
                          !.req = IF ConnOf(rec.conn).stored THEN <<"SSLRequest">> ELSE <<>>]
    /\ wire' = "HandshakeResponse41"
    /\ UNCHANGED <<session, mocks, rep, kept, served, faults>>
PostHr41 ==
    /\ session.path = "post" /\ rec.pc = "posthr41"
    /\ wire = "HandshakeResponse41"
    /\ rec' = [rec EXCEPT !.pc = "decider", !.req = Append(@, wire), !.resp = <<"HandshakeV10">>]
    /\ wire' = Follow(ConnOf(rec.conn), wire)
    /\ UNCHANGED <<session, mocks, rep, kept, served, faults>>
PostDecider ==
    /\ session.path = "post" /\ rec.pc \in {"decider", "decider2"}
    /\ \/ rec.pc = "decider" /\ TakePlugin("AuthSwitchRequest", ConnOf(rec.conn).switch, "switch")
       \/ \E p \in Decider : AuthLegacy(p)
PostSwitch == session.path = "post" /\ rec.pc = "switch" /\ Take("AuthSwithResponse", TRUE, "decider2")
\* A pooled connection the recorder first sees at a command: the mock is
\* made up from the stored SSLRequest, without a user name, as a fast
\* authentication that succeeded.  Without the entry there is no mock.
PostMidStream ==
    /\ session.path = "post" /\ rec.pc = "store" /\ ConnOf(rec.conn).mid
    /\ rec' = IF ConnOf(rec.conn).stored
              THEN [rec EXCEPT !.pc = "emit", !.req = <<"SSLRequest", "HandshakeResponse41">>,
                               !.resp = <<"HandshakeV10", "FastAuthSuccess", "OK">>]
              ELSE [Idle EXCEPT !.conn = rec.conn]
    /\ wire' = "none"
    /\ UNCHANGED <<session, mocks, rep, kept, served, faults>>

\* The exchanges of caching_sha2: the last packet of a fast or full
\* authentication, the password inside TLS, and the public key exchange.
FastAuthFinal == rec.pc = "final" /\ \E p \in {"OK", "ERR"} : Take(p, TRUE, "emit")
PlainPassword == rec.pc = "plain" /\ Take("PlainPassword", TRUE, "final")
PublicKeyRequest == rec.pc = "pubkeyreq" /\ Take("PublicKeyRequest", TRUE, "pubkey")
PublicKeyResponse == rec.pc = "pubkey" /\ Take("PublicKey", TRUE, "encpass")
EncryptedPassword == rec.pc = "encpass" /\ Take("EncryptedPassword", TRUE, "final")

\* recordMock: the config mock joins the pool behind the earlier ones.
RecordMock ==
    /\ rec.pc = "emit"
    /\ mocks' = Append(mocks, [conn |-> rec.conn, req |-> rec.req, resp |-> rec.resp,
                               user |-> IF ConnOf(rec.conn).mid THEN "" ELSE ConnOf(rec.conn).user,
                               ssl |-> ConnOf(rec.conn).ssl])
    /\ rec' = [Idle EXCEPT !.conn = rec.conn]
    /\ wire' = "none"
    /\ kept' = kept \cup {rec.conn}
    /\ UNCHANGED <<session, rep, served, faults>>

RecordFault ==
    /\ Recording /\ rec.pc # "idle" /\ faults < MaxFaults
    /\ faults' = faults + 1
    /\ Fail

\* The recording ends and the replay of the same application begins.
StartReplay ==
    /\ Recording /\ rec.pc = "idle" /\ rec.conn = Len(session.conns)
    /\ session' = [session EXCEPT !.path = "replay"]
    /\ rec' = Idle
    /\ UNCHANGED <<wire, mocks, rep, kept, served, faults>>

-----------------------------------------------------------------------------
(***************************************************************************)
(* Replaying.  Every connection has a goroutine of its own; it took its     *)
(* list of config mocks once, when it started.                              *)
(***************************************************************************)
Replaying == session.path = "replay"

\* The connection's next state and, when the handshake is over, what the
\* client got: the last packet, "refused" (an error closes the connection)
\* or "stuck" (no error, and nothing more is sent).
Step(i, r) == rep' = [rep EXCEPT ![i] = r] /\ UNCHANGED <<session, wire, rec, kept, served, faults>>
Leave(i, outcome) ==
    /\ rep' = [rep EXCEPT ![i] = [Waiting EXCEPT !.pc = "done"]]
    /\ served' = [served EXCEPT ![i] = outcome]
    /\ UNCHANGED <<session, wire, rec, kept, faults>>

\* updateMock re-files the used mock behind the others, if it is still
\* there; a full authentication deletes it.
UpdateMock(m) == IF m \in Range(mocks) THEN Append(Remove(mocks, m), m) ELSE mocks
DeleteMock(m) == Remove(mocks, m)

\* Replay and the greeting: the first handshake mock's, whichever
\* connection this is.
ReplayGreeting(i) ==
    /\ Replaying /\ rep[i].pc = "idle"
    /\ \/ mocks = <<>> /\ Leave(i, "refused")
       \/ mocks # <<>> /\ Step(i, [Waiting EXCEPT !.pc = "hello", !.snap = mocks, !.wire = Answer(ConnOf(i), mocks[1].resp[1])])
    /\ UNCHANGED mocks

\* An SSLRequest narrows the candidates to the mocks that begin with one,
\* unless there is none.
SslMatchedOnly(snap) ==   \* mutant: no fallback when no mock begins with one
    SelectSeq(snap, LAMBDA m : m.req # <<>> /\ m.req[1] = "SSLRequest")

SslMatched(snap) ==
    LET match == SelectSeq(snap, LAMBDA m : m.req # <<>> /\ m.req[1] = "SSLRequest")
    IN  IF match = <<>> THEN snap ELSE match
ReplaySsl(i) ==
    /\ rep[i].pc = "hello" /\ rep[i].wire = "SSLRequest"
    /\ Step(i, [rep[i] EXCEPT !.pc = "hr41", !.snap = SslMatched(rep[i].snap), !.wire = "HandshakeResponse41"])
    /\ UNCHANGED mocks

\* The index of the mock's HandshakeResponse41 when it matches the live one.
HrIdx(m, c) ==
    LET idx == {k \in {1, 2} : k <= Len(m.req) /\ m.req[k] = "HandshakeResponse41"}
    IN  IF m.user \in {"", c.user} /\ idx # {} THEN CHOOSE k \in idx : \A l \in idx : k <= l ELSE 0
Candidates(i) == {k \in DOMAIN rep[i].snap : HrIdx(rep[i].snap[k], ConnOf(i)) # 0}
ReplaySelect(i) ==
    /\ rep[i].pc \in {"hello", "hr41"} /\ rep[i].wire = "HandshakeResponse41"
    /\ \/ Candidates(i) = {} /\ Leave(i, "refused")
       \/ \E k \in Candidates(i) :
            /\ \A l \in Candidates(i) : k <= l
            /\ LET m == rep[i].snap[k]
               IN  Step(i, [rep[i] EXCEPT !.pc = "decider", !.mock = m, !.snap = <<>>, !.wire = "none",
                                          !.req = HrIdx(m, ConnOf(i)) + 1, !.resp = 2])
    /\ UNCHANGED mocks

\* The verdict of the mock: an auth switch, an OK, or AuthMoreData.  Any
\* other packet, and a mock that ends here, is answered with nothing.
ReplayDecider(i) ==
    LET r == rep[i]
        m == r.mock
        d == IF r.resp <= Len(m.resp) THEN m.resp[r.resp] ELSE "none"
    IN  /\ r.pc \in {"decider", "decider2"}
        /\ \/ /\ r.pc = "decider" /\ d = "AuthSwitchRequest"
              /\ Step(i, [r EXCEPT !.pc = "switch", !.resp = @ + 1, !.wire = Answer(ConnOf(i), d)]) /\ UNCHANGED mocks
           \/ d = "OK" /\ Leave(i, "OK") /\ mocks' = UpdateMock(m)
           \/ /\ d \in AuthMoreData /\ r.resp + 1 <= Len(m.resp)
              /\ Step(i, [r EXCEPT !.pc = d, !.resp = @ + 1, !.wire = Answer(ConnOf(i), d)]) /\ UNCHANGED mocks
           \/ d \in AuthMoreData /\ r.resp + 1 > Len(m.resp) /\ Leave(i, "refused") /\ UNCHANGED mocks
           \/ /\ d \notin ({"OK"} \cup AuthMoreData) /\ ~(r.pc = "decider" /\ d = "AuthSwitchRequest")
              /\ Leave(i, "stuck") /\ UNCHANGED mocks

\* The mock's request at the cursor is of type p and was sent at the same
\* position of the handshake (the sequence number).
Expected(i, p) ==
    LET r == rep[i] IN r.req <= Len(r.mock.req) /\ r.mock.req[r.req] = p /\ r.mock.ssl = ConnOf(i).ssl

ReplaySwitch(i) ==
    /\ rep[i].pc = "switch" /\ rep[i].wire = "AuthSwithResponse"
    /\ \/ ~Expected(i, "AuthSwithResponse") /\ Leave(i, "refused")
       \/ Expected(i, "AuthSwithResponse") /\ Step(i, [rep[i] EXCEPT !.pc = "decider2", !.req = @ + 1, !.wire = "none"])
    /\ UNCHANGED mocks

ReplayFast(i) ==
    /\ rep[i].pc = "FastAuthSuccess"
    /\ Leave(i, rep[i].mock.resp[rep[i].resp])
    /\ mocks' = UpdateMock(rep[i].mock)

\* The password inside TLS: the recorded one, or an error.
ReplayPlain(i) ==
    /\ rep[i].pc = "FullAuth" /\ rep[i].wire = "PlainPassword"
    /\ \/ Expected(i, "PlainPassword") /\ Leave(i, rep[i].mock.resp[rep[i].resp]) /\ mocks' = DeleteMock(rep[i].mock)
       \/ ~Expected(i, "PlainPassword") /\ Leave(i, "refused") /\ UNCHANGED mocks

\* The public key: a request whose header differs ends the handshake
\* without an error.
ReplayPublicKey(i) ==
    /\ rep[i].pc = "FullAuth" /\ rep[i].wire = "PublicKeyRequest"
    /\ \/ rep[i].req > Len(rep[i].mock.req) /\ Leave(i, "refused")
       \/ rep[i].req <= Len(rep[i].mock.req) /\ ~Expected(i, "PublicKeyRequest") /\ Leave(i, "stuck")
       \/ /\ Expected(i, "PublicKeyRequest")
          /\ Step(i, [rep[i] EXCEPT !.pc = "encpass", !.req = @ + 1, !.resp = @ + 1, !.wire = Answer(ConnOf(i), "PublicKey")])
    /\ UNCHANGED mocks
ReplayEncrypted(i) ==
    LET r == rep[i]
    IN  /\ r.pc = "encpass" /\ r.wire = "EncryptedPassword"
        /\ \/ /\ Expected(i, "EncryptedPassword") /\ r.resp <= Len(r.mock.resp)
              /\ Leave(i, r.mock.resp[r.resp]) /\ mocks' = DeleteMock(r.mock)
           \/ /\ ~(Expected(i, "EncryptedPassword") /\ r.resp <= Len(r.mock.resp))
              /\ Leave(i, "refused") /\ UNCHANGED mocks

Finished == Replaying /\ (\A i \in Conns : rep[i].pc = "done") /\ UNCHANGED vars

Record ==
    \/ Accept \/ GreetingLegacy \/ HelloLegacy \/ Hr41Legacy \/ DeciderLegacy \/ SwitchLegacy
    \/ GreetingV2 \/ HelloV2 \/ Hr41V2 \/ DeciderV2 \/ SwitchV2
    \/ SkipTlsMitm \/ PostHr41 \/ PostDecider \/ PostSwitch \/ PostMidStream
    \/ FastAuthFinal \/ PlainPassword \/ PublicKeyRequest \/ PublicKeyResponse \/ EncryptedPassword
    \/ RecordMock \/ RecordFault \/ StartReplay

Replay ==
    \E i \in Conns :
        \/ ReplayGreeting(i) \/ ReplaySsl(i) \/ ReplaySelect(i) \/ ReplayDecider(i) \/ ReplaySwitch(i)
        \/ ReplayFast(i) \/ ReplayPlain(i) \/ ReplayPublicKey(i) \/ ReplayEncrypted(i)

Next == Record \/ Replay \/ Finished
Spec == Init /\ [][Next]_vars

-----------------------------------------------------------------------------
\* The connections that can be served each other's mock: they log in as the
\* same user, or the mock was made up and names no user.
Peers(i) == {j \in Conns : ConnOf(j).user = ConnOf(i).user \/ ConnOf(j).mid}

\* The mock of connection j begins with an SSLRequest.
BeginsWithSsl(j) == ConnOf(j).ssl /\ ConnOf(j).stored

\* The mocks that compete for connection i were recorded as it was.  The
\* replayer tells them apart by the user alone: a plaintext login may pick
\* a TLS mock, whose packets have other sequence numbers, and a TLS login
\* recorded without its SSLRequest is passed over as soon as any mock has
\* one.
Alike(i) ==
    /\ \A j \in Peers(i) : ConnOf(j).ssl = ConnOf(i).ssl /\ BeginsWithSsl(j) = BeginsWithSsl(i)
    /\ ConnOf(i).ssl /\ ~BeginsWithSsl(i) => \A j \in Conns : ~BeginsWithSsl(j)

\* The replay of recorded handshakes, in whatever order the application
\* opens its connections and however they interleave.  A last packet that
\* a client gets is always one that a recorded login of the same user got
\* (or the OK of a mock made up for a pooled connection): no login is
\* answered as another user.  And the handshake runs to its end, neither
\* refused nor left hanging, when the competing mocks are Alike, each
\* competing connection was kept by the recorder and none was refused by
\* the server before it was authenticated (the replayer has no case for an
\* ERR there).  Which of two logins of one user a connection is answered as
\* is not determined.
HandshakeReplays ==
    \A i \in Conns :
        LET finals == {ConnOf(j).final : j \in Peers(i) \cap kept}
        IN  /\ served[i] \in {"none", "refused", "stuck"} \cup finals
            /\ /\ served[i] # "none"
               /\ Alike(i)
               /\ Peers(i) \subseteq kept
               /\ \A j \in Peers(i) : ConnOf(j).auth # "err"
               => served[i] \in finals
=============================================================================

----------------------------- MODULE ProxyConn -----------------------------
(***************************************************************************)
(* The outgoing proxy of the agent (pkg/agent/proxy): the accept loop, one *)
(* handler goroutine per redirected connection (handleConnection), the     *)
(* speculative upstream dial it may start, the goroutine that closes its   *)
(* sockets on cancellation, and the two halves of the shutdown             *)
(* (StopProxyServer and the deferred part of start).                       *)
(*                                                                         *)
(* All modelled connections use ONE client source port, recycled by the    *)
(* operating system: the tables keyed by source port are then scalars.     *)
(*   dest   the kernel's redirect table (DestInfo) at that port            *)
(*   owner  srcPortOwner, url  SrcPortToDstURL (tls/ca.go)                 *)
(* What each client sends is part of the configuration; what may fail on   *)
(* the way (dials, handshakes, writes) fails at most MaxFaults times.      *)
(***************************************************************************)
EXTENDS Naturals, Sequences

CONSTANTS
    Conns,      \* the connections, numbered in the order they are accepted
    Configs,    \* the proxy configurations and their clients, see ConfigType
    MaxFaults   \* bound on failing calls

None == "none"
Blank == ""

(* What a client does: the kind of its first bytes, the port it meant to   *)
(* reach, the kind of the bytes inside a CONNECT tunnel, the host its      *)
(* ClientHello names (Blank: no SNI), whether it presents a certificate,   *)
(* and whether its request is HTTP/1.                                      *)
ClientType ==
    [first : {"plain", "partial", "tls", "connect", "pgssl", "silent"},
     port : {"mysql", "5432", "other"}, inner : {"tls", "plain", "close"}, host : {Blank, "A", "B"},
     target : {Blank, "A", "B"}, mtls : BOOLEAN, http1 : BOOLEAN]

(* The session (Mode, Mocking, the private key for mTLS), the flags of     *)
(* Proxy that handleConnection branches on, and the clients' connections   *)
(* in the order they are accepted.                                         *)
ConfigType ==
    [mode : {"record", "test", "none"}, passthrough : BOOLEAN,
     opportunistic : BOOLEAN, pgssl : BOOLEAN, key : BOOLEAN,
     clients : Seq(ClientType)]

VARIABLES cfg, h, spec, dest, owner, url, srv, faults
vars == <<cfg, h, spec, dest, owner, url, srv, faults>>

NoSpec == [st |-> "none", addr |-> None, sock |-> "none", cancelled |-> FALSE,
           settled |-> FALSE, reaper |-> FALSE]

NewHandler ==
    [pc |-> "new", gone |-> FALSE, src |-> "none",
     dst |-> "nil", tunnel |-> "none", connect |-> FALSE, tls |-> FALSE,
     ptr |-> FALSE, closer |-> FALSE, cancel |-> FALSE, url |-> None,
     lost |-> FALSE, panicked |-> FALSE]

TypeOK ==
    /\ cfg \in Configs
    /\ \A c \in Conns :
        /\ h[c].src \in {"none", "open", "closed"}
        /\ h[c].dst \in {"nil", "open", "closed", "typednil"}
        /\ h[c].tunnel \in {"none", "open", "closed"}
        /\ h[c].url \in {None, Blank, "A", "B"}
        /\ spec[c].st \in {"none", "dialing", "sent", "consumed"}
        /\ spec[c].sock \in {"none", "open", "closed"}
    /\ dest \in Conns \cup {0} /\ owner \in Conns \cup {0}
    /\ url \in {None, Blank, "A", "B"}
    /\ faults \in 0 .. MaxFaults

Init ==
    /\ cfg \in Configs
    /\ h = [c \in Conns |-> NewHandler]
    /\ spec = [c \in Conns |-> NoSpec]
    /\ dest = 0 /\ owner = 0 /\ url = None
    /\ srv = [ctx |-> FALSE, conns |-> FALSE, listening |-> TRUE, start |-> "accepting",
              stop |-> "waiting", kill |-> FALSE, errClosed |-> FALSE,
              mcClosed |-> FALSE]
    /\ faults = 0

Fault == faults < MaxFaults /\ faults' = faults + 1
NoFault == faults' = faults
Tables == <<dest, owner, url>>

Client(c) == cfg.clients[c]
IsTest == cfg.mode = "test"
Live(c) == h[c].pc \notin {"new", "done"}

(* The context of a connection's parser is cancelled with the proxy's, by  *)
(* the accept loop's clientConnCancel (srv.conns), or by the handler's own *)
(* deferred parserCtxCancel.                                               *)
CtxDone(c) == srv.ctx \/ srv.conns \/ h[c].cancel

(* A read of the client's socket delivers what the client sent; it reports *)
(* the end of the stream once the client is gone, an error once the proxy  *)
(* closed the socket, and blocks while a silent client keeps it open.      *)
Readable(c) == h[c].src = "open" /\ Client(c).first # "silent"
Broken(c) == h[c].gone \/ h[c].src = "closed"

Updated(r, upd) == [f \in DOMAIN r |-> IF f \in DOMAIN upd THEN upd[f] ELSE r[f]]
Step(c, from, upd) ==
    /\ h[c].pc = from
    /\ h' = [h EXCEPT ![c] = Updated(@, upd)]

-----------------------------------------------------------------------------
(* start: the accept loop. The client's connect has put its destination    *)
(* into the kernel's table under its source port; the port is free again   *)
(* once the previous connection's socket is closed on either side.         *)
Accept(c) ==
    /\ srv.start = "accepting" /\ srv.listening
    /\ h[c].pc = "new" /\ c <= Len(cfg.clients)
    /\ \A d \in Conns : d < c => h[d].pc # "new" /\ Broken(d)
    /\ h' = [h EXCEPT ![c].pc = "claim", ![c].src = "open"]
    /\ dest' = c
    /\ UNCHANGED <<cfg, spec, owner, url, srv, faults>>

(* The client closes its end, at any time.                                 *)
ClientCloses(c) ==
    /\ Live(c) /\ ~h[c].gone
    /\ h' = [h EXCEPT ![c].gone = TRUE]
    /\ UNCHANGED <<cfg, spec, Tables, srv, faults>>

(* ClaimSrcPort: the newest connection owns the port.                      *)
ClaimSrcPort(c) ==
    /\ Step(c, "claim", [pc |-> "lookup"])
    /\ owner' = c
    /\ UNCHANGED <<cfg, spec, dest, url, srv, faults>>

(* DestInfo.Get: an untracked connection is closed without a reply.        *)
LookupDest(c) ==
    /\ IF dest = 0
       THEN Step(c, "lookup", [pc |-> "release", src |-> "closed"])
       ELSE Step(c, "lookup", [pc |-> "forget"])
    /\ UNCHANGED <<cfg, spec, Tables, srv, faults>>

(* DestInfo.Delete; on an error the handler returns before the deferred    *)
(* close of the client's socket is registered.                             *)
ForgetDest(c) ==
    /\ \/ Step(c, "forget", [pc |-> "session"]) /\ dest' = 0 /\ NoFault
       \/ Step(c, "forget", [pc |-> "release"]) /\ dest' = dest /\ Fault
    /\ UNCHANGED <<cfg, spec, owner, url, srv>>

(* getSession, then the choice of path: opportunistic interception, global *)
(* pass-through, the MySQL ports, or the peek that detects the protocol.   *)
ChoosePath(c) ==
    /\ Step(c, "session",
         [pc |-> CASE cfg.mode = "none" -> "release"
                   [] cfg.mode # "none" /\ cfg.opportunistic -> "opportunistic"
                   [] cfg.mode # "none" /\ ~cfg.opportunistic
                      /\ cfg.passthrough -> "dialplain"
                   [] cfg.mode # "none" /\ ~cfg.opportunistic
                      /\ ~cfg.passthrough /\ Client(c).port = "mysql" ->
                        (IF IsTest THEN "parser" ELSE "dialplain")
                   [] OTHER -> "peek"])
    /\ UNCHANGED <<cfg, spec, Tables, srv, faults>>

(* Opportunistic interception dials and relays on its own (module          *)
(* SniffRelay); both sockets are closed when it returns.                   *)
Opportunistic(c) ==
    /\ Broken(c) \/ CtxDone(c) \/ Readable(c)
    /\ Step(c, "opportunistic", [pc |-> "cleanup", src |-> "closed"])
    /\ UNCHANGED <<cfg, spec, Tables, srv, faults>>

(* The pass-through and MySQL paths return without starting the closer.    *)
AfterDial(c) ==
    IF cfg.passthrough \/ Client(c).port = "mysql" THEN "parser" ELSE "closer"

(* net.Dial of the destination: on the pass-through and MySQL paths before *)
(* anything is read, on the others for plain traffic. A CONNECT tunnel is  *)
(* already there.                                                          *)
DialPlain(c) ==
    /\ \/ /\ h[c].dst = "nil"
          /\ \/ Step(c, "dialplain", [pc |-> AfterDial(c), dst |-> "open"]) /\ NoFault
             \/ Step(c, "dialplain", [pc |-> "cleanup"]) /\ Fault
       \/ h[c].dst # "nil" /\ Step(c, "dialplain", [pc |-> AfterDial(c)]) /\ NoFault
    /\ UNCHANGED <<cfg, spec, Tables, srv>>

-----------------------------------------------------------------------------
(* The first Peek(5), with the Postgres SSLRequest answered when           *)
(* interception of it is on: the second peek then meets the ClientHello.   *)
Peek(c) ==
    /\ \/ /\ Readable(c)
          /\ \/ Step(c, "peek", [pc |-> IF Client(c).first = "connect"
                                        THEN "connect" ELSE "speculate",
                                 tls |-> \/ Client(c).first = "tls"
                                         \/ Client(c).first = "pgssl" /\ cfg.pgssl])
                /\ NoFault
             \/ /\ Client(c).first = "pgssl" /\ cfg.pgssl
                /\ Step(c, "peek", [pc |-> "cleanup"]) /\ Fault
       \/ Broken(c) /\ Step(c, "peek", [pc |-> "cleanup"]) /\ NoFault
    /\ UNCHANGED <<cfg, spec, Tables, srv>>

(* HTTP CONNECT: in record mode the corporate proxy is dialled first.      *)
DialTunnel(c) ==
    /\ \/ IsTest /\ Step(c, "connect", [pc |-> "tunnel"]) /\ NoFault
       \/ ~IsTest /\ Step(c, "connect", [pc |-> "tunnel", tunnel |-> "open"]) /\ NoFault
       \/ ~IsTest /\ Step(c, "connect", [pc |-> "cleanup"]) /\ Fault
    /\ UNCHANGED <<cfg, spec, Tables, srv>>

(* handleConnectTunnel: the request is parsed, forwarded and answered, and *)
(* the target stored under the source port. On an error the dialled        *)
(* connection is closed by hand.                                           *)
HandleConnectTunnel(c) ==
    /\ \/ /\ Step(c, "tunnel", [pc |-> "innerpeek", connect |-> TRUE])
          /\ url' = Client(c).target /\ NoFault
       \/ /\ Step(c, "tunnel",
               [pc |-> "cleanup",
                tunnel |-> IF h[c].tunnel = "open" THEN "closed" ELSE "none"])
          /\ url' = url
          /\ \/ Fault
             \/ Broken(c) /\ NoFault
    /\ UNCHANGED <<cfg, spec, dest, owner, srv>>

(* The peek inside the tunnel; only after it does dstConn name the dialled *)
(* connection, so the early returns leave that connection open.            *)
InnerPeek(c) ==
    /\ \/ /\ Readable(c) /\ Client(c).inner # "close"
          /\ Step(c, "innerpeek",
               [pc |-> "speculate", tls |-> Client(c).inner = "tls",
                dst |-> IF IsTest THEN "nil" ELSE "open"])
       \/ /\ Step(c, "innerpeek", [pc |-> "cleanup"])
          /\ Broken(c) \/ Client(c).inner = "close"
    /\ UNCHANGED <<cfg, spec, Tables, srv, faults>>

(* The Postgres preamble goes before the TLS dial to port 5432.            *)
PgUpstream(c) == cfg.pgssl /\ Client(c).port = "5432"

(* The speculative upstream dial: only when the source port already has a  *)
(* destination, which is the last connection's.                            *)
Speculate(c) ==
    LET start == /\ h[c].tls /\ ~IsTest /\ ~(h[c].connect /\ h[c].dst # "nil")
                 /\ ~PgUpstream(c) /\ ~cfg.key
                 /\ url \notin {None, Blank}
    IN /\ Step(c, "speculate", [pc |-> IF h[c].tls THEN "handshake" ELSE "initial",
                                ptr |-> start])
       /\ spec' = IF start
                  THEN [spec EXCEPT ![c].st = "dialing", ![c].addr = url]
                  ELSE spec
       /\ UNCHANGED <<cfg, Tables, srv, faults>>

(* The dial goroutine publishes its result on the buffered channel; a      *)
(* cancelled dial fails unless it had just succeeded.                      *)
SpeculativeDial(c) ==
    /\ spec[c].st = "dialing"
    /\ \/ ~spec[c].cancelled /\ ~CtxDone(c) /\ Fault
          /\ spec' = [spec EXCEPT ![c].st = "sent"]
       \/ (spec[c].cancelled \/ CtxDone(c)) /\ NoFault
          /\ spec' = [spec EXCEPT ![c].st = "sent"]
       \/ NoFault /\ spec' = [spec EXCEPT ![c].st = "sent", ![c].sock = "open"]
    /\ UNCHANGED <<cfg, h, Tables, srv>>

(* Mutant: abandon cancels the dial and leaves nobody to drain it.         *)
AbandonedUndrained(c) == [spec[c] EXCEPT !.cancelled = TRUE, !.settled = TRUE]

(* abandon: cancel, and once only leave a goroutine to drain the result.   *)
Abandoned(c) ==
    [spec[c] EXCEPT !.cancelled = TRUE, !.settled = TRUE,
                    !.reaper = @ \/ ~spec[c].settled]

ReapAbandoned(c) ==
    /\ spec[c].reaper /\ spec[c].st = "sent"
    /\ spec' = [spec EXCEPT ![c].st = "consumed", ![c].reaper = FALSE,
                            ![c].sock = IF @ = "open" THEN "closed" ELSE @]
    /\ UNCHANGED <<cfg, h, Tables, srv, faults>>

-----------------------------------------------------------------------------
(* HandleTLSConnection with CertForClient: the name in the ClientHello, or *)
(* else the one already stored for the source port, becomes the port's     *)
(* destination, also when the handshake fails after the certificate was    *)
(* made. A failed handshake overwrites srcConn with nil, so the deferred   *)
(* close does not see the client's socket any more. A client certificate   *)
(* makes the speculative dial unusable.                                    *)
StoredUrl(c) ==
    IF Client(c).host # Blank THEN Client(c).host
    ELSE IF url # None THEN url ELSE Blank

(* The handshake needs the client's answers.                               *)
HandleTLSConnection(c) == Readable(c) /\ ~h[c].gone

Handshake(c) ==
    /\ \/ /\ HandleTLSConnection(c)
          /\ Step(c, "handshake", [pc |-> "initial", ptr |-> h[c].ptr /\ ~Client(c).mtls])
          /\ url' = StoredUrl(c)
          /\ spec' = IF h[c].ptr /\ Client(c).mtls
                     THEN [spec EXCEPT ![c] = Abandoned(c)] ELSE spec
          /\ NoFault
       \/ /\ Step(c, "handshake", [pc |-> "cleanup", ptr |-> FALSE, lost |-> TRUE])
          /\ spec' = IF h[c].ptr THEN [spec EXCEPT ![c] = Abandoned(c)] ELSE spec
          /\ url' \in {url} \cup (IF Readable(c) THEN {StoredUrl(c)} ELSE {})
          /\ \/ HandleTLSConnection(c) /\ Fault
             \/ Broken(c) /\ NoFault
    /\ UNCHANGED <<cfg, dest, owner, srv>>

(* ReadInitialBuf, and ReadHTTPHeadersUntilEnd when the headers are cut    *)
(* short: its loop leaves only on complete headers, an error or the        *)
(* context, and takes another turn at the end of the stream. The short     *)
(* read for the HEADERS of an HTTP/2 client may fail as well.              *)
ReadInitial(c) ==
    /\ \/ /\ Readable(c) /\ Client(c).first # "partial"
          /\ Step(c, "initial", [pc |-> IF h[c].tls THEN "dialtls"
                                        ELSE IF IsTest THEN "closer" ELSE "dialplain"])
          /\ NoFault
       \/ /\ Readable(c) /\ ~Client(c).http1
          /\ Step(c, "initial", [pc |-> "cleanup"]) /\ Fault
       \/ /\ h[c].pc = "initial" /\ Broken(c)
          /\ IF Client(c).first = "partial" /\ ~CtxDone(c)
             THEN h' = h
             ELSE Step(c, "initial", [pc |-> "cleanup"])
          /\ NoFault
    /\ UNCHANGED <<cfg, spec, Tables, srv>>

(* The destination of a TLS connection: the URL stored for the port is     *)
(* read back; without one the handler gives up. A certificate needs the    *)
(* configured key. In test mode nothing is dialled.                        *)
ReadUrl(c) ==
    /\ h[c].pc = "dialtls"
    /\ IF url = None \/ (~IsTest /\ Client(c).mtls /\ ~cfg.key)
       THEN Step(c, "dialtls", [pc |-> "cleanup", url |-> url])
       ELSE Step(c, "dialtls", [pc |-> IF IsTest THEN "closer" ELSE "upstream",
                                url |-> url])
    /\ UNCHANGED <<cfg, spec, Tables, srv, faults>>

(* tls.Dial assigned to the interface dstConn: a failure leaves a typed    *)
(* nil there, which is not equal to nil.                                   *)
TlsDial(c, from) ==
    \/ Step(c, from, [pc |-> "closer", ptr |-> FALSE, dst |-> "open"]) /\ NoFault
    \/ Step(c, from, [pc |-> "cleanup", ptr |-> FALSE, dst |-> "typednil"]) /\ Fault

OverTunnel(c) == h[c].connect /\ h[c].dst # "nil"
Joins(c) == h[c].ptr /\ h[c].url # Blank /\ h[c].url = spec[c].addr

(* TLS over the CONNECT tunnel, the Postgres preamble, the speculative     *)
(* dial when it went to the same address, or a fresh dial.                 *)
DialUpstream(c) ==
    /\ h[c].pc = "upstream"
    /\ \/ /\ OverTunnel(c) \/ PgUpstream(c)
          /\ \/ Step(c, "upstream", [pc |-> "closer", dst |-> "open"]) /\ NoFault
             \/ Step(c, "upstream", [pc |-> "cleanup"]) /\ Fault
          /\ spec' = spec
       \/ /\ ~OverTunnel(c) /\ ~PgUpstream(c) /\ Joins(c)
          /\ Step(c, "upstream", [pc |-> "join"])
          /\ spec' = spec /\ NoFault
       \/ /\ ~OverTunnel(c) /\ ~PgUpstream(c) /\ ~Joins(c)
          /\ TlsDial(c, "upstream")
          /\ spec' = IF h[c].ptr THEN [spec EXCEPT ![c] = Abandoned(c)] ELSE spec
    /\ UNCHANGED <<cfg, Tables, srv>>

(* join: take the result, or, when the context ended, close it. A          *)
(* connection that settled on h2 for an HTTP/1 request is closed and       *)
(* dialled again.                                                          *)
JoinSpeculative(c) ==
    /\ h[c].pc = "join" /\ spec[c].st = "sent"
    /\ \/ /\ spec[c].sock = "open"
          /\ Step(c, "join", [pc |-> "closer", ptr |-> FALSE, dst |-> "open"])
          /\ spec' = [spec EXCEPT ![c].st = "consumed", ![c].settled = TRUE,
                                  ![c].sock = "none"]
          /\ NoFault
       \/ /\ spec[c].sock = "open" /\ Client(c).http1
          /\ TlsDial(c, "join")
          /\ spec' = [spec EXCEPT ![c].st = "consumed", ![c].settled = TRUE,
                                  ![c].sock = "closed"]
       \/ /\ spec[c].sock # "open" \/ CtxDone(c)
          /\ Step(c, "join", [pc |-> "cleanup", ptr |-> FALSE])
          /\ spec' = [spec EXCEPT ![c].st = "consumed", ![c].settled = TRUE,
                                  ![c].sock = IF @ = "open" THEN "closed" ELSE @]
          /\ NoFault
    /\ UNCHANGED <<cfg, Tables, srv>>

-----------------------------------------------------------------------------
(* startConnCloser, the choice of the parser and the kill switch: once     *)
(* dstConn is there a goroutine closes both sockets on cancellation. A     *)
(* session is set before its mock manager: without one the handler gives   *)
(* up.                                                                     *)
StartCloser(c) ==
    /\ \/ Step(c, "closer", [pc |-> IF cfg.mode = "record" /\ srv.kill
                                    THEN "passthrough" ELSE "parser", closer |-> TRUE])
          /\ NoFault
       \/ Step(c, "closer", [pc |-> "cleanup", closer |-> TRUE]) /\ Fault
    /\ UNCHANGED <<cfg, spec, Tables, srv>>

ConnCloser(c) ==
    /\ h[c].closer /\ CtxDone(c)
    /\ h' = [h EXCEPT ![c].closer = FALSE, ![c].src = "closed",
                      ![c].dst = IF @ = "open" THEN "closed" ELSE @]
    /\ UNCHANGED <<cfg, spec, Tables, srv, faults>>

(* The parser (or globalPassThrough) runs until the exchange is over, a    *)
(* peer is gone or the context ends. In test mode a miss is reported on    *)
(* the error channel; the send panics when that channel is closed.         *)
RunParser(c) ==
    /\ h[c].pc \in {"parser", "passthrough"}
    /\ Broken(c) \/ CtxDone(c) \/ Readable(c)
    /\ \/ Step(c, h[c].pc, [pc |-> "cleanup"]) /\ NoFault
       \/ /\ IsTest /\ h[c].pc = "parser" /\ ~cfg.passthrough
          /\ Step(c, h[c].pc, [pc |-> "cleanup", panicked |-> srv.errClosed])
          /\ Fault
    /\ UNCHANGED <<cfg, spec, Tables, srv>>

(* The deferred functions, last registered first: abandon a speculative    *)
(* dial that is still held; cancel the parser's context and close both     *)
(* sockets. Closing a typed nil panics, past the wait that follows.        *)
Cleanup(c) ==
    /\ Step(c, "cleanup",
         [pc |-> IF h[c].dst = "typednil" THEN "release" ELSE "wait", cancel |-> TRUE, ptr |-> FALSE,
          src |-> IF h[c].lost THEN h[c].src ELSE "closed",
          dst |-> IF h[c].dst = "open" THEN "closed" ELSE h[c].dst,
          panicked |-> h[c].panicked \/ h[c].dst = "typednil"])
    /\ spec' = IF h[c].ptr THEN [spec EXCEPT ![c] = Abandoned(c)] ELSE spec
    /\ UNCHANGED <<cfg, Tables, srv, faults>>

(* parserErrGrp.Wait: the parser's goroutines read the sockets, and end    *)
(* once these are closed and the context is done.                          *)
WaitParsers(c) ==
    /\ CtxDone(c) /\ (h[c].src = "closed" \/ h[c].lost)
    /\ Step(c, "wait", [pc |-> "release"])
    /\ UNCHANGED <<cfg, spec, Tables, srv, faults>>

(* util.Recover swallows a panic and closes the client's socket, then the  *)
(* handler is counted out of activeConns.                                  *)
Exit(c) == [pc |-> "done", src |-> IF h[c].panicked THEN "closed" ELSE h[c].src]

(* ReleaseSrcPortIfOwner: CompareAndDelete on the owner's table ...        *)
ReleaseSrcPort(c) ==
    /\ IF owner = c THEN Step(c, "release", [pc |-> "unmap"])
                    ELSE Step(c, "release", Exit(c))
    /\ owner' = IF owner = c THEN 0 ELSE owner
    /\ UNCHANGED <<cfg, spec, dest, url, srv, faults>>

(* ... and then a separate Delete on the destination's.                    *)
DeleteUrl(c) ==
    /\ Step(c, "unmap", Exit(c))
    /\ url' = None
    /\ UNCHANGED <<cfg, spec, dest, owner, srv, faults>>

-----------------------------------------------------------------------------
(* The process is asked to stop.                                           *)
CancelCtx ==
    /\ ~srv.ctx
    /\ srv' = [srv EXCEPT !.ctx = TRUE]
    /\ UNCHANGED <<cfg, h, spec, Tables, faults>>

(* start leaves its accept loop on the context, on a closed listener or on *)
(* a failed Accept; its deferred function cancels the connections and      *)
(* closes the listener ...                                                 *)
StartReturns ==
    /\ srv.start = "accepting"
    /\ \/ (srv.ctx \/ ~srv.listening) /\ NoFault
       \/ ~srv.ctx /\ Fault
    /\ srv' = [srv EXCEPT !.start = "waiting", !.conns = TRUE, !.listening = FALSE]
    /\ UNCHANGED <<cfg, h, spec, Tables>>

AllDone == \A c \in Conns : ~Live(c)

(* ... waits for the handlers and closes the mock channel.                 *)
StartWaited ==
    /\ srv.start = "waiting" /\ AllDone
    /\ srv' = [srv EXCEPT !.start = "done", !.mcClosed = TRUE]
    /\ UNCHANGED <<cfg, h, spec, Tables, faults>>

(* StopProxyServer: trip the kill switch, close the listener, wait for the *)
(* handlers at most five seconds, stop DNS, close the error channel.       *)
StopBegins ==
    /\ srv.ctx /\ srv.stop = "waiting"
    /\ srv' = [srv EXCEPT !.stop = "draining", !.kill = TRUE, !.listening = FALSE]
    /\ UNCHANGED <<cfg, h, spec, Tables, faults>>

StopEnds ==
    /\ srv.stop = "draining"
    /\ srv' = [srv EXCEPT !.stop = "done", !.kill = FALSE, !.errClosed = TRUE]
    /\ UNCHANGED <<cfg, h, spec, Tables, faults>>

Terminated ==
    /\ srv.start = "done" /\ srv.stop = "done" /\ AllDone
    /\ UNCHANGED vars

-----------------------------------------------------------------------------
Handler(c) ==
    \/ ClaimSrcPort(c) \/ LookupDest(c) \/ ForgetDest(c) \/ ChoosePath(c)
    \/ Opportunistic(c) \/ DialPlain(c) \/ Peek(c) \/ DialTunnel(c)
    \/ HandleConnectTunnel(c) \/ InnerPeek(c) \/ Speculate(c) \/ Handshake(c)
    \/ ReadInitial(c) \/ ReadUrl(c) \/ DialUpstream(c) \/ JoinSpeculative(c)
    \/ StartCloser(c) \/ RunParser(c) \/ Cleanup(c) \/ WaitParsers(c)
    \/ ReleaseSrcPort(c) \/ DeleteUrl(c)

Background(c) == SpeculativeDial(c) \/ ReapAbandoned(c) \/ ConnCloser(c)

Server == StartReturns \/ StartWaited \/ StopBegins \/ StopEnds

Next ==
    \/ \E c \in Conns : Accept(c) \/ ClientCloses(c) \/ Handler(c) \/ Background(c)
    \/ CancelCtx \/ Server \/ Terminated

Spec == Init /\ [][Next]_vars

-----------------------------------------------------------------------------
(* What dstConn names does not outlive its handler: when handleConnection  *)
(* has returned, on whichever path, dstConn is closed or was never there,  *)
(* and a speculative dial is either drained, with its socket closed or     *)
(* handed over, or has the goroutine that will drain it.                   *)
UpstreamReleased ==
    \A c \in Conns : h[c].pc \in {"release", "unmap", "done"} =>
        /\ h[c].dst # "open"
        /\ spec[c].st \in {"dialing", "sent"} => spec[c].reaper
        /\ spec[c].st = "consumed" => spec[c].sock # "open"

(* The connection to the corporate proxy is closed by hand when the        *)
(* CONNECT exchange fails. Once it has succeeded dstConn names it, except  *)
(* on the returns after a failed peek inside the tunnel, which leave it    *)
(* open.                                                                   *)
TunnelReleased ==
    \A c \in Conns : h[c].pc \in {"release", "unmap", "done"} /\ h[c].tunnel = "open" =>
        h[c].connect

=============================================================================

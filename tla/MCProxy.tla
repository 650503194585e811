------------------------------- MODULE MCProxy ------------------------------
(***************************************************************************)
(* Model checking of the proxy's connections: the handler with its         *)
(* speculative dial, the opportunistic TLS relay and the supervised        *)
(* recording of a stream.  which says the one a behaviour is about; the    *)
(* others stay as they were.                                               *)
(***************************************************************************)
EXTENDS SniffRelay, TLC

CONSTANTS Conns, Configs, MaxFaults, RecordScenarios, ChanBuf

VARIABLES which, pCfg, pH, pSpec, pDest, pOwner, pUrl, pSrv, pFaults, rCfg,
          rSent, rFwd, rClosed, rStaged, rHand, rOut, rTees, rStreams, rParser,
          rIncomplete, rWatch, rCtx, rMain, rSeen, rEmitted, rFaults

pvars == <<pCfg, pH, pSpec, pDest, pOwner, pUrl, pSrv, pFaults>>
rvars == <<rCfg, rSent, rFwd, rClosed, rStaged, rHand, rOut, rTees, rStreams,
           rParser, rIncomplete, rWatch, rCtx, rMain, rSeen, rEmitted,
           rFaults>>
all == <<which, vars, pvars, rvars>>

Proxy == INSTANCE ProxyConn WITH cfg <- pCfg, h <- pH, spec <- pSpec,
    dest <- pDest, owner <- pOwner, url <- pUrl, srv <- pSrv,
    faults <- pFaults
Record == INSTANCE RecordStream WITH Scenarios <- RecordScenarios,
    cfg <- rCfg, sent <- rSent, fwd <- rFwd, closed <- rClosed,
    staged <- rStaged, hand <- rHand, out <- rOut, tees <- rTees, streams <- rStreams,
    parser <- rParser, incomplete <- rIncomplete, watch <- rWatch,
    ctx <- rCtx, main <- rMain, seen <- rSeen, emitted <- rEmitted,
    faults <- rFaults

-----------------------------------------------------------------------------
NoName == ""
Traffic(first, inner, host, target, mtls, http1) ==
    [first |-> first, port |-> "other", inner |-> inner, host |-> host, target |-> target,
     mtls |-> mtls, http1 |-> http1]

TlsA == Traffic("tls", "close", "A", NoName, FALSE, FALSE)
TlsUnnamed == Traffic("tls", "close", NoName, NoName, FALSE, TRUE)
TlsCert == Traffic("tls", "close", "A", NoName, TRUE, FALSE)
Connect == Traffic("connect", "tls", "A", "A", FALSE, FALSE)
ConnectClosed == Traffic("connect", "close", "A", "B", FALSE, FALSE)
Plain == Traffic("plain", "close", NoName, NoName, FALSE, TRUE)
PgElsewhere == Traffic("pgssl", "close", NoName, NoName, FALSE, FALSE)
Postgres == [PgElsewhere EXCEPT !.port = "5432"]
MySql == [Plain EXCEPT !.port = "mysql"]
Partial == Traffic("partial", "close", NoName, NoName, FALSE, TRUE)
Silent == Traffic("silent", "close", NoName, NoName, FALSE, FALSE)

Config(mode, flag, clients) ==
    [mode |-> mode, passthrough |-> flag = "passthrough",
     opportunistic |-> flag = "opportunistic", pgssl |-> flag = "pgssl",
     key |-> flag = "key", clients |-> clients]

MCConfigs ==
    {Config("record", "", <<ConnectClosed, TlsUnnamed>>)}
    \cup {Config("record", "", <<c>>) : c \in {TlsA, TlsCert, Connect, MySql, Plain, Partial}}
    \cup {Config("record", "pgssl", <<Postgres>>), Config("record", "pgssl", <<PgElsewhere>>),
          Config("record", "key", <<TlsCert>>),
          Config("record", "passthrough", <<Plain>>),
          Config("record", "opportunistic", <<Silent>>)}
    \cup {Config("test", "", <<c>>) : c \in {TlsA, Connect, MySql, Plain, Silent}}
    \cup {Config("none", "", <<Plain>>)}

-----------------------------------------------------------------------------
Peer(src, dst, es, ed) ==
    [chunks |-> [s \in {"src", "dst"} |-> IF s = "src" THEN src ELSE dst],
     ends |-> [s \in {"src", "dst"} |-> IF s = "src" THEN es ELSE ed]]

\* "h" is a ClientHello, "d" any other chunk: one early, one beyond the budget
\* of the other side, and a side that sends too little to use its budget up.
MCSniff ==
    {Peer(<<"d", "h", "d", "d">>, <<"d", "d", "d">>, e, f) : e, f \in BOOLEAN}
    \cup {Peer(<<"d", "d", "d", "h">>, <<"d", "d", "d", "d">>, e, f) : e, f \in BOOLEAN}
    \cup {Peer(<<"d">>, <<"d", "d", "d", "d">>, FALSE, f) : f \in BOOLEAN}

-----------------------------------------------------------------------------
Scenario(framed, pressure, exchanges, faults) ==
    [framed |-> framed, pressure |-> pressure, size |-> [c2d |-> 2, d2c |-> 2],
     exchanges |-> exchanges, faults |-> faults]
MCRecords == {Scenario(TRUE, FALSE, 1, 1), Scenario(TRUE, TRUE, 1, 0), Scenario(FALSE, FALSE, 1, 0)}

-----------------------------------------------------------------------------
MCInit ==
    /\ which \in {"proxy", "sniff", "record"}
    /\ which # "proxy" => pCfg = CHOOSE c \in Configs : TRUE
    /\ Proxy!Init
    /\ which # "sniff" => peers = CHOOSE x \in Scenarios : TRUE
    /\ Init
    /\ which # "record" => rCfg = CHOOSE x \in RecordScenarios : TRUE
    /\ Record!Init

MCNext ==
    \/ which = "proxy" /\ Proxy!Next /\ UNCHANGED <<which, vars, rvars>>
    \/ which = "sniff" /\ Next /\ UNCHANGED <<which, pvars, rvars>>
    \/ which = "record" /\ Record!Next /\ UNCHANGED <<which, vars, pvars>>

(* Goroutines that can run do run, and a client does not keep an idle      *)
(* connection open for ever: the application is stopped with the session.  *)
(* Only the sniffing loops can run without end, so it is enough that one   *)
(* of the other steps a component can take is taken.                       *)
ProxySteps ==
    \/ Proxy!Server
    \/ \E c \in Conns : Proxy!Handler(c) \/ Proxy!Background(c) \/ Proxy!ClientCloses(c)
SniffSteps == Parent \/ \E s \in Sides : Copy(s)
RecordSteps == Record!Relay \/ Record!Parser \/ Record!Main

MCSpec ==
    /\ MCInit /\ [][MCNext]_all
    /\ WF_pvars(which = "proxy" /\ ProxySteps)
    /\ WF_vars(which = "sniff" /\ SniffSteps)
    /\ \A s \in Sides : WF_vars(which = "sniff" /\ Loop(s))
    /\ WF_rvars(which = "record" /\ RecordSteps)

-----------------------------------------------------------------------------
(* What dstConn names is closed when the handler has returned, every       *)
(* speculative dial is drained or has a goroutine that will, and the       *)
(* connection dialled for a CONNECT request is closed or became dstConn,   *)
(* unless the peek inside the tunnel failed.                               *)
UpstreamReleased == Proxy!UpstreamReleased /\ Proxy!TunnelReleased

(* What has been cancelled and has not returned.                           *)
Owing ==
    CASE which = "proxy" -> pSrv.ctx /\ ~(pSrv.start = "done" /\ pSrv.stop = "done")
      [] which = "sniff" -> ctx.parent /\ main.pc # "done"
      [] which = "record" -> rCtx.outer /\ rMain # "returned"

(* Cancelling ends a connection on whichever path it is: the proxy stops,  *)
(* the TLS intercept returns, and recordViaSupervisor returns even when    *)
(* the parser hangs.                                                       *)
CancelEnds == Owing ~> ~Owing
=============================================================================

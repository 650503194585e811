----------------------------- MODULE SniffRelay -----------------------------
(***************************************************************************)
(* The opportunistic TLS intercept (pkg/agent/proxy/opportunistic_tls.go): *)
(* two goroutines relay the first bytes of a connection in both directions *)
(* and look for a ClientHello from the client. On one, the parent stops    *)
(* both and takes the sockets over; when both have used up their budget it *)
(* goes on with a plain relay.                                             *)
(*                                                                         *)
(* A peer's traffic is a sequence of chunks, "d" for data and "h" for a    *)
(* ClientHello; a chunk is known by its index.                             *)
(***************************************************************************)
EXTENDS Naturals, Sequences, FiniteSets

CONSTANTS
    Scenarios,  \* [chunks : [Sides -> Seq({"d", "h"})], ends : [Sides -> BOOLEAN]]
    Budget      \* opportunisticPeekMaxBytes, in chunks

Sides == {"src", "dst"}

ASSUME ScenariosAssumption ==
    Scenarios \subseteq [chunks : [Sides -> Seq({"d", "h"})], ends : [Sides -> BOOLEAN]]

Other(s) == IF s = "src" THEN "dst" ELSE "src"

VARIABLES
    peers,      \* the scenario
    read,       \* per side: the number of its chunks read by the proxy
    loop,       \* per side: the sniffing reader, [pc, held, relayed]
    copy,       \* per side: the io.Copy of the plain relay
    delivered,  \* per side: the indices of its chunks written to the other
    ch,         \* sniffCh: [side, isTLS, err]
    main,       \* the parent: [pc, first, withheld]
    ctx         \* [parent, relay]: the cancelled contexts
vars == <<peers, read, loop, copy, delivered, ch, main, ctx>>

Init ==
    /\ peers \in Scenarios
    /\ read = [s \in Sides |-> 0]
    /\ loop = [s \in Sides |-> [pc |-> "top", held |-> 0, relayed |-> 0]]
    /\ copy = [s \in Sides |-> "off"]
    /\ delivered = [s \in Sides |-> << >>]
    /\ ch = << >>
    /\ main = [pc |-> "select", first |-> FALSE, withheld |-> 0]
    /\ ctx = [parent |-> FALSE, relay |-> FALSE]

-----------------------------------------------------------------------------
(* The next chunk of a side, and its end.                                  *)
HasChunk(s) == read[s] < Len(peers.chunks[s])
AtEOF(s) == ~HasChunk(s) /\ peers.ends[s]
RelayDone == ctx.parent \/ ctx.relay

SetLoop(s, upd) == loop' = [loop EXCEPT ![s] = upd]

(* pushSignal: a result may be dropped once the context is cancelled.      *)
pushSignal(s, isTLS, err) ==
    \/ ch' = Append(ch, [side |-> s, isTLS |-> isTLS, err |-> err])
    \/ RelayDone /\ ch' = ch

Exited(s) == loop[s].pc = "exited"
ExitWith(s, isTLS, err) ==
    /\ pushSignal(s, isTLS, err)
    /\ SetLoop(s, [loop[s] EXCEPT !.pc = "exited", !.held = 0])

(* sniffAndRelayLoop: the context is looked at, then the side is read with *)
(* a deadline.                                                             *)
LoopTop(s) ==
    /\ loop[s].pc = "top"
    /\ SetLoop(s, [loop[s] EXCEPT !.pc = IF RelayDone THEN "exited" ELSE "read"])
    /\ UNCHANGED <<peers, copy, read, delivered, ch, main, ctx>>

LoopTimeout(s) ==
    /\ loop[s].pc = "read"
    /\ IF RelayDone THEN ExitWith(s, FALSE, TRUE)
       ELSE SetLoop(s, [loop[s] EXCEPT !.pc = "top"]) /\ ch' = ch
    /\ UNCHANGED <<peers, copy, read, delivered, main, ctx>>

LoopEOF(s) ==
    /\ loop[s].pc = "read" /\ AtEOF(s)
    /\ ExitWith(s, FALSE, TRUE)
    /\ UNCHANGED <<peers, copy, read, delivered, main, ctx>>

(* A ClientHello is withheld from the upstream and handed to the parent.   *)
LoopChunk(s) ==
    LET i == read[s] + 1
    IN /\ loop[s].pc = "read" /\ HasChunk(s)
       /\ read' = [read EXCEPT ![s] = i]
       /\ IF s = "src" /\ peers.chunks[s][i] = "h"
          THEN ExitWith(s, TRUE, FALSE) /\ main' = [main EXCEPT !.withheld = i]
          ELSE /\ SetLoop(s, [loop[s] EXCEPT !.pc = "write", !.held = i])
               /\ UNCHANGED <<ch, main>>
       /\ UNCHANGED <<peers, copy, delivered, ctx>>

LoopWrite(s) ==
    LET l == loop[s]
    IN /\ l.pc = "write"
       /\ \/ /\ delivered' = [delivered EXCEPT ![s] = Append(@, l.held)]
             /\ IF l.relayed + 1 >= Budget THEN ExitWith(s, FALSE, FALSE)
                ELSE /\ SetLoop(s, [pc |-> "top", held |-> 0, relayed |-> l.relayed + 1])
                     /\ ch' = ch
          \/ /\ AtEOF(Other(s))
             /\ ExitWith(s, FALSE, TRUE)
             /\ delivered' = delivered
       /\ UNCHANGED <<peers, copy, read, main, ctx>>

-----------------------------------------------------------------------------
Goto(pc) == main' = [main EXCEPT !.pc = pc]
StayedSame == UNCHANGED <<peers, read, delivered>>

(* The select of opportunisticTLSIntercept. cleanup cancels the relay      *)
(* context and expires the read deadlines, and then waits for the loops.   *)
SelectCtx ==
    /\ main.pc = "select" /\ ctx.parent
    /\ Goto("joinclose")
    /\ UNCHANGED <<loop, copy, ch, ctx>> /\ StayedSame

SelectResult ==
    /\ main.pc = "select" /\ ch # << >>
    /\ ch' = Tail(ch)
    /\ IF Head(ch).isTLS
       THEN Goto("joinhijack") /\ ctx' = [ctx EXCEPT !.relay = TRUE]
       ELSE /\ main' = [main EXCEPT !.pc = "other", !.first = Head(ch).err]
            /\ ctx' = ctx
    /\ UNCHANGED <<loop, copy>> /\ StayedSame

(* Mutant: the sockets are taken over while a loop may still be reading.   *)
JoinedNever == TRUE
(* cleanup's wg.Wait.                                                      *)
Joined == \A s \in Sides : Exited(s)

Join ==
    /\ main.pc \in {"joinclose", "joinhijack"} /\ Joined
    /\ Goto(IF main.pc = "joinclose" THEN "done" ELSE "hijack")
    /\ UNCHANGED <<loop, copy, ch, ctx>> /\ StayedSame

(* waitForOther, and what follows it. When both loops are gone the select  *)
(* may overlook a result that is there.                                    *)
WaitForOther ==
    /\ main.pc = "other"
    /\ ctx' = [ctx EXCEPT !.relay = TRUE]
    /\ \/ ctx.parent /\ Goto("done")
       \/ /\ \A s \in Sides : Exited(s)
          /\ \E err \in {FALSE} \cup {r.err : r \in {ch[i] : i \in DOMAIN ch}} :
                Goto(IF main.first \/ err THEN "done" ELSE "plain")
    /\ ch' = << >>
    /\ UNCHANGED <<loop, copy>> /\ StayedSame

(* hijackAndMITM: both handshakes; either may fail.                        *)
Hijack ==
    /\ main.pc = "hijack"
    /\ \/ Goto("done")
       \/ Goto("plain")
    /\ UNCHANGED <<loop, copy, ch, ctx>> /\ StayedSame

(* relayPlaintext: one io.Copy per direction, until its reader is at its   *)
(* end, a write fails or the context expires the deadlines.                *)
SetCopy(s, pc) == copy' = [copy EXCEPT ![s] = pc]

StartCopy(s) ==
    /\ main.pc = "plain" /\ copy[s] = "off"
    /\ SetCopy(s, "run")
    /\ UNCHANGED <<loop, ch, main, ctx>> /\ StayedSame

CopyChunk(s) ==
    /\ copy[s] = "run" /\ HasChunk(s)
    /\ read' = [read EXCEPT ![s] = @ + 1]
    /\ \/ /\ delivered' = [delivered EXCEPT ![s] = Append(@, read[s] + 1)]
          /\ UNCHANGED copy
       \/ /\ AtEOF(Other(s))
          /\ SetCopy(s, "ended")
          /\ UNCHANGED delivered
    /\ UNCHANGED <<peers, loop, ch, main, ctx>>

CopyEnds(s) ==
    /\ copy[s] = "run"
    /\ AtEOF(s) \/ ctx.parent
    /\ SetCopy(s, "ended")
    /\ UNCHANGED <<loop, ch, main, ctx>> /\ StayedSame

PlainEnds ==
    /\ main.pc = "plain"
    /\ \A s \in Sides : copy[s] = "ended"
    /\ Goto("done")
    /\ UNCHANGED <<loop, copy, ch, ctx>> /\ StayedSame

(* The session's context is cancelled.                                     *)
CancelCtx ==
    /\ ~ctx.parent
    /\ ctx' = [parent |-> TRUE, relay |-> TRUE]
    /\ UNCHANGED <<loop, copy, ch, main>> /\ StayedSame

(* The intercept has returned; a peer may be left without a word.          *)
Terminated == main.pc = "done" /\ UNCHANGED vars

Loop(s) == LoopTop(s) \/ LoopTimeout(s) \/ LoopEOF(s) \/ LoopWrite(s)
Copy(s) == StartCopy(s) \/ CopyChunk(s) \/ CopyEnds(s)
Parent ==
    SelectCtx \/ SelectResult \/ Join \/ WaitForOther \/ Hijack \/ PlainEnds

Next ==
    \/ \E s \in Sides : Loop(s) \/ LoopChunk(s) \/ Copy(s)
    \/ Parent \/ CancelCtx \/ Terminated

Spec == Init /\ [][Next]_vars

-----------------------------------------------------------------------------
(* What a peer sent is passed on in order and without a gap, from one      *)
(* reader to the next: when the parent takes the sockets over, no chunk is *)
(* still in the hands of a sniffing loop. Only the withheld ClientHello,   *)
(* and chunks whose write failed because the other side had gone, are      *)
(* missing.                                                                *)
RelayedInOrder ==
    \A s \in Sides :
        LET got == {delivered[s][k] : k \in DOMAIN delivered[s]}
        IN /\ \A j, k \in DOMAIN delivered[s] : j < k => delivered[s][j] < delivered[s][k]
           /\ \A i \in 1 .. read[s] :
                \/ i \in got \/ i = loop[s].held
                \/ s = "src" /\ i = main.withheld
                \/ AtEOF(Other(s))

=============================================================================

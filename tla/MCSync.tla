------------------------------- MODULE MCSync -------------------------------
(***************************************************************************)
(* Model checking of one relayed connection, and of the mock buffer in     *)
(* three sessions: three requests of the dedup queue, the first perhaps a  *)
(* duplicate; one synchronous request with two episodes of memory pressure *)
(* around it; and that request beside a gRPC stream.  They share no state: *)
(* which says the one a behaviour is about.                                *)
(***************************************************************************)
EXTENDS MCRelay, SyncMock

CONSTANTS d1, q1, q2, q3, ph, pg

VARIABLE which

\* The startup corpus ends with the first request here.
Pressure == INSTANCE SyncMock WITH StartupWindow <- 0, MaxTime <- 15, MaxEpisodes <- 4

all == <<which, vars, relayVars>>

-----------------------------------------------------------------------------
MCInit == which \in {"relay", "dedup", "pressure", "captures"} /\ RelayInit /\ Init

KeepsOut(reqs) == \A r \in reqs : status'[r] = "idle"

\* The requests of the dedup queue that cannot be duplicates are alike.
InTurn == status'[q3] # "idle" => status'[q2] # "idle"

\* Each session of the buffer has its own requests. A connection may stay as it is.
MCNext ==
    \/ which = "relay" /\ (RelayNext \/ UNCHANGED relayVars) /\ UNCHANGED <<which, vars>>
    \/ which = "dedup" /\ Next /\ KeepsOut({ph, pg}) /\ InTurn /\ UNCHANGED <<which, relayVars>>
    \/ which = "pressure" /\ Pressure!Next /\ KeepsOut(QueuedReqs \cup {pg}) /\ UNCHANGED <<which, relayVars>>
    \/ which = "captures" /\ Next /\ KeepsOut(QueuedReqs) /\ UNCHANGED <<which, relayVars>>

MCSpec == MCInit /\ [][MCNext]_all
=============================================================================

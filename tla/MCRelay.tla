------------------------------ MODULE MCRelay ------------------------------
(***************************************************************************)
(* Instances of Relay for TLC: the directives the parsers send.            *)
(***************************************************************************)
EXTENDS Relay

(* The Postgres choreography of the directive package's comments: one byte *)
(* of SSLResponse, forwarded, and only 'S' proceeds.                       *)
PostgresUpgrade == [kind |-> "upgrade", preamble |-> TRUE, forward |-> TRUE,
                    gate |-> TRUE, dest |-> TRUE, client |-> TRUE]

Resume == [kind |-> "resumePreDispatch"]

PauseDir == [kind |-> "pauseDir", dir |-> "d2c"]

PauseRequests == {PostgresUpgrade, Resume, PauseDir}
ResumeOnly == {Resume}
Sent22 == [d \in Dirs |-> 2]
Sent11 == [d \in Dirs |-> 1]

(* A bound on what comes from outside: three units, one of a peer's close, *)
(* an abort and a cancellation, and the last two within the first          *)
(* directive.                                                              *)
Bounded ==
    /\ Cardinality({d \in Dirs : sock[d] = "eof"})
          + (IF ctx THEN 1 ELSE 0) + (IF aborted THEN 1 ELSE 0) <= 1
    /\ asked > 1 => ~ctx /\ ~aborted
    /\ sent["c2d"] + sent["d2c"] <= 3
=============================================================================

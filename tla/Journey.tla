------------------------------ MODULE Journey ------------------------------
(***************************************************************************)
(* What the recording path promises of the items it handles (test cases,   *)
(* mocks, mapping entries), whatever its goroutines and channels: an item  *)
(* is at one stop at a time, moves only along the roads, and never leaves  *)
(* a stop without a road out of it.  Recorder implements it.               *)
(***************************************************************************)
CONSTANTS
    Items,      \* what travels
    Departure,  \* the stop where every item starts
    Roads       \* pairs <<from, to>> of stops

VARIABLE at     \* at[i]: the stop of item i

Init == at = [i \in Items |-> Departure]

(* Any number of items move in one step: an operation may move a batch. *)
Next ==
    /\ DOMAIN at' = Items
    /\ \A i \in Items : at'[i] = at[i] \/ <<at[i], at'[i]>> \in Roads

Spec == Init /\ [][Next]_at
=============================================================================

--------------------------- MODULE RecorderProofs ---------------------------
(***************************************************************************)
(* Proofs about Recorder, for every feed, every number of faults and every *)
(* interleaving of the forwarders, the inserters, the teardown and an      *)
(* interrupt: the pipeline implements Journey, and mappings.yaml names     *)
(* only mocks that were stored.                                            *)
(*                                                                         *)
(* The inductive invariant says that a goroutine whose state says it holds *)
(* an item does hold one, so that the item it moves is where the road      *)
(* begins, and that the entries on their way into the mapping, published   *)
(* in the correlation map or already found, are entries of stored mocks.   *)
(***************************************************************************)
EXTENDS Recorder, TLAPS

Stops == {"feed", "fwd", "ins", "stored", "lost"}
PlaceType == place \in [Items -> Stops]
FwdType == fwd \in [Streams -> {"off", "connect", "recv", "held", "last", "done"}]
InsType == ins \in [Streams -> {"off", "recv", "insert", "report", "correlate", "done"}]
MappingType == mapping \in [TestNames -> SUBSET Items]

Holding ==
    \A s \in Streams :
        /\ fwd[s] \in {"held", "last"} => \E i \in ItemsOf(s) : place[i] = "fwd"
        /\ ins[s] \in {"insert", "correlate"} => \E i \in ItemsOf(s) : place[i] = "ins"

Published ==
    /\ \A m \in correlationMap \cup found : m \in Items /\ place[m] = "stored"
    /\ \A t \in TestNames : \A m \in mapping[t] : place[m] = "stored"

IInv == PlaceType /\ FwdType /\ InsType /\ MappingType /\ Holding /\ Published

-----------------------------------------------------------------------------
(* The stops an item can leave, and the roads of the pipeline.             *)
Road(a, b) ==
    \/ a = "feed" /\ b = "fwd"
    \/ a = "fwd" /\ b \in {"ins", "lost"}
    \/ a = "ins" /\ b \in {"stored", "lost"}

(* A step moves at most one item, and that one along a road.               *)
OneMove ==
    \/ UNCHANGED place
    \/ \E i \in Items, b \in Stops : Road(place[i], b) /\ Move(i, b)

LEMMA ItemsOfStream ==
    ASSUME NEW s \in Streams, NEW i \in ItemsOf(s) PROVE i \in Items
BY Zenon DEF Items

(* A goroutine that holds an item of its stream finds it.                  *)
LEMMA HeldIsThere ==
    ASSUME NEW s \in Streams, NEW p, \E i \in ItemsOf(s) : place[i] = p
    PROVE  Held(s, p) \in ItemsOf(s) /\ Held(s, p) \in Items /\ place[Held(s, p)] = p
<1>1. At(s, p) # {} BY Zenon DEF At
<1>2. Held(s, p) \in At(s, p) BY Zenon, <1>1 DEF Held
<1> QED BY Zenon, <1>2, ItemsOfStream DEF At

(* Moving an item that is not stored leaves the stored ones stored.        *)
LEMMA StoredStays ==
    ASSUME PlaceType, NEW i \in Items, NEW b \in Stops, place[i] # "stored", Move(i, b)
    PROVE  PlaceType' /\ \A m \in Items : place[m] = "stored" => place'[m] = "stored"
BY Zenon DEF PlaceType, Move

(* What has been published stays so when stored mocks stay stored.         *)
LEMMA PublishedStays ==
    ASSUME MappingType, Published, UNCHANGED <<correlationMap, found, mapping>>,
           \A m \in Items : place[m] = "stored" => place'[m] = "stored"
    PROVE  Published'
BY Zenon DEF Published, MappingType

HoldingOf(s) ==
    /\ fwd[s] \in {"held", "last"} => \E i \in ItemsOf(s) : place[i] = "fwd"
    /\ ins[s] \in {"insert", "correlate"} => \E i \in ItemsOf(s) : place[i] = "ins"

(* The streams have no item in common: what happens to an item of one      *)
(* leaves the goroutines of the others with theirs.                        *)
LEMMA OthersHold ==
    ASSUME PlaceType, NEW s \in Streams, NEW i \in ItemsOf(s), NEW b, Move(i, b),
           NEW r \in Streams, r # s, HoldingOf(r), fwd'[r] = fwd[r], ins'[r] = ins[r]
    PROVE  HoldingOf(r)'
<1>1. \A j \in ItemsOf(r) : j \in Items /\ j # i
  BY Zenon, FeedAssumption, ItemsOfStream
<1>2. \A j \in ItemsOf(r) : place'[j] = place[j]
  BY Zenon, <1>1 DEF PlaceType, Move
<1>3. UNCHANGED ItemsOf(r) BY Zenon DEF ItemsOf
<1> QED BY Zenon, <1>2, <1>3 DEF HoldingOf

LEMMA HoldingKept ==
    ASSUME PlaceType, Holding, NEW s \in Streams, NEW i \in ItemsOf(s), NEW b, Move(i, b),
           \A r \in Streams : r # s => fwd'[r] = fwd[r] /\ ins'[r] = ins[r],
           HoldingOf(s)'
    PROVE  Holding'
<1>1. ASSUME NEW r \in Streams PROVE HoldingOf(r)'
  <2>1. CASE r = s BY Zenon, <2>1
  <2>2. CASE r # s
    <3>1. HoldingOf(r) BY Zenon DEF Holding, HoldingOf
    <3> QED BY Zenon, <2>2, <3>1, OthersHold
  <2> QED BY Zenon, <2>1, <2>2
<1> QED BY Zenon, <1>1 DEF Holding, HoldingOf

-----------------------------------------------------------------------------
LEMMA InitInv == Init => IInv
BY DEF Init, IInv, PlaceType, FwdType, InsType, MappingType, Holding, Published, Stops, Streams

(* The four actions that move an item, one at a time.                      *)
LEMMA ForwardStep ==
    ASSUME IInv, NEW s \in Streams, Forward(s)
    PROVE  IInv' /\ OneMove
<1> USE DEF IInv
<1>1. PICK n \in 1..Len(Feed[s]) : place[Feed[s][n]] = "feed" /\ Move(Feed[s][n], "fwd")
  BY Zenon DEF Forward
<1>2. PICK i : i = Feed[s][n] BY Zenon
<1>3. i \in ItemsOf(s) /\ i \in Items BY Zenon, <1>2, ItemsOfStream DEF ItemsOf
<1>4. place[i] = "feed" /\ Move(i, "fwd") BY Zenon, <1>1, <1>2
<1>5. UNCHANGED <<ins, correlationMap, found, mapping>> /\ fwd' = [fwd EXCEPT ![s] = "held"]
  BY Zenon DEF Forward, mapVars
<1>6. PlaceType' /\ \A m \in Items : place[m] = "stored" => place'[m] = "stored"
  BY Zenon, <1>3, <1>4, StoredStays DEF Stops
<1>7. Published' BY Zenon, <1>5, <1>6, PublishedStays
<1>8. FwdType' /\ InsType' /\ MappingType' BY Zenon, <1>5 DEF FwdType, InsType, MappingType
<1>9. HoldingOf(s)'
  <2>1. place'[i] = "fwd" BY Zenon, <1>3, <1>4 DEF PlaceType, Move
  <2>2. fwd[s] = "recv" BY Zenon DEF Forward
  <2>3. ins[s] \in {"insert", "correlate"} => \E j \in ItemsOf(s) : place'[j] = "ins"
    <3> SUFFICES ASSUME ins[s] \in {"insert", "correlate"}
                 PROVE  \E j \in ItemsOf(s) : place'[j] = "ins"
      BY Zenon
    <3>1. PICK j \in ItemsOf(s) : place[j] = "ins" BY Zenon DEF Holding
    <3>2. place'[j] = "ins" BY Zenon, <1>3, <1>4, <3>1, ItemsOfStream DEF PlaceType, Move
    <3> QED BY Zenon, <3>2
  <2> QED BY Zenon, <1>3, <1>5, <2>1, <2>3 DEF HoldingOf, ItemsOf
<1>10. Holding' BY Zenon, <1>3, <1>4, <1>5, <1>9, HoldingKept DEF FwdType
<1>11. OneMove BY Zenon, <1>3, <1>4 DEF OneMove, Road, Stops
<1> QED BY Zenon, <1>6, <1>7, <1>8, <1>10, <1>11

(* The forwarder hands its item to the inserter, or drops it; the one of   *)
(* mocks may instead only note that it is the last.                        *)
LEMMA HandOverStep ==
    ASSUME IInv, NEW s \in Streams, HandOver(s)
    PROVE  IInv' /\ OneMove
<1> USE DEF IInv
<1>1. PICK i : i = Held(s, "fwd") BY Zenon
<1>2. i \in ItemsOf(s) /\ i \in Items /\ place[i] = "fwd"
  <2>1. \E j \in ItemsOf(s) : place[j] = "fwd" BY Zenon DEF HandOver, Holding
  <2> QED BY Zenon, <1>1, <2>1, HeldIsThere
<1>3. UNCHANGED <<correlationMap, found, mapping>> BY Zenon DEF HandOver
<1>4. MappingType' BY Zenon, <1>3 DEF MappingType
<1>5. CASE /\ ins[s] = "recv" /\ Move(i, "ins")
           /\ ins' = [ins EXCEPT ![s] = IF s = "maps" THEN "correlate" ELSE "insert"]
           /\ fwd' = [fwd EXCEPT ![s] = IF @ = "last" THEN "done" ELSE "recv"]
  <2>1. PlaceType' /\ \A m \in Items : place[m] = "stored" => place'[m] = "stored"
    BY Zenon, <1>2, <1>5, StoredStays DEF Stops
  <2>2. FwdType' /\ InsType' BY Zenon, <1>5 DEF FwdType, InsType
  <2>3. place'[i] = "ins" BY Zenon, <1>2, <1>5 DEF PlaceType, Move
  <2>4. fwd'[s] \in {"done", "recv"} BY Zenon, <1>5 DEF FwdType
  <2>5. HoldingOf(s)' BY Zenon, <1>2, <2>3, <2>4 DEF HoldingOf, ItemsOf
  <2>6. Holding' BY Zenon, <1>2, <1>5, <2>5, HoldingKept DEF FwdType, InsType
  <2>7. OneMove BY Zenon, <1>2, <1>5 DEF OneMove, Road, Stops
  <2> QED BY Zenon, <1>3, <1>4, <2>1, <2>2, <2>6, <2>7, PublishedStays
<1>6. CASE fwd[s] = "held" /\ fwd' = [fwd EXCEPT ![s] = "last"] /\ UNCHANGED <<place, ins>>
  <2>1. PlaceType' /\ FwdType' /\ InsType' BY Zenon, <1>6 DEF PlaceType, FwdType, InsType
  <2>a. \A r \in Streams : fwd'[r] \in {"held", "last"} => fwd[r] \in {"held", "last"}
    BY Zenon, <1>6 DEF FwdType
  <2>b. \A r \in Streams : ItemsOf(r)' = ItemsOf(r) BY Zenon DEF ItemsOf
  <2>2. Holding' BY Zenon, <1>6, <2>a, <2>b DEF Holding
  <2>3. OneMove BY Zenon, <1>6 DEF OneMove
  <2> QED BY Zenon, <1>3, <1>4, <1>6, <2>1, <2>2, <2>3, PublishedStays
<1>7. CASE Move(i, "lost") /\ fwd' = [fwd EXCEPT ![s] = "done"] /\ UNCHANGED ins
  <2>1. PlaceType' /\ \A m \in Items : place[m] = "stored" => place'[m] = "stored"
    BY Zenon, <1>2, <1>7, StoredStays DEF Stops
  <2>2. FwdType' /\ InsType' BY Zenon, <1>7 DEF FwdType, InsType
  <2>3. fwd'[s] = "done" BY Zenon, <1>7 DEF FwdType
  <2>4. ASSUME ins[s] \in {"insert", "correlate"} PROVE \E j \in ItemsOf(s) : place'[j] = "ins"
    <3>1. PICK j \in ItemsOf(s) : place[j] = "ins" BY Zenon, <2>4 DEF Holding
    <3>2. place'[j] = "ins" BY Zenon, <1>2, <1>7, <3>1, ItemsOfStream DEF PlaceType, Move
    <3> QED BY Zenon, <3>2
  <2>5. HoldingOf(s)' BY Zenon, <1>7, <2>3, <2>4 DEF HoldingOf, ItemsOf
  <2>6. Holding' BY Zenon, <1>2, <1>7, <2>5, HoldingKept DEF FwdType
  <2>7. OneMove BY Zenon, <1>2, <1>7 DEF OneMove, Road, Stops
  <2> QED BY Zenon, <1>3, <1>4, <2>1, <2>2, <2>6, <2>7, PublishedStays
<1> QED BY Zenon, <1>1, <1>5, <1>6, <1>7 DEF HandOver

(* A test case or a mock is stored, or lost.  Only the name of a stored    *)
(* mock is published.                                                      *)
LEMMA InsertStep ==
    ASSUME IInv, NEW s \in Streams, Insert(s)
    PROVE  IInv' /\ OneMove
<1> USE DEF IInv
<1>1. PICK i : i = Held(s, "ins") BY Zenon
<1>2. i \in ItemsOf(s) /\ i \in Items /\ place[i] = "ins"
  <2>1. \E j \in ItemsOf(s) : place[j] = "ins" BY Zenon DEF Insert, Holding
  <2> QED BY Zenon, <1>1, <2>1, HeldIsThere
<1>3. UNCHANGED <<fwd, found, mapping>> BY Zenon DEF Insert
<1>4. PICK b \in {"stored", "lost"} :
        /\ Move(i, b)
        /\ correlationMap' = correlationMap \/ (b = "stored" /\ correlationMap' = correlationMap \cup {i})
  BY Zenon, <1>1 DEF Insert
<1>5. PICK l \in {"recv", "report"} : ins' = [ins EXCEPT ![s] = l]
  BY Zenon DEF Insert
<1>6. PlaceType' /\ \A m \in Items : place[m] = "stored" => place'[m] = "stored"
  BY Zenon, <1>2, <1>4, StoredStays DEF Stops
<1>7. FwdType' /\ InsType' /\ MappingType'
  BY Zenon, <1>3, <1>5 DEF FwdType, InsType, MappingType
<1>8. HoldingOf(s)'
  <2>1. ins'[s] \in {"recv", "report"} BY Zenon, <1>5 DEF InsType
  <2>2. ASSUME fwd[s] \in {"held", "last"} PROVE \E j \in ItemsOf(s) : place'[j] = "fwd"
    <3>1. PICK j \in ItemsOf(s) : place[j] = "fwd" BY Zenon, <2>2 DEF Holding
    <3>2. place'[j] = "fwd" BY Zenon, <1>2, <1>4, <3>1, ItemsOfStream DEF PlaceType, Move
    <3> QED BY Zenon, <3>2
  <2> QED BY Zenon, <1>3, <2>1, <2>2 DEF HoldingOf, ItemsOf
<1>9. Holding' BY Zenon, <1>2, <1>3, <1>4, <1>5, <1>8, HoldingKept DEF InsType
<1>10. Published'
  <2>1. ASSUME NEW m \in correlationMap' \cup found' PROVE m \in Items /\ place'[m] = "stored"
    <3>1. CASE m \in correlationMap \cup found BY Zenon, <3>1, <1>6 DEF Published
    <3>2. CASE b = "stored" /\ m = i BY Zenon, <3>2, <1>2, <1>4 DEF PlaceType, Move
    <3> QED BY Zenon, <1>3, <1>4, <2>1, <3>1, <3>2
  <2>2. \A t \in TestNames : \A m \in mapping[t] : place'[m] = "stored"
    BY Zenon, <1>6 DEF Published, MappingType
  <2> QED BY Zenon, <1>3, <2>1, <2>2 DEF Published, TestNames, ItemsOf
<1>11. OneMove BY Zenon, <1>2, <1>4 DEF OneMove, Road, Stops
<1> QED BY Zenon, <1>6, <1>7, <1>9, <1>10, <1>11

(* A mapping is written from entries found in the correlation map, or lost. *)
LEMMA SaveMappingStep ==
    ASSUME IInv, SaveMapping
    PROVE  IInv' /\ OneMove
<1> USE DEF IInv
<1>0. "maps" \in Streams BY Zenon DEF Streams
<1>1. PICK i : i = Held("maps", "ins") BY Zenon
<1>2. i \in ItemsOf("maps") /\ i \in Items /\ place[i] = "ins"
  <2>1. \E j \in ItemsOf("maps") : place[j] = "ins" BY Zenon, <1>0 DEF SaveMapping, Holding
  <2> QED BY Zenon, <1>0, <1>1, <2>1, HeldIsThere
<1>3. /\ UNCHANGED <<fwd, correlationMap>> /\ found' = {}
      /\ ins' = [ins EXCEPT !["maps"] = "recv"]
  BY Zenon DEF SaveMapping
<1>4. PICK b \in {"stored", "lost"} :
        /\ Move(i, b)
        /\ \/ UNCHANGED mapping
           \/ mapping' = [mapping EXCEPT ![EntryTest[i]] = found]
  BY Zenon, <1>1 DEF SaveMapping, Upsert
<1>5. PlaceType' /\ \A m \in Items : place[m] = "stored" => place'[m] = "stored"
  BY Zenon, <1>2, <1>4, StoredStays DEF Stops
<1>6. FwdType' /\ InsType' BY Zenon, <1>0, <1>3 DEF FwdType, InsType
<1>7. found \subseteq Items BY Zenon DEF Published
<1>8. MappingType'
  <2>1. mapping' \in [TestNames -> SUBSET Items] BY Zenon, <1>4, <1>7 DEF MappingType
  <2> QED BY Zenon, <2>1 DEF MappingType, TestNames, Items, ItemsOf
<1>9. HoldingOf("maps")'
  <2>1. ins'["maps"] = "recv" BY Zenon, <1>0, <1>3 DEF InsType
  <2>2. ASSUME fwd["maps"] \in {"held", "last"}
        PROVE  \E j \in ItemsOf("maps") : place'[j] = "fwd"
    <3>1. PICK j \in ItemsOf("maps") : place[j] = "fwd" BY Zenon, <1>0, <2>2 DEF Holding
    <3>2. place'[j] = "fwd" BY Zenon, <1>0, <1>2, <1>4, <3>1, ItemsOfStream DEF PlaceType, Move
    <3> QED BY Zenon, <3>2
  <2> QED BY Zenon, <1>3, <2>1, <2>2 DEF HoldingOf, ItemsOf
<1>10. Holding' BY Zenon, <1>0, <1>2, <1>3, <1>4, <1>9, HoldingKept DEF InsType
<1>11. Published'
  <2>1. \A m \in correlationMap' \cup found' : m \in Items /\ place'[m] = "stored"
    BY Zenon, <1>3, <1>5 DEF Published
  <2>2. \A t \in TestNames : \A m \in mapping'[t] : place'[m] = "stored"
    <3>1. CASE UNCHANGED mapping BY Zenon, <3>1, <1>5 DEF Published, MappingType
    <3>2. CASE mapping' = [mapping EXCEPT ![EntryTest[i]] = found]
      <4> SUFFICES ASSUME NEW t \in TestNames, NEW m \in mapping'[t]
                   PROVE  place'[m] = "stored"
        BY Zenon
      <4>1. m \in mapping[t] \/ m \in found BY Zenon, <3>2 DEF MappingType
      <4> QED BY Zenon, <4>1, <1>5 DEF Published, MappingType
    <3> QED BY Zenon, <1>4, <3>1, <3>2
  <2> QED BY Zenon, <2>1, <2>2 DEF Published, TestNames, Items, ItemsOf
<1>12. OneMove BY Zenon, <1>2, <1>4 DEF OneMove, Road, Stops
<1> QED BY Zenon, <1>5, <1>6, <1>8, <1>10, <1>11, <1>12

(* What is found was in the correlation map.                               *)
LEMMA CorrelateStep ==
    ASSUME IInv, Correlate
    PROVE  IInv' /\ OneMove
<1> USE DEF IInv
<1>1. UNCHANGED <<fwd, ins, place, mapping>> BY Zenon DEF Correlate, pipeVars
<1>2. correlationMap' \cup found' \subseteq correlationMap \cup found BY Zenon DEF Correlate
<1>3. PlaceType' /\ FwdType' /\ InsType' /\ MappingType'
  BY Zenon, <1>1 DEF PlaceType, FwdType, InsType, MappingType
<1>4. Holding' BY Zenon, <1>1 DEF Holding, ItemsOf
<1>5. Published' BY Zenon, <1>1, <1>2 DEF Published, TestNames, Items, ItemsOf
<1> QED BY Zenon, <1>1, <1>3, <1>4, <1>5 DEF OneMove

(* The other steps leave every item in its place, and no goroutine comes   *)
(* to hold one.                                                            *)
LEMMA QuietStep ==
    ASSUME IInv, UNCHANGED <<place, correlationMap, found, mapping>>, FwdType', InsType',
           \A s \in Streams : /\ fwd'[s] \in {"held", "last"} => fwd'[s] = fwd[s]
                              /\ ins'[s] \in {"insert", "correlate"} => ins'[s] = ins[s]
    PROVE  IInv' /\ OneMove
<1> USE DEF IInv
<1>1. PlaceType' /\ MappingType' BY Zenon DEF PlaceType, MappingType
<1>2. Holding' BY Zenon DEF Holding, ItemsOf
<1>3. Published' BY Zenon DEF Published, TestNames, Items, ItemsOf
<1> QED BY Zenon, <1>1, <1>2, <1>3 DEF OneMove

LEMMA Step ==
    ASSUME IInv, [Next]_vars
    PROVE  IInv' /\ OneMove
<1> DEFINE Still == UNCHANGED <<place, correlationMap, found, mapping>>
<1>1. CASE UNCHANGED pipeVars /\ UNCHANGED mapVars
  <2>1. UNCHANGED <<fwd, ins, place, correlationMap, found, mapping>> BY Zenon, <1>1 DEF pipeVars, mapVars
  <2>2. FwdType' /\ InsType' BY Zenon, <2>1 DEF IInv, FwdType, InsType
  <2> QED BY Zenon, <2>1, <2>2, QuietStep
<1>2. CASE GetTestAndMockChans
  <2>1. Still /\ UNCHANGED ins BY Zenon, <1>2 DEF GetTestAndMockChans, mapVars
  <2>2. PICK f \in [Streams -> {"off", "connect", "recv"}] : fwd' = f
    BY Zenon, <1>2 DEF GetTestAndMockChans
  <2>3. FwdType' /\ InsType' BY Zenon, <2>1, <2>2 DEF IInv, FwdType, InsType
  <2>4. \A s \in Streams : fwd'[s] \notin {"held", "last"} BY Zenon, <2>2
  <2> QED BY Zenon, <2>1, <2>3, <2>4, QuietStep
<1>3. CASE StartGoroutines
  <2>1. Still /\ UNCHANGED fwd BY Zenon, <1>3 DEF StartGoroutines, mapVars
  <2>2. ins' = ins \/ ins' = [s \in Streams |-> "recv"] BY Zenon, <1>3 DEF StartGoroutines
  <2>3. FwdType' /\ InsType' BY Zenon, <2>1, <2>2 DEF IInv, FwdType, InsType
  <2> QED BY Zenon, <2>1, <2>2, <2>3, QuietStep
<1>4. CASE GetMappings
  <2>1. Still /\ UNCHANGED ins BY Zenon, <1>4 DEF GetMappings, mapVars
  <2>2. PICK l \in {"recv", "done"} : fwd' = [fwd EXCEPT !["maps"] = l] BY Zenon, <1>4 DEF GetMappings
  <2>3. FwdType' /\ InsType' BY Zenon, <2>1, <2>2 DEF IInv, FwdType, InsType, Streams
  <2>4. \A s \in Streams : fwd'[s] \in {"held", "last"} => fwd'[s] = fwd[s]
    BY Zenon, <2>2 DEF IInv, FwdType
  <2> QED BY Zenon, <2>1, <2>3, <2>4, QuietStep
<1>5. ASSUME NEW s \in Streams, ForwardEnds(s) PROVE IInv' /\ OneMove
  <2>1. Still /\ UNCHANGED ins BY Zenon, <1>5 DEF ForwardEnds, mapVars
  <2>2. fwd' = [fwd EXCEPT ![s] = "done"] BY Zenon, <1>5 DEF ForwardEnds
  <2>3. FwdType' /\ InsType' BY Zenon, <2>1, <2>2 DEF IInv, FwdType, InsType
  <2>4. \A r \in Streams : fwd'[r] \in {"held", "last"} => fwd'[r] = fwd[r]
    BY Zenon, <2>2 DEF IInv, FwdType
  <2> QED BY Zenon, <2>1, <2>3, <2>4, QuietStep
<1>6. ASSUME NEW s \in Streams, RangeEnds(s) \/ Report(s) PROVE IInv' /\ OneMove
  <2>1. Still /\ UNCHANGED fwd BY Zenon, <1>6 DEF RangeEnds, Report, mapVars
  <2>2. ins' = ins \/ \E l \in {"recv", "done"} : ins' = [ins EXCEPT ![s] = l]
    BY Zenon, <1>6 DEF RangeEnds, Report
  <2>3. FwdType' /\ InsType' BY Zenon, <2>1, <2>2 DEF IInv, FwdType, InsType
  <2>4. \A r \in Streams : ins'[r] \in {"insert", "correlate"} => ins'[r] = ins[r]
    BY Zenon, <2>2 DEF IInv, InsType
  <2> QED BY Zenon, <2>1, <2>3, <2>4, QuietStep
<1>7. CASE UNCHANGED vars BY Zenon, <1>1, <1>7 DEF vars
<1>8. CASE Main
  <2>1. Setup \/ AwaitAgent \/ Select \/ Stop \/ Teardown \/ Cleanup =>
           UNCHANGED pipeVars /\ UNCHANGED mapVars
    BY Zenon DEF Setup, AwaitAgent, Select, Stop, Teardown, Cleanup
  <2>2. \A s \in {"tests", "mocks"} : CloseErrChan(s) => UNCHANGED pipeVars /\ UNCHANGED mapVars
    BY Zenon DEF CloseErrChan
  <2> QED BY Zenon, <1>1, <1>2, <1>3, <1>8, <2>1, <2>2 DEF Main
<1>9. CASE AppExits \/ Interrupt
  <2>1. UNCHANGED pipeVars /\ UNCHANGED mapVars BY Zenon, <1>9 DEF AppExits, Interrupt
  <2> QED BY Zenon, <1>1, <2>1
<1>10. ASSUME NEW s \in Streams, Goroutine(s) PROVE IInv' /\ OneMove
  BY Zenon, <1>5, <1>6, <1>10, ForwardStep, HandOverStep, InsertStep DEF Goroutine
<1> QED BY Zenon, <1>4, <1>7, <1>8, <1>9, <1>10, SaveMappingStep, CorrelateStep DEF Next

-----------------------------------------------------------------------------
(* The inductive invariant holds of every session.                         *)
THEOREM PipelineInvariant == Spec => []IInv
<1>1. IInv /\ [Next]_vars => IInv' BY Zenon, Step
<1> QED BY <1>1, InitInv, PTL DEF Spec

(* The mapping loop of record.go: whatever the two inserters' order, every *)
(* mock that mappings.yaml names was accepted by the mock database.        *)
THEOREM MappingsNameStoredMocks == Spec => []MappingNamesStored
<1>1. IInv => MappingNamesStored BY Zenon DEF IInv, Published, MappingNamesStored
<1> QED BY <1>1, PipelineInvariant, PTL

(* The session implements Journey: an item that the agent sent goes one    *)
(* way through forwarder and inserter and is stored or lost once.          *)
THEOREM PipelineIsOneWay == Spec => OneWayPath
<1>1. Init => Path!Init BY Zenon DEF Init, Path!Init
<1>2. IInv /\ OneMove => [Path!Next]_place
  <2> SUFFICES ASSUME IInv, NEW i \in Items, NEW b \in Stops, Road(place[i], b), Move(i, b)
               PROVE  Path!Next
    BY Zenon DEF OneMove
  <2>1. DOMAIN place' = Items /\ place'[i] = b BY Zenon DEF Move, IInv, PlaceType
  <2>2. \A j \in Items : j # i => place'[j] = place[j] BY Zenon DEF Move, IInv, PlaceType
  <2>3. <<place[i], b>> \in {<<"feed", "fwd">>, <<"fwd", "ins">>, <<"ins", "stored">>,
                             <<"fwd", "lost">>, <<"ins", "lost">>}
    BY Zenon DEF Road
  <2> QED BY Zenon, <2>1, <2>2, <2>3 DEF Path!Next
<1>3. IInv /\ [Next]_vars => [Path!Next]_place BY Zenon, <1>2, Step
<1> QED BY <1>1, <1>3, PipelineInvariant, PTL DEF Spec, OneWayPath, Path!Spec
=============================================================================

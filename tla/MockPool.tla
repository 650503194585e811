------------------------------ MODULE MockPool ------------------------------
(***************************************************************************)
(* The agent's mock pool during replay: how UpdateMockParams               *)
(* (pkg/service/agent/agent.go) sorts the stored mocks into tiers with the *)
(* filters of pkg/util.go, how MockManager (pkg/agent/proxy/mockmanager.go *)
(* over treedb.go) swaps its trees and its test window, and how the        *)
(* outgoing calls of the application take mocks from them (match and       *)
(* updateMock of integrations/http/match.go) while the replayer drains the *)
(* list of consumed mocks.                                                 *)
(*                                                                         *)
(* A tree is a set of handles.  TreeDb keys an entry by (SortOrder, ID)    *)
(* and keeps an index by ID; IDs are positions in the list a tree was      *)
(* built from, so the trees use the same IDs for different mocks.          *)
(* A tree that a call fetched stays alive when the pool is swapped, so a   *)
(* tier is the sequence of the trees its pointer has named.                *)
(* A lock-protected section of the code is one step.  The per-kind copies  *)
(* of the trees, which HTTP calls do not read, hit counters, the revision  *)
(* counters and the per-name index of DNS mocks are left out.              *)
(***************************************************************************)
EXTENDS Integers, Sequences, FiniteSets, SequencesExt, TLC

CONSTANTS
    PerTest,     \* names of the stored per-test mocks, a sequence
    Session,     \* names of the stored session mocks, a sequence
    Recordings,  \* the assignments of request times to mocks to consider
    Skewed,      \* mocks whose response is stamped before their request
    Windows,     \* Windows[k] = <<start, end>> of the k-th test
    Mapping,     \* Mapping[k]: the mocks mappings.yaml names for the k-th test
    Modes,       \* the settings to consider: UseMappingBased, StrictMockWindow
                 \* and KEPLOY_STRICT_MOCK_WINDOW, "unset", "on" or "off"
    Conns,       \* connections of the application
    Accepts,     \* Accepts[c]: the mocks the requests of c match
    MaxCalls     \* bound on the calls a connection makes

Range2Set(s) == {s[n] : n \in 1..Len(s)}
Mocks == Range2Set(PerTest) \cup Range2Set(Session)
NoTime == 0
Staging == <<NoTime, NoTime>>

VARIABLES
    mode,         \* the settings of this replay
    at,           \* the request time of each mock; NoTime when it is missing
    test,         \* the test the pool is set for: -1 none yet, 0 the staging call
    swap,         \* progress of SetMocksWithWindow, which holds swapMu until "idle"
    plan,         \* the lists it was given: startup, filtered, unfiltered
    startup,      \* the tree of the startup tier
    filtered, unfiltered, \* the trees the other tiers have had; the last is current
    window,       \* windowStart and windowEnd
    firstWindowStart,
    sortCounter,
    consumed,     \* consumedList: the state of each mock flagged since the last drain
    ledger,       \* totalConsumedMocks of the replayer
    mpc, cand, pick, globalTree, \* each connection's match loop and its locals;
                  \* globalTree is the position of the tree it fetched
    calls,        \* calls each connection has made
    served        \* mocks returned to the application

pool == <<startup, filtered, unfiltered>>
matcher == <<mpc, cand, pick, globalTree, calls, served>>
vars == <<mode, at, test, swap, plan, pool, window, firstWindowStart, sortCounter,
          consumed, ledger, matcher>>

Unused == [usage |-> "none", sort |-> 0]
NoHandle == [m |-> "none", id |-> 0, sort |-> 0]
NoPlan == [startup |-> <<>>, filtered |-> <<>>, unfiltered |-> <<>>]

-----------------------------------------------------------------------------
(* The filters of pkg/util.go.  A list holds records of a mock's name and  *)
(* the SortOrder it carries, 0 when none is stamped yet.                   *)

Copies(names) == [n \in 1..Len(names) |-> [m |-> names[n], sort |-> 0]]
InWindow(t, w) == w[1] <= t /\ t <= w[2]
ByTime(s) == SortSeq(s, LAMBDA x, y : at[x.m] < at[y.m])
Keep(s, Test(_)) == SelectSeq(s, LAMBDA x : Test(x.m))

strictWindowEnabled(perCall) == mode.env # "off" /\ (perCall \/ mode.env = "on")

\* What becomes of a mock: the tier the filter routes it to, or "drop".
filterByTimeStampTierAware(m, w, strict, first) ==
    CASE at[m] = NoTime -> "filtered"
      [] at[m] # NoTime /\ m \in Skewed -> "drop"
      [] at[m] # NoTime /\ m \notin Skewed /\ m \in Range2Set(Session) -> "unfiltered"
      [] OTHER ->
           IF w = Staging \/ InWindow(at[m], w) THEN "filtered"
           ELSE IF strict
                THEN IF first # NoTime /\ at[m] < first THEN "filtered" ELSE "drop"
                ELSE "unfiltered"

FilterTierAware(names, w, strict, first, tier) ==
    LET Goes(m) == filterByTimeStampTierAware(m, w, strict, first) = tier
    IN  ByTime(Keep(Copies(names), Goes))

filterByMapping(names, k, inside) ==
    LET Goes(m) == (m \in Mapping[k]) = inside
    IN  ByTime(Keep(Copies(names), Goes))


filterOutDeleted(list) ==
    LET Live(m) == ledger[m].usage # "Deleted"
        Restored(x) == [x EXCEPT !.sort = ledger[x.m].sort]
        live == Keep(list, Live)
    IN  [n \in 1..Len(live) |-> Restored(live[n])]

-----------------------------------------------------------------------------
(* TreeDb.  SetFilteredMocks and SetUnFilteredMocks stamp a list's entries *)
(* with their position as ID, and as SortOrder when they have none.        *)

Stamp(list) ==
    {[m |-> list[n].m, id |-> n - 1,
      sort |-> IF list[n].sort = 0 THEN n ELSE list[n].sort] : n \in 1..Len(list)}

Has(tree, h) == \E x \in tree : x.id = h.id /\ x.sort = h.sort
Delete(tree, h) == {x \in tree : ~(x.id = h.id /\ x.sort = h.sort)}
HasID(tree, h) == \E x \in tree : x.id = h.id

Update(tree, h, new) ==
    IF HasID(tree, h) THEN {x \in tree : x.id # h.id} \cup {new} ELSE tree

MaxSort(tree) ==
    IF tree = {} THEN 0 ELSE CHOOSE n \in {x.sort : x \in tree} : \A x \in tree : x.sort <= n
UpdateSortCounterIfHigher(n) == IF n > sortCounter THEN n ELSE sortCounter

-----------------------------------------------------------------------------
Init ==
    /\ mode \in Modes /\ at \in Recordings
    /\ test = -1 /\ swap = "idle" /\ plan = NoPlan
    /\ startup = {} /\ filtered = <<{}>> /\ unfiltered = <<{}>>
    /\ window = Staging /\ firstWindowStart = NoTime
    /\ sortCounter = IF Len(PerTest) > Len(Session) THEN Len(PerTest) ELSE Len(Session)
    /\ consumed = [m \in Mocks |-> Unused] /\ ledger = [m \in Mocks |-> Unused]
    /\ mpc = [c \in Conns |-> "idle"] /\ cand = [c \in Conns |-> {}]
    /\ pick = [c \in Conns |-> NoHandle] /\ globalTree = [c \in Conns |-> 0]
    /\ calls = [c \in Conns |-> 0] /\ served = {}

-----------------------------------------------------------------------------
(* Setting the pool.  The replayer calls UpdateMockParams once to stage    *)
(* the mocks before the application starts and once before every test.     *)

isWindowedProxy == TRUE   \* keploy's own proxy implements SetMocksWithWindow

\* The lists UpdateMockParams hands to the proxy for test k.
AgentLists(k) ==
    LET w == IF k = 0 THEN Staging ELSE Windows[k]
        strict == strictWindowEnabled(mode.flag /\ ~isWindowedProxy)
        Lists(names, tier) == FilterTierAware(names, w, strict, firstWindowStart, tier)
    IN  IF mode.mapping /\ k # 0 /\ Mapping[k] # {}
        THEN [filtered |-> filterOutDeleted(filterByMapping(PerTest, k, TRUE)),
              unfiltered |-> filterByMapping(Session, k, TRUE) \o filterByMapping(Session, k, FALSE)]
        ELSE [filtered |-> filterOutDeleted(Lists(PerTest, "filtered")),
              unfiltered |-> Lists(Session, "filtered") \o Lists(Session, "unfiltered")
                                \o Lists(PerTest, "unfiltered")]

\* The per-test list split by the window: what stays per-test, what is startup traffic.
InTestWindow(m, w) == at[m] = NoTime \/ (m \notin Skewed /\ InWindow(at[m], w))
IsStartup(m, w, first) ==
    ~InTestWindow(m, w) /\ m \notin Skewed /\ first # NoTime /\ at[m] < first

Numbered(list, from) ==
    [n \in 1..Len(list) |->
        [list[n] EXCEPT !.sort = IF @ = 0 THEN from + n ELSE @]]

Partition(lists, w, first) ==
    IF w = Staging
    THEN [startup |-> Numbered(lists.filtered, 0) \o Numbered(lists.unfiltered, Len(lists.filtered)),
          filtered |-> <<>>,
          unfiltered |-> Numbered(lists.unfiltered, Len(lists.filtered))]
    ELSE [startup |-> Numbered(Keep(lists.filtered, LAMBDA m : IsStartup(m, w, first)), 0),
          filtered |-> Keep(lists.filtered, LAMBDA m : InTestWindow(m, w)),
          unfiltered |-> lists.unfiltered]

\* Startup entries are the mocks' own handles: a per-test mock has ID 0 until
\* SetFilteredMocks stamps it, a session mock the ID SetUnFilteredMocks gives it.
StartupTree(p) ==
    LET staged == Stamp(p.unfiltered)
        Own(x) == IF \E h \in staged : h.m = x.m
                  THEN CHOOSE h \in staged : h.m = x.m
                  ELSE [m |-> x.m, id |-> 0, sort |-> x.sort]
    IN  {Own(p.startup[n]) : n \in 1..Len(p.startup)}

UpdateMockParams ==
    /\ swap = "idle" /\ test < Len(Windows)
    /\ LET k == test + 1
           w == IF k = 0 THEN Staging ELSE Windows[k]
           first == IF k # 0 /\ (firstWindowStart = NoTime \/ w[1] < firstWindowStart)
                    THEN w[1] ELSE firstWindowStart
       IN  /\ test' = k
           /\ firstWindowStart' = first
           /\ plan' = Partition(AgentLists(k), w, first)
    /\ swap' = "startup"
    /\ UNCHANGED <<mode, at, pool, window, sortCounter, consumed, ledger, matcher>>

SwapStartup ==
    /\ swap = "startup"
    /\ startup' = StartupTree(plan)
    /\ swap' = "filtered"
    /\ UNCHANGED <<mode, at, test, plan, filtered, unfiltered,
                   window, firstWindowStart, sortCounter, consumed, ledger, matcher>>

\* A new tree takes the place of the last one; a tree no call holds is garbage.
Replaced(trees, step, new) ==
    LET Held(n) == \E c \in Conns : mpc[c] = step /\ globalTree[c] = n
    IN  Append([n \in DOMAIN trees |-> IF Held(n) THEN trees[n] ELSE {}], new)

SetFilteredMocks ==
    LET new == Stamp(plan.filtered)
    IN  /\ swap = "filtered"
        /\ filtered' = Replaced(filtered, "deleteFrom", new)
        /\ sortCounter' = UpdateSortCounterIfHigher(MaxSort(new))
        /\ swap' = "unfiltered"
        /\ UNCHANGED <<mode, at, test, plan, startup, unfiltered, window,
                       firstWindowStart, consumed, ledger, matcher>>

SetUnFilteredMocks ==
    LET new == Stamp(plan.unfiltered)
    IN  /\ swap = "unfiltered"
        /\ unfiltered' = Replaced(unfiltered, "updateIn", new)
        /\ sortCounter' = UpdateSortCounterIfHigher(MaxSort(new))
        /\ swap' = "window"
        /\ UNCHANGED <<mode, at, test, plan, startup, filtered, window,
                       firstWindowStart, consumed, ledger, matcher>>

\* The staging call publishes no window.
PublishWindow ==
    /\ swap = "window"
    /\ window' = IF test = 0 THEN window ELSE Windows[test]
    /\ swap' = "idle" /\ plan' = NoPlan
    /\ UNCHANGED <<mode, at, test, pool, firstWindowStart, sortCounter, consumed, ledger, matcher>>

\* The replayer collects what was consumed; the list is copied and emptied
\* under one lock.
GetConsumedMocks ==
    /\ swap = "idle" /\ test >= 0
    /\ \E m \in Mocks : consumed[m] # Unused
    /\ ledger' = [m \in Mocks |-> IF consumed[m] = Unused THEN ledger[m] ELSE consumed[m]]
    /\ consumed' = [m \in Mocks |-> Unused]
    /\ UNCHANGED <<mode, at, test, swap, plan, pool, window, firstWindowStart, sortCounter, matcher>>

-----------------------------------------------------------------------------
(* An outgoing call: match reads the tiers, picks a mock that fits, and    *)
(* updateMock consumes or updates it; when that fails match starts over.   *)

Goto(c, step) == mpc' = [mpc EXCEPT ![c] = step]
Fitting(c, tree) == {h \in tree : h.m \in Accepts[c]}
poolSteps == <<mode, at, test, swap, plan, window, firstWindowStart, ledger>>

Call(c) ==
    /\ mpc[c] = "idle" /\ calls[c] < MaxCalls /\ test >= 0
    /\ calls' = [calls EXCEPT ![c] = @ + 1]
    /\ Goto(c, "perTest")
    /\ UNCHANGED <<poolSteps, pool, sortCounter, consumed, cand, pick, globalTree, served>>

\* Mutant: the read does not take swapMu.
GetPerTestUnlocked(c) ==
    /\ mpc[c] = "perTest"
    /\ cand' = [cand EXCEPT ![c] =
           Fitting(c, {h \in Last(filtered) : window = Staging \/ InTestWindow(h.m, window)})]
    /\ Goto(c, "startup")
    /\ UNCHANGED <<poolSteps, pool, sortCounter, consumed, pick, globalTree, calls, served>>

\* The tree and the window are read together under swapMu.
GetPerTestMocksInWindow(c) ==
    /\ mpc[c] = "perTest" /\ swap = "idle"
    /\ cand' = [cand EXCEPT ![c] =
           Fitting(c, {h \in Last(filtered) : window = Staging \/ InTestWindow(h.m, window)})]
    /\ Goto(c, "startup")
    /\ UNCHANGED <<poolSteps, pool, sortCounter, consumed, pick, globalTree, calls, served>>

\* GetSessionMocks walks the startup tree and then the session tree.
GetStartupMocks(c) ==
    /\ mpc[c] = "startup"
    /\ cand' = [cand EXCEPT ![c] = @ \cup Fitting(c, startup)]
    /\ Goto(c, "session")
    /\ UNCHANGED <<poolSteps, pool, sortCounter, consumed, pick, globalTree, calls, served>>

GetSessionMocks(c) ==
    LET seen == cand[c] \cup Fitting(c, Last(unfiltered))
    IN  /\ mpc[c] = "session"
        /\ cand' = [cand EXCEPT ![c] = {}]
        /\ \/ /\ seen = {}
              /\ Goto(c, "idle") /\ UNCHANGED pick
           \/ \E h \in seen :
              /\ pick' = [pick EXCEPT ![c] = h]
              /\ Goto(c, IF h.m \in Range2Set(Session) THEN "update" ELSE "delete")
        /\ UNCHANGED <<poolSteps, pool, sortCounter, consumed, globalTree, calls, served>>

flagMockAsUsed(m, usage, sort) ==
    consumed' = [consumed EXCEPT ![m] = [usage |-> usage, sort |-> sort]]

Serve(c) ==
    /\ served' = served \cup {pick[c].m}
    /\ pick' = [pick EXCEPT ![c] = NoHandle]
    /\ Goto(c, "idle")

Fetch(c, trees, step) ==
    /\ globalTree' = [globalTree EXCEPT ![c] = Len(trees)]
    /\ Goto(c, step)

\* The pointer of the tree is read under treesMu, the tree used after unlocking.
DeleteFilteredMock(c) ==
    /\ mpc[c] = "delete"
    /\ Fetch(c, filtered, "deleteFrom")
    /\ UNCHANGED <<poolSteps, pool, sortCounter, consumed, cand, pick, calls, served>>

DeleteFromTree(c) ==
    /\ mpc[c] = "deleteFrom"
    /\ filtered' = [filtered EXCEPT ![globalTree[c]] = Delete(@, pick[c])]
    /\ Goto(c, IF Has(filtered[globalTree[c]], pick[c]) THEN "flagDeleted" ELSE "update")
    /\ UNCHANGED <<poolSteps, startup, unfiltered, sortCounter, consumed, cand, pick, globalTree,
                   calls, served>>

\* Mutant: the mock is flagged when the tree it was deleted from is still current.
FlagDeletedIfCurrent(c) ==
    /\ mpc[c] = "flagDeleted"
    /\ IF globalTree[c] = Len(filtered) THEN flagMockAsUsed(pick[c].m, "Deleted", pick[c].sort)
       ELSE UNCHANGED consumed
    /\ Serve(c)
    /\ globalTree' = [globalTree EXCEPT ![c] = 0]
    /\ UNCHANGED <<poolSteps, pool, sortCounter, cand, calls>>

FlagDeleted(c) ==
    /\ mpc[c] = "flagDeleted"
    /\ flagMockAsUsed(pick[c].m, "Deleted", pick[c].sort)
    /\ Serve(c)
    /\ globalTree' = [globalTree EXCEPT ![c] = 0]
    /\ UNCHANGED <<poolSteps, pool, sortCounter, cand, calls>>

UpdateUnFilteredMock(c) ==
    /\ mpc[c] = "update"
    /\ Fetch(c, unfiltered, "updateIn")
    /\ UNCHANGED <<poolSteps, pool, sortCounter, consumed, cand, pick, calls, served>>

\* TreeDb.update falls back on the ID when the key is not found.  When nothing
\* is updated the number GetNextSortNum handed out is lost and match starts over.
UpdateInTree(c) ==
    /\ mpc[c] = "updateIn"
    /\ globalTree' = [globalTree EXCEPT ![c] = 0]
    /\ LET new == [pick[c] EXCEPT !.sort = sortCounter + 1] IN
       \/ /\ HasID(unfiltered[globalTree[c]], pick[c])
          /\ sortCounter' = sortCounter + 1
          /\ unfiltered' = [unfiltered EXCEPT ![globalTree[c]] = Update(@, pick[c], new)]
          /\ pick' = [pick EXCEPT ![c] = new]
          /\ Goto(c, "flagUpdated")
       \/ /\ ~HasID(unfiltered[globalTree[c]], pick[c])
          /\ pick' = [pick EXCEPT ![c] = NoHandle]
          /\ Goto(c, "perTest")
          /\ UNCHANGED <<sortCounter, unfiltered>>
    /\ UNCHANGED <<poolSteps, startup, filtered, consumed, cand, calls, served>>

FlagUpdated(c) ==
    /\ mpc[c] = "flagUpdated"
    /\ flagMockAsUsed(pick[c].m, "Updated", pick[c].sort)
    /\ Serve(c)
    /\ UNCHANGED <<poolSteps, pool, sortCounter, cand, globalTree, calls>>

Replayer ==
    \/ UpdateMockParams \/ SwapStartup \/ SetFilteredMocks \/ SetUnFilteredMocks
    \/ PublishWindow \/ GetConsumedMocks

Match(c) ==
    \/ GetPerTestMocksInWindow(c) \/ GetStartupMocks(c) \/ GetSessionMocks(c)
    \/ DeleteFilteredMock(c) \/ DeleteFromTree(c) \/ FlagDeleted(c)
    \/ UpdateUnFilteredMock(c) \/ UpdateInTree(c) \/ FlagUpdated(c)

Next == Replayer \/ \E c \in Conns : Call(c) \/ Match(c)

Spec == Init /\ [][Next]_vars

-----------------------------------------------------------------------------
Handles == [m : Mocks \cup {"none"}, id : Nat, sort : Nat]

(* Every variable holds values of its type.                                *)
TypeOK ==
    /\ test \in -1..Len(Windows)
    /\ swap \in {"idle", "startup", "filtered", "unfiltered", "window"}
    /\ startup \subseteq Handles
    /\ \A t \in Range2Set(filtered) \cup Range2Set(unfiltered) :
           t \subseteq Handles /\ \A x, y \in t : x.id = y.id => x = y
    /\ \A c \in Conns : globalTree[c] \in 0..Len(Windows) + 2
    /\ \A m \in Mocks : consumed[m].usage \in {"none", "Updated", "Deleted"}
    /\ \A c \in Conns : cand[c] \subseteq Handles /\ pick[c] \in Handles

(* GetFilteredMocksInWindow never pairs the trees of one test with the     *)
(* window of another: the window filter it applies to the tree it          *)
(* snapshotted hides none of the tree's mocks.                             *)
ReadsOwnWindow ==
    \A c \in Conns : mpc[c] = "perTest" /\ mpc'[c] = "startup" =>
        cand'[c] = Fitting(c, Last(filtered))
WindowRead == [][ReadsOwnWindow]_vars

(* A mock that match returned to the application is in the consumed list,  *)
(* or already in the replayer's ledger: a drain never loses one, whatever  *)
(* calls and pool swaps it meets.                                          *)
ConsumedReported ==
    \A m \in served : consumed[m] # Unused \/ ledger[m] # Unused

Names(list) == {list[n].m : n \in 1..Len(list)}
Timely(m) == at[m] = NoTime \/ m \notin Skewed


(* "Per-test mocks whose request timestamp falls outside the outer test    *)
(* window will be dropped rather than promoted across tests" when strict   *)
(* mock-window containment is active, by the flag or by the environment    *)
(* (what UpdateMockParams logs): none is in the session tier of a test.    *)
StrictContains ==
    swap = "startup" /\ test > 0 /\ strictWindowEnabled(mode.flag) =>
        \A m \in Names(plan.unfiltered) \cap Range2Set(PerTest) : InTestWindow(m, Windows[test])
=============================================================================

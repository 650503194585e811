---- MODULE JsonMatch ----
(***************************************************************************)
(* The comparison of a recorded body with a live one: pkg/matcher/utils.go *)
(* and risk.go, and the schema comparison of http/schema_match.go.         *)
(*                                                                         *)
(* A JSON value is a record [t, a, kids, list]: its type, its atom (for a  *)
(* string, a number or a boolean), its members by key, its elements.  A    *)
(* body that is not JSON has t = "plain".  A path is the sequence of the   *)
(* keys that lead to a value.  A noise map is a function from paths to the *)
(* set of atoms its regular expressions accept, {} when it has none.  The  *)
(* names in use contain one another nowhere, so the substring test of the  *)
(* code on lower-cased dotted keys is the test for a run of whole names;   *)
(* and at most one entry of a noise map applies to a path, since the order *)
(* in which Go walks the map is unspecified.                               *)
(***************************************************************************)
EXTENDS Integers, FiniteSets, Sequences, SequencesExt, TLC

CONSTANT Reading    \* the JSON value a string spells, for strings that do

Leaf(t, a) == [t |-> t, a |-> a, kids |-> <<>>, list |-> <<>>]
Obj(f) == [t |-> "obj", a |-> "", kids |-> f, list |-> <<>>]
Arr(s) == [t |-> "arr", a |-> "", kids |-> <<>>, list |-> s]

Scalars == {"str", "num", "bool"}
IsJSON(v) == v.t # "plain"

----------------------------------------------------------------------------
(* The noise index. *)

Within(k, p) == \E i \in 0 .. (Len(p) - Len(k)) : SubSeq(p, i + 1, i + Len(k)) = k

\* noiseIndex.match: an entry of the index applies to the path.
Noisy(ni, p) == \E k \in DOMAIN ni : Within(k, p)

\* ... and has no regular expression, so that the subtree is not compared.
Ignored(ni, p) == \E k \in DOMAIN ni : Within(k, p) /\ ni[k] = {}

\* JSONDiffWithNoiseControl: keys without a dot are ignored at every depth,
\* the dotted ones make the index.
GlobalKeys(noise) == {k[1] : k \in {n \in DOMAIN noise : Len(n) = 1}}
BuildNoiseIndex(noise) == [k \in {n \in DOMAIN noise : Len(n) > 1} |-> noise[k]]

----------------------------------------------------------------------------
(* JSONDiffWithNoiseControl.  A type mismatch below the root counts as no  *)
(* match, and matches and isExact agree at every leaf, so one Boolean      *)
(* stands for both.                                                        *)

RECURSIVE MatchJSON(_, _, _, _, _, _), Claim(_, _, _, _, _, _, _, _)

\* A leaf: equal, or under a noisy path.  The regular expressions decide
\* nothing here, because the fallback accepts any noisy value.
MatchLeaf(p, e, a, ni) == e.a = a.a \/ Noisy(ni, p)

MatchMembers(p, e, a, ni, gk, io) ==
    /\ \A k \in DOMAIN e.kids \ gk :
          /\ k \in DOMAIN a.kids
          /\ \/ Ignored(ni, Append(p, k))
             \/ MatchJSON(Append(p, k), e.kids[k], a.kids[k], ni, gk, io)
    /\ \A k \in (DOMAIN a.kids \ gk) \ DOMAIN e.kids : Ignored(ni, Append(p, k))

MatchInOrder(p, e, a, ni, gk, io) ==
    \A i \in DOMAIN e.list : MatchJSON(p, e.list[i], a.list[i], ni, gk, io)

\* findAndClaimPrimitiveEqual: unused elements equal to a scalar.
PrimitiveEqual(x, list, used) ==
    {j \in DOMAIN list \ used : x.t \in Scalars /\ list[j].t = x.t /\ list[j].a = x.a}

Least(S) == CHOOSE j \in S : \A k \in S : j <= k

\* A mutant of the model: a claimed element stays available.
ClaimAgain(i, used, p, e, a, ni, gk, io) ==
    \A x \in DOMAIN e.list : \E j \in DOMAIN a.list :
        MatchJSON(p, e.list[x], a.list[j], ni, gk, io)

\* Each expected element claims the first unused actual element equal to it,
\* else the first one that matches it.
Claim(i, used, p, e, a, ni, gk, io) ==
    IF i > Len(e.list) THEN TRUE
    ELSE LET same == PrimitiveEqual(e.list[i], a.list, used)
             like == {j \in DOMAIN a.list \ used :
                         MatchJSON(p, e.list[i], a.list[j], ni, gk, io)}
             open == IF same # {} THEN same ELSE like
         IN  open # {} /\ Claim(i + 1, used \cup {Least(open)}, p, e, a, ni, gk, io)

\* matchJSONWithNoiseHandlingIndexed.
MatchJSON(p, e, a, ni, gk, io) ==
    CASE e.t = "null" -> a.t = "null"
      [] e.t # "null" /\ e.t # a.t -> FALSE
      [] e.t = a.t /\ e.t \in Scalars -> MatchLeaf(p, e, a, ni)
      [] e.t = a.t /\ e.t = "obj" -> Ignored(ni, p) \/ MatchMembers(p, e, a, ni, gk, io)
      [] e.t = a.t /\ e.t = "arr" ->
            /\ Len(e.list) = Len(a.list)
            /\ \/ Ignored(ni, p)
               \/ IF io THEN Claim(1, {}, p, e, a, ni, gk, io)
                        ELSE MatchInOrder(p, e, a, ni, gk, io)

\* ValidateAndMarshalJSON asks for equal types before the comparison runs.
SameJSON(e, a, noise, io) ==
    /\ e.t = a.t
    /\ MatchJSON(<<>>, e, a, BuildNoiseIndex(noise), GlobalKeys(noise), io)

----------------------------------------------------------------------------
(* CompareResponses: a recorded leaf that holds the value of a template    *)
(* takes the live value, and the template with it.                         *)

RECURSIVE TemplatedLeaves(_, _, _, _), Normalized(_, _, _, _)

\* normalizeLeaf: the live value a recorded leaf is aligned with, if any.
Aligned(act, key) ==
    CASE act.t = "obj" -> IF key # "" /\ key \in DOMAIN act.kids THEN {act.kids[key]} ELSE {}
      [] act.t = "arr" -> {}
      [] act.t \notin {"obj", "arr"} -> {act}

\* assignFromActual: the templates whose value the leaf holds.
Holds(e, templates) == {n \in DOMAIN templates : templates[n] = e.a}

Assigns(e, act, key, templates) ==
    IF e.t \in Scalars /\ Aligned(act, key) # {} /\ Holds(e, templates) # {}
    THEN {[name |-> CHOOSE n \in Holds(e, templates) : TRUE,
           value |-> (CHOOSE v \in Aligned(act, key) : TRUE).a]}
    ELSE {}

\* compareZip, the templates it assigns.
TemplatedLeaves(e, act, key, templates) ==
    CASE e.t = "obj" ->
            IF act.t # "obj" THEN {}
            ELSE UNION {TemplatedLeaves(e.kids[k], act.kids[k], k, templates) :
                           k \in DOMAIN e.kids \cap DOMAIN act.kids}
      [] e.t = "arr" ->
            IF act.t # "arr" THEN {}
            ELSE UNION {TemplatedLeaves(e.list[i], act.list[i], "", templates) :
                           i \in DOMAIN e.list \cap DOMAIN act.list}
      [] e.t \notin {"obj", "arr"} -> Assigns(e, act, key, templates)

\* compareZip, the recorded value it leaves behind.
Normalized(e, act, key, templates) ==
    CASE e.t = "obj" ->
            IF act.t # "obj" THEN e
            ELSE [e EXCEPT !.kids = [k \in DOMAIN e.kids |->
                    IF k \in DOMAIN act.kids
                    THEN Normalized(e.kids[k], act.kids[k], k, templates) ELSE e.kids[k]]]
      [] e.t = "arr" ->
            IF act.t # "arr" THEN e
            ELSE [e EXCEPT !.list = [i \in DOMAIN e.list |->
                    IF i \in DOMAIN act.list
                    THEN Normalized(e.list[i], act.list[i], "", templates) ELSE e.list[i]]]
      [] e.t \notin {"obj", "arr"} ->
            IF Assigns(e, act, key, templates) = {} THEN e
            ELSE [e EXCEPT !.a = (CHOOSE w \in Assigns(e, act, key, templates) : TRUE).value]

----------------------------------------------------------------------------
(* risk.go: the leaves of both bodies by path, and what changed. *)

RECURSIVE CollectJSON(_, _, _)

\* The leaves of the parts of a value; a later element hides an earlier one.
Leaves(part) ==
    [q \in UNION {DOMAIN part[k] : k \in DOMAIN part} |->
        LET at == {k \in DOMAIN part : q \in DOMAIN part[k]}
        IN  part[IF Cardinality(at) = 1 THEN CHOOSE k \in at : TRUE
                 ELSE CHOOSE i \in at : \A j \in at : j <= i][q]]

\* collectJSON: array elements share the path with [] appended, so the last
\* element that has a path decides its type and value.
CollectJSON(v, p, ni) ==
    CASE Ignored(ni, p) -> <<>>
      [] ~Ignored(ni, p) /\ v.t = "obj" ->
            Leaves([k \in DOMAIN v.kids |-> CollectJSON(v.kids[k], Append(p, k), ni)])
      [] ~Ignored(ni, p) /\ v.t = "arr" ->
            Leaves([i \in DOMAIN v.list |-> CollectJSON(v.list[i], Append(p, "[]"), ni)])
      [] ~Ignored(ni, p) /\ v.t \notin {"obj", "arr"} -> p :> [t |-> v.t, a |-> v.a]

\* diffMaps.
Diff(e, a, ni) ==
    LET ex == CollectJSON(e, <<>>, ni)
        ac == CollectJSON(a, <<>>, ni)
        both == DOMAIN ex \cap DOMAIN ac
    IN  [added |-> DOMAIN ac \ DOMAIN ex,
         removed |-> DOMAIN ex \ DOMAIN ac,
         types |-> {p \in both : ex[p].t # ac[p].t},
         values |-> {p \in both : ex[p].t = ac[p].t /\ ex[p].a # ac[p].a}]

\* ComputeFailureAssessmentJSON.
Assessment(e, a, noise) ==
    LET d == Diff(e, a, noise)
    IN  CASE d.removed \cup d.types # {} -> [category |-> "SchemaBroken", risk |-> 3]
          [] OTHER -> [category |-> IF d.added = {} THEN "SchemaUnchanged" ELSE "SchemaAdded",
                       risk |-> IF d.values # {} THEN 2 ELSE IF d.added # {} THEN 1 ELSE 0]

MaxRisk(r, s) == IF s > r THEN s ELSE r

----------------------------------------------------------------------------
(* http/schema_match.go: types and keys, not values. *)

RECURSIVE SchemaMatch(_, _)

\* schemaMatchRecursive finds no error.
SchemaMatch(e, a) ==
    CASE e.t # a.t -> FALSE
      [] e.t = a.t /\ e.t = "obj" ->
            \A k \in DOMAIN e.kids : k \in DOMAIN a.kids /\ SchemaMatch(e.kids[k], a.kids[k])
      [] e.t = a.t /\ e.t = "arr" ->
            \A i \in DOMAIN e.list \cap DOMAIN a.list : SchemaMatch(e.list[i], a.list[i])
      [] e.t = a.t /\ e.t \notin {"obj", "arr"} -> TRUE

----------------------------------------------------------------------------
(* Header comparison and the assertions on JSON. *)

\* SubstringKeyMatch, then MatchesAnyRegex on the value; the key "header"
\* makes every header noisy.
HeaderNoisy(k, v, noise) ==
    \/ "header" \in DOMAIN noise
    \/ k \in DOMAIN noise /\ (noise[k] = {} \/ v \in noise[k])

\* CompareHeaders: the headers it reports as not normal.  It returns true
\* exactly when there is none.
AbnormalHeaders(h1, h2, noise) ==
    {k \in DOMAIN h1 : /\ ~HeaderNoisy(k, h1[k], noise)
                       /\ k \in DOMAIN h2 => h2[k] # h1[k]}
    \cup {k \in DOMAIN h2 \ DOMAIN h1 : ~HeaderNoisy(k, h2[k], noise)}

RECURSIVE ContainsRecursive(_, _)

\* containsRecursive (JsonContains).
ContainsRecursive(actual, expected) ==
    /\ actual.t = "obj"
    /\ \A k \in DOMAIN expected.kids :
          /\ k \in DOMAIN actual.kids
          /\ IF expected.kids[k].t = "obj"
             THEN ContainsRecursive(actual.kids[k], expected.kids[k])
             ELSE actual.kids[k] = expected.kids[k]

----------------------------------------------------------------------------
(* gRPC: nested JSON strings, and the canonical form of decoded text. *)

RECURSIVE NormalizeNested(_, _)

\* normalizeNestedJSONValue: a string that spells JSON under a key that roots
\* a dotted noise path is compared as JSON.
NormalizeNested(v, roots) ==
    CASE v.t = "obj" ->
            [v EXCEPT !.kids = [k \in DOMAIN v.kids |->
                LET x == v.kids[k]
                    spelled == k \in roots /\ x.t = "str" /\ x.a \in DOMAIN Reading
                IN  NormalizeNested(IF spelled THEN Reading[x.a] ELSE x, roots)]]
      [] v.t = "arr" ->
            [v EXCEPT !.list = [i \in DOMAIN v.list |-> NormalizeNested(v.list[i], roots)]]
      [] v.t \notin {"obj", "arr"} -> v

\* NormalizeNestedJSONForNoise.
NormalizeForNoise(v, noise) ==
    NormalizeNested(v, {k[1] : k \in {n \in DOMAIN noise : Len(n) > 1}})

RECURSIVE Canonical(_)

\* canonicalizeRecursive: the blocks of one level in sorted order, which is
\* their bag.
Canonical(blocks) ==
    LET Canon(b) == [head |-> b.head, inner |-> Canonical(b.inner)]
        forms == {Canon(blocks[i]) : i \in DOMAIN blocks}
    IN  [f \in forms |-> Cardinality({i \in DOMAIN blocks : Canon(blocks[i]) = f})]
====

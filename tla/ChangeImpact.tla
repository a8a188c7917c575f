----------------------------- MODULE ChangeImpact ------------------------------
(***************************************************************************)
(* From a change to the decision about it: the objects it may affect       *)
(* (Impact), the prediction and the gate (Predict), and the order to       *)
(* recompile a set in (RecompileOrder).                                    *)
(*                                                                         *)
(* The parts are called as the repository calls them or documents the      *)
(* call: impact() on its own; recompile_order() on its own; and, for a     *)
(* changeset, impact() for every anchor, predict_with_lineage() over the   *)
(* results, plan_changeset() and run_gate().                               *)
(***************************************************************************)
EXTENDS Impact, Predict, RecompileOrder

CONSTANTS
    Impacts,      \* the arguments of impact()
    Orders,       \* those of recompile_order()
    Predictions,  \* those of predict_with_lineage() and what follows
    Policies      \* the gate's policies

VARIABLES
    in,          \* the call and its arguments
    stage,       \* where it is
    at,          \* which anchor, changed object or impact result is next
    results,     \* the impact results
    nodes,       \* affected nodes of the result being merged
    edges,       \* unknown edges of it
    statements,  \* the plan's statements
    decision     \* the gate's decision

impactVars == <<stage, at, results>>
mergeVars  == <<nodes, edges>>
endVars    == <<statements, decision>>
vars == <<in, impactVars, mergeVars, endVars, walkVars, orderVars, predictVars>>

(* why is the explanation the unknown edges carry, meta the resolver of    *)
(* logical ids.                                                            *)
Case ==
    [call    : {"impact", "order", "predict"},
     graph   : Graph,
     limit   : Nat,
     anchors : Seq(Object),
     set     : SUBSET Object,
     changes : Seq(Change),
     mode    : Mode,
     meta    : [Object -> Key \cup {None}],
     why     : Reason]

ASSUME CasesAssumption ==
    /\ Impacts \subseteq Case /\ \A c \in Impacts : c.call = "impact"
    /\ Orders \subseteq Case /\ \A c \in Orders : c.call = "order"
    /\ Predictions \subseteq Case /\ \A c \in Predictions : c.call = "predict"

(* A graph and a set are what one process holds in memory.                 *)
ASSUME FiniteAssumption ==
    \A c \in Impacts \cup Orders \cup Predictions :
        IsFiniteSet(c.graph.nodes) /\ IsFiniteSet(c.graph.edges)

ASSUME PoliciesAssumption == Policies \subseteq Policy

g == in.graph

Stage == {"anchor", "walk", "predict", "result", "merge", "plan", "gate",
          "order", "peel", "done"}

Result == [anchor : Object, affected : SUBSET [object : Object, hops : Nat,
                                               conf : Lineage],
           unknown : SUBSET Edge]

Undecided == [policy |-> None, failures |-> {}]

Init ==
    /\ in \in Impacts \/ in \in Orders \/ in \in Predictions
    /\ stage = IF in.call = "order" THEN "order" ELSE "anchor"
    /\ at = 1
    /\ results = <<>>
    /\ nodes = {}
    /\ edges = {}
    /\ statements = {}
    /\ decision = Undecided
    /\ WalkParked
    /\ OrderParked
    /\ PredictParked

-----------------------------------------------------------------------------
(* impact(), for one anchor after the other.  An anchor the graph does not *)
(* know has an empty result.                                               *)
Anchor ==
    /\ stage = "anchor"
    /\ at <= Len(in.anchors)
    /\ IF in.anchors[at] \in g.nodes
       THEN /\ stage' = "walk"
            /\ Begin(in.anchors[at])
            /\ UNCHANGED <<at, results>>
       ELSE /\ results' = Append(results, [anchor   |-> in.anchors[at],
                                           affected |-> {}, unknown |-> {}])
            /\ at' = at + 1
            /\ UNCHANGED <<stage, walkVars>>
    /\ UNCHANGED <<in, mergeVars, endVars, orderVars, predictVars>>

Walk ==
    /\ stage = "walk"
    /\ Pop(g, in.limit) \/ Relax
    /\ UNCHANGED <<in, impactVars, mergeVars, endVars, orderVars, predictVars>>

EndWalk ==
    /\ stage = "walk"
    /\ Walked
    /\ results' = Append(results, [anchor   |-> anchor,
                                   affected |-> Affected(g), unknown |-> unknown])
    /\ at' = at + 1
    /\ stage' = "anchor"
    /\ UNCHANGED <<in, mergeVars, endVars, walkVars, orderVars, predictVars>>

EndAnchors ==
    /\ stage = "anchor"
    /\ at > Len(in.anchors)
    /\ stage' = IF in.call = "impact" THEN "done" ELSE "predict"
    /\ at' = 1
    /\ UNCHANGED <<in, results, mergeVars, endVars, walkVars, orderVars, predictVars>>

-----------------------------------------------------------------------------
(* predict()                                                               *)
Predict ==
    /\ stage = "predict"
    /\ at <= Len(in.changes)
    /\ PredictObject(in.changes[at], in.mode)
    /\ at' = at + 1
    /\ UNCHANGED <<in, stage, results, mergeVars, endVars, walkVars, orderVars>>

EndPredict ==
    /\ stage = "predict"
    /\ at > Len(in.changes)
    /\ Finish(in.changes)
    /\ at' = 1
    /\ stage' = "result"
    /\ UNCHANGED <<in, results, mergeVars, endVars, walkVars, orderVars>>

(* predict_with_lineage(): one result after the other, its nodes before    *)
(* its edges.                                                              *)
NextResult ==
    /\ stage = "result"
    /\ at <= Len(results)
    /\ nodes' = {x \in results[at].affected : x.hops > 0}
    /\ edges' = results[at].unknown
    /\ at' = at + 1
    /\ stage' = "merge"
    /\ UNCHANGED <<in, results, endVars, walkVars, orderVars, predictVars>>

MergeNode ==
    /\ stage = "merge"
    /\ \E x \in nodes :
          /\ \A y \in nodes : ~Before(y, x)
          /\ IF in.meta[x.object] = None
             THEN Unresolved(x)
             ELSE Resolved(x, in.meta[x.object])
          /\ nodes' = nodes \ {x}
    /\ UNCHANGED <<in, impactVars, edges, endVars, walkVars, orderVars>>

MergeUnknown ==
    /\ stage = "merge"
    /\ nodes = {}
    /\ \E e \in edges :
          /\ MergeEdge(e, in.why)
          /\ edges' = edges \ {e}
    /\ UNCHANGED <<in, impactVars, nodes, endVars, walkVars, orderVars>>

EndMerge ==
    /\ stage = "merge"
    /\ nodes = {}
    /\ edges = {}
    /\ stage' = "result"
    /\ UNCHANGED <<in, at, results, mergeVars, endVars, walkVars, orderVars,
                   predictVars>>

EndResultsBug ==
    /\ stage = "result"
    /\ at > Len(results)
    /\ stage' = "plan"
    /\ UNCHANGED <<in, at, results, mergeVars, endVars, walkVars, orderVars,
                   predictVars>>  \* no second finalize_posture()

EndResults ==
    /\ stage = "result"
    /\ at > Len(results)
    /\ Finish(in.changes)
    /\ stage' = "plan"
    /\ UNCHANGED <<in, at, results, mergeVars, endVars, walkVars, orderVars>>

-----------------------------------------------------------------------------
Plan ==
    /\ stage = "plan"
    /\ statements' = StatementsFor(in.changes)
    /\ stage' = "gate"
    /\ UNCHANGED <<in, at, results, mergeVars, decision, walkVars, orderVars,
                   predictVars>>

RunGate ==
    /\ stage = "gate"
    /\ \E p \in Policies : decision' = [policy |-> p, failures |-> Failures(p)]
    /\ stage' = "done"
    /\ UNCHANGED <<in, at, results, mergeVars, statements, walkVars, orderVars,
                   predictVars>>

-----------------------------------------------------------------------------
(* recompile_order()                                                       *)
Order ==
    /\ stage = "order"
    /\ StartOrder(g, in.set)
    /\ stage' = "peel"
    /\ UNCHANGED <<in, at, results, mergeVars, endVars, walkVars, predictVars>>

PeelNext ==
    /\ stage = "peel"
    /\ Peel
    /\ UNCHANGED <<in, impactVars, mergeVars, endVars, walkVars, predictVars>>

EndOrder ==
    /\ stage = "peel"
    /\ ready = {}
    /\ stage' = "done"
    /\ UNCHANGED <<in, at, results, mergeVars, endVars, walkVars, orderVars,
                   predictVars>>

Next ==
    \/ Anchor \/ Walk \/ EndWalk \/ EndAnchors
    \/ Predict \/ EndPredict
    \/ NextResult \/ MergeNode \/ MergeUnknown \/ EndMerge \/ EndResults
    \/ Plan \/ RunGate
    \/ Order \/ PeelNext \/ EndOrder

(* Every part is a loop that nothing else can hold up.                     *)
Spec == Init /\ [][Next]_vars /\ WF_vars(Next)

-----------------------------------------------------------------------------
TypeOK ==
    /\ in \in Case
    /\ stage \in Stage
    /\ at \in Nat \ {0}
    /\ results \in Seq(Result)
    /\ nodes \subseteq UNION {results[i].affected : i \in DOMAIN results}
    /\ edges \subseteq UNION {results[i].unknown : i \in DOMAIN results}
    /\ statements \subseteq Statement
    /\ decision.policy \in Policies \cup {None}
    /\ WalkTypeOK(g)
    /\ OrderTypeOK
    /\ PredictTypeOK

(* Nothing impact() reports is made up: an object it has reached is at the *)
(* end of a walk from the anchor of exactly that many edges, none of which *)
(* is known less surely than it says.                                      *)
WalkSound ==
    stage = "walk" =>
        \A n \in Object : best[n].conf # Unseen =>
            \E s \in [1 .. best[n].hops -> g.edges] :
                /\ IsWalk(g, anchor, s, best[n].hops)
                /\ EndOf(anchor, s, best[n].hops) = n
                /\ HasConfidence(s, best[n].hops, best[n].conf)

(* What impact() is to find of a: the objects a walk within the limit      *)
(* leads to, each with the most confidence any such walk has and over the  *)
(* fewest edges among those, and the edges that claim nothing and that a   *)
(* shorter walk can go on by.  What the graph does not know has nothing.   *)
ByWalk(a, n, c, k) ==
    \E s \in [1 .. k -> g.edges] :
        IsWalk(g, a, s, k) /\ EndOf(a, s, k) = n /\ HasConfidence(s, k, c)

IsBest(a, n, c, k) ==
    /\ ByWalk(a, n, c, k)
    /\ \A j \in 0 .. in.limit, d \in Lineage :
          ByWalk(a, n, d, j) => d < c \/ (d = c /\ k <= j)

ClaimNothing(a) ==
    {e \in g.edges : /\ AsLineage(e.level) = Unknown
                     /\ Answers(g, e.to)
                     /\ \E k \in 0 .. in.limit - 1 : ByWalk(a, e.to, Unknown, k)}

Exactly(a) ==
    IF a \in g.nodes
    THEN [anchor   |-> a,
          affected |-> {x \in [object : g.nodes \ {a}, hops : 0 .. in.limit,
                               conf : Lineage] : IsBest(a, x.object, x.conf, x.hops)},
          unknown  |-> ClaimNothing(a)]
    ELSE [anchor |-> a, affected |-> {}, unknown |-> {}]

(* When impact() ends, whatever a walk within the limit leads to has been  *)
(* reached, with the most confidence any such walk has, and over the       *)
(* fewest edges among those: entries that are overtaken by a better one,   *)
(* in whatever order the edges come, take nothing away.  And the edges it  *)
(* lists as claiming nothing are those that go on from such a walk.        *)
ImpactExact ==
    stage = "walk" /\ Walked =>
        /\ unknown = ClaimNothing(anchor)
        /\ \A k \in 0 .. in.limit : \A s \in [1 .. k -> g.edges], c \in Lineage :
              IsWalk(g, anchor, s, k) /\ HasConfidence(s, k, c)
                  => Covers(EndOf(anchor, s, k), c, k)

(* A result is a matter of the graph, the limit and the anchor alone, and  *)
(* not of the order the edges come in.                                     *)
ResultsExact == \A i \in 1 .. Len(results) : results[i] = Exactly(in.anchors[i])

(* However edges and objects form cycles, a call comes to its end.         *)
EveryCallEnds == <>(stage = "done")

(* What is left of a call, the weightiest first: its part; the anchors,    *)
(* objects, results or nodes of that part; whether one of them is open     *)
(* still; and of that one, what its loops have left.  A walk that goes     *)
(* back to an object has raised it, and no object is raised for ever.      *)
Phase == [anchor |-> 5, walk |-> 5, predict |-> 4, result |-> 3, merge |-> 3,
          plan |-> 2, gate |-> 1, order |-> 2, peel |-> 1, done |-> 0]

Unraised ==
    {x \in {e.from : e \in g.edges} \X Lineage : x[2] > best[x[1]].conf}

Left ==
    CASE stage \in {"anchor", "walk"}  -> Len(in.anchors) + 1 - at
      [] stage = "predict"             -> Len(in.changes) + 1 - at
      [] stage \in {"result", "merge"} -> Len(results) + 1 - at
      [] stage = "peel"                -> Cardinality(Remaining)
      [] stage \in {"plan", "gate", "order", "done"} -> 0

Outer ==
    CASE stage = "walk"  -> Cardinality(Unraised)
      [] stage = "merge" -> Cardinality(nodes)
      [] stage \notin {"walk", "merge"} -> 0

Inner ==
    CASE stage = "walk"  -> Len(queue)
      [] stage = "merge" -> Cardinality(edges)
      [] stage \notin {"walk", "merge"} -> 0

Innermost == IF stage = "walk" THEN Cardinality(pending) ELSE 0

Rank == <<Phase[stage], Left, IF stage \in {"anchor", "merge"} THEN 1 ELSE 0,
          Outer, Inner, Innermost>>

Less ==
    \E i \in 1 .. 6 : Rank'[i] < Rank[i] /\ \A j \in 1 .. i - 1 : Rank'[j] = Rank[j]

(* Every step leaves less: the rank falls in the lexicographic order.      *)
ComesCloser == [][Less]_vars

Predicted == in.call = "predict" /\ stage \in {"plan", "gate", "done"}

Noted(why, n) == \E i \in DOMAIN unc : unc[i] = [reason |-> why, about |-> n]

(* Of what the impact results name, nothing is lost on the way to the      *)
(* plan: an affected object has a row or, if nothing is known about it, an *)
(* uncertainty; so has every edge that claims nothing; and what a row adds *)
(* has a statement.                                                        *)
NoSilentLoss ==
    /\ Predicted =>
         \A i \in DOMAIN results :
            /\ \A x \in results[i].affected :
                  IF in.meta[x.object] = None
                  THEN Noted("MissingCatalogObject", x.object)
                  ELSE in.meta[x.object] \in AllKeys
            /\ \A e \in results[i].unknown : Noted(in.why, e.from)
    /\ Predicted /\ stage # "plan" =>
         \A k \in DOMAIN lineage : \E t \in statements : t.name = k.name

(* The affected objects, of all results, that are known by the key k.      *)
Hits(k) ==
    {x \in UNION {results[i].affected : i \in DOMAIN results} : in.meta[x.object] = k}

(* Several results, or several members of one object, share a row: it      *)
(* shows the shortest distance among them all, and the most confidence at  *)
(* that distance, in whatever order they are merged.                       *)
StrongestRow ==
    Predicted =>
        \A k \in DOMAIN lineage :
            /\ \E x \in Hits(k) : /\ x.hops = lineage[k].distance
                                   /\ LevelOf(x.conf) = lineage[k].conf
            /\ \A x \in Hits(k) :
                  \/ x.hops > lineage[k].distance
                  \/ /\ x.hops = lineage[k].distance
                     /\ LevelOf(x.conf) <= lineage[k].conf

(* A changeset with objects is called Clean exactly when the prediction    *)
(* has no uncertainty, those the lineage adds after predict() included.    *)
CleanMeansNoGaps ==
    Predicted /\ in.changes # <<>> => (posture = "Clean" <=> unc = <<>>)

(* What a walk within the limit leads to from an anchor.                   *)
Reachable ==
    {n \in g.nodes : \E i \in DOMAIN in.anchors :
        LET a == in.anchors[i]
        IN /\ a \in g.nodes \ {n}
           /\ \E k \in 1 .. in.limit : \E s \in [1 .. k -> g.edges] :
                 IsWalk(g, a, s, k) /\ EndOf(a, s, k) = n}

(* What the gate allows it allows for all the change can reach: nothing    *)
(* reachable is of a blocked kind, all of it is within the cap, and under  *)
(* a policy that blocks missing objects all of it is known.                *)
AllowedIsExplained ==
    LET p == decision.policy
        known == {n \in Reachable : in.meta[n] # None}
    IN stage = "done" /\ in.call = "predict" /\ decision.failures = {} =>
         /\ \A n \in known : in.meta[n].type \notin p.kinds
         /\ p.cap # None => Cardinality({in.meta[n] : n \in known}) <= p.cap
         /\ "MissingCatalogObject" \in p.reasons => known = Reachable

(* Nothing is recompiled before something in the set it depends on, and    *)
(* nothing twice.                                                          *)
TopologicalOrder ==
    \A i \in 1 .. Len(ordered) :
        /\ Needs(g, inSet, ordered[i]) \subseteq {ordered[j] : j \in 1 .. i - 1}
        /\ \A j \in 1 .. i - 1 : ordered[j] # ordered[i]

(* What is left out of the order in the end, and only that, can have no    *)
(* place in any: it depends on itself through others, or on what does.     *)
LeftoverIsStuck ==
    /\ \A T \in SUBSET inSet : Stuck(g, T) => T \cap Peeled = {}
    /\ stage = "done" => Stuck(g, Remaining)
=============================================================================

------------------------------- MODULE DepGraph -------------------------------
(***************************************************************************)
(* The dependency graph of crates/plsql-depgraph/src/lib.rs and the walks  *)
(* crates/plsql-lineage/src/lib.rs takes over it.                          *)
(*                                                                         *)
(* An edge goes from the dependent object to what it depends on.  Nodes    *)
(* and edges are inserted separately and nothing checks that an edge has   *)
(* both its nodes, so a graph read back from an artifact may lack some.    *)
(* A node stands for its logical id; two edges between the same objects    *)
(* that claim the same are one.                                            *)
(***************************************************************************)
EXTENDS Integers

CONSTANTS
    Object,  \* the logical ids a graph may mention
    None     \* no object, metadata or cap

(* ConfidenceLevel, by rank.                                               *)
Opaque == 0
Low    == 1
Medium == 2
High   == 3
Level  == Opaque .. High

Edge == [from : Object, to : Object, level : Level]

Graph == [nodes : SUBSET Object, edges : SUBSET Edge]

(* The Confidence of plsql-lineage, by rank.                               *)
Unknown   == 0
Heuristic == 1
Exact     == 2
Lineage   == Unknown .. Exact

AsLineage(level) == IF level > Low THEN level - 1 ELSE Unknown

WeakerBug(a, b) == IF a >= b THEN a ELSE b

Weaker(a, b) == IF a <= b THEN a ELSE b

Incoming(g, n) == {e \in g.edges : e.to = n}

(* query_reverse_neighbors(n) is an answer: n and the other ends are there.*)
Answers(g, n) == n \in g.nodes /\ \A e \in Incoming(g, n) : e.from \in g.nodes

-----------------------------------------------------------------------------
(* What impact() is about.  A walk is k edges, each leading one step from  *)
(* what changed to what depends on it, over nodes whose dependents can be  *)
(* asked for.                                                              *)
IsWalk(g, a, s, k) ==
    /\ k > 0 => s[1].to = a
    /\ \A i \in 1 .. k : Answers(g, s[i].to)
    /\ \A i \in 1 .. k - 1 : s[i + 1].to = s[i].from

EndOf(a, s, k) == IF k = 0 THEN a ELSE s[k].from

(* No edge of the walk is known less surely than c.                        *)
HasConfidence(s, k, c) == \A i \in 1 .. k : AsLineage(s[i].level) >= c
=============================================================================

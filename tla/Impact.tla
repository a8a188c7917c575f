-------------------------------- MODULE Impact --------------------------------
(***************************************************************************)
(* impact() of crates/plsql-lineage/src/lib.rs: the objects a change to    *)
(* one object may affect, found by a breadth-first walk against the edges  *)
(* that goes back to an object whenever it is reached with more            *)
(* confidence.  One action per pass of the outer and of the inner loop.    *)
(*                                                                         *)
(* The edges of a node come in the order of their ids, which is the order  *)
(* the analysis happened to meet them in: any order, here.                 *)
(***************************************************************************)
EXTENDS DepGraph, Sequences

VARIABLES
    anchor,   \* the object that changes
    best,     \* best_confidence: what each object was last reached with
    queue,    \* what is to be visited
    cur,      \* the entry popped last
    pending,  \* the edges into it the inner loop has not seen
    unknown   \* unknown_edges: edges crossed that claim nothing

walkVars == <<anchor, best, queue, cur, pending, unknown>>

(* An object that is not in best_confidence.                               *)
Unseen == -1

Mark == [conf : {Unseen} \cup Lineage, hops : Nat]

Visit == [node : Object, depth : Nat, conf : Lineage]

First(a) == [node |-> a, depth |-> 0, conf |-> Exact]

WalkParked ==
    /\ anchor = None
    /\ best = [n \in Object |-> [conf |-> Unseen, hops |-> 0]]
    /\ queue = <<>>
    /\ cur = None
    /\ pending = {}
    /\ unknown = {}

Begin(a) ==
    /\ anchor' = a
    /\ best' = [n \in Object |-> [conf |-> IF n = a THEN Exact ELSE Unseen, hops |-> 0]]
    /\ queue' = <<First(a)>>
    /\ cur' = First(a)
    /\ pending' = {}
    /\ unknown' = {}

(* while let Some(..) = queue.pop_front(): beyond the limit, and when the  *)
(* graph has no answer, there is nothing to do.                            *)
PoppedBug == queue  \* front() for pop_front()

Popped == Tail(queue)

ExpandsBug(g, limit, v) == v.depth + 1 < limit /\ Answers(g, v.node)

Expands(g, limit, v) == v.depth < limit /\ Answers(g, v.node)

Pop(g, limit) ==
    /\ pending = {}
    /\ queue # <<>>
    /\ cur' = Head(queue)
    /\ queue' = Popped
    /\ pending' = IF Expands(g, limit, cur') THEN Incoming(g, cur'.node) ELSE {}
    /\ UNCHANGED <<anchor, best, unknown>>

ImprovesBug(n, c) == best[n].conf = Unseen  \* an ordinary visited set

Improves(n, c) == c > best[n].conf

(* for edge in &incoming                                                   *)
Relax ==
    \E e \in pending :
        LET lineage == AsLineage(e.level)
            next    == Weaker(cur.conf, lineage)
        IN /\ pending' = pending \ {e}
           /\ IF Improves(e.from, next)
              THEN /\ best' = [best EXCEPT ![e.from] =
                                 [conf |-> next, hops |-> cur.depth + 1]]
                   /\ queue' = Append(queue, [node |-> e.from, depth |-> cur.depth + 1,
                                              conf |-> next])
              ELSE UNCHANGED <<best, queue>>
           /\ unknown' = IF lineage = Unknown THEN unknown \cup {e} ELSE unknown
           /\ UNCHANGED <<anchor, cur>>

Walked == pending = {} /\ queue = <<>>

(* affected_nodes: what was reached, the anchor apart.                     *)
Affected(g) ==
    {[object |-> n, hops |-> best[n].hops, conf |-> best[n].conf] :
        n \in {m \in g.nodes : m # anchor /\ best[m].conf # Unseen}}

-----------------------------------------------------------------------------
WalkTypeOK(g) ==
    /\ anchor \in Object \cup {None}
    /\ best \in [Object -> Mark]
    /\ queue \in Seq(Visit)
    /\ cur \in Visit \cup {None}
    /\ pending \subseteq g.edges
    /\ unknown \subseteq g.edges

(* n is known with more than c, or with c and within k hops.               *)
Covers(n, c, k) ==
    \/ best[n].conf > c
    \/ best[n].conf = c /\ best[n].hops <= k
=============================================================================

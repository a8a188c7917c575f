---------------------------- MODULE RecompileOrder ----------------------------
(***************************************************************************)
(* recompile_order() of crates/plsql-lineage/src/lib.rs: Kahn's algorithm  *)
(* over the part of the graph that lies inside the set it is given.  One   *)
(* action per pass of its loop.                                            *)
(*                                                                         *)
(* The code takes the nodes that are ready first in, first out, starting   *)
(* from the order of the node ids.  Node ids are the order the analysis    *)
(* happened to meet the objects in: any ready node may be next, here.      *)
(***************************************************************************)
EXTENDS DepGraph, Sequences

VARIABLES
    inSet,    \* in_set: what is to be ordered
    missing,  \* what the graph does not know
    preds,    \* predecessors_of: what must still come before each
    ready,    \* queue: nothing must come before these any more
    ordered   \* the order so far

orderVars == <<inSet, missing, preds, ready, ordered>>

(* What n depends on inside S.                                             *)
Needs(g, S, n) == {m \in S : m # n /\ \E e \in g.edges : e.from = n /\ e.to = m}

Peeled == {ordered[i] : i \in 1 .. Len(ordered)}

Remaining == inSet \ Peeled

OrderParked ==
    /\ inSet = {}
    /\ missing = {}
    /\ preds = [n \in Object |-> {}]
    /\ ready = {}
    /\ ordered = <<>>

StartOrder(g, S) ==
    /\ inSet' = S \cap g.nodes
    /\ missing' = S \ g.nodes
    /\ preds' = [n \in Object |-> IF n \in inSet' THEN Needs(g, inSet', n) ELSE {}]
    /\ ready' = {n \in inSet' : preds'[n] = {}}
    /\ ordered' = <<>>

ReleaseBug(n) ==
    /\ ordered' = Append(ordered, n)
    /\ preds' = [m \in Object |-> preds[m] \ {n}]
    /\ ready' = (ready \ {n}) \cup {m \in inSet : n \in preds[m]}  \* no is_empty()

ReleaseEarlyBug(n) ==
    /\ ordered' = Append(ordered, n)
    /\ preds' = [m \in Object |-> preds[m] \ {n}]
    /\ ready' = (ready \ {n}) \cup {m \in inSet : n \in preds[m] /\ preds[m] = {}}

Release(n) ==
    /\ ordered' = Append(ordered, n)
    /\ preds' = [m \in Object |-> preds[m] \ {n}]
    /\ ready' = (ready \ {n}) \cup {m \in inSet : preds[m] = {n}}

(* while let Some(node) = queue.pop_front()                                *)
Peel ==
    /\ \E n \in ready : Release(n)
    /\ UNCHANGED <<inSet, missing>>

-----------------------------------------------------------------------------
OrderTypeOK ==
    /\ inSet \subseteq Object
    /\ missing \subseteq Object
    /\ preds \in [Object -> SUBSET Object]
    /\ ready \subseteq inSet
    /\ ordered \in Seq(inSet)

(* Every object of T depends on another object of T: none can be first.    *)
Stuck(g, T) == \A n \in T : Needs(g, T, n) # {}
=============================================================================

---------------------------- MODULE MCChangeImpact -----------------------------
(* Every small graph for impact() and for recompile_order(); a few graphs  *)
(* with every kind of change, all sorts of metadata and policies for the   *)
(* way from the changeset to the gate.                                     *)
EXTENDS ChangeImpact

CONSTANTS n1, n2, n3, n4

E(a, b, l) == [from |-> a, to |-> b, level |-> l]

G(ns, es) == [nodes |-> ns, edges |-> es]

Call == [call |-> "impact", graph |-> G(Object, {}), limit |-> 4, anchors |-> <<n1>>,
         set |-> {}, changes |-> <<>>, mode |-> "CatalogAware",
         meta |-> [n \in Object |-> [name |-> n, type |-> "PACKAGE"]],
         why |-> "DynamicSqlOpaque"]

EdgesAt(levels) ==
    {e \in [from : Object, to : Object, level : levels] : e.from # e.to}

(* Besides one from n2 to the anchor n1, up to two or three more.          *)
Two(levels) ==
    {{E(n2, n1, l), d, e} : l \in levels, d, e \in EdgesAt(levels)}

Three(levels) == {es \cup {d} : es \in Two(levels), d \in EdgesAt(levels)}

Walks ==
    {G(Object, es) : es \in Three({Medium, High})}
    \cup {G(ns, es) : es \in Two({Opaque, Medium, High}), ns \in {Object, Object \ {n3}}}

MCImpacts ==
    {[Call EXCEPT !.graph = g0, !.limit = m] : g0 \in Walks, m \in {2, 4}}

Pairs == [from : Object, to : Object, level : {High}]

MCOrders ==
    {[Call EXCEPT !.call = "order", !.graph = G(ns, es), !.set = S] :
        es \in {x \in SUBSET Pairs : Cardinality(x) \in 3 .. 4},
        ns \in {Object, Object \ {n1}}, S \in {Object, Object \ {n3}}}

-----------------------------------------------------------------------------
Graphs ==
    {G(Object, {E(n2, n1, High), E(n3, n1, Medium), E(n4, n2, High), E(n1, n4, High)}),
     G(Object, {E(n3, n1, Opaque), E(n3, n2, High), E(n4, n3, High)}),
     G(Object \ {n3}, {E(n2, n1, High), E(n3, n2, High), E(n4, n1, Low)}),
     G(Object, {E(n2, n1, Opaque), E(n3, n1, Medium), E(n4, n2, High), E(n4, n3, High)})}

Metas ==
    {Call.meta,
     [Call.meta EXCEPT ![n3] = None],
     [Call.meta EXCEPT ![n4] = Call.meta[n3]],
     [Call.meta EXCEPT ![n2] = Call.meta[n1]],
     [Call.meta EXCEPT ![n2] = [name |-> n1, type |-> "PACKAGE BODY"]]}

C(n, kind, ds) == [name |-> n, kind |-> kind, doubts |-> ds]

ChangeSets ==
    {<<C(n1, k, ds)>> : k \in Kind, ds \in {<<>>, <<"WrappedSource">>}}
    \cup {<<C(n1, k, <<>>), C(n2, l, <<>>)>> :
            k, l \in {"PackageSpec", "PackageBody", "StandaloneRoutineBody", "IndexChange"}}
    \cup {<<C(n1, "PackageSpec", <<>>), C(n2, "PackageSpec", <<>>), C(n4, k, <<>>)>> :
            k \in {"PackageSpec", "PackageBody"}}

MCPredictions ==
    {[Call EXCEPT !.call = "predict", !.graph = g0, !.limit = 4,
                  !.anchors = [i \in DOMAIN cs |-> cs[i].name],
                  !.changes = cs, !.mode = md, !.meta = mt] :
        g0 \in Graphs, cs \in ChangeSets, md \in {"SourceOnly", "LiveSnapshot"},
        mt \in Metas}
    \cup {[Call EXCEPT !.call = "predict", !.graph = g0, !.limit = m, !.anchors = as,
                       !.meta = mt, !.why = "WrappedSource"] :
        g0 \in Graphs, as \in {<<>>, <<n1>>, <<n3, n1>>}, m \in {0, 1, 4}, mt \in Metas}

NoRules == [cap |-> None, kinds |-> {}, floor |-> Opaque, reasons |-> {}]

MCPolicies ==
    {NoRules,
     [NoRules EXCEPT !.cap = 1],
     [NoRules EXCEPT !.kinds = {"PACKAGE BODY"}],
     [NoRules EXCEPT !.floor = Medium],
     [NoRules EXCEPT !.reasons = {"MissingCatalogObject"}],
     [cap |-> 2, kinds |-> {"TABLE"}, floor |-> Low, reasons |-> {"WrappedSource"}]}
=============================================================================

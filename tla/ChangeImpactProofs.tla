-------------------------- MODULE ChangeImpactProofs ---------------------------
(***************************************************************************)
(* Theorems about ChangeImpact for any graph, changeset, metadata and      *)
(* policies: types, the recompile order, and the merge of the impact       *)
(* results into a prediction.                                              *)
(***************************************************************************)
EXTENDS ChangeImpact, TLAPS, SequenceTheorems, FiniteSetTheorems

-----------------------------------------------------------------------------
LEMMA CaseFields ==
    ASSUME in \in Case
    PROVE  /\ g.edges \subseteq Edge
           /\ g.nodes \subseteq Object
           /\ in.limit \in Nat
           /\ in.anchors \in Seq(Object)
           /\ in.set \subseteq Object
           /\ in.changes \in Seq(Change)
           /\ in.mode \in Mode
           /\ in.meta \in [Object -> Key \cup {None}]
           /\ in.why \in Reason
  BY DEF Case, Graph, g

LEMMA ChangesTyped ==
    ASSUME in \in Case
    PROVE  /\ DOMAIN in.changes = 1 .. Len(in.changes)
           /\ Len(in.changes) \in Nat
           /\ \A i \in DOMAIN in.changes : in.changes[i] \in Change
  <1>1. in.changes \in Seq(Change)
    BY CaseFields
  <1> QED
    BY <1>1, LenProperties, ElementOfSeq

LEMMA AnchorsTyped ==
    ASSUME in \in Case, NEW i \in Nat \ {0}, i <= Len(in.anchors)
    PROVE  in.anchors[i] \in Object
  <1>1. in.anchors \in Seq(Object)
    BY CaseFields
  <1> QED
    BY <1>1, LenProperties, ElementOfSeq

LEMMA LineageTyped ==
    /\ \A l \in Level : AsLineage(l) \in Lineage
    /\ \A a, b \in Lineage : Weaker(a, b) \in Lineage
    /\ \A c \in Lineage : LevelOf(c) \in Level
  BY DEF Level, AsLineage, Lineage, Weaker, LevelOf, Unknown, Heuristic, Exact,
         Opaque, Low, Medium, High

LEMMA FirstTyped == ASSUME NEW a \in Object PROVE First(a) \in Visit
  BY DEF First, Visit, Lineage, Unknown, Exact

LEMMA ParkedTyped == WalkParked /\ in \in Case => WalkTypeOK(g)
  <1> SUFFICES ASSUME WalkParked, in \in Case PROVE WalkTypeOK(g)
    OBVIOUS
  <1>1. best \in [Object -> Mark]
    BY DEF WalkParked, Mark, Lineage, Unseen
  <1>2. queue \in Seq(Visit)
    BY EmptySeq DEF WalkParked
  <1> QED
    BY <1>1, <1>2 DEF WalkParked, WalkTypeOK

LEMMA BeginTyped ==
    ASSUME in \in Case, NEW a \in Object, Begin(a), UNCHANGED in
    PROVE  WalkTypeOK(g)'
  <1>1. best' \in [Object -> Mark]
    BY DEF Begin, Mark, Lineage, Unseen, Unknown, Exact
  <1>2. queue' \in Seq(Visit)
    BY FirstTyped DEF Begin
  <1>3. cur' \in Visit /\ anchor' \in Object
    BY FirstTyped DEF Begin
  <1> QED
    BY <1>1, <1>2, <1>3 DEF Begin, WalkTypeOK, g

LEMMA PopTyped ==
    ASSUME in \in Case, WalkTypeOK(g), Pop(g, in.limit), UNCHANGED in
    PROVE  WalkTypeOK(g)'
  <1>1. cur' \in Visit /\ queue' \in Seq(Visit)
    BY HeadTailProperties DEF WalkTypeOK, Pop, Popped
  <1>2. pending' \subseteq g.edges
    BY DEF Pop, Incoming
  <1> QED
    BY <1>1, <1>2 DEF Pop, WalkTypeOK, g

(* What Relax does with one edge.                                          *)
LEMMA RelaxTyped ==
    ASSUME in \in Case, WalkTypeOK(g), cur \in Visit, Relax, UNCHANGED in
    PROVE  WalkTypeOK(g)'
  <1> PICK e \in pending :
        LET lin  == AsLineage(e.level)
            next == Weaker(cur.conf, lin)
        IN /\ pending' = pending \ {e}
           /\ IF Improves(e.from, next)
              THEN /\ best' = [best EXCEPT ![e.from] =
                                 [conf |-> next, hops |-> cur.depth + 1]]
                   /\ queue' = Append(queue, [node |-> e.from, depth |-> cur.depth + 1,
                                              conf |-> next])
              ELSE UNCHANGED <<best, queue>>
           /\ unknown' = IF lin = Unknown THEN unknown \cup {e} ELSE unknown
           /\ UNCHANGED <<anchor, cur>>
    BY DEF Relax
  <1> DEFINE next == Weaker(cur.conf, AsLineage(e.level))
  <1>1. e \in Edge /\ e \in g.edges
    BY CaseFields DEF WalkTypeOK
  <1>2. e.from \in Object /\ next \in Lineage /\ cur.depth + 1 \in Nat
    BY <1>1, LineageTyped DEF Edge, Visit
  <1> DEFINE mark  == [conf |-> next, hops |-> cur.depth + 1]
             visit == [node |-> e.from, depth |-> cur.depth + 1, conf |-> next]
  <1>3. mark \in Mark /\ visit \in Visit
    BY <1>2 DEF Mark, Visit
  <1> HIDE DEF next, mark, visit
  <1>4. best' \in [Object -> Mark]
    BY <1>2, <1>3 DEF WalkTypeOK, next, mark
  <1>5. queue' \in Seq(Visit)
    BY <1>3, AppendProperties DEF WalkTypeOK, next, visit
  <1> QED
    BY <1>1, <1>4, <1>5 DEF WalkTypeOK, g

LEMMA AffectedTyped ==
    ASSUME in \in Case, WalkTypeOK(g)
    PROVE  /\ Affected(g) \subseteq [object : Object, hops : Nat, conf : Lineage]
           /\ \A x \in Affected(g) : x.object \in g.nodes /\ x.object # anchor
  <1> SUFFICES ASSUME NEW n \in g.nodes, n # anchor, best[n].conf # Unseen
               PROVE  [object |-> n, hops |-> best[n].hops, conf |-> best[n].conf]
                        \in [object : Object, hops : Nat, conf : Lineage]
    BY DEF Affected
  <1>1. n \in Object
    BY CaseFields
  <1>2. best[n] \in Mark
    BY <1>1 DEF WalkTypeOK
  <1> QED
    BY <1>1, <1>2 DEF Mark

-----------------------------------------------------------------------------
LEMMA OrderParkedTyped == OrderParked => OrderTypeOK
  <1> SUFFICES ASSUME OrderParked PROVE OrderTypeOK
    OBVIOUS
  <1>1. ordered \in Seq(inSet)
    BY EmptySeq DEF OrderParked
  <1> QED
    BY <1>1 DEF OrderParked, OrderTypeOK

LEMMA StartTyped ==
    ASSUME in \in Case, StartOrder(g, in.set)
    PROVE  OrderTypeOK'
  <1>1. inSet' \subseteq Object /\ missing' \subseteq Object
    BY CaseFields DEF StartOrder
  <1>2. preds' \in [Object -> SUBSET Object]
    BY <1>1 DEF StartOrder, Needs
  <1>3. ordered' \in Seq(inSet')
    BY EmptySeq DEF StartOrder
  <1> QED
    BY <1>1, <1>2, <1>3 DEF StartOrder, OrderTypeOK

LEMMA PeelTyped ==
    ASSUME OrderTypeOK, Peel
    PROVE  OrderTypeOK'
  <1> PICK n \in ready : Release(n)
    BY DEF Peel
  <1>1. ordered' \in Seq(inSet)
    BY AppendProperties DEF Release, OrderTypeOK
  <1> QED
    BY <1>1 DEF Release, Peel, OrderTypeOK

-----------------------------------------------------------------------------
LEMMA RulesTyped ==
    /\ \A k \in DOMAIN RuleDoubt : RuleDoubt[k] \in Reason
    /\ \A k \in DOMAIN RowType : RowType[k] \in Type
  <1>1. DOMAIN RuleDoubt = {"PackageBody", "IndexChange", "SequenceChange", "Unclassified"}
    BY DEF RuleDoubt
  <1>2. /\ RuleDoubt["PackageBody"] \in Reason /\ RuleDoubt["IndexChange"] \in Reason
        /\ RuleDoubt["SequenceChange"] \in Reason /\ RuleDoubt["Unclassified"] \in Reason
    BY DEF RuleDoubt, Reason
  <1>3. \A k \in DOMAIN RuleDoubt : RuleDoubt[k] \in Reason
    BY <1>1, <1>2
  <1>4. \A k \in DOMAIN RowType : RowType[k] \in Type
    BY DEF Type
  <1> QED
    BY <1>3, <1>4

LEMMA SingletonTyped == ASSUME NEW S, NEW x \in S PROVE <<x>> \in Seq(S)
  OBVIOUS

LEMMA KeysTyped ==
    ASSUME NEW s \in Seq(Row)
    PROVE  /\ KeysOf(s) \subseteq Key
           /\ KeysOf(s) = {s[i].key : i \in 1 .. Len(s)}
  <1>1. DOMAIN s = 1 .. Len(s) /\ Len(s) \in Nat
    BY LenProperties
  <1>2. \A i \in 1 .. Len(s) : s[i] \in Row
    BY ElementOfSeq
  <1>3. \A i \in 1 .. Len(s) : s[i].key \in Key
    BY <1>2 DEF Row
  <1> QED
    BY <1>1, <1>3 DEF KeysOf

LEMMA PredictParkedTyped == PredictParked => PredictTypeOK
  <1> SUFFICES ASSUME PredictParked PROVE PredictTypeOK
    OBVIOUS
  <1>1. direct \in Seq(Row) /\ unc \in Seq(Doubt)
    BY EmptySeq DEF PredictParked
  <1>2. DOMAIN lineage = {}
    BY DEF PredictParked
  <1> QED
    BY <1>1, <1>2 DEF PredictParked, PredictTypeOK, Posture

LEMMA DoubtsTyped ==
    ASSUME NEW c \in Change, NEW mode \in Mode
    PROVE  /\ RuleDoubts(c) \in Seq(Doubt)
           /\ ModeDoubts(c, mode) \in Seq(Doubt)
           /\ OwnDoubts(c) \in Seq(Doubt)
           /\ Len(OwnDoubts(c)) = Len(c.doubts)
  <1>1. c.name \in Object /\ c.doubts \in Seq(Reason)
    BY DEF Change
  <1>2. RuleDoubts(c) \in Seq(Doubt)
    <2>1. CASE c.kind \in DOMAIN RuleDoubt
      <3>1. RuleDoubt[c.kind] \in Reason
        BY <2>1, RulesTyped
      <3>2. [reason |-> RuleDoubt[c.kind], about |-> c.name] \in Doubt
        BY <1>1, <3>1 DEF Doubt
      <3> QED
        BY <2>1, <3>2, SingletonTyped DEF RuleDoubts
    <2>2. CASE c.kind \notin DOMAIN RuleDoubt
      BY <2>2, EmptySeq DEF RuleDoubts
    <2> QED
      BY <2>1, <2>2
  <1>3. ModeDoubts(c, mode) \in Seq(Doubt)
    <2>1. [reason |-> "MissingCatalogObject", about |-> c.name] \in Doubt
      BY <1>1 DEF Doubt, Reason
    <2> QED
      BY <2>1, SingletonTyped, EmptySeq DEF ModeDoubts
  <1>4. OwnDoubts(c) \in Seq(Doubt) /\ Len(OwnDoubts(c)) = Len(c.doubts)
    <2>1. DOMAIN c.doubts = 1 .. Len(c.doubts) /\ Len(c.doubts) \in Nat
      BY <1>1, LenProperties
    <2>2. \A i \in 1 .. Len(c.doubts) :
             [reason |-> c.doubts[i], about |-> c.name] \in Doubt
      BY <1>1, ElementOfSeq DEF Doubt
    <2> QED
      BY <2>1, <2>2 DEF OwnDoubts
  <1> QED
    BY <1>2, <1>3, <1>4

LEMMA ObjectTyped ==
    ASSUME NEW c \in Change, NEW mode \in Mode, PredictTypeOK, PredictObject(c, mode)
    PROVE  PredictTypeOK'
  <1>1. c.name \in Object /\ c.kind \in Kind /\ c.doubts \in Seq(Reason)
    BY DEF Change
  <1>2. RuleRows(c, mode) \in Seq(Row)
    <2>1. CASE c.kind \in DOMAIN RowType
      <3> DEFINE row == [key |-> [name |-> c.name, type |-> RowType[c.kind]],
                         conf |-> RuleConf(c.kind, mode), distance |-> 1]
      <3>1. RowType[c.kind] \in Type
        BY <2>1, RulesTyped
      <3>2. RuleConf(c.kind, mode) \in Level
        BY DEF RuleConf, Level, Opaque, Low, High
      <3>3. row \in Row
        BY <1>1, <3>1, <3>2 DEF Row, Key
      <3> QED
        BY <2>1, <3>3, SingletonTyped DEF RuleRows
    <2>2. CASE c.kind \notin DOMAIN RowType
      BY <2>2, EmptySeq DEF RuleRows
    <2> QED
      BY <2>1, <2>2
  <1>3. direct' \in Seq(Row)
    BY <1>2, ConcatProperties DEF PredictObject, PredictTypeOK
  <1>4. unc' \in Seq(Doubt)
    <2>1. unc \o RuleDoubts(c) \in Seq(Doubt)
      BY DoubtsTyped, ConcatProperties DEF PredictTypeOK
    <2>2. unc \o RuleDoubts(c) \o ModeDoubts(c, mode) \in Seq(Doubt)
      BY DoubtsTyped, <2>1, ConcatProperties
    <2>3. unc \o RuleDoubts(c) \o ModeDoubts(c, mode) \o OwnDoubts(c) \in Seq(Doubt)
      BY DoubtsTyped, <2>2, ConcatProperties
    <2> QED
      BY <2>3 DEF PredictObject
  <1> QED
    BY <1>3, <1>4 DEF PredictObject, PredictTypeOK

LEMMA FinishTyped ==
    ASSUME NEW cs, PredictTypeOK, Finish(cs)
    PROVE  PredictTypeOK'
  <1>1. \A a, b, c : PostureOf(a, b, c) \in Posture
    BY DEF PostureOf, Posture
  <1> QED
    BY <1>1 DEF Finish, PredictTypeOK

LEMMA UnresolvedTyped ==
    ASSUME NEW x, x.object \in Object, PredictTypeOK, Unresolved(x)
    PROVE  PredictTypeOK'
  <1>1. [reason |-> "MissingCatalogObject", about |-> x.object] \in Doubt
    BY DEF Doubt, Reason
  <1>2. unc' \in Seq(Doubt)
    BY <1>1, AppendProperties DEF Unresolved, PredictTypeOK
  <1> QED
    BY <1>2 DEF Unresolved, PredictTypeOK

(* What Keep leaves: the new row if there was none or a weaker one.        *)
LEMMA KeepShape ==
    ASSUME NEW row, Keep(row)
    PROVE  /\ DOMAIN lineage' = DOMAIN lineage \cup {row.key}
           /\ \A k \in DOMAIN lineage : k # row.key => lineage'[k] = lineage[k]
           /\ row.key \notin DOMAIN lineage => lineage'[row.key] = row
           /\ row.key \in DOMAIN lineage =>
                 lineage'[row.key] = IF Stronger(row, lineage[row.key])
                                     THEN row ELSE lineage[row.key]
  BY DEF Keep

LEMMA ResolvedTyped ==
    ASSUME NEW x \in [object : Object, hops : Nat, conf : Lineage], NEW key \in Key,
           PredictTypeOK, Resolved(x, key)
    PROVE  PredictTypeOK'
  <1>1. CASE key \in KeysOf(direct)
    BY <1>1 DEF Resolved, PredictTypeOK
  <1>2. CASE key \notin KeysOf(direct)
    <2> DEFINE row == [key |-> key, conf |-> LevelOf(x.conf), distance |-> x.hops]
    <2>1. row \in Row /\ row.key = key
      BY LineageTyped DEF Row
    <2> HIDE DEF row
    <2>2. Keep(row) /\ recompile' = recompile \cup {key}
      BY <1>2 DEF Resolved, row
    <2>3. DOMAIN lineage' = DOMAIN lineage \cup {key}
      BY <2>1, <2>2, KeepShape
    <2>4. \A k \in DOMAIN lineage' : lineage'[k] \in Row /\ lineage'[k].key = k
      BY <2>1, <2>2, <2>3, KeepShape DEF PredictTypeOK
    <2> QED
      BY <2>2, <2>3, <2>4 DEF Resolved, PredictTypeOK
  <1> QED
    BY <1>1, <1>2

LEMMA MergeEdgeTyped ==
    ASSUME NEW e \in Edge, NEW why \in Reason, PredictTypeOK, MergeEdge(e, why)
    PROVE  PredictTypeOK'
  <1>1. [reason |-> why, about |-> e.from] \in Doubt
    BY DEF Doubt, Edge
  <1>2. unc' \in Seq(Doubt)
    BY <1>1, AppendProperties DEF MergeEdge, PredictTypeOK
  <1> QED
    BY <1>2 DEF MergeEdge, PredictTypeOK

-----------------------------------------------------------------------------
(* While a walk goes on there is an entry at hand and its anchor is known. *)
AtHand == stage = "walk" => cur \in Visit /\ anchor \in g.nodes

LEMMA ResultTyped ==
    ASSUME NEW a \in Object, NEW A, NEW U \in SUBSET Edge, results \in Seq(Result),
           A \subseteq [object : Object, hops : Nat, conf : Lineage],
           results' = Append(results, [anchor |-> a, affected |-> A, unknown |-> U])
    PROVE  /\ results' \in Seq(Result)
           /\ Len(results') = Len(results) + 1
           /\ DOMAIN results = 1 .. Len(results)
           /\ DOMAIN results' = 1 .. Len(results) + 1
           /\ \A i \in DOMAIN results : results'[i] = results[i]
           /\ results'[Len(results) + 1].affected = A
           /\ results'[Len(results) + 1].unknown = U
  <1> DEFINE r == [anchor |-> a, affected |-> A, unknown |-> U]
  <1>1. r \in Result /\ r.affected = A /\ r.unknown = U
    BY DEF Result
  <1> HIDE DEF r
  <1>2. results' = Append(results, r)
    BY DEF r
  <1>3. /\ results' \in Seq(Result)
        /\ Len(results') = Len(results) + 1
        /\ \A i \in 1 .. Len(results) : results'[i] = results[i]
        /\ results'[Len(results) + 1] = r
    BY <1>1, <1>2, AppendProperties
  <1>4. Len(results) \in Nat /\ DOMAIN results = 1 .. Len(results)
    BY LenProperties
  <1>5. DOMAIN results' = 1 .. Len(results')
    BY <1>3, LenProperties
  <1> QED
    BY <1>1, <1>3, <1>4, <1>5

LEMMA ResultGrows ==
    ASSUME NEW a \in Object, NEW A, NEW U \in SUBSET Edge, results \in Seq(Result),
           A \subseteq [object : Object, hops : Nat, conf : Lineage],
           results' = Append(results, [anchor |-> a, affected |-> A, unknown |-> U])
    PROVE  /\ results' \in Seq(Result)
           /\ UNION {results[i].affected : i \in DOMAIN results}
                \subseteq UNION {results'[i].affected : i \in DOMAIN results'}
           /\ UNION {results[i].unknown : i \in DOMAIN results}
                \subseteq UNION {results'[i].unknown : i \in DOMAIN results'}
  <1>1. DOMAIN results \subseteq DOMAIN results'
    BY ResultTyped, LenProperties
  <1> QED
    BY <1>1, ResultTyped

(* Every affected node and every unknown edge a result names.              *)
LEMMA ResultsTyped ==
    ASSUME results \in Seq(Result), NEW i \in DOMAIN results
    PROVE  /\ results[i].affected \subseteq [object : Object, hops : Nat, conf : Lineage]
           /\ results[i].unknown \subseteq Edge
  <1>1. results[i] \in Result
    BY LenProperties, ElementOfSeq
  <1> QED
    BY <1>1 DEF Result

LEMMA InitTyped == Init => TypeOK /\ AtHand
  <1> SUFFICES ASSUME Init PROVE TypeOK /\ AtHand
    OBVIOUS
  <1>1. in \in Case
    BY CasesAssumption DEF Init
  <1>2. results \in Seq(Result)
    BY EmptySeq DEF Init
  <1>3. WalkTypeOK(g) /\ OrderTypeOK /\ PredictTypeOK
    BY <1>1, ParkedTyped, OrderParkedTyped, PredictParkedTyped DEF Init
  <1>4. decision.policy \in Policies \cup {None}
    BY DEF Init, Undecided
  <1> QED
    BY <1>1, <1>2, <1>3, <1>4 DEF Init, TypeOK, Stage, AtHand

(* The parts that are no walk, order or prediction.                        *)
CallTypeOK ==
    /\ in \in Case
    /\ stage \in Stage
    /\ at \in Nat \ {0}
    /\ results \in Seq(Result)
    /\ nodes \subseteq UNION {results[i].affected : i \in DOMAIN results}
    /\ edges \subseteq UNION {results[i].unknown : i \in DOMAIN results}
    /\ statements \subseteq Statement
    /\ decision.policy \in Policies \cup {None}

LEMMA WalkKept ==
    ASSUME WalkTypeOK(g), UNCHANGED <<in, walkVars>> PROVE WalkTypeOK(g)'
  BY DEF walkVars, WalkTypeOK, g

LEMMA OrderKept == ASSUME OrderTypeOK, UNCHANGED orderVars PROVE OrderTypeOK'
  BY DEF orderVars, OrderTypeOK

LEMMA PredictKept == ASSUME PredictTypeOK, UNCHANGED predictVars PROVE PredictTypeOK'
  BY DEF predictVars, PredictTypeOK

LEMMA NodesTyped ==
    ASSUME CallTypeOK
    PROVE  /\ nodes \subseteq [object : Object, hops : Nat, conf : Lineage]
           /\ edges \subseteq Edge
  BY ResultsTyped DEF CallTypeOK

LEMMA StatementsTyped ==
    ASSUME in \in Case, PredictTypeOK PROVE StatementsFor(in.changes) \subseteq Statement
  <1>1. \A i \in DOMAIN in.changes : in.changes[i].name \in Object
    BY ChangesTyped DEF Change
  <1>2. \A k \in recompile : k.name \in Object
    BY DEF PredictTypeOK, Key
  <1> QED
    BY <1>1, <1>2 DEF StatementsFor, Statement

LEMMA NextTyped == TypeOK /\ AtHand /\ [Next]_vars => (TypeOK /\ AtHand)'
  <1> SUFFICES ASSUME TypeOK, AtHand, [Next]_vars
               PROVE  CallTypeOK' /\ WalkTypeOK(g)' /\ OrderTypeOK' /\ PredictTypeOK' /\ AtHand'
    BY DEF TypeOK, CallTypeOK
  <1>0. CallTypeOK /\ WalkTypeOK(g) /\ OrderTypeOK /\ PredictTypeOK
    BY DEF TypeOK, CallTypeOK
  <1>i. in \in Case /\ at \in Nat \ {0}
    BY <1>0 DEF CallTypeOK
  <1>1. CASE Anchor
    <2>1. in.anchors[at] \in Object
      BY <1>1, <1>i, AnchorsTyped DEF Anchor
    <2>2. OrderTypeOK' /\ PredictTypeOK'
      BY <1>0, <1>1, OrderKept, PredictKept DEF Anchor
    <2>3. CASE in.anchors[at] \in g.nodes
      <3>1. Begin(in.anchors[at]) /\ stage' = "walk" /\ UNCHANGED <<in, at, results>>
        BY <1>1, <2>3 DEF Anchor
      <3>2. WalkTypeOK(g)'
        BY <1>i, <2>1, <3>1, BeginTyped
      <3>3. AtHand'
        BY <2>1, <2>3, <3>1, FirstTyped DEF AtHand, Begin, g
      <3>4. CallTypeOK'
        BY <1>0, <1>1, <3>1 DEF Anchor, CallTypeOK, mergeVars, endVars, Stage
      <3> QED
        BY <2>2, <3>2, <3>3, <3>4
    <2>4. CASE in.anchors[at] \notin g.nodes
      <3>1. /\ results' = Append(results, [anchor |-> in.anchors[at],
                                           affected |-> {}, unknown |-> {}])
            /\ at' = at + 1
            /\ UNCHANGED <<in, stage, walkVars, mergeVars, endVars>>
        BY <1>1, <2>4 DEF Anchor
      <3>2. WalkTypeOK(g)'
        BY <1>0, <3>1, WalkKept
      <3>3. stage # "walk"
        BY <1>1 DEF Anchor
      <3>4. results \in Seq(Result)
        BY <1>0 DEF CallTypeOK
      <3>5. /\ results' \in Seq(Result)
            /\ UNION {results[i].affected : i \in DOMAIN results}
                 \subseteq UNION {results'[i].affected : i \in DOMAIN results'}
            /\ UNION {results[i].unknown : i \in DOMAIN results}
                 \subseteq UNION {results'[i].unknown : i \in DOMAIN results'}
        <4>1. {} \in SUBSET Edge /\ {} \subseteq [object : Object, hops : Nat, conf : Lineage]
          OBVIOUS
        <4> QED
          BY <2>1, <3>1, <3>4, <4>1, ResultGrows
      <3>6. CallTypeOK'
        BY <1>0, <3>1, <3>5 DEF CallTypeOK, mergeVars, endVars
      <3> QED
        BY <2>2, <3>1, <3>2, <3>3, <3>6 DEF AtHand
    <2> QED
      BY <2>3, <2>4
  <1>2. CASE Walk
    <2>1. OrderTypeOK' /\ PredictTypeOK' /\ CallTypeOK'
      BY <1>0, <1>2, OrderKept, PredictKept
         DEF Walk, impactVars, mergeVars, endVars, CallTypeOK
    <2>2. stage = "walk" /\ cur \in Visit /\ anchor \in g.nodes /\ UNCHANGED <<in, stage>>
      BY <1>2 DEF Walk, AtHand, impactVars
    <2>3. WalkTypeOK(g)'
      BY <1>0, <1>2, <1>i, <2>2, PopTyped, RelaxTyped DEF Walk
    <2>4. cur' \in Visit /\ UNCHANGED anchor
      <3>1. CASE Pop(g, in.limit)
        BY <1>0, <3>1, HeadTailProperties DEF Pop, WalkTypeOK
      <3>2. CASE Relax
        BY <2>2, <3>2 DEF Relax
      <3> QED
        BY <1>2, <3>1, <3>2 DEF Walk
    <2> QED
      BY <2>1, <2>2, <2>3, <2>4 DEF AtHand, g
  <1>3. CASE EndWalk
    <2>1. OrderTypeOK' /\ PredictTypeOK' /\ WalkTypeOK(g)' /\ UNCHANGED in
      BY <1>0, <1>3, OrderKept, PredictKept, WalkKept DEF EndWalk
    <2>2. anchor \in Object /\ unknown \subseteq Edge
      BY <1>0, <1>3, <1>i, CaseFields DEF EndWalk, AtHand, WalkTypeOK
    <2>3. Affected(g) \subseteq [object : Object, hops : Nat, conf : Lineage]
      BY <1>0, <1>i, AffectedTyped
    <2>4. results' = Append(results, [anchor |-> anchor, affected |-> Affected(g),
                                      unknown |-> unknown])
      BY <1>3 DEF EndWalk
    <2>5. /\ results' \in Seq(Result)
          /\ UNION {results[i].affected : i \in DOMAIN results}
               \subseteq UNION {results'[i].affected : i \in DOMAIN results'}
          /\ UNION {results[i].unknown : i \in DOMAIN results}
               \subseteq UNION {results'[i].unknown : i \in DOMAIN results'}
      BY <1>0, <2>2, <2>3, <2>4, ResultGrows DEF CallTypeOK
    <2>6. CallTypeOK'
      BY <1>0, <1>3, <2>5 DEF EndWalk, CallTypeOK, mergeVars, endVars, Stage
    <2> QED
      BY <1>3, <2>1, <2>6 DEF EndWalk, AtHand
  <1>4. CASE EndAnchors \/ Predict \/ EndPredict
    <2>1. OrderTypeOK' /\ WalkTypeOK(g)'
      BY <1>0, <1>4, OrderKept, WalkKept DEF EndAnchors, Predict, EndPredict
    <2>2. PredictTypeOK'
      <3>1. CASE EndAnchors
        BY <1>0, <3>1, PredictKept DEF EndAnchors
      <3>2. CASE Predict
        <4>1. in.changes[at] \in Change /\ in.mode \in Mode
          BY <1>i, <3>2, ChangesTyped, CaseFields DEF Predict
        <4> QED
          BY <1>0, <3>2, <4>1, ObjectTyped DEF Predict
      <3>3. CASE EndPredict
        BY <1>0, <3>3, FinishTyped DEF EndPredict
      <3> QED
        BY <1>4, <3>1, <3>2, <3>3
    <2>3. CallTypeOK'
      BY <1>0, <1>4 DEF EndAnchors, Predict, EndPredict, CallTypeOK, mergeVars,
                       endVars, Stage
    <2>4. stage' # "walk"
      BY <1>4 DEF EndAnchors, Predict, EndPredict
    <2> QED
      BY <2>1, <2>2, <2>3, <2>4 DEF AtHand
  <1>5. CASE NextResult \/ MergeNode \/ MergeUnknown \/ EndMerge
    <2>1. OrderTypeOK' /\ WalkTypeOK(g)'
      BY <1>0, <1>5, OrderKept, WalkKept
         DEF NextResult, MergeNode, MergeUnknown, EndMerge, impactVars
    <2>2. PredictTypeOK'
      <3>1. CASE NextResult \/ EndMerge
        BY <1>0, <3>1, PredictKept DEF NextResult, EndMerge
      <3>2. CASE MergeNode
        <4> PICK x \in nodes : IF in.meta[x.object] = None
                               THEN Unresolved(x)
                               ELSE Resolved(x, in.meta[x.object])
          BY <3>2 DEF MergeNode
        <4>1. x \in [object : Object, hops : Nat, conf : Lineage]
          BY <1>0, NodesTyped
        <4>2. in.meta[x.object] \in Key \cup {None} /\ x.object \in Object
          BY <1>i, <4>1, CaseFields
        <4> QED
          BY <1>0, <4>1, <4>2, UnresolvedTyped, ResolvedTyped
      <3>3. CASE MergeUnknown
        <4> PICK e \in edges : MergeEdge(e, in.why)
          BY <3>3 DEF MergeUnknown
        <4>1. e \in Edge /\ in.why \in Reason
          BY <1>0, <1>i, NodesTyped, CaseFields
        <4> QED
          BY <1>0, <4>1, MergeEdgeTyped
      <3> QED
        BY <1>5, <3>1, <3>2, <3>3
    <2>3. CallTypeOK'
      <3>1. CASE NextResult
        <4>1. at \in DOMAIN results
          BY <1>0, <1>i, <3>1, LenProperties DEF NextResult, CallTypeOK
        <4> QED
          BY <1>0, <3>1, <4>1 DEF NextResult, CallTypeOK, endVars, Stage
      <3>2. CASE MergeNode \/ MergeUnknown \/ EndMerge
        BY <1>0, <3>2 DEF MergeNode, MergeUnknown, EndMerge, CallTypeOK, impactVars,
                         mergeVars, endVars, Stage
      <3> QED
        BY <1>5, <3>1, <3>2
    <2>4. stage' # "walk"
      BY <1>5 DEF NextResult, MergeNode, MergeUnknown, EndMerge, impactVars
    <2> QED
      BY <2>1, <2>2, <2>3, <2>4 DEF AtHand
  <1>6. CASE EndResults \/ Plan \/ RunGate
    <2>1. OrderTypeOK' /\ WalkTypeOK(g)'
      BY <1>0, <1>6, OrderKept, WalkKept DEF EndResults, Plan, RunGate
    <2>2. PredictTypeOK'
      BY <1>0, <1>6, PredictKept, FinishTyped DEF EndResults, Plan, RunGate
    <2>3. CallTypeOK'
      <3>1. CASE EndResults
        BY <1>0, <3>1 DEF EndResults, CallTypeOK, mergeVars, endVars, Stage
      <3>2. CASE Plan
        BY <1>0, <1>i, <3>2, StatementsTyped DEF Plan, CallTypeOK, mergeVars, Stage
      <3>3. CASE RunGate
        BY <1>0, <3>3 DEF RunGate, CallTypeOK, mergeVars, Stage
      <3> QED
        BY <1>6, <3>1, <3>2, <3>3
    <2>4. stage' # "walk"
      BY <1>6 DEF EndResults, Plan, RunGate
    <2> QED
      BY <2>1, <2>2, <2>3, <2>4 DEF AtHand
  <1>7. CASE Order \/ PeelNext \/ EndOrder
    <2>1. PredictTypeOK' /\ WalkTypeOK(g)'
      BY <1>0, <1>7, PredictKept, WalkKept DEF Order, PeelNext, EndOrder
    <2>2. OrderTypeOK'
      BY <1>0, <1>7, <1>i, OrderKept, StartTyped, PeelTyped DEF Order, PeelNext, EndOrder
    <2>3. CallTypeOK'
      BY <1>0, <1>7 DEF Order, PeelNext, EndOrder, CallTypeOK, impactVars, mergeVars,
                       endVars, Stage
    <2>4. stage' # "walk"
      BY <1>7 DEF Order, PeelNext, EndOrder, impactVars
    <2> QED
      BY <2>1, <2>2, <2>3, <2>4 DEF AtHand
  <1>8. CASE UNCHANGED vars
    <2>1. CallTypeOK' /\ UNCHANGED <<in, stage, walkVars, orderVars, predictVars>>
      BY <1>0, <1>8 DEF vars, impactVars, mergeVars, endVars, CallTypeOK
    <2>2. AtHand'
      BY <2>1 DEF AtHand, walkVars, g
    <2> QED
      BY <1>0, <2>1, <2>2, WalkKept, OrderKept, PredictKept
  <1> QED
    BY <1>1, <1>2, <1>3, <1>4, <1>5, <1>6, <1>7, <1>8 DEF Next

(* All variables stay in their ranges, whatever the graphs, changesets,    *)
(* metadata and policies are.                                              *)
THEOREM TypeCorrect == Spec => []TypeOK
  BY InitTyped, NextTyped, PTL DEF Spec

-----------------------------------------------------------------------------
(* recompile_order(): preds is what has not been peeled of what a node     *)
(* needs, and the ready nodes are those that need nothing more.            *)
OrderInv ==
    /\ ready = {n \in Remaining : preds[n] = {}}
    /\ \A n \in inSet : preds[n] = Needs(g, inSet, n) \ Peeled
    /\ TopologicalOrder
    /\ \A T \in SUBSET inSet : Stuck(g, T) => T \cap Peeled = {}
    /\ stage # "peel" => ready = {}

LEMMA PeeledGrows ==
    ASSUME OrderTypeOK, NEW n \in ready, Release(n)
    PROVE  /\ ordered \in Seq(inSet)
           /\ Len(ordered) \in Nat
           /\ Len(ordered') = Len(ordered) + 1
           /\ \A i \in 1 .. Len(ordered) : ordered'[i] = ordered[i]
           /\ ordered'[Len(ordered) + 1] = n
           /\ Peeled' = Peeled \cup {n}
  <1>1. ordered \in Seq(inSet) /\ n \in inSet /\ Len(ordered) \in Nat
    BY LenProperties DEF OrderTypeOK
  <1>2. /\ Len(ordered') = Len(ordered) + 1
        /\ \A i \in 1 .. Len(ordered) : ordered'[i] = ordered[i]
        /\ ordered'[Len(ordered) + 1] = n
    BY <1>1, AppendProperties DEF Release
  <1>3. 1 .. Len(ordered') = 1 .. Len(ordered) \cup {Len(ordered) + 1}
    BY <1>1, <1>2
  <1> QED
    BY <1>1, <1>2, <1>3 DEF Peeled

LEMMA PeelKeepsOrder ==
    ASSUME TypeOK, OrderInv, stage = "peel", Peel, UNCHANGED <<in, stage>>
    PROVE  OrderInv'
  <1> PICK n \in ready : Release(n)
    BY DEF Peel
  <1>1. OrderTypeOK /\ UNCHANGED <<inSet, g>>
    BY DEF TypeOK, Peel, g
  <1>2. n \in inSet /\ n \notin Peeled /\ preds[n] = {}
    BY <1>1 DEF OrderInv, Remaining
  <1>3. /\ Peeled' = Peeled \cup {n}
        /\ Len(ordered) \in Nat
        /\ Len(ordered') = Len(ordered) + 1
        /\ \A i \in 1 .. Len(ordered) : ordered'[i] = ordered[i]
        /\ ordered'[Len(ordered) + 1] = n
    BY <1>1, PeeledGrows
  <1>4. Needs(g, inSet, n) \subseteq Peeled
    BY <1>2 DEF OrderInv
  <1>5. \A m \in inSet : preds'[m] = preds[m] \ {n}
    BY <1>1 DEF Release, OrderTypeOK
  <1>6. \A m \in inSet : preds'[m] = Needs(g, inSet, m)' \ Peeled'
    BY <1>1, <1>3, <1>5 DEF OrderInv, Needs
  <1>7. ready' = {m \in inSet \ Peeled' : preds'[m] = {}}
    <2>1. ready' = (ready \ {n}) \cup {m \in inSet : preds[m] = {n}}
      BY DEF Release
    <2>2. ASSUME NEW m \in ready' PROVE m \in inSet \ Peeled' /\ preds'[m] = {}
      <3>1. CASE m \in ready /\ m # n
        BY <3>1, <1>1, <1>3, <1>5 DEF OrderInv, Remaining
      <3>2. CASE m \in inSet /\ preds[m] = {n}
        <4>1. m \notin Peeled
          <5> SUFFICES ASSUME NEW i \in 1 .. Len(ordered), ordered[i] = m PROVE FALSE
            BY DEF Peeled
          <5>1. Needs(g, inSet, m) \subseteq {ordered[j] : j \in 1 .. i - 1}
            BY DEF OrderInv, TopologicalOrder
          <5>2. \A j \in 1 .. i - 1 : j \in 1 .. Len(ordered)
            BY <1>3
          <5>3. Needs(g, inSet, m) \subseteq Peeled
            BY <5>1, <5>2 DEF Peeled
          <5> QED
            BY <3>2, <5>3 DEF OrderInv
        <4>2. m # n
          BY <3>2, <1>2
        <4> QED
          BY <3>2, <4>1, <4>2, <1>3, <1>5
      <3> QED
        BY <2>1, <2>2, <3>1, <3>2
    <2>3. ASSUME NEW m \in inSet \ Peeled', preds'[m] = {} PROVE m \in ready'
      <3>1. m # n /\ m \in inSet /\ m \notin Peeled /\ preds[m] \subseteq {n}
        BY <2>3, <1>3, <1>5
      <3> QED
        BY <2>1, <3>1 DEF OrderInv, Remaining
    <2> QED
      BY <2>2, <2>3, <1>1 DEF Release, OrderTypeOK
  <1>8. TopologicalOrder'
    <2> SUFFICES ASSUME NEW i \in 1 .. Len(ordered')
                 PROVE  /\ Needs(g, inSet, ordered'[i])
                              \subseteq {ordered'[j] : j \in 1 .. i - 1}
                        /\ \A j \in 1 .. i - 1 : ordered'[j] # ordered'[i]
      BY <1>1 DEF TopologicalOrder, Needs
    <2>1. CASE i \in 1 .. Len(ordered)
      <3>1. \A j \in 1 .. i - 1 : j \in 1 .. Len(ordered) /\ ordered'[j] = ordered[j]
        BY <1>3, <2>1
      <3>2. Needs(g, inSet, ordered[i]) \subseteq {ordered[j] : j \in 1 .. i - 1}
        BY <2>1 DEF OrderInv, TopologicalOrder
      <3>3. \A j \in 1 .. i - 1 : ordered[j] # ordered[i]
        BY <2>1 DEF OrderInv, TopologicalOrder
      <3> QED
        BY <1>3, <2>1, <3>1, <3>2, <3>3
    <2>2. CASE i = Len(ordered) + 1
      <3>1. \A j \in 1 .. i - 1 : j \in 1 .. Len(ordered) /\ ordered'[j] = ordered[j]
        BY <1>3, <2>2
      <3>2. {ordered'[j] : j \in 1 .. i - 1} = Peeled
        BY <1>3, <2>2, <3>1 DEF Peeled
      <3> QED
        BY <1>2, <1>3, <1>4, <2>2, <3>1, <3>2
    <2> QED
      BY <1>3, <2>1, <2>2
  <1>9. \A T \in SUBSET inSet : Stuck(g, T) => T \cap Peeled' = {}
    <2> SUFFICES ASSUME NEW T \in SUBSET inSet, Stuck(g, T), n \in T PROVE FALSE
      BY <1>3 DEF OrderInv
    <2>1. T \cap Peeled = {}
      BY DEF OrderInv
    <2>2. Needs(g, T, n) # {} /\ Needs(g, T, n) \subseteq T
      BY DEF Stuck, Needs
    <2>3. Needs(g, T, n) \subseteq Needs(g, inSet, n)
      BY DEF Needs
    <2> QED
      BY <1>4, <2>1, <2>2, <2>3
  <1>10. \A T \in SUBSET inSet' : Stuck(g, T)' => T \cap Peeled' = {}
    BY <1>1, <1>9 DEF Stuck, Needs
  <1> QED
    BY <1>1, <1>6, <1>7, <1>8, <1>10 DEF OrderInv, Remaining

LEMMA OrderInit == Init => OrderInv
  <1> SUFFICES ASSUME Init PROVE OrderInv
    OBVIOUS
  <1>1. inSet = {} /\ ready = {} /\ ordered = <<>> /\ Len(ordered) = 0
    BY EmptySeq DEF Init, OrderParked
  <1> QED
    BY <1>1 DEF OrderInv, Remaining, Peeled, TopologicalOrder, Stuck

LEMMA OrderStarts ==
    ASSUME in \in Case, StartOrder(g, in.set), stage' = "peel", UNCHANGED in
    PROVE  OrderInv'
  <1>1. ordered' = <<>> /\ Len(ordered') = 0 /\ g' = g /\ inSet' \subseteq Object
    BY CaseFields, EmptySeq DEF StartOrder, g
  <1>2. Peeled' = {}
    BY <1>1 DEF Peeled
  <1>3. \A n \in inSet' : preds'[n] = Needs(g, inSet', n)
    BY <1>1 DEF StartOrder
  <1>4. ready' = {n \in inSet' : preds'[n] = {}}
    BY DEF StartOrder
  <1> QED
    BY <1>1, <1>2, <1>3, <1>4 DEF OrderInv, Remaining, TopologicalOrder

LEMMA OrderNext == TypeOK /\ OrderInv /\ [Next]_vars => OrderInv'
  <1> SUFFICES ASSUME TypeOK, OrderInv, [Next]_vars PROVE OrderInv'
    OBVIOUS
  <1>1. CASE Order
    BY <1>1, OrderStarts DEF Order, TypeOK
  <1>2. CASE PeelNext
    BY <1>2, PeelKeepsOrder DEF PeelNext, impactVars
  <1>3. CASE UNCHANGED <<in, orderVars>> /\ (stage' # "peel" => stage # "peel" \/ ready = {})
    <2>1. UNCHANGED <<g, inSet, preds, ready, ordered>>
      BY <1>3 DEF orderVars, g
    <2> QED
      BY <1>3, <2>1 DEF OrderInv, Remaining, Peeled, TopologicalOrder, Stuck, Needs
  <1>4. CASE Anchor \/ Walk \/ EndWalk \/ EndAnchors \/ Predict \/ EndPredict
    BY <1>3, <1>4 DEF Anchor, Walk, EndWalk, EndAnchors, Predict, EndPredict, impactVars
  <1>5. CASE NextResult \/ MergeNode \/ MergeUnknown \/ EndMerge
    BY <1>3, <1>5 DEF NextResult, MergeNode, MergeUnknown, EndMerge, impactVars
  <1>6. CASE EndResults \/ Plan \/ RunGate \/ EndOrder
    BY <1>3, <1>6 DEF EndResults, Plan, RunGate, EndOrder
  <1>7. CASE UNCHANGED vars
    BY <1>3, <1>7 DEF vars, impactVars
  <1> QED
    BY <1>1, <1>2, <1>4, <1>5, <1>6, <1>7 DEF Next

LEMMA OrderHolds == Spec => []OrderInv
  BY OrderInit, OrderNext, TypeCorrect, PTL DEF Spec

(* However the edges run and whichever ready node is taken next, nothing   *)
(* is recompiled before something in the set it depends on, nor twice.     *)
THEOREM OrderIsTopological == Spec => []TopologicalOrder
  <1>1. OrderInv => TopologicalOrder
    BY DEF OrderInv
  <1> QED
    BY <1>1, OrderHolds, PTL

(* What recompile_order() reports as cycles is exactly what no order can   *)
(* place: the largest part of the set in which everything needs something. *)
THEOREM LeftoversAreStuck == Spec => []LeftoverIsStuck
  <1>1. OrderInv => LeftoverIsStuck
    <2> SUFFICES ASSUME OrderInv, stage = "done" PROVE Stuck(g, Remaining)
      BY DEF OrderInv, LeftoverIsStuck
    <2> SUFFICES ASSUME NEW n \in Remaining PROVE Needs(g, Remaining, n) # {}
      BY DEF Stuck
    <2>1. ready = {} /\ preds[n] # {}
      BY DEF OrderInv
    <2>2. Needs(g, inSet, n) \ Peeled # {}
      BY <2>1 DEF OrderInv, Remaining
    <2> QED
      BY <2>2 DEF Needs, Remaining
  <1> QED
    BY <1>1, OrderHolds, PTL

-----------------------------------------------------------------------------
(* predict_with_lineage(): what has been merged so far.                    *)
Merging ==
    in.call = "predict" /\ stage \in {"result", "merge", "plan", "gate", "done"}

Taken == {i \in DOMAIN results : stage \in {"result", "merge"} => i < at}

Current(i) == stage = "merge" /\ i = at - 1

MergedNodes ==
    UNION {results[i].affected \ (IF Current(i) THEN nodes ELSE {}) : i \in Taken}

MergedEdges ==
    UNION {results[i].unknown \ (IF Current(i) THEN edges ELSE {}) : i \in Taken}

Shape ==
    /\ stage = "merge" => /\ at - 1 \in DOMAIN results
                          /\ nodes \subseteq results[at - 1].affected
                          /\ edges \subseteq results[at - 1].unknown
    /\ \A i \in DOMAIN results : \A x \in results[i].affected : x.hops > 0
    /\ stage = "walk" =>
         \A n \in Object \ {anchor} : best[n].conf # Unseen => best[n].hops > 0
    /\ in.call = "predict" => stage \notin {"order", "peel"}
    /\ in.call = "predict" /\ ~Merging => DOMAIN lineage = {}

(* Every merged node has its row, or an uncertainty.                       *)
NodesHaveRows ==
    Merging => \A x \in MergedNodes :
                  IF in.meta[x.object] = None
                  THEN Noted("MissingCatalogObject", x.object)
                  ELSE in.meta[x.object] \in AllKeys

EdgesHaveDoubts == Merging => \A e \in MergedEdges : Noted(in.why, e.from)

(* Every row of the lineage is one of the merged nodes that share its key, *)
(* and none of them is stronger.                                           *)
RowsAreBest ==
    Merging => \A k \in DOMAIN lineage :
        /\ k # None /\ k \notin KeysOf(direct)
        /\ \E x \in MergedNodes : /\ in.meta[x.object] = k
                                 /\ x.hops = lineage[k].distance
                                 /\ LevelOf(x.conf) = lineage[k].conf
        /\ \A x \in MergedNodes : in.meta[x.object] = k =>
              \/ x.hops > lineage[k].distance
              \/ x.hops = lineage[k].distance /\ LevelOf(x.conf) <= lineage[k].conf

RowsArePlanned ==
    in.call = "predict" /\ stage \in {"gate", "done"} =>
        \A k \in DOMAIN lineage : \E t \in statements : t.name = k.name

MergeInv ==
    Shape /\ NodesHaveRows /\ EdgesHaveDoubts /\ RowsAreBest /\ RowsArePlanned

(* An uncertainty stays.                                                   *)
LEMMA NoteStays ==
    ASSUME unc \in Seq(Doubt), NEW why \in Reason, NEW about \in Object,
           unc' = Append(unc, [reason |-> why, about |-> about])
    PROVE  /\ \A r, n : Noted(r, n) => Noted(r, n)'
           /\ Noted(why, about)'
  <1> PICK d \in Doubt : d = [reason |-> why, about |-> about]
    BY DEF Doubt
  <1>1. /\ Len(unc) \in Nat
        /\ DOMAIN unc = 1 .. Len(unc)
        /\ DOMAIN unc' = 1 .. Len(unc) + 1
        /\ \A i \in 1 .. Len(unc) : unc'[i] = unc[i]
        /\ unc'[Len(unc) + 1] = d
    BY AppendProperties, LenProperties
  <1>2. ASSUME NEW r, NEW n, Noted(r, n) PROVE Noted(r, n)'
    BY <1>1, <1>2 DEF Noted
  <1>3. Noted(why, about)'
    BY <1>1 DEF Noted
  <1> QED
    BY <1>2, <1>3

LEMMA MergeInit == Init => MergeInv
  <1> SUFFICES ASSUME Init PROVE MergeInv
    OBVIOUS
  <1>1. stage \in {"anchor", "order"} /\ DOMAIN lineage = {}
    BY DEF Init, PredictParked
  <1>2. DOMAIN results = {}
    BY DEF Init
  <1>3. in.call = "predict" => stage = "anchor"
    BY DEF Init
  <1> QED
    BY <1>1, <1>2, <1>3 DEF MergeInv, Shape, Merging, NodesHaveRows, EdgesHaveDoubts,
       RowsAreBest, RowsArePlanned

(* Until the merge there is nothing to show but the shape.                 *)
LEMMA BeforeMerging ==
    ASSUME Shape', ~Merging'
    PROVE  MergeInv'
  BY DEF MergeInv, NodesHaveRows, EdgesHaveDoubts, RowsAreBest, RowsArePlanned, Merging

(* Once it goes on, what a step of another part leaves alone stays.        *)
LEMMA MergeKept ==
    ASSUME MergeInv, Merging, Shape', MergedNodes' = MergedNodes, MergedEdges' = MergedEdges,
           UNCHANGED <<in, direct, lineage, unc>>, RowsArePlanned'
    PROVE  MergeInv'
  BY DEF MergeInv, NodesHaveRows, EdgesHaveDoubts, RowsAreBest, Noted, AllKeys

(* A step that appends a result.                                           *)
LEMMA ResultShape ==
    ASSUME CallTypeOK, NEW a \in Object, NEW A, NEW U \in SUBSET Edge,
           A \subseteq [object : Object, hops : Nat, conf : Lineage],
           \A x \in A : x.hops > 0,
           results' = Append(results, [anchor |-> a, affected |-> A, unknown |-> U]),
           \A i \in DOMAIN results : \A x \in results[i].affected : x.hops > 0
    PROVE  \A i \in DOMAIN results' : \A x \in results'[i].affected : x.hops > 0
  <1>1. /\ DOMAIN results = 1 .. Len(results)
        /\ DOMAIN results' = 1 .. Len(results) + 1
        /\ \A i \in DOMAIN results : results'[i] = results[i]
        /\ results'[Len(results) + 1].affected = A
    BY ResultTyped DEF CallTypeOK
  <1>2. Len(results) \in Nat
    BY LenProperties DEF CallTypeOK
  <1> SUFFICES ASSUME NEW i \in DOMAIN results'
               PROVE  \A x \in results'[i].affected : x.hops > 0
    OBVIOUS
  <1>3. i \in DOMAIN results \/ i = Len(results) + 1
    BY <1>1, <1>2
  <1> QED
    BY <1>1, <1>3

LEMMA ShapeNext == TypeOK /\ AtHand /\ Shape /\ [Next]_vars => Shape'
  <1> SUFFICES ASSUME TypeOK, AtHand, Shape, [Next]_vars PROVE Shape'
    OBVIOUS
  <1>0. CallTypeOK /\ WalkTypeOK(g) /\ in \in Case /\ at \in Nat \ {0}
    BY DEF TypeOK, CallTypeOK
  <1>1. CASE Anchor
    <2>1. stage = "anchor" /\ UNCHANGED <<in, nodes, edges, lineage>>
      BY <1>1 DEF Anchor, mergeVars, predictVars
    <2>2. CASE in.anchors[at] \in g.nodes
      <3>1. stage' = "walk" /\ Begin(in.anchors[at]) /\ UNCHANGED results
        BY <1>1, <2>2 DEF Anchor
      <3>2. \A n \in Object \ {anchor'} : best'[n].conf = Unseen
        BY <3>1 DEF Begin
      <3> QED
        BY <2>1, <3>1, <3>2 DEF Shape, Merging
    <2>3. CASE in.anchors[at] \notin g.nodes
      <3>1. /\ stage' = "anchor"
            /\ results' = Append(results, [anchor |-> in.anchors[at],
                                           affected |-> {}, unknown |-> {}])
        BY <1>1, <2>3 DEF Anchor
      <3>2. in.anchors[at] \in Object
        BY <1>0, <1>1, AnchorsTyped DEF Anchor
      <3>3. {} \in SUBSET Edge /\ {} \subseteq [object : Object, hops : Nat, conf : Lineage]
        OBVIOUS
      <3>4. \A i \in DOMAIN results : \A x \in results[i].affected : x.hops > 0
        BY DEF Shape
      <3>5. \A i \in DOMAIN results' : \A x \in results'[i].affected : x.hops > 0
        BY <1>0, <3>1, <3>2, <3>3, <3>4, ResultShape
      <3> QED
        BY <2>1, <3>1, <3>5 DEF Shape, Merging
    <2> QED
      BY <2>2, <2>3
  <1>2. CASE Walk
    <2>1. stage = "walk" /\ cur \in Visit
      BY <1>2 DEF Walk, AtHand
    <2>2. UNCHANGED <<in, stage, at, results, nodes, edges, lineage>>
      BY <1>2 DEF Walk, impactVars, mergeVars, predictVars
    <2>3. UNCHANGED anchor /\ \A n \in Object \ {anchor} :
             best'[n].conf # Unseen => best'[n].hops > 0
      <3>0. best \in [Object -> Mark] /\ cur.depth + 1 > 0 /\ cur.depth \in Nat
        BY <1>0, <2>1 DEF WalkTypeOK, Visit
      <3>1. \A n \in Object \ {anchor} : best[n].conf # Unseen => best[n].hops > 0
        BY <2>1 DEF Shape
      <3>2. CASE Pop(g, in.limit)
        BY <3>1, <3>2 DEF Pop
      <3>3. CASE Relax
        <4> PICK e \in pending :
              /\ \/ UNCHANGED best
                 \/ \E c : best' = [best EXCEPT ![e.from] =
                                      [conf |-> c, hops |-> cur.depth + 1]]
              /\ UNCHANGED anchor
          BY <3>3 DEF Relax
        <4>1. CASE UNCHANGED best
          BY <3>1, <4>1
        <4>2. ASSUME NEW c, best' = [best EXCEPT ![e.from] =
                                       [conf |-> c, hops |-> cur.depth + 1]],
                     NEW n \in Object \ {anchor}, best'[n].conf # Unseen
              PROVE  best'[n].hops > 0
          <5>1. CASE n = e.from
            BY <3>0, <4>2, <5>1
          <5>2. CASE n # e.from
            BY <3>0, <3>1, <4>2, <5>2
          <5> QED
            BY <5>1, <5>2
        <4> QED
          BY <4>1, <4>2
      <3> QED
        BY <1>2, <3>2, <3>3 DEF Walk
    <2> QED
      BY <2>1, <2>2, <2>3 DEF Shape, Merging
  <1>3. CASE EndWalk
    <2>1. /\ stage = "walk" /\ stage' = "anchor"
          /\ UNCHANGED <<in, nodes, edges, lineage>>
          /\ results' = Append(results, [anchor |-> anchor, affected |-> Affected(g),
                                         unknown |-> unknown])
      BY <1>3 DEF EndWalk, mergeVars, predictVars
    <2>2. anchor \in Object /\ unknown \in SUBSET Edge
      BY <1>0, <2>1, CaseFields DEF AtHand, WalkTypeOK
    <2>3. Affected(g) \subseteq [object : Object, hops : Nat, conf : Lineage]
      BY <1>0, AffectedTyped
    <2>4. \A x \in Affected(g) : x.hops > 0
      BY <1>0, <2>1, CaseFields DEF Affected, Shape
    <2>5. \A i \in DOMAIN results : \A x \in results[i].affected : x.hops > 0
      BY DEF Shape
    <2>6. \A i \in DOMAIN results' : \A x \in results'[i].affected : x.hops > 0
      BY <1>0, <2>1, <2>2, <2>3, <2>4, <2>5, ResultShape
    <2> QED
      BY <2>1, <2>6 DEF Shape, Merging
  <1>4. CASE EndAnchors \/ Predict \/ EndPredict
    <2>1. /\ stage \in {"anchor", "predict"} /\ stage' \in {"done", "predict", "result"}
          /\ UNCHANGED <<in, results, lineage>>
      BY <1>4 DEF EndAnchors, Predict, EndPredict, predictVars, PredictObject, Finish
    <2>2. in.call = "predict" => DOMAIN lineage' = {}
      BY <2>1 DEF Shape, Merging
    <2> QED
      BY <2>1, <2>2 DEF Shape
  <1>5. CASE NextResult
    <2>1. at \in DOMAIN results /\ at' = at + 1 /\ at \in Nat
      BY <1>0, <1>5, LenProperties DEF NextResult, CallTypeOK
    <2>2. at' - 1 = at
      BY <2>1
    <2>3. /\ nodes' \subseteq results[at].affected /\ edges' = results[at].unknown
          /\ stage' = "merge" /\ UNCHANGED <<in, results, lineage>>
      BY <1>5 DEF NextResult, predictVars
    <2>4. in.call = "predict" => Merging'
      BY <2>3 DEF Merging
    <2> QED
      BY <2>1, <2>2, <2>3, <2>4 DEF Shape
  <1>6. CASE MergeNode \/ MergeUnknown
    <2>1. /\ stage = "merge" /\ UNCHANGED <<in, stage, at, results>>
          /\ nodes' \subseteq nodes /\ edges' \subseteq edges
      BY <1>6 DEF MergeNode, MergeUnknown, impactVars
    <2> QED
      BY <2>1 DEF Shape, Merging
  <1>7. CASE EndMerge \/ EndResults \/ Plan \/ RunGate
    <2>1. /\ stage \in {"merge", "result", "plan", "gate"}
          /\ stage' \in {"result", "plan", "gate", "done"} /\ UNCHANGED <<in, results>>
      BY <1>7 DEF EndMerge, EndResults, Plan, RunGate
    <2> QED
      BY <2>1 DEF Shape, Merging
  <1>8. CASE Order \/ PeelNext \/ EndOrder
    <2>1. /\ stage \in {"order", "peel"} /\ stage' \in {"peel", "done"}
          /\ UNCHANGED <<in, results>>
      BY <1>8 DEF Order, PeelNext, EndOrder, impactVars
    <2> QED
      BY <2>1 DEF Shape, Merging
  <1>9. CASE UNCHANGED vars
    BY <1>9 DEF vars, impactVars, mergeVars, walkVars, predictVars, Shape, Merging
  <1> QED
    BY <1>1, <1>2, <1>3, <1>4, <1>5, <1>6, <1>7, <1>8, <1>9 DEF Next

(* A result whose merge begins, and one whose merge is over, add nothing.  *)
LEMMA NothingMerged ==
    ASSUME TypeOK, Shape, NextResult \/ EndMerge \/ EndResults \/ Plan \/ RunGate
    PROVE  MergedNodes' = MergedNodes /\ MergedEdges' = MergedEdges
  <1>0. /\ UNCHANGED results /\ at \in Nat \ {0}
        /\ Len(results) \in Nat /\ DOMAIN results = 1 .. Len(results)
    BY LenProperties DEF TypeOK, NextResult, EndMerge, EndResults, Plan, RunGate
  <1>1. CASE NextResult
    <2>1. at \in DOMAIN results /\ at' = at + 1 /\ stage = "result" /\ stage' = "merge"
      BY <1>0, <1>1 DEF NextResult
    <2>2. nodes' = results[at].affected /\ edges' = results[at].unknown
      BY <1>1, <2>1 DEF NextResult, Shape
    <2>3. Taken' = Taken \cup {at} /\ at \notin Taken
      BY <1>0, <2>1 DEF Taken
    <2>4. \A i \in Taken' : Current(i)' <=> i = at
      BY <1>0, <2>1 DEF Current, Taken
    <2>5. \A i \in Taken : ~Current(i)
      BY <2>1 DEF Current
    <2> QED
      BY <1>0, <2>2, <2>3, <2>4, <2>5 DEF MergedNodes, MergedEdges
  <1>2. CASE EndMerge
    <2>1. /\ Taken' = Taken /\ nodes = {} /\ edges = {}
          /\ \A i \in Taken : ~Current(i)'
      BY <1>0, <1>2 DEF EndMerge, Taken, Current
    <2> QED
      BY <1>0, <2>1 DEF MergedNodes, MergedEdges
  <1>3. CASE EndResults \/ Plan \/ RunGate
    <2>1. /\ Taken' = Taken
          /\ \A i \in Taken : ~Current(i)' /\ ~Current(i)
      BY <1>0, <1>3 DEF EndResults, Plan, RunGate, Taken, Current
    <2> QED
      BY <1>0, <2>1 DEF MergedNodes, MergedEdges
  <1> QED
    BY <1>1, <1>2, <1>3

LEMMA OneMerged ==
    ASSUME TypeOK, Shape, stage = "merge", UNCHANGED <<stage, at, results>>
    PROVE  /\ \A x \in nodes : nodes' = nodes \ {x}
                 => MergedNodes' = MergedNodes \cup {x}
           /\ \A e \in edges : edges' = edges \ {e}
                 => MergedEdges' = MergedEdges \cup {e}
           /\ UNCHANGED nodes => UNCHANGED MergedNodes
           /\ UNCHANGED edges => UNCHANGED MergedEdges
  <1>1. /\ at - 1 \in Taken
        /\ Taken' = Taken
        /\ \A i \in Taken : (Current(i) <=> i = at - 1) /\ (Current(i)' <=> i = at - 1)
    BY DEF Shape, Taken, Current, TypeOK
  <1>2. ASSUME NEW x \in nodes, nodes' = nodes \ {x}
        PROVE  MergedNodes' = MergedNodes \cup {x}
    <2>1. x \in results[at - 1].affected
      BY DEF Shape
    <2> QED
      BY <1>1, <1>2, <2>1 DEF MergedNodes
  <1>3. ASSUME NEW e \in edges, edges' = edges \ {e}
        PROVE  MergedEdges' = MergedEdges \cup {e}
    <2>1. e \in results[at - 1].unknown
      BY DEF Shape
    <2> QED
      BY <1>1, <1>3, <2>1 DEF MergedEdges
  <1>4. UNCHANGED nodes => UNCHANGED MergedNodes
    BY <1>1 DEF MergedNodes
  <1>5. UNCHANGED edges => UNCHANGED MergedEdges
    BY <1>1 DEF MergedEdges
  <1> QED
    BY <1>2, <1>3, <1>4, <1>5

(* One node is merged.                                                     *)
LEMMA NodeKeeps ==
    ASSUME TypeOK, MergeInv, Shape', Merging, MergeNode
    PROVE  MergeInv'
  <1>0. /\ stage = "merge" /\ UNCHANGED <<in, stage, at, results, edges, statements>>
        /\ Merging' /\ CallTypeOK /\ PredictTypeOK /\ in \in Case
    BY DEF MergeNode, impactVars, endVars, Merging, TypeOK, CallTypeOK
  <1> PICK x \in nodes :
        /\ IF in.meta[x.object] = None
           THEN Unresolved(x)
           ELSE Resolved(x, in.meta[x.object])
        /\ nodes' = nodes \ {x}
    BY DEF MergeNode
  <1> DEFINE key == in.meta[x.object]
  <1>1. x \in [object : Object, hops : Nat, conf : Lineage]
    BY <1>0, NodesTyped
  <1>2. MergedNodes' = MergedNodes \cup {x} /\ MergedEdges' = MergedEdges
    BY <1>0, OneMerged DEF MergeInv
  <1>3. \A y \in MergedNodes : y \in [object : Object, hops : Nat, conf : Lineage]
    BY <1>0, ResultsTyped DEF MergedNodes, Taken, CallTypeOK
  <1>4. x.object \in Object /\ x.hops \in Nat /\ LevelOf(x.conf) \in Level
    BY <1>1, LineageTyped
  <1>5. RowsArePlanned'
    BY <1>0 DEF RowsArePlanned
  <1>6. CASE key = None
    <2>1. "MissingCatalogObject" \in Reason
      BY DEF Reason
    <2>2. Unresolved(x)
      BY <1>6
    <2>3. unc \in Seq(Doubt)
      BY <1>0 DEF PredictTypeOK
    <2>4. /\ \A r, n : Noted(r, n) => Noted(r, n)'
          /\ Noted("MissingCatalogObject", x.object)'
      BY <1>4, <2>1, <2>2, <2>3, NoteStays DEF Unresolved
    <2>5. UNCHANGED <<direct, lineage, AllKeys>>
      BY <2>2 DEF Unresolved, AllKeys
    <2>6. NodesHaveRows' /\ EdgesHaveDoubts'
      BY <1>0, <1>2, <1>6, <2>4, <2>5 DEF MergeInv, NodesHaveRows, EdgesHaveDoubts
    <2>7. RowsAreBest'
      <3> SUFFICES ASSUME NEW k \in DOMAIN lineage
                   PROVE  /\ k # None /\ k \notin KeysOf(direct)
                          /\ \E y \in MergedNodes' : /\ in.meta[y.object] = k
                                                    /\ y.hops = lineage[k].distance
                                                    /\ LevelOf(y.conf) = lineage[k].conf
                          /\ \A y \in MergedNodes' : in.meta[y.object] = k =>
                                \/ y.hops > lineage[k].distance
                                \/ /\ y.hops = lineage[k].distance
                                   /\ LevelOf(y.conf) <= lineage[k].conf
        BY <1>0, <2>5 DEF RowsAreBest
      <3> QED
        BY <1>2, <1>6 DEF MergeInv, RowsAreBest
    <2> QED
      BY <1>0, <1>5, <2>6, <2>7 DEF MergeInv
  <1>7. CASE key # None
    <2> DEFINE row == [key |-> key, conf |-> LevelOf(x.conf), distance |-> x.hops]
    <2>1. Resolved(x, key) /\ UNCHANGED <<direct, unc>>
      BY <1>7 DEF Resolved
    <2>2. DOMAIN lineage \subseteq DOMAIN lineage' /\ key \in AllKeys'
      <3>1. CASE key \in KeysOf(direct)
        BY <2>1, <3>1 DEF Resolved, AllKeys
      <3>2. CASE key \notin KeysOf(direct)
        <4>1. Keep(row) /\ row.key = key
          BY <2>1, <3>2 DEF Resolved
        <4> HIDE DEF row, key
        <4>2. DOMAIN lineage' = DOMAIN lineage \cup {key}
          BY <4>1, KeepShape
        <4> QED
          BY <4>2 DEF AllKeys
      <3> QED
        BY <3>1, <3>2
    <2>3. NodesHaveRows' /\ EdgesHaveDoubts'
      BY <1>0, <1>2, <1>7, <2>1, <2>2
         DEF MergeInv, NodesHaveRows, EdgesHaveDoubts, AllKeys, Noted
    <2>4. ASSUME NEW k \in DOMAIN lineage, k # key
          PROVE  /\ k # None /\ k \notin KeysOf(direct)
                 /\ \E y \in MergedNodes' : /\ in.meta[y.object] = k
                                           /\ y.hops = lineage[k].distance
                                           /\ LevelOf(y.conf) = lineage[k].conf
                 /\ \A y \in MergedNodes' : in.meta[y.object] = k =>
                       \/ y.hops > lineage[k].distance
                       \/ /\ y.hops = lineage[k].distance
                          /\ LevelOf(y.conf) <= lineage[k].conf
      BY <1>2, <2>4 DEF MergeInv, RowsAreBest
    <2>5. RowsAreBest'
      <3>1. CASE key \in KeysOf(direct)
        <4>1. UNCHANGED lineage /\ key \notin DOMAIN lineage
          BY <2>1, <3>1 DEF Resolved, MergeInv, RowsAreBest
        <4> QED
          BY <1>0, <2>1, <2>4, <4>1 DEF RowsAreBest
      <3>2. CASE key \notin KeysOf(direct)
        <4>1. Keep(row) /\ row.key = key
          BY <2>1, <3>2 DEF Resolved
        <4>2. /\ DOMAIN lineage' = DOMAIN lineage \cup {key}
              /\ \A k \in DOMAIN lineage : k # key => lineage'[k] = lineage[k]
              /\ key \notin DOMAIN lineage => lineage'[key] = row
              /\ key \in DOMAIN lineage =>
                   lineage'[key] = IF Stronger(row, lineage[key])
                                   THEN row ELSE lineage[key]
          <5> HIDE DEF row, key
          <5> QED
            BY <4>1, KeepShape
        <4>3. \E y \in MergedNodes' : /\ in.meta[y.object] = key
                                      /\ y.hops = lineage'[key].distance
                                      /\ LevelOf(y.conf) = lineage'[key].conf
          <5>1. CASE lineage'[key] = row
            BY <1>2, <5>1
          <5>2. CASE key \in DOMAIN lineage /\ lineage'[key] = lineage[key]
            BY <1>2, <5>2 DEF MergeInv, RowsAreBest
          <5> QED
            BY <4>2, <5>1, <5>2
        <4>4. ASSUME NEW y \in MergedNodes', in.meta[y.object] = key
              PROVE  \/ y.hops > lineage'[key].distance
                     \/ /\ y.hops = lineage'[key].distance
                        /\ LevelOf(y.conf) <= lineage'[key].conf
          <5>1. CASE key \notin DOMAIN lineage
            <6>1. y = x
              BY <1>2, <1>7, <3>2, <4>4, <5>1 DEF MergeInv, NodesHaveRows, AllKeys
            <6> QED
              BY <1>4, <4>2, <5>1, <6>1 DEF Level, Opaque, High
          <5>2. CASE key \in DOMAIN lineage
            <6>1. y.hops \in Nat /\ LevelOf(y.conf) \in Level
              BY <1>1, <1>2, <1>3, LineageTyped
            <6>2. lineage[key].distance \in Nat /\ lineage[key].conf \in Level
              BY <1>0, <5>2 DEF PredictTypeOK, Row
            <6>3. y # x => \/ y.hops > lineage[key].distance
                           \/ /\ y.hops = lineage[key].distance
                              /\ LevelOf(y.conf) <= lineage[key].conf
              BY <1>2, <4>4, <5>2 DEF MergeInv, RowsAreBest
            <6>4. /\ Stronger(row, lineage[key]) <=>
                        \/ x.hops < lineage[key].distance
                        \/ /\ x.hops = lineage[key].distance
                           /\ LevelOf(x.conf) > lineage[key].conf
                  /\ row.distance = x.hops /\ row.conf = LevelOf(x.conf)
              BY DEF Stronger
            <6>5. y = x => /\ LevelOf(y.conf) = LevelOf(x.conf)
                           /\ y.hops = x.hops
              OBVIOUS
            <6> HIDE DEF row, key
            <6>6. CASE Stronger(row, lineage[key])
              BY <1>4, <4>2, <5>2, <6>1, <6>2, <6>3, <6>4, <6>5, <6>6
                 DEF Level, Opaque, High
            <6>7. CASE ~Stronger(row, lineage[key])
              BY <1>4, <4>2, <5>2, <6>1, <6>2, <6>3, <6>4, <6>5, <6>7
                 DEF Level, Opaque, High
            <6> QED
              BY <6>6, <6>7
          <5> QED
            BY <5>1, <5>2
        <4> QED
          BY <1>0, <1>7, <2>1, <2>4, <3>2, <4>2, <4>3, <4>4 DEF RowsAreBest
      <3> QED
        BY <3>1, <3>2
    <2> QED
      BY <1>0, <1>5, <2>3, <2>5 DEF MergeInv
  <1> QED
    BY <1>6, <1>7

LEMMA EdgeKeeps ==
    ASSUME TypeOK, MergeInv, Shape', Merging, MergeUnknown
    PROVE  MergeInv'
  <1>0. /\ stage = "merge" /\ UNCHANGED <<in, stage, at, results, nodes, statements>>
        /\ Merging' /\ CallTypeOK /\ PredictTypeOK /\ in \in Case
    BY DEF MergeUnknown, impactVars, endVars, Merging, TypeOK, CallTypeOK
  <1> PICK e \in edges : MergeEdge(e, in.why) /\ edges' = edges \ {e}
    BY DEF MergeUnknown
  <1>1. MergedNodes' = MergedNodes /\ MergedEdges' = MergedEdges \cup {e}
    BY <1>0, OneMerged DEF MergeInv
  <1>2. e.from \in Object /\ in.why \in Reason
    BY <1>0, NodesTyped, CaseFields DEF Edge
  <1> PICK why \in Reason : why = in.why
    BY <1>2
  <1>3. unc \in Seq(Doubt) /\ unc' = Append(unc, [reason |-> why, about |-> e.from])
    BY <1>0 DEF PredictTypeOK, MergeEdge
  <1>4. (\A r, n : Noted(r, n) => Noted(r, n)') /\ Noted(why, e.from)'
    BY <1>2, <1>3, NoteStays
  <1>5. UNCHANGED <<direct, lineage, AllKeys>>
    BY DEF MergeEdge, AllKeys
  <1>6. NodesHaveRows'
    BY <1>0, <1>1, <1>4, <1>5 DEF MergeInv, NodesHaveRows
  <1>7. EdgesHaveDoubts'
    <2> SUFFICES ASSUME NEW f \in MergedEdges' PROVE Noted(why, f.from)'
      BY <1>0 DEF EdgesHaveDoubts, Noted
    <2>1. f \in MergedEdges => Noted(why, f.from)
      BY DEF MergeInv, EdgesHaveDoubts
    <2> QED
      BY <1>1, <1>4, <2>1
  <1>8. RowsAreBest'
    BY <1>0, <1>1, <1>5 DEF MergeInv, RowsAreBest
  <1> QED
    BY <1>0, <1>6, <1>7, <1>8 DEF MergeInv, RowsArePlanned

(* Every key to recompile has a statement, of its own or of the change to  *)
(* the object.                                                             *)
LEMMA PlanCovers ==
    ASSUME PredictTypeOK, NEW k \in DOMAIN lineage
    PROVE  \E t \in StatementsFor(in.changes) : t.name = k.name
  <1> DEFINE emitted == {in.changes[i].name : i \in DOMAIN in.changes}
  <1>1. k \in recompile
    BY DEF PredictTypeOK
  <1>2. CASE k.name \in emitted
    <2>1. [kind |-> "Ddl", name |-> k.name] \in StatementsFor(in.changes)
      BY <1>2 DEF StatementsFor
    <2> QED
      BY <2>1
  <1>3. CASE k.name \notin emitted
    <2>1. [kind |-> "Recompile", name |-> k.name] \in StatementsFor(in.changes)
      BY <1>1, <1>3 DEF StatementsFor
    <2> QED
      BY <2>1
  <1> QED
    BY <1>2, <1>3

LEMMA MergeNext == TypeOK /\ AtHand /\ MergeInv /\ [Next]_vars => MergeInv'
  <1> SUFFICES ASSUME TypeOK, AtHand, MergeInv, [Next]_vars PROVE MergeInv'
    OBVIOUS
  <1>0. Shape /\ Shape'
    BY ShapeNext DEF MergeInv
  <1>1. CASE Anchor \/ Walk \/ EndWalk \/ EndAnchors \/ Predict
    <2>1. ~Merging'
      BY <1>1 DEF Anchor, Walk, EndWalk, EndAnchors, Predict, Merging, impactVars
    <2> QED
      BY <1>0, <2>1, BeforeMerging
  <1>2. CASE EndPredict
    <2>1. /\ stage = "predict" /\ stage' = "result" /\ at' = 1
          /\ UNCHANGED <<in, results, lineage>>
      BY <1>2 DEF EndPredict, Finish
    <2>2. \A i \in DOMAIN results' : i \in Nat \ {0}
      BY <2>1, LenProperties DEF TypeOK
    <2>3. Taken' = {}
      BY <2>1, <2>2 DEF Taken
    <2>4. MergedNodes' = {} /\ MergedEdges' = {}
      BY <2>3 DEF MergedNodes, MergedEdges
    <2>5. in.call = "predict" => DOMAIN lineage' = {}
      BY <1>0, <2>1 DEF Shape, Merging
    <2> QED
      BY <1>0, <2>1, <2>4, <2>5 DEF MergeInv, NodesHaveRows, EdgesHaveDoubts,
         RowsAreBest, RowsArePlanned, Merging
  <1>3. CASE NextResult \/ EndMerge \/ EndResults \/ Plan \/ RunGate
    <2>1. MergedNodes' = MergedNodes /\ MergedEdges' = MergedEdges
      BY <1>0, <1>3, NothingMerged
    <2>2. UNCHANGED <<in, direct, lineage, unc>> /\ (Merging' => Merging)
      BY <1>3 DEF NextResult, EndMerge, EndResults, Plan, RunGate, Finish, predictVars,
                  Merging
    <2>3. RowsArePlanned'
      <3>1. CASE Plan
        <4>1. statements' = StatementsFor(in.changes) /\ UNCHANGED <<in, lineage>>
          BY <3>1 DEF Plan, predictVars
        <4> QED
          BY <4>1, PlanCovers DEF RowsArePlanned, TypeOK
      <3>2. CASE NextResult \/ EndMerge \/ EndResults
        BY <3>2 DEF NextResult, EndMerge, EndResults, RowsArePlanned
      <3>3. CASE RunGate
        BY <3>3 DEF RunGate, RowsArePlanned, MergeInv, predictVars
      <3> QED
        BY <1>3, <3>1, <3>2, <3>3
    <2> QED
      BY <1>0, <2>1, <2>2, <2>3, MergeKept, BeforeMerging
  <1>4. CASE MergeNode \/ MergeUnknown
    <2>1. CASE Merging
      BY <1>0, <1>4, <2>1, NodeKeeps, EdgeKeeps
    <2>2. CASE ~Merging
      <3>1. ~Merging'
        BY <1>4, <2>2 DEF MergeNode, MergeUnknown, Merging, impactVars
      <3> QED
        BY <1>0, <3>1, BeforeMerging
    <2> QED
      BY <2>1, <2>2
  <1>5. CASE Order \/ PeelNext \/ EndOrder
    <2>1. in.call # "predict" /\ UNCHANGED in
      BY <1>0, <1>5 DEF Order, PeelNext, EndOrder, Shape, impactVars
    <2> QED
      BY <1>0, <2>1, BeforeMerging DEF Merging
  <1>6. CASE UNCHANGED vars
    <2>1. UNCHANGED <<in, stage, at, results, nodes, edges, statements, predictVars>>
      BY <1>6 DEF vars, impactVars, mergeVars, endVars
    <2>2. UNCHANGED <<in, direct, lineage, unc, MergedNodes, MergedEdges, Merging>>
      BY <2>1 DEF predictVars, MergedNodes, MergedEdges, Taken, Current, Merging
    <2>3. RowsArePlanned'
      BY <2>1, <2>2 DEF RowsArePlanned, MergeInv
    <2> QED
      BY <1>0, <2>2, <2>3, MergeKept, BeforeMerging
  <1> QED
    BY <1>1, <1>2, <1>3, <1>4, <1>5, <1>6 DEF Next

LEMMA MergeHolds == Spec => []MergeInv
  <1>1. Init => TypeOK /\ AtHand /\ MergeInv
    BY InitTyped, MergeInit
  <1>2. TypeOK /\ AtHand /\ MergeInv /\ [Next]_vars => (TypeOK /\ AtHand /\ MergeInv)'
    BY NextTyped, MergeNext
  <1> QED
    BY <1>1, <1>2, PTL DEF Spec

(* When the merge is over it has been of all nodes and edges.              *)
LEMMA AllMerged ==
    ASSUME Predicted
    PROVE  /\ Merging
           /\ MergedNodes = UNION {results[i].affected : i \in DOMAIN results}
           /\ MergedEdges = UNION {results[i].unknown : i \in DOMAIN results}
  <1>1. Merging /\ Taken = DOMAIN results /\ \A i \in Taken : ~Current(i)
    BY DEF Predicted, Merging, Taken, Current
  <1> QED
    BY <1>1 DEF MergedNodes, MergedEdges

LEMMA NoLossFromMerge == MergeInv => NoSilentLoss
  <1> SUFFICES ASSUME MergeInv, Predicted PROVE NoSilentLoss
    BY DEF NoSilentLoss
  <1>1. \A i \in DOMAIN results :
           /\ \A x \in results[i].affected :
                 IF in.meta[x.object] = None
                 THEN Noted("MissingCatalogObject", x.object)
                 ELSE in.meta[x.object] \in AllKeys
           /\ \A e \in results[i].unknown : Noted(in.why, e.from)
    BY AllMerged DEF MergeInv, NodesHaveRows, EdgesHaveDoubts
  <1>2. stage # "plan" =>
           \A k \in DOMAIN lineage : \E t \in statements : t.name = k.name
    BY DEF MergeInv, RowsArePlanned, Predicted
  <1> QED
    BY <1>1, <1>2 DEF NoSilentLoss

(* In whatever order results, nodes and edges are merged, none is lost on  *)
(* the way to the plan.                                                    *)
THEOREM NothingIsLost == Spec => []NoSilentLoss
  BY NoLossFromMerge, MergeHolds, PTL

(* In whatever order they are merged, a row shows the nearest of the nodes *)
(* it stands for, and the surest of those.                                 *)
THEOREM RowsAreStrongest == Spec => []StrongestRow
  <1>1. MergeInv => StrongestRow
    <2> SUFFICES ASSUME MergeInv, Predicted, NEW k \in DOMAIN lineage
                 PROVE  /\ \E x \in Hits(k) : /\ x.hops = lineage[k].distance
                                              /\ LevelOf(x.conf) = lineage[k].conf
                        /\ \A x \in Hits(k) :
                             \/ x.hops > lineage[k].distance
                             \/ /\ x.hops = lineage[k].distance
                                /\ LevelOf(x.conf) <= lineage[k].conf
      BY DEF StrongestRow
    <2>1. Hits(k) = {x \in MergedNodes : in.meta[x.object] = k} /\ Merging
      BY AllMerged DEF Hits
    <2> QED
      BY <2>1 DEF MergeInv, RowsAreBest
  <1> QED
    BY <1>1, MergeHolds, PTL

-----------------------------------------------------------------------------
(* The posture: the changed objects whose own uncertainties have been      *)
(* listed, and the last word on it.                                        *)
Listed ==
    {i \in DOMAIN in.changes :
        \/ stage = "predict" /\ i < at
        \/ stage \in {"result", "merge", "plan", "gate", "done"}}

PostureInv ==
    in.call = "predict" =>
        /\ stage \notin {"order", "peel"}
        /\ (\E i \in Listed : in.changes[i].doubts # <<>>) => unc # <<>>
        /\ stage \in {"plan", "gate", "done"} =>
              posture = PostureOf(Len(in.changes), Unrecognized(in.changes), Len(unc))

(* An object with uncertainties of its own leaves some.                    *)
LEMMA DoubtsAreListed ==
    ASSUME NEW c \in Change, NEW mode \in Mode, PredictTypeOK, PredictObject(c, mode)
    PROVE  /\ unc # <<>> => unc' # <<>>
           /\ c.doubts # <<>> => unc' # <<>>
  <1> DEFINE R == RuleDoubts(c)
             M == ModeDoubts(c, mode)
             O == OwnDoubts(c)
  <1>1. R \in Seq(Doubt) /\ M \in Seq(Doubt) /\ O \in Seq(Doubt)
    BY DoubtsTyped
  <1>2. unc \in Seq(Doubt) /\ c.doubts \in Seq(Reason)
    BY DEF PredictTypeOK, Change
  <1>3. unc' = unc \o R \o M \o O
    BY DEF PredictObject
  <1>4. Len(O) = Len(c.doubts)
    BY DoubtsTyped
  <1> HIDE DEF R, M, O
  <1>5. unc \o R \in Seq(Doubt) /\ Len(unc \o R) = Len(unc) + Len(R)
    BY <1>1, <1>2, ConcatProperties
  <1>6. unc \o R \o M \in Seq(Doubt) /\ Len(unc \o R \o M) = Len(unc \o R) + Len(M)
    BY <1>1, <1>5, ConcatProperties
  <1>7. unc' \in Seq(Doubt) /\ Len(unc') = Len(unc \o R \o M) + Len(O)
    BY <1>1, <1>3, <1>6, ConcatProperties
  <1>8. Len(unc') = Len(unc) + Len(R) + Len(M) + Len(c.doubts)
    BY <1>4, <1>5, <1>6, <1>7
  <1>9. Len(unc) \in Nat /\ Len(R) \in Nat /\ Len(M) \in Nat /\ Len(c.doubts) \in Nat
    BY <1>1, <1>2, LenProperties
  <1>10. /\ unc # <<>> => Len(unc) > 0
         /\ c.doubts # <<>> => Len(c.doubts) > 0
    BY <1>2, <1>9, EmptySeq
  <1>11. unc' = <<>> => Len(unc') = 0
    BY EmptySeq
  <1> DEFINE n == Len(unc)
             d == Len(c.doubts)
             m == Len(unc')
  <1>12. m # 0 \/ (n = 0 /\ d = 0)
    <2>1. m = n + Len(R) + Len(M) + d
      BY <1>8
    <2>2. n \in Nat /\ Len(R) \in Nat /\ Len(M) \in Nat /\ d \in Nat
      BY <1>9
    <2> HIDE DEF n, m, d
    <2> QED
      BY <2>1, <2>2
  <1>13. (unc # <<>> => n # 0) /\ (c.doubts # <<>> => d # 0)
    BY <1>9, <1>10
  <1> QED
    BY <1>11, <1>12, <1>13, Zenon

LEMMA PostureNext == TypeOK /\ PostureInv /\ [Next]_vars => PostureInv'
  <1> SUFFICES ASSUME TypeOK, PostureInv, [Next]_vars, in'.call = "predict"
               PROVE  PostureInv'
    BY DEF PostureInv
  <1>0. in \in Case /\ PredictTypeOK /\ at \in Nat \ {0} /\ Len(in.changes) \in Nat
        /\ DOMAIN in.changes = 1 .. Len(in.changes)
    BY ChangesTyped DEF TypeOK
  <1>1. CASE Anchor \/ Walk \/ EndWalk \/ EndAnchors
    <2>1. UNCHANGED in /\ stage' \in {"anchor", "walk", "predict", "done"}
      BY <1>1 DEF Anchor, Walk, EndWalk, EndAnchors, impactVars
    <2>2. stage' # "done" /\ (stage' = "predict" => at' = 1)
      BY <1>1 DEF Anchor, Walk, EndWalk, EndAnchors, impactVars
    <2>3. Listed' = {}
      BY <1>0, <2>1, <2>2 DEF Listed
    <2> QED
      BY <2>1, <2>2, <2>3 DEF PostureInv
  <1>2. CASE Predict
    <2>1. /\ UNCHANGED <<in, stage>> /\ stage = "predict" /\ at' = at + 1
          /\ at \in DOMAIN in.changes /\ PredictObject(in.changes[at], in.mode)
      BY <1>0, <1>2 DEF Predict
    <2>2. in.changes[at] \in Change /\ in.mode \in Mode
      BY <1>0, <2>1, ChangesTyped, CaseFields
    <2>3. /\ unc # <<>> => unc' # <<>>
          /\ in.changes[at].doubts # <<>> => unc' # <<>>
      BY <1>0, <2>1, <2>2, DoubtsAreListed
    <2>4. Listed' = Listed \cup {at}
      BY <1>0, <2>1 DEF Listed
    <2> QED
      BY <2>1, <2>3, <2>4 DEF PostureInv
  <1>3. CASE EndPredict \/ EndResults
    <2>1. Listed' = Listed
      BY <1>0, <1>3 DEF EndPredict, EndResults, Listed
    <2>2. /\ UNCHANGED <<in, unc>> /\ stage' \in {"result", "plan"}
          /\ posture' = PostureOf(Len(in.changes), Unrecognized(in.changes), Len(unc))
      BY <1>3 DEF EndPredict, EndResults, Finish
    <2> QED
      BY <2>1, <2>2 DEF PostureInv
  <1>4. CASE NextResult \/ EndMerge \/ Plan \/ RunGate
    <2>1. Listed' = Listed
      BY <1>0, <1>4 DEF NextResult, EndMerge, Plan, RunGate, Listed
    <2>2. UNCHANGED <<in, unc, posture>>
      BY <1>4 DEF NextResult, EndMerge, Plan, RunGate, predictVars
    <2>3. /\ stage' \notin {"order", "peel"}
          /\ stage' \in {"plan", "gate", "done"} => stage \in {"plan", "gate", "done"}
      BY <1>4 DEF NextResult, EndMerge, Plan, RunGate
    <2> QED
      BY <2>1, <2>2, <2>3 DEF PostureInv
  <1>5. CASE MergeNode \/ MergeUnknown
    <2>1. /\ UNCHANGED <<in, stage, at>> /\ stage = "merge"
          /\ CallTypeOK
      BY <1>5 DEF MergeNode, MergeUnknown, impactVars, TypeOK, CallTypeOK
    <2>2. Listed' = Listed
      BY <2>1 DEF Listed
    <2>3. unc # <<>> => unc' # <<>>
      <3>1. unc' = unc \/ \E d : unc' = Append(unc, d)
        BY <1>5 DEF MergeNode, MergeUnknown, Unresolved, Resolved, MergeEdge
      <3>2. unc \in Seq(Doubt)
        BY <1>0 DEF PredictTypeOK
      <3> QED
        BY <3>1, <3>2
    <2> QED
      BY <2>1, <2>2, <2>3 DEF PostureInv
  <1>6. CASE Order \/ PeelNext \/ EndOrder
    BY <1>6 DEF Order, PeelNext, EndOrder, PostureInv, impactVars
  <1>7. CASE UNCHANGED vars
    <2>1. UNCHANGED <<in, stage, at, unc, posture, Listed>>
      BY <1>7 DEF vars, impactVars, predictVars, Listed
    <2> QED
      BY <2>1 DEF PostureInv
  <1> QED
    BY <1>1, <1>2, <1>3, <1>4, <1>5, <1>6, <1>7 DEF Next

(* A prediction is Clean exactly if it lists no uncertainty.               *)
THEOREM CleanIsClean == Spec => []CleanMeansNoGaps
  <1>1. Init => PostureInv
    <2> SUFFICES ASSUME Init, in.call = "predict" PROVE PostureInv
      BY DEF PostureInv
    <2>1. stage = "anchor" /\ Listed = {}
      BY DEF Init, Listed
    <2> QED
      BY <2>1 DEF PostureInv
  <1>2. TypeOK /\ PostureInv => CleanMeansNoGaps
    <2> SUFFICES ASSUME TypeOK, PostureInv, Predicted, in.changes # <<>>
                 PROVE  posture = "Clean" <=> unc = <<>>
      BY DEF CleanMeansNoGaps
    <2>1. posture = PostureOf(Len(in.changes), Unrecognized(in.changes), Len(unc))
      BY DEF PostureInv, Predicted
    <2>2. Len(in.changes) \in Nat \ {0}
      BY CaseFields, ChangesTyped, EmptySeq DEF TypeOK
    <2>3. unc \in Seq(Doubt) /\ Len(unc) \in Nat
      BY LenProperties DEF TypeOK, PredictTypeOK
    <2>4. CASE unc = <<>>
      <3>1. \A i \in DOMAIN in.changes : in.changes[i].doubts = <<>>
        BY <2>4 DEF PostureInv, Predicted, Listed
      <3>2. {i \in DOMAIN in.changes : in.changes[i].doubts # <<>>} = {}
        BY <3>1
      <3>3. Unrecognized(in.changes) = 0 /\ Len(unc) = 0
        BY <2>4, <3>2, FS_EmptySet, EmptySeq DEF Unrecognized
      <3>4. PostureOf(Len(in.changes), 0, 0) = "Clean"
        BY <2>2 DEF PostureOf
      <3> QED
        BY <2>1, <2>4, <3>3, <3>4
    <2>5. CASE unc # <<>>
      <3>1. Len(unc) > 0
        BY <2>3, <2>5, EmptySeq
      <3>2. PostureOf(Len(in.changes), Unrecognized(in.changes), Len(unc)) # "Clean"
        BY <2>2, <2>3, <3>1 DEF PostureOf
      <3> QED
        BY <2>1, <2>5, <3>2
    <2> QED
      BY <2>4, <2>5
  <1> QED
    BY <1>1, <1>2, PostureNext, TypeCorrect, PTL DEF Spec
=============================================================================

------------------------------ MODULE ImpactProofs ------------------------------
(***************************************************************************)
(* Theorems about impact(), for any graph and limit: it reports nothing    *)
(* that no walk leads to, and all that one within the limit does.          *)
(***************************************************************************)
EXTENDS ChangeImpactProofs, WellFoundedInduction

-----------------------------------------------------------------------------
(* A walk of k edges, none known less surely than c, leads to n.           *)
Reached(n, c, k) ==
    \E s \in [1 .. k -> g.edges] :
        IsWalk(g, anchor, s, k) /\ EndOf(anchor, s, k) = n /\ HasConfidence(s, k, c)

(* No edge is a walk to where one is.                                      *)
LEMMA NoStep ==
    ASSUME NEW graph, NEW a, NEW c
    PROVE  \E s \in [1 .. 0 -> graph.edges] :
             IsWalk(graph, a, s, 0) /\ EndOf(a, s, 0) = a /\ HasConfidence(s, 0, c)
  <1> DEFINE s == [i \in 1 .. 0 |-> CHOOSE e \in graph.edges : TRUE]
  <1>1. s \in [1 .. 0 -> graph.edges]
    OBVIOUS
  <1>2. IsWalk(graph, a, s, 0) /\ EndOf(a, s, 0) = a /\ HasConfidence(s, 0, c)
    BY DEF IsWalk, EndOf, HasConfidence
  <1> QED
    BY <1>1, <1>2

(* A walk goes on by an edge into its end, if that can be asked for.       *)
LEMMA OneMore ==
    ASSUME in \in Case, NEW n, NEW c \in Lineage, NEW k \in Nat, Reached(n, c, k),
           NEW e \in g.edges, e.to = n, Answers(g, n)
    PROVE  Reached(e.from, Weaker(c, AsLineage(e.level)), k + 1)
  <1> PICK s \in [1 .. k -> g.edges] :
        IsWalk(g, anchor, s, k) /\ EndOf(anchor, s, k) = n /\ HasConfidence(s, k, c)
    BY DEF Reached
  <1> DEFINE t == [i \in 1 .. k + 1 |-> IF i = k + 1 THEN e ELSE s[i]]
             d == Weaker(c, AsLineage(e.level))
  <1>0. \A i \in 1 .. k + 1 : i \in 1 .. k \/ i = k + 1
    OBVIOUS
  <1>1. t \in [1 .. k + 1 -> g.edges] /\ t[k + 1] = e /\ \A i \in 1 .. k : t[i] = s[i]
    BY <1>0
  <1>2. \A f \in g.edges : AsLineage(f.level) \in Lineage
    BY CaseFields, LineageTyped DEF Edge
  <1>3. d <= c /\ d <= AsLineage(e.level) /\ d \in Lineage
    BY <1>2 DEF Weaker, Lineage, Unknown, Exact
  <1>4. HasConfidence(t, k + 1, d)
    <2> SUFFICES ASSUME NEW i \in 1 .. k + 1 PROVE AsLineage(t[i].level) >= d
      BY DEF HasConfidence
    <2>1. CASE i = k + 1
      BY <1>1, <1>2, <1>3, <2>1 DEF Lineage, Unknown, Exact
    <2>2. CASE i \in 1 .. k
      <3>1. AsLineage(s[i].level) >= c /\ AsLineage(s[i].level) \in Lineage
        BY <1>2, <2>2 DEF HasConfidence
      <3> HIDE DEF d, t
      <3> QED
        BY <1>1, <1>3, <2>2, <3>1 DEF Lineage, Unknown, Exact
    <2> QED
      BY <1>0, <2>1, <2>2
  <1> HIDE DEF t, d
  <1>5. IsWalk(g, anchor, t, k + 1)
    <2>1. t[1].to = anchor
      <3>1. CASE k = 0
        BY <1>1, <3>1 DEF EndOf
      <3>2. CASE k > 0
        BY <1>1, <3>2 DEF IsWalk
      <3> QED
        BY <3>1, <3>2
    <2>2. \A i \in 1 .. k + 1 : Answers(g, t[i].to)
      BY <1>0, <1>1 DEF IsWalk
    <2>3. ASSUME NEW i \in 1 .. k PROVE t[i + 1].to = t[i].from
      <3>1. CASE i = k
        BY <1>1, <3>1 DEF EndOf
      <3>2. CASE i < k
        <4>1. i \in 1 .. k - 1 /\ i + 1 \in 1 .. k
          BY <3>2
        <4> QED
          BY <1>1, <4>1 DEF IsWalk
      <3> QED
        BY <3>1, <3>2
    <2> QED
      BY <2>1, <2>2, <2>3 DEF IsWalk
  <1>6. EndOf(anchor, t, k + 1) = e.from
    BY <1>1 DEF EndOf
  <1> QED
    BY <1>1, <1>4, <1>5, <1>6 DEF Reached, d

(* A walk of some edges is a shorter one and an edge.                      *)
LEMMA OneLess ==
    ASSUME in \in Case, NEW n, NEW c \in Lineage, NEW k \in Nat, Reached(n, c, k + 1)
    PROVE  \E e \in g.edges : /\ Reached(e.to, c, k) /\ Answers(g, e.to)
                              /\ e.from = n /\ Weaker(c, AsLineage(e.level)) = c
  <1> PICK t \in [1 .. k + 1 -> g.edges] :
        /\ IsWalk(g, anchor, t, k + 1)
        /\ EndOf(anchor, t, k + 1) = n
        /\ HasConfidence(t, k + 1, c)
    BY DEF Reached
  <1> DEFINE s == [i \in 1 .. k |-> t[i]]
             e == t[k + 1]
  <1>1. s \in [1 .. k -> g.edges] /\ e \in g.edges /\ \A i \in 1 .. k : s[i] = t[i]
    OBVIOUS
  <1>2. Answers(g, e.to) /\ e.from = n
    BY DEF IsWalk, EndOf
  <1>3. Weaker(c, AsLineage(e.level)) = c
    <2>1. AsLineage(e.level) >= c
      BY DEF HasConfidence
    <2>2. AsLineage(e.level) \in Lineage
      BY <1>1, CaseFields, LineageTyped DEF Edge
    <2> QED
      BY <2>1, <2>2 DEF Weaker, Lineage, Unknown, Exact
  <1> HIDE DEF s
  <1>4. IsWalk(g, anchor, s, k)
    <2>1. k > 0 => s[1].to = anchor
      BY <1>1 DEF IsWalk
    <2>2. \A i \in 1 .. k : Answers(g, s[i].to)
      BY <1>1 DEF IsWalk
    <2>3. ASSUME NEW i \in 1 .. k - 1 PROVE s[i + 1].to = s[i].from
      <3>1. i \in 1 .. k /\ i + 1 \in 1 .. k
        OBVIOUS
      <3> QED
        BY <1>1, <3>1 DEF IsWalk
    <2> QED
      BY <2>1, <2>2, <2>3 DEF IsWalk
  <1>5. EndOf(anchor, s, k) = e.to
    <2>1. CASE k = 0
      BY <2>1 DEF EndOf, IsWalk
    <2>2. CASE k > 0
      <3>1. k \in 1 .. (k + 1) - 1 /\ k \in 1 .. k
        BY <2>2
      <3>2. t[k + 1].to = t[k].from
        BY <3>1 DEF IsWalk
      <3> QED
        BY <1>1, <2>2, <3>1, <3>2 DEF EndOf
    <2> QED
      BY <2>1, <2>2
  <1>6. HasConfidence(s, k, c)
    BY <1>1 DEF HasConfidence
  <1> QED
    BY <1>1, <1>2, <1>3, <1>4, <1>5, <1>6 DEF Reached

-----------------------------------------------------------------------------
(* Nothing is made up: what is known of an object, or waits to be visited, *)
(* is the end of a walk.                                                   *)
Waits(v) == \E i \in 1 .. Len(queue) : queue[i] = v

Sound ==
    /\ \A n \in Object : best[n].conf # Unseen => Reached(n, best[n].conf, best[n].hops)
    /\ \A v \in Visit : Waits(v) \/ v = cur => Reached(v.node, v.conf, v.depth)

(* What waits is at the depth of the entry in hand or one deeper, the      *)
(* deeper behind.                                                          *)
InOrder ==
    /\ cur.depth <= in.limit
    /\ \A i \in 1 .. Len(queue) :
          /\ queue[i].depth \in {cur.depth, cur.depth + 1}
          /\ queue[i].depth <= in.limit
    /\ \A i, j \in 1 .. Len(queue) : i <= j => queue[i].depth <= queue[j].depth
    /\ pending # {} => Expands(g, in.limit, cur)
    /\ pending \subseteq Incoming(g, cur.node)

(* The entry an object was last reached by, and what its visit leaves.     *)
Latest(n) == [node |-> n, depth |-> best[n].hops, conf |-> best[n].conf]

Passed(v, e) == Covers(e.from, Weaker(v.conf, AsLineage(e.level)), v.depth + 1)

InHand(v, e) == cur = v /\ e \in pending

(* What is known of an object has been passed on, or is about to be.       *)
PassedOn ==
    \A n \in Object : best[n].conf # Unseen =>
        \/ Waits(Latest(n))
        \/ /\ best[n].hops <= cur.depth
           /\ Expands(g, in.limit, Latest(n)) =>
                \A e \in Incoming(g, n) : Passed(Latest(n), e) \/ InHand(Latest(n), e)

(* What walks of no more edges than the depth lead to is covered; what one *)
(* more leads to is, or an entry that leads there is still to be visited.  *)
(* That entry may be overtaken already: it is visited all the same.        *)
NearCovered ==
    \A k \in 0 .. cur.depth, n \in Object, c \in Lineage :
        Reached(n, c, k) => Covers(n, c, k)

NextCovered ==
    cur.depth < in.limit =>
        \A e \in g.edges, c \in Lineage :
            Answers(g, e.to) /\ Reached(e.to, c, cur.depth) =>
                \/ Covers(e.from, Weaker(c, AsLineage(e.level)), cur.depth + 1)
                \/ \E v \in Visit : /\ v.node = e.to /\ v.depth = cur.depth /\ v.conf >= c
                                    /\ Waits(v) \/ InHand(v, e)

WalkInv ==
    stage = "walk" => Sound /\ InOrder /\ PassedOn /\ NearCovered /\ NextCovered

LEMMA CoversWeaker ==
    ASSUME best \in [Object -> Mark], NEW n \in Object, NEW c \in Lineage, NEW k \in Nat,
           Covers(n, c, k), NEW d \in Lineage, d <= c, NEW m \in Nat, k <= m
    PROVE  Covers(n, d, m)
  <1>1. best[n] \in Mark
    OBVIOUS
  <1>2. best[n].conf \in {Unseen} \cup Lineage /\ best[n].hops \in Nat
    BY <1>1 DEF Mark
  <1> QED
    BY <1>2 DEF Covers, Lineage, Unseen, Unknown, Exact

LEMMA WeakerMonotone ==
    \A a, b, c \in Lineage :
        /\ Weaker(a, c) \in Lineage /\ Weaker(a, c) <= a
        /\ a <= b => Weaker(a, c) <= Weaker(b, c)
  BY DEF Weaker, Lineage, Unknown, Exact

(* The edges and entries of a walk.                                        *)
LEMMA EdgeTyped ==
    ASSUME in \in Case, NEW e \in g.edges
    PROVE  e.from \in Object /\ e.to \in Object /\ AsLineage(e.level) \in Lineage
  BY CaseFields, LineageTyped DEF Edge

LEMMA WaitsTyped ==
    ASSUME WalkTypeOK(g)
    PROVE  /\ Len(queue) \in Nat
           /\ \A i \in 1 .. Len(queue) : queue[i] \in Visit
           /\ \A v : Waits(v) => v \in Visit
  <1>1. Len(queue) \in Nat /\ \A i \in 1 .. Len(queue) : queue[i] \in Visit
    BY LenProperties, ElementOfSeq DEF WalkTypeOK
  <1> QED
    BY <1>1 DEF Waits

LEMMA MarkTyped ==
    ASSUME WalkTypeOK(g), NEW n \in Object
    PROVE  /\ best[n].conf \in {Unseen} \cup Lineage /\ best[n].hops \in Nat
           /\ best[n].conf # Unseen => Latest(n) \in Visit
  BY DEF WalkTypeOK, Mark, Latest, Visit

LEMMA BeginInv ==
    ASSUME in \in Case, NEW a \in Object, Begin(a), UNCHANGED in, stage' = "walk"
    PROVE  WalkInv'
  <1>0. /\ anchor' = a /\ queue' = <<First(a)>> /\ cur' = First(a) /\ pending' = {}
        /\ g' = g /\ in.limit \in Nat /\ First(a).depth = 0 /\ First(a).node = a
        /\ First(a).conf = Exact /\ First(a) \in Visit
    BY CaseFields, FirstTyped DEF Begin, g, First
  <1>1. Len(queue') = 1 /\ queue'[1] = First(a)
    BY <1>0
  <1>2. \A v : Waits(v)' <=> v = First(a)
    BY <1>1 DEF Waits
  <1>3. \A n \in Object : /\ n = a => best'[n].conf = Exact /\ best'[n].hops = 0
                          /\ n # a => best'[n].conf = Unseen
    BY DEF Begin
  <1>4. \A c : Reached(a, c, 0)'
    BY <1>0, NoStep DEF Reached
  <1>5. \A n, c : Reached(n, c, 0)' => n = a
    BY <1>0 DEF Reached, EndOf
  <1>6. Sound'
    <2>1. Exact \in Lineage
      BY DEF Exact, Lineage, Unknown
    <2> QED
      BY <1>0, <1>2, <1>3, <1>4, <2>1 DEF Sound
  <1>7. InOrder'
    BY <1>0, <1>1 DEF InOrder
  <1>8. PassedOn'
    <2> SUFFICES ASSUME NEW n \in Object, best'[n].conf # Unseen PROVE Waits(Latest(n))'
      BY DEF PassedOn
    <2>1. n = a /\ Latest(n)' = First(a)
      BY <1>3 DEF Latest, First
    <2> QED
      BY <1>2, <2>1
  <1>9. NearCovered'
    <2> SUFFICES ASSUME NEW n \in Object, NEW c \in Lineage, Reached(n, c, 0)'
                 PROVE  Covers(n, c, 0)'
      BY <1>0 DEF NearCovered
    <2> QED
      BY <1>3, <1>5 DEF Covers, Lineage, Unknown, Exact
  <1>10. NextCovered'
    <2> SUFFICES ASSUME NEW e \in g.edges, NEW c \in Lineage, Reached(e.to, c, 0)'
                 PROVE  First(a).node = e.to /\ First(a).conf >= c
      BY <1>0, <1>2 DEF NextCovered
    <2> QED
      BY <1>0, <1>5 DEF Lineage, Unknown, Exact
  <1> QED
    BY <1>6, <1>7, <1>8, <1>9, <1>10 DEF WalkInv

LEMMA PopInv ==
    ASSUME TypeOK, AtHand, WalkInv, stage = "walk", Pop(g, in.limit),
           UNCHANGED <<in, stage>>
    PROVE  WalkInv'
  <1>0. in \in Case /\ WalkTypeOK(g) /\ cur \in Visit /\ in.limit \in Nat /\ g' = g
    BY CaseFields DEF TypeOK, AtHand, g
  <1>i. Sound /\ InOrder /\ PassedOn /\ NearCovered /\ NextCovered
    BY DEF WalkInv
  <1>q. queue \in Seq(Visit) /\ queue # <<>>
    BY <1>0 DEF Pop, WalkTypeOK
  <1>h. /\ Len(queue) \in Nat /\ Len(queue) > 0 /\ Head(queue) = queue[1]
        /\ Len(Tail(queue)) = Len(queue) - 1
        /\ \A i \in 1 .. Len(queue) - 1 : Tail(queue)[i] = queue[i + 1]
        /\ queue[1] \in Visit
    BY <1>q, HeadTailProperties, LenProperties, EmptySeq, ElementOfSeq
  <1> PICK v \in Visit : v = queue[1]
    BY <1>h
  <1>1. /\ pending = {} /\ cur' = v /\ Len(queue) > 0
        /\ Len(queue) \in Nat /\ Len(queue') = Len(queue) - 1
        /\ \A i \in 1 .. Len(queue) - 1 : queue'[i] = queue[i + 1]
        /\ v \in Visit /\ Waits(v) /\ v = queue[1]
        /\ UNCHANGED <<anchor, best, unknown>>
        /\ pending' = IF Expands(g, in.limit, v) THEN Incoming(g, v.node) ELSE {}
    BY <1>h DEF Pop, Popped, Waits
  <1>2. \A w : Waits(w) => w = v \/ Waits(w)'
    <2> SUFFICES ASSUME NEW w, NEW i \in 1 .. Len(queue), queue[i] = w, w # v
                 PROVE  Waits(w)'
      BY DEF Waits
    <2>1. i # 1
      BY <1>1
    <2>2. i - 1 \in 1 .. Len(queue') /\ queue'[i - 1] = queue[i]
      BY <1>1, <2>1
    <2> QED
      BY <2>2 DEF Waits
  <1>3. \A w : Waits(w)' => Waits(w)
    BY <1>1 DEF Waits
  <1>4. \A n, c, k : Reached(n, c, k)' <=> Reached(n, c, k)
    BY <1>0, <1>1 DEF Reached
  <1>5. \A n, c, k : Covers(n, c, k)' <=> Covers(n, c, k)
    BY <1>1 DEF Covers
  <1>6. \A n : Latest(n)' = Latest(n)
    BY <1>1 DEF Latest
  <1>7. /\ v.depth \in {cur.depth, cur.depth + 1} /\ v.depth <= in.limit
        /\ cur.depth \in Nat /\ v.depth \in Nat
    BY <1>0, <1>1, <1>i DEF InOrder, Visit
  <1>8. Sound'
    BY <1>0, <1>1, <1>3, <1>4, <1>i DEF Sound
  <1>9. InOrder'
    <2>1. \A i \in 1 .. Len(queue') : i + 1 \in 1 .. Len(queue) /\ 1 <= i + 1
                                      /\ queue'[i] = queue[i + 1]
      BY <1>1
    <2>2. \A i \in 1 .. Len(queue) : /\ queue[i].depth \in {cur.depth, cur.depth + 1}
                                     /\ queue[i].depth <= in.limit
                                     /\ v.depth <= queue[i].depth
      BY <1>1, <1>i DEF InOrder
    <2>3. \A i \in 1 .. Len(queue') : /\ queue'[i].depth \in {v.depth, v.depth + 1}
                                      /\ queue'[i].depth <= in.limit
      BY <1>7, <2>1, <2>2
    <2>4. \A i, j \in 1 .. Len(queue') : i <= j => queue'[i].depth <= queue'[j].depth
      <3> SUFFICES ASSUME NEW i \in 1 .. Len(queue'), NEW j \in 1 .. Len(queue'), i <= j
                   PROVE  queue'[i].depth <= queue'[j].depth
        OBVIOUS
      <3>1. i + 1 <= j + 1
        OBVIOUS
      <3> QED
        BY <2>1, <3>1, <1>i DEF InOrder
    <2> QED
      BY <1>0, <1>1, <1>7, <2>3, <2>4 DEF InOrder
  <1>10. PassedOn'
    <2> SUFFICES ASSUME NEW n \in Object, best[n].conf # Unseen,
                        NEW w, w = Latest(n), ~Waits(w)'
                 PROVE  /\ best[n].hops <= v.depth
                        /\ Expands(g, in.limit, w) =>
                             \A e \in Incoming(g, n) : Passed(w, e) \/ InHand(w, e)'
      BY <1>0, <1>1, <1>5, <1>6 DEF PassedOn, Passed, Waits, InHand
    <2>1. CASE w = v
      <3>1. v.node = n /\ v.depth = best[n].hops
        BY <2>1 DEF Latest
      <3> QED
        BY <1>1, <1>7, <2>1, <3>1 DEF InHand
    <2>2. CASE w # v
      <3>1. ~Waits(w)
        BY <1>2, <1>6, <2>2
      <3>2. /\ best[n].hops <= cur.depth
            /\ Expands(g, in.limit, w) =>
                 \A e \in Incoming(g, n) : Passed(w, e)
        BY <1>1, <1>i, <3>1 DEF PassedOn, InHand
      <3>3. best[n].hops \in Nat
        BY <1>0, MarkTyped
      <3> QED
        BY <1>7, <3>2, <3>3
    <2> QED
      BY <2>1, <2>2
  <1>11. CASE v.depth = cur.depth
    <2>1. NearCovered'
      BY <1>1, <1>4, <1>5, <1>i, <1>11 DEF NearCovered
    <2>2. NextCovered'
      <3> SUFFICES ASSUME cur.depth < in.limit, NEW e \in g.edges, NEW c \in Lineage,
                          Answers(g, e.to), Reached(e.to, c, cur.depth)
                   PROVE  \/ Covers(e.from, Weaker(c, AsLineage(e.level)), cur.depth + 1)
                          \/ \E w \in Visit : /\ w.node = e.to /\ w.depth = cur.depth
                                              /\ w.conf >= c
                                              /\ Waits(w)' \/ InHand(w, e)'
        BY <1>0, <1>1, <1>4, <1>5, <1>11 DEF NextCovered
      <3>1. ASSUME NEW w \in Visit, w.node = e.to, w.depth = cur.depth, Waits(w)
            PROVE  Waits(w)' \/ InHand(w, e)'
        <4>1. CASE w = v
          <5>1. Expands(g, in.limit, v) /\ e \in Incoming(g, v.node)
            BY <3>1, <4>1 DEF Expands, Incoming
          <5> QED
            BY <1>1, <4>1, <5>1 DEF InHand
        <4> QED
          BY <1>2, <3>1, <4>1
      <3> QED
        BY <1>1, <1>i, <3>1 DEF NextCovered, InHand
    <2> QED
      BY <1>0, <1>8, <1>9, <1>10, <2>1, <2>2 DEF WalkInv
  <1>12. CASE v.depth = cur.depth + 1
    <2>1. \A w : Waits(w) => w.depth = cur.depth + 1
      <3> SUFFICES ASSUME NEW i \in 1 .. Len(queue) PROVE queue[i].depth = cur.depth + 1
        BY DEF Waits
      <3>1. 1 \in 1 .. Len(queue) /\ 1 <= i
        BY <1>1
      <3>2. v.depth <= queue[i].depth /\ queue[i].depth \in {cur.depth, cur.depth + 1}
        BY <1>i, <3>1 DEF InOrder
      <3> QED
        BY <1>7, <1>12, <3>2
    <2>2. cur.depth < in.limit
      BY <1>0, <1>7, <1>12
    <2>3. NearCovered'
      <3> SUFFICES ASSUME NEW k \in 0 .. cur.depth + 1, NEW n \in Object, NEW c \in Lineage,
                          Reached(n, c, k)
                   PROVE  Covers(n, c, k)
        BY <1>1, <1>4, <1>5, <1>12 DEF NearCovered
      <3>1. CASE k \in 0 .. cur.depth
        BY <1>i, <3>1 DEF NearCovered
      <3>2. CASE k = cur.depth + 1
        <4> PICK e \in g.edges : /\ Reached(e.to, c, cur.depth) /\ Answers(g, e.to)
                                 /\ e.from = n /\ Weaker(c, AsLineage(e.level)) = c
          BY <1>0, <1>7, <3>2, OneLess
        <4>1. ASSUME NEW w \in Visit, w.depth = cur.depth, Waits(w) \/ InHand(w, e)
              PROVE  FALSE
          BY <1>1, <1>7, <2>1, <4>1 DEF InHand
        <4> QED
          BY <1>i, <2>2, <3>2, <4>1 DEF NextCovered
      <3> QED
        BY <1>7, <3>1, <3>2
    <2>4. NextCovered'
      <3> SUFFICES ASSUME v.depth < in.limit, NEW e \in g.edges, NEW c \in Lineage,
                          Answers(g, e.to), Reached(e.to, c, v.depth)
                   PROVE  \/ Covers(e.from, Weaker(c, AsLineage(e.level)), v.depth + 1)
                          \/ \E w \in Visit : /\ w.node = e.to /\ w.depth = v.depth
                                              /\ w.conf >= c
                                              /\ Waits(w)' \/ InHand(w, e)'
        BY <1>0, <1>1, <1>4, <1>5 DEF NextCovered
      <3> PICK w : w = Latest(e.to)
        OBVIOUS
      <3> DEFINE m == e.to
                 d == AsLineage(e.level)
      <3>1. m \in Object /\ e.from \in Object /\ d \in Lineage
        BY <1>0, EdgeTyped
      <3>2. Covers(m, c, v.depth)
        <4>1. NearCovered' /\ v.depth \in 0 .. cur'.depth
          BY <1>1, <1>7, <2>3
        <4> QED
          BY <1>4, <1>5, <3>1, <4>1 DEF NearCovered
      <3>3. /\ best[m].conf >= c /\ best[m].conf # Unseen /\ best[m].conf \in Lineage
            /\ best[m].hops \in Nat /\ w \in Visit
        BY <1>0, <3>1, <3>2, MarkTyped DEF Covers, Lineage, Unseen, Unknown, Exact
      <3>4. w.node = m /\ w.conf = best[m].conf
            /\ w.depth = best[m].hops
        BY DEF Latest
      <3>5. CASE Waits(w)
        <4>1. best[m].hops = v.depth
          BY <1>12, <2>1, <3>4, <3>5
        <4>2. CASE w = v
          <5>1. Expands(g, in.limit, v) /\ e \in Incoming(g, v.node)
            BY <3>4, <4>1, <4>2 DEF Expands, Incoming
          <5>2. InHand(v, e)'
            BY <1>1, <5>1 DEF InHand
          <5> QED
            BY <3>3, <3>4, <4>2, <5>2
        <4>3. CASE w # v
          BY <1>2, <3>3, <3>4, <3>5, <4>1, <4>3
        <4> QED
          BY <4>2, <4>3
      <3>6. CASE ~Waits(w)
        <4>1. best[m].hops <= cur.depth /\ Expands(g, in.limit, w)
          <5>1. best[m].hops <= cur.depth
            BY <1>i, <3>1, <3>3, <3>6 DEF PassedOn
          <5> QED
            BY <1>0, <1>7, <2>2, <3>3, <3>4, <5>1 DEF Expands
        <4>2. Passed(w, e)
          BY <1>1, <1>i, <3>1, <3>3, <3>6, <4>1 DEF PassedOn, InHand, Incoming
        <4>3. Covers(e.from, Weaker(best[m].conf, d), best[m].hops + 1)
          BY <3>4, <4>2 DEF Passed
        <4>4. /\ Weaker(c, d) \in Lineage /\ Weaker(best[m].conf, d) \in Lineage
              /\ Weaker(c, d) <= Weaker(best[m].conf, d)
          BY <3>1, <3>3, WeakerMonotone
        <4>5. /\ best[m].hops + 1 \in Nat /\ v.depth + 1 \in Nat
              /\ best[m].hops + 1 <= v.depth + 1
          BY <1>7, <1>12, <3>3, <4>1
        <4>6. best \in [Object -> Mark]
          BY <1>0 DEF WalkTypeOK
        <4> HIDE DEF m, d
        <4>7. Covers(e.from, Weaker(c, d), v.depth + 1)
          BY <3>1, <4>3, <4>4, <4>5, <4>6, CoversWeaker
        <4> QED
          BY <4>7 DEF d
      <3> QED
        BY <3>5, <3>6
    <2> QED
      BY <1>0, <1>8, <1>9, <1>10, <2>3, <2>4 DEF WalkInv
  <1> QED
    BY <1>7, <1>11, <1>12

LEMMA RelaxInv ==
    ASSUME TypeOK, AtHand, WalkInv, stage = "walk", Relax, UNCHANGED <<in, stage>>
    PROVE  WalkInv'
  <1>0. in \in Case /\ WalkTypeOK(g) /\ cur \in Visit /\ in.limit \in Nat /\ g' = g
    BY CaseFields DEF TypeOK, AtHand, g
  <1>i. Sound /\ InOrder /\ PassedOn /\ NearCovered /\ NextCovered
    BY DEF WalkInv
  <1> PICK e \in pending :
        LET lin  == AsLineage(e.level)
            next == Weaker(cur.conf, lin)
        IN /\ pending' = pending \ {e}
           /\ IF Improves(e.from, next)
              THEN /\ best' = [best EXCEPT ![e.from] =
                                 [conf |-> next, hops |-> cur.depth + 1]]
                   /\ queue' = Append(queue, [node |-> e.from, depth |-> cur.depth + 1,
                                              conf |-> next])
              ELSE UNCHANGED <<best, queue>>
           /\ unknown' = IF lin = Unknown THEN unknown \cup {e} ELSE unknown
           /\ UNCHANGED <<anchor, cur>>
    BY DEF Relax
  <1>1. /\ e \in g.edges /\ e.to = cur.node /\ Answers(g, cur.node)
        /\ cur.depth < in.limit /\ cur.depth \in Nat /\ cur.conf \in Lineage
        /\ e.from \in Object /\ AsLineage(e.level) \in Lineage
        /\ cur.node \in Object
    BY <1>0, <1>i, EdgeTyped DEF InOrder, Expands, Incoming, Visit
  <1> PICK n \in Object : n = e.from
    BY <1>1
  <1> PICK next \in Lineage : next = Weaker(cur.conf, AsLineage(e.level))
    BY <1>1, WeakerMonotone
  <1> PICK deep \in Nat : deep = cur.depth + 1
    BY <1>1
  <1> PICK visit \in Visit : /\ visit = [node |-> n, depth |-> deep, conf |-> next]
                             /\ visit.node = n /\ visit.depth = deep /\ visit.conf = next
    BY DEF Visit
  <1>2. /\ pending' = pending \ {e} /\ UNCHANGED <<anchor, cur>>
        /\ Improves(n, next) => /\ best' = [best EXCEPT ![n] = [conf |-> next,
                                                                hops |-> deep]]
                                /\ queue' = Append(queue, visit)
        /\ ~Improves(n, next) => UNCHANGED <<best, queue>>
    OBVIOUS
  <1>3. /\ \A m \in Object : m # n => best'[m] = best[m]
        /\ Improves(n, next) => best'[n].conf = next /\ best'[n].hops = deep
        /\ ~Improves(n, next) => best'[n] = best[n]
        /\ \A m \in Object : /\ best[m].conf \in {Unseen} \cup Lineage
                             /\ best[m].hops \in Nat
    BY <1>0, <1>2, MarkTyped DEF WalkTypeOK
  <1>4. /\ queue \in Seq(Visit) /\ Len(queue) \in Nat
        /\ Improves(n, next) => /\ Len(queue') = Len(queue) + 1
                                /\ \A i \in 1 .. Len(queue) : queue'[i] = queue[i]
                                /\ queue'[Len(queue) + 1] = visit
    BY <1>0, <1>2, AppendProperties, LenProperties DEF WalkTypeOK
  <1>5. /\ \A w : Waits(w) => Waits(w)'
        /\ \A w : Waits(w)' => Waits(w) \/ (Improves(n, next) /\ w = visit)
        /\ Improves(n, next) => Waits(visit)'
    BY <1>2, <1>4 DEF Waits
  <1>6. \A m, c, k : Reached(m, c, k)' <=> Reached(m, c, k)
    BY <1>0, <1>2 DEF Reached
  <1>7. \A m \in Object, c \in Lineage, k \in Nat : Covers(m, c, k) => Covers(m, c, k)'
    BY <1>3 DEF Covers, Improves, Lineage, Unseen, Unknown, Exact
  <1>8. best[n].conf # Unseen => best[n].hops <= deep
    <2> SUFFICES ASSUME best[n].conf # Unseen PROVE best[n].hops <= deep
      OBVIOUS
    <2>1. CASE Waits(Latest(n))
      <3>1. Latest(n).depth \in {cur.depth, cur.depth + 1}
        BY <1>i, <2>1 DEF Waits, InOrder
      <3> QED
        BY <1>1, <3>1 DEF Latest
    <2>2. CASE best[n].hops <= cur.depth
      BY <1>1, <1>3, <2>2
    <2> QED
      BY <1>i, <2>1, <2>2 DEF PassedOn
  <1>9. \A c \in Lineage : c <= next => Covers(n, c, deep)'
    BY <1>3, <1>8 DEF Covers, Improves, Lineage, Unseen, Unknown, Exact
  <1>10. Sound'
    <2>1. Reached(n, next, deep)
      BY <1>0, <1>1, <1>i, OneMore DEF Sound
    <2>2. ASSUME NEW m \in Object, best'[m].conf # Unseen
          PROVE  Reached(m, best'[m].conf, best'[m].hops)
      BY <1>3, <1>i, <2>1, <2>2 DEF Sound
    <2>3. ASSUME NEW v \in Visit, Waits(v)' \/ v = cur
          PROVE  Reached(v.node, v.conf, v.depth)
      BY <1>5, <1>i, <2>1, <2>3 DEF Sound
    <2> QED
      BY <1>2, <1>6, <2>2, <2>3 DEF Sound
  <1>11. InOrder'
    <2>1. deep <= in.limit
      BY <1>0, <1>1
    <2>2. \A i \in 1 .. Len(queue) : queue[i].depth \in {cur.depth, deep}
      BY <1>i DEF InOrder
    <2>3. \A i \in 1 .. Len(queue) : queue[i].depth <= deep
      BY <1>1, <2>2
    <2>4. CASE ~Improves(n, next)
      <3>1. UNCHANGED queue /\ pending' \subseteq pending
        BY <1>2, <2>4
      <3> QED
        BY <1>0, <1>2, <1>i, <3>1 DEF InOrder
    <2>5. CASE Improves(n, next)
      <3>1. \A i \in 1 .. Len(queue') : i \in 1 .. Len(queue) \/ i = Len(queue) + 1
        BY <1>4, <2>5
      <3>2. \A i \in 1 .. Len(queue') : /\ queue'[i].depth \in {cur.depth, deep}
                                        /\ queue'[i].depth <= in.limit
        BY <1>4, <1>i, <2>1, <2>2, <2>5, <3>1 DEF InOrder
      <3>3. ASSUME NEW i \in 1 .. Len(queue'), NEW j \in 1 .. Len(queue'), i <= j
            PROVE  queue'[i].depth <= queue'[j].depth
        <4>1. CASE j \in 1 .. Len(queue)
          <5>1. i \in 1 .. Len(queue)
            BY <1>4, <3>3, <4>1
          <5> QED
            BY <1>4, <1>i, <2>5, <3>3, <4>1, <5>1 DEF InOrder
        <4>2. CASE j = Len(queue) + 1
          BY <1>4, <2>3, <2>5, <3>1, <4>2
        <4> QED
          BY <3>1, <4>1, <4>2
      <3> QED
        BY <1>0, <1>2, <1>i, <3>2, <3>3 DEF InOrder
    <2> QED
      BY <2>4, <2>5
  <1>12. \A v \in Visit, f \in g.edges : Passed(v, f) => Passed(v, f)'
    <2> SUFFICES ASSUME NEW v \in Visit, NEW f \in g.edges, Passed(v, f)
                 PROVE  Passed(v, f)'
      OBVIOUS
    <2>1. /\ f.from \in Object /\ Weaker(v.conf, AsLineage(f.level)) \in Lineage
          /\ v.depth + 1 \in Nat
      BY <1>0, EdgeTyped, WeakerMonotone DEF Visit
    <2> QED
      BY <1>7, <2>1 DEF Passed
  <1>13. Passed(cur, e)'
    BY <1>2, <1>9 DEF Passed, Lineage
  <1>14. PassedOn'
    <2> SUFFICES ASSUME NEW m \in Object, best'[m].conf # Unseen,
                        NEW w, w = Latest(m)', ~Waits(w)'
                 PROVE  /\ best'[m].hops <= cur.depth
                        /\ Expands(g, in.limit, w) =>
                             \A f \in Incoming(g, m) : Passed(w, f)' \/ InHand(w, f)'
      BY <1>0, <1>2 DEF PassedOn, Passed, Waits, InHand
    <2>1. best'[m] = best[m]
      <3>1. CASE m = n /\ Improves(n, next)
        <4>1. w = visit
          BY <1>3, <3>1 DEF Latest
        <4> QED
          BY <1>5, <3>1, <4>1
      <3> QED
        BY <1>3, <3>1
    <2>2. w = Latest(m) /\ w \in Visit
      BY <1>0, <2>1, MarkTyped DEF Latest
    <2>3. /\ best[m].hops <= cur.depth
          /\ Expands(g, in.limit, w) =>
               \A f \in Incoming(g, m) : Passed(w, f) \/ InHand(w, f)
      BY <1>5, <1>i, <2>1, <2>2 DEF PassedOn
    <2>4. ASSUME NEW f \in Incoming(g, m), InHand(w, f) PROVE Passed(w, f)' \/ InHand(w, f)'
      BY <1>2, <1>13, <2>4 DEF InHand
    <2> QED
      BY <1>12, <2>1, <2>2, <2>3, <2>4 DEF Incoming
  <1>15. NearCovered'
    <2> SUFFICES ASSUME NEW k \in 0 .. cur.depth, NEW m \in Object, NEW c \in Lineage,
                        Reached(m, c, k)
                 PROVE  Covers(m, c, k)'
      BY <1>2, <1>6 DEF NearCovered
    <2> QED
      BY <1>1, <1>7, <1>i DEF NearCovered
  <1>16. NextCovered'
    <2> SUFFICES ASSUME NEW f \in g.edges, NEW c \in Lineage, Answers(g, f.to),
                        Reached(f.to, c, cur.depth)
                 PROVE  \/ Covers(f.from, Weaker(c, AsLineage(f.level)), deep)'
                        \/ \E v \in Visit : /\ v.node = f.to /\ v.depth = cur.depth
                                            /\ v.conf >= c
                                            /\ Waits(v)' \/ InHand(v, f)'
      BY <1>0, <1>1, <1>2, <1>6 DEF NextCovered
    <2>0. f.from \in Object /\ AsLineage(f.level) \in Lineage
          /\ Weaker(c, AsLineage(f.level)) \in Lineage
      BY <1>0, EdgeTyped, WeakerMonotone
    <2>1. CASE Covers(f.from, Weaker(c, AsLineage(f.level)), deep)
      BY <1>7, <2>0, <2>1
    <2>2. ASSUME NEW v \in Visit, v.node = f.to, v.depth = cur.depth, v.conf >= c,
                 Waits(v) \/ InHand(v, f)
          PROVE  \/ Covers(f.from, Weaker(c, AsLineage(f.level)), deep)'
                 \/ Waits(v)' \/ InHand(v, f)'
      <3>1. CASE Waits(v)
        BY <1>5, <3>1
      <3>2. CASE InHand(v, f) /\ f # e
        BY <1>2, <3>2 DEF InHand
      <3>3. CASE InHand(v, f) /\ f = e
        <4>1. c <= cur.conf
          BY <1>1, <2>2, <3>3 DEF InHand, Lineage, Unknown, Exact
        <4>2. Weaker(c, AsLineage(f.level)) <= next
          BY <1>1, <2>0, <3>3, <4>1, WeakerMonotone
        <4> QED
          BY <1>9, <2>0, <3>3, <4>2
      <3> QED
        BY <2>2, <3>1, <3>2, <3>3
    <2> QED
      BY <1>1, <1>i, <2>1, <2>2 DEF NextCovered
  <1> QED
    BY <1>0, <1>10, <1>11, <1>14, <1>15, <1>16 DEF WalkInv

LEMMA WalkNext == TypeOK /\ AtHand /\ WalkInv /\ [Next]_vars => WalkInv'
  <1> SUFFICES ASSUME TypeOK, AtHand, WalkInv, [Next]_vars, stage' = "walk" PROVE WalkInv'
    BY DEF WalkInv
  <1>1. CASE Anchor
    <2>1. in.anchors[at] \in g.nodes /\ Begin(in.anchors[at]) /\ UNCHANGED in
      BY <1>1 DEF Anchor
    <2>2. in \in Case /\ in.anchors[at] \in Object
      BY <2>1, CaseFields DEF TypeOK
    <2> QED
      BY <2>1, <2>2, BeginInv
  <1>2. CASE Walk
    BY <1>2, PopInv, RelaxInv DEF Walk, impactVars
  <1>3. CASE EndWalk \/ EndAnchors \/ Predict \/ EndPredict
    BY <1>3 DEF EndWalk, EndAnchors, Predict, EndPredict
  <1>4. CASE NextResult \/ MergeNode \/ MergeUnknown \/ EndMerge \/ EndResults
    BY <1>4 DEF NextResult, MergeNode, MergeUnknown, EndMerge, EndResults, impactVars
  <1>5. CASE Plan \/ RunGate \/ Order \/ PeelNext \/ EndOrder
    BY <1>5 DEF Plan, RunGate, Order, PeelNext, EndOrder, impactVars
  <1>6. CASE UNCHANGED vars
    <2>1. UNCHANGED <<in, stage, g, anchor, best, queue, cur, pending>>
      BY <1>6 DEF vars, impactVars, walkVars, g
    <2>2. Sound /\ InOrder /\ PassedOn /\ NearCovered /\ NextCovered
      BY <2>1 DEF WalkInv
    <2>3. /\ \A n, c, k : Reached(n, c, k)' <=> Reached(n, c, k)
          /\ \A n, c, k : Covers(n, c, k)' <=> Covers(n, c, k)
          /\ \A v : Waits(v)' <=> Waits(v)
          /\ \A v, e : InHand(v, e)' <=> InHand(v, e)
      BY <2>1 DEF Reached, Covers, Waits, InHand
    <2>4. Sound'
      BY <2>1, <2>2, <2>3 DEF Sound
    <2>5. InOrder'
      BY <2>1, <2>2 DEF InOrder
    <2>6. PassedOn'
      BY <2>1, <2>2 DEF PassedOn, Passed, Latest, Waits, InHand, Covers
    <2>7. NearCovered' /\ NextCovered'
      BY <2>1, <2>2, <2>3 DEF NearCovered, NextCovered
    <2> QED
      BY <2>4, <2>5, <2>6, <2>7 DEF WalkInv
  <1> QED
    BY <1>1, <1>2, <1>3, <1>4, <1>5, <1>6 DEF Next

LEMMA WalkHolds == Spec => [](TypeOK /\ AtHand /\ WalkInv)
  <1>1. Init => TypeOK /\ AtHand /\ WalkInv
    BY InitTyped DEF Init, WalkInv
  <1>2. TypeOK /\ AtHand /\ WalkInv /\ [Next]_vars => (TypeOK /\ AtHand /\ WalkInv)'
    BY NextTyped, WalkNext
  <1> QED
    BY <1>1, <1>2, PTL DEF Spec

(* At any time in the walk, whatever is reported is the end of a walk of   *)
(* as many edges, each known at least as surely.                           *)
THEOREM WalkIsSound == Spec => []WalkSound
  <1>1. WalkInv => WalkSound
    BY DEF WalkInv, Sound, WalkSound, Reached
  <1> QED
    BY <1>1, WalkHolds, PTL

-----------------------------------------------------------------------------
LEMMA LeastOf ==
    ASSUME NEW T \in SUBSET Nat, T # {}
    PROVE  \E x \in T : \A y \in T : x <= y
  <1>1. PICK x \in T : \A y \in T : ~ (<<y, x>> \in OpToRel(<, Nat))
    BY NatLessThanWellFounded, WFMin
  <1>2. ASSUME NEW y \in T PROVE ~ y < x
    BY <1>1, <1>2 DEF OpToRel
  <1> QED
    BY <1>2

(* When nothing waits, every walk within the limit leads to what is        *)
(* covered: the shortest that did not would go on from an end that is, by  *)
(* an edge that has been passed.                                           *)
LEMMA AllCovered ==
    ASSUME TypeOK, AtHand, WalkInv, stage = "walk", Walked
    PROVE  \A k \in 0 .. in.limit, n \in Object, c \in Lineage :
              Reached(n, c, k) => Covers(n, c, k)
  <1>0. /\ in \in Case /\ WalkTypeOK(g) /\ cur \in Visit /\ in.limit \in Nat
        /\ Sound /\ InOrder /\ PassedOn /\ NearCovered /\ NextCovered
    BY CaseFields DEF TypeOK, AtHand, WalkInv
  <1>1. \A v : ~Waits(v)
    BY EmptySeq DEF Walked, Waits
  <1>2. \A v, e : ~InHand(v, e)
    BY DEF Walked, InHand
  <1>3. cur.depth \in Nat
    BY <1>0 DEF Visit
  <1> DEFINE Missed(k) == \E n \in Object, c \in Lineage : Reached(n, c, k) /\ ~Covers(n, c, k)
             T == {k \in 0 .. in.limit : Missed(k)}
  <1> SUFFICES ASSUME T # {} PROVE FALSE
    OBVIOUS
  <1> PICK k \in T : \A j \in T : k <= j
    <2>1. T \in SUBSET Nat
      BY <1>0
    <2> QED
      BY <2>1, LeastOf
  <1> PICK n \in Object, c \in Lineage : Reached(n, c, k) /\ ~Covers(n, c, k)
    OBVIOUS
  <1>4. k \in 0 .. in.limit /\ k > cur.depth
    BY <1>0, <1>3 DEF NearCovered
  <1> PICK j \in Nat : k = j + 1 /\ j < in.limit /\ j >= cur.depth
    <2>1. k - 1 \in Nat /\ k = (k - 1) + 1 /\ k - 1 < in.limit /\ k - 1 >= cur.depth
      BY <1>0, <1>3, <1>4
    <2> QED
      BY <2>1
  <1>5. j \in 0 .. in.limit /\ ~Missed(j)
    BY <1>0
  <1> HIDE DEF T
  <1> PICK e \in g.edges : /\ Reached(e.to, c, j) /\ Answers(g, e.to)
                           /\ e.from = n /\ Weaker(c, AsLineage(e.level)) = c
    BY <1>0, OneLess
  <1>6. e.to \in Object /\ AsLineage(e.level) \in Lineage
    BY <1>0, EdgeTyped
  <1> DEFINE m == e.to
             d == AsLineage(e.level)
  <1>7. Covers(m, c, j)
    BY <1>5, <1>6
  <1>8. /\ best[m].conf >= c /\ best[m].conf # Unseen /\ best[m].conf \in Lineage
        /\ best[m].hops \in Nat
    BY <1>0, <1>6, <1>7, MarkTyped DEF Covers, Lineage, Unseen, Unknown, Exact
  <1> PICK w : w = Latest(m)
    OBVIOUS
  <1>9. w.node = m /\ w.conf = best[m].conf /\ w.depth = best[m].hops
    BY DEF Latest
  <1>10. best[m].hops <= cur.depth
    BY <1>0, <1>1, <1>6, <1>8 DEF PassedOn
  <1>11. Expands(g, in.limit, w) /\ e \in Incoming(g, m)
    BY <1>0, <1>3, <1>4, <1>8, <1>9, <1>10 DEF Expands, Incoming
  <1>12. Passed(w, e)
    BY <1>0, <1>1, <1>2, <1>6, <1>8, <1>11 DEF PassedOn
  <1>13. Covers(n, Weaker(best[m].conf, d), best[m].hops + 1)
    BY <1>9, <1>12 DEF Passed
  <1>14. Weaker(best[m].conf, d) \in Lineage /\ c <= Weaker(best[m].conf, d)
    <2>1. Weaker(c, d) <= Weaker(best[m].conf, d)
      BY <1>6, <1>8, WeakerMonotone
    <2> QED
      BY <1>6, <1>8, <2>1, WeakerMonotone
  <1>15. best[m].hops + 1 \in Nat /\ k \in Nat /\ best[m].hops + 1 <= k
    BY <1>3, <1>8, <1>10
  <1>16. best \in [Object -> Mark]
    BY <1>0 DEF WalkTypeOK
  <1> HIDE DEF m, d
  <1>17. Covers(n, c, k)
    BY <1>13, <1>14, <1>15, <1>16, CoversWeaker
  <1> QED
    BY <1>17

-----------------------------------------------------------------------------
(* The edges that claim nothing.  One is crossed from where a walk within  *)
(* the limit goes on by it; and where one does, the entry that reached the *)
(* object first, which no longer walk can have put there, is still to be   *)
(* visited or has crossed it.                                              *)
GoesOn(e) ==
    /\ AsLineage(e.level) = Unknown
    /\ Answers(g, e.to)
    /\ \E k \in 0 .. in.limit - 1 : Reached(e.to, Unknown, k)

Crossing(e) ==
    \E v \in Visit : /\ v.node = e.to /\ v.depth < in.limit
                     /\ Waits(v) \/ InHand(v, e)

Crossed == \A e \in unknown : GoesOn(e)

Entered ==
    \A e \in g.edges :
        GoesOn(e) /\ best[e.to].conf # Unseen => e \in unknown \/ Crossing(e)

EdgeInv == stage = "walk" => Crossed /\ Entered

LEMMA BeginEdges ==
    ASSUME in \in Case, NEW a \in Object, Begin(a), UNCHANGED in, stage' = "walk"
    PROVE  EdgeInv'
  <1>0. /\ queue' = <<First(a)>> /\ unknown' = {} /\ g' = g /\ in.limit \in Nat
        /\ First(a) \in Visit /\ First(a).node = a /\ First(a).depth = 0
    BY CaseFields, FirstTyped DEF Begin, g, First
  <1>1. Len(queue') = 1 /\ queue'[1] = First(a)
    BY <1>0
  <1>2. Waits(First(a))'
    BY <1>1 DEF Waits
  <1>3. \A n \in Object : n # a => best'[n].conf = Unseen
    BY DEF Begin
  <1>4. Entered'
    <2> SUFFICES ASSUME NEW e \in g.edges, GoesOn(e)', best'[e.to].conf # Unseen
                 PROVE  Crossing(e)'
      BY <1>0 DEF Entered
    <2>1. e.to = a
      BY <1>3, EdgeTyped
    <2>2. 0 < in.limit
      BY <1>0 DEF GoesOn
    <2> QED
      BY <1>0, <1>2, <2>1, <2>2 DEF Crossing
  <1> QED
    BY <1>0, <1>4 DEF EdgeInv, Crossed

LEMMA PopEdges ==
    ASSUME TypeOK, AtHand, EdgeInv, stage = "walk", Pop(g, in.limit),
           UNCHANGED <<in, stage>>
    PROVE  EdgeInv'
  <1>0. in \in Case /\ WalkTypeOK(g) /\ g' = g
    BY DEF TypeOK, g
  <1>h. /\ Len(queue) \in Nat /\ Len(queue) > 0 /\ Head(queue) = queue[1]
        /\ Len(Tail(queue)) = Len(queue) - 1
        /\ \A i \in 1 .. Len(queue) - 1 : Tail(queue)[i] = queue[i + 1]
        /\ queue[1] \in Visit
    <2>1. queue \in Seq(Visit) /\ queue # <<>>
      BY <1>0 DEF Pop, WalkTypeOK
    <2> QED
      BY <2>1, HeadTailProperties, LenProperties, EmptySeq, ElementOfSeq
  <1> PICK v \in Visit : v = queue[1]
    BY <1>h
  <1>1. /\ pending = {} /\ cur' = v /\ Len(queue') = Len(queue) - 1
        /\ \A i \in 1 .. Len(queue) - 1 : queue'[i] = queue[i + 1]
        /\ UNCHANGED <<anchor, best, unknown>>
        /\ pending' = IF Expands(g, in.limit, v) THEN Incoming(g, v.node) ELSE {}
    BY <1>h DEF Pop, Popped
  <1>2. \A w : Waits(w) => w = v \/ Waits(w)'
    <2> SUFFICES ASSUME NEW w, NEW i \in 1 .. Len(queue), queue[i] = w, w # v
                 PROVE  Waits(w)'
      BY DEF Waits
    <2>1. i - 1 \in 1 .. Len(queue') /\ queue'[i - 1] = queue[i]
      BY <1>h, <1>1
    <2> QED
      BY <2>1 DEF Waits
  <1>3. \A e : GoesOn(e)' <=> GoesOn(e)
    BY <1>0, <1>1 DEF GoesOn, Reached
  <1>4. ASSUME NEW e \in g.edges, GoesOn(e), Crossing(e) PROVE Crossing(e)'
    <2> PICK w \in Visit : /\ w.node = e.to /\ w.depth < in.limit
                           /\ Waits(w) \/ InHand(w, e)
      BY <1>4 DEF Crossing
    <2>1. Waits(w)
      BY <1>1 DEF InHand
    <2>2. w = v => InHand(w, e)'
      BY <1>1, <1>4 DEF Expands, Incoming, GoesOn, InHand
    <2> QED
      BY <1>2, <2>1, <2>2 DEF Crossing
  <1>5. Crossed' /\ Entered'
    BY <1>0, <1>1, <1>3, <1>4 DEF EdgeInv, Crossed, Entered
  <1> QED
    BY <1>5 DEF EdgeInv

LEMMA RelaxEdges ==
    ASSUME TypeOK, AtHand, WalkInv, EdgeInv, stage = "walk", Relax, UNCHANGED <<in, stage>>
    PROVE  EdgeInv'
  <1>0. /\ in \in Case /\ WalkTypeOK(g) /\ cur \in Visit /\ in.limit \in Nat /\ g' = g
        /\ Sound /\ InOrder /\ NearCovered /\ Crossed /\ Entered
    BY CaseFields DEF TypeOK, AtHand, g, WalkInv, EdgeInv
  <1> PICK f \in pending :
        LET lin  == AsLineage(f.level)
            next == Weaker(cur.conf, lin)
        IN /\ pending' = pending \ {f}
           /\ IF Improves(f.from, next)
              THEN /\ best' = [best EXCEPT ![f.from] =
                                 [conf |-> next, hops |-> cur.depth + 1]]
                   /\ queue' = Append(queue, [node |-> f.from, depth |-> cur.depth + 1,
                                              conf |-> next])
              ELSE UNCHANGED <<best, queue>>
           /\ unknown' = IF lin = Unknown THEN unknown \cup {f} ELSE unknown
           /\ UNCHANGED <<anchor, cur>>
    BY DEF Relax
  <1>1. /\ f \in g.edges /\ f.to = cur.node /\ Answers(g, cur.node)
        /\ cur.depth < in.limit /\ cur.depth \in Nat /\ cur.conf \in Lineage
        /\ f.from \in Object /\ AsLineage(f.level) \in Lineage
    BY <1>0, EdgeTyped DEF InOrder, Expands, Incoming, Visit
  <1> PICK n \in Object : n = f.from
    BY <1>1
  <1> PICK next \in Lineage : next = Weaker(cur.conf, AsLineage(f.level))
    BY <1>1, WeakerMonotone
  <1> PICK deep \in Nat : deep = cur.depth + 1
    BY <1>1
  <1> PICK visit \in Visit : /\ visit = [node |-> n, depth |-> deep, conf |-> next]
                             /\ visit.node = n /\ visit.depth = deep
    BY DEF Visit
  <1>2. /\ pending' = pending \ {f} /\ UNCHANGED <<anchor, cur>>
        /\ unknown' = IF AsLineage(f.level) = Unknown THEN unknown \cup {f} ELSE unknown
        /\ Improves(n, next) => /\ best' = [best EXCEPT ![n] = [conf |-> next,
                                                                hops |-> deep]]
                                /\ queue' = Append(queue, visit)
        /\ ~Improves(n, next) => UNCHANGED <<best, queue>>
    OBVIOUS
  <1>3. /\ \A w : Waits(w) => Waits(w)'
        /\ Improves(n, next) => Waits(visit)'
    <2>1. /\ queue \in Seq(Visit) /\ Len(queue) \in Nat
          /\ Improves(n, next) => /\ Len(queue') = Len(queue) + 1
                                  /\ \A i \in 1 .. Len(queue) : queue'[i] = queue[i]
                                  /\ queue'[Len(queue) + 1] = visit
      BY <1>0, <1>2, AppendProperties, LenProperties DEF WalkTypeOK
    <2> QED
      BY <1>2, <2>1 DEF Waits
  <1>4. \A e : GoesOn(e)' <=> GoesOn(e)
    BY <1>0, <1>2 DEF GoesOn, Reached
  <1>5. AsLineage(f.level) = Unknown => GoesOn(f)
    <2>1. Reached(cur.node, cur.conf, cur.depth)
      BY <1>0 DEF Sound
    <2>2. Reached(cur.node, Unknown, cur.depth)
      <3> PICK s \in [1 .. cur.depth -> g.edges] :
            /\ IsWalk(g, anchor, s, cur.depth) /\ EndOf(anchor, s, cur.depth) = cur.node
            /\ HasConfidence(s, cur.depth, cur.conf)
        BY <2>1 DEF Reached
      <3>1. HasConfidence(s, cur.depth, Unknown)
        <4> SUFFICES ASSUME NEW i \in 1 .. cur.depth PROVE AsLineage(s[i].level) >= Unknown
          BY DEF HasConfidence
        <4>1. AsLineage(s[i].level) \in Lineage
          BY <1>0, EdgeTyped
        <4> QED
          BY <4>1 DEF Lineage, Unknown, Exact
      <3> QED
        BY <3>1 DEF Reached
    <2>3. cur.depth \in 0 .. in.limit - 1
      BY <1>0, <1>1
    <2> QED
      BY <1>1, <2>2, <2>3 DEF GoesOn
  <1>6. Crossed'
    BY <1>0, <1>2, <1>4, <1>5 DEF Crossed
  <1>7. ASSUME NEW e \in g.edges, GoesOn(e), Crossing(e)
        PROVE  e \in unknown' \/ Crossing(e)'
    <2> PICK w \in Visit : /\ w.node = e.to /\ w.depth < in.limit
                           /\ Waits(w) \/ InHand(w, e)
      BY <1>7 DEF Crossing
    <2>1. CASE e = f
      BY <1>2, <1>7, <2>1 DEF GoesOn
    <2>2. CASE e # f
      <3>1. InHand(w, e) => InHand(w, e)'
        BY <1>2, <2>2 DEF InHand
      <3> QED
        BY <1>0, <1>3, <3>1 DEF Crossing
    <2> QED
      BY <2>1, <2>2
  <1>8. Entered'
    <2> SUFFICES ASSUME NEW e \in g.edges, GoesOn(e), best'[e.to].conf # Unseen
                 PROVE  e \in unknown' \/ Crossing(e)'
      BY <1>0, <1>4 DEF Entered
    <2>1. CASE best[e.to].conf # Unseen
      BY <1>0, <1>2, <1>7, <2>1 DEF Entered
    <2>2. CASE best[e.to].conf = Unseen
      <3>1. e.to = n /\ Improves(n, next)
        BY <1>0, <1>2, <2>2, EdgeTyped DEF WalkTypeOK
      <3> PICK k \in 0 .. in.limit - 1 : Reached(n, Unknown, k)
        BY <3>1 DEF GoesOn
      <3>2. k > cur.depth
        <4> SUFFICES ASSUME k \in 0 .. cur.depth PROVE FALSE
          BY <1>0, <1>1
        <4>1. Covers(n, Unknown, k)
          BY <1>0 DEF NearCovered, Lineage, Unknown, Exact
        <4> QED
          BY <2>2, <3>1, <4>1 DEF Covers, Unseen, Unknown
      <3>3. deep < in.limit
        BY <1>0, <1>1, <3>2
      <3> QED
        BY <1>0, <1>3, <3>1, <3>3 DEF Crossing
    <2> QED
      BY <2>1, <2>2
  <1> QED
    BY <1>6, <1>8 DEF EdgeInv

LEMMA EdgeNext == TypeOK /\ AtHand /\ WalkInv /\ EdgeInv /\ [Next]_vars => EdgeInv'
  <1> SUFFICES ASSUME TypeOK, AtHand, WalkInv, EdgeInv, [Next]_vars, stage' = "walk"
               PROVE  EdgeInv'
    BY DEF EdgeInv
  <1>1. CASE Anchor
    <2>1. in.anchors[at] \in g.nodes /\ Begin(in.anchors[at]) /\ UNCHANGED in
      BY <1>1 DEF Anchor
    <2>2. in \in Case /\ in.anchors[at] \in Object
      BY <2>1, CaseFields DEF TypeOK
    <2> QED
      BY <2>1, <2>2, BeginEdges
  <1>2. CASE Walk
    BY <1>2, PopEdges, RelaxEdges DEF Walk, impactVars
  <1>3. CASE EndWalk \/ EndAnchors \/ Predict \/ EndPredict
    BY <1>3 DEF EndWalk, EndAnchors, Predict, EndPredict
  <1>4. CASE NextResult \/ MergeNode \/ MergeUnknown \/ EndMerge \/ EndResults
    BY <1>4 DEF NextResult, MergeNode, MergeUnknown, EndMerge, EndResults, impactVars
  <1>5. CASE Plan \/ RunGate \/ Order \/ PeelNext \/ EndOrder
    BY <1>5 DEF Plan, RunGate, Order, PeelNext, EndOrder, impactVars
  <1>6. CASE UNCHANGED vars
    <2>1. UNCHANGED <<in, stage, g, anchor, best, queue, cur, pending, unknown>>
      BY <1>6 DEF vars, impactVars, walkVars, g
    <2>2. \A e : (GoesOn(e)' <=> GoesOn(e)) /\ (Crossing(e)' <=> Crossing(e))
      BY <2>1 DEF GoesOn, Reached, Crossing, Waits, InHand
    <2> QED
      BY <2>1, <2>2 DEF EdgeInv, Crossed, Entered
  <1> QED
    BY <1>1, <1>2, <1>3, <1>4, <1>5, <1>6 DEF Next

LEMMA EdgeHolds == Spec => [](TypeOK /\ AtHand /\ WalkInv /\ EdgeInv)
  <1>1. Init => EdgeInv
    BY DEF Init, EdgeInv
  <1> QED
    BY <1>1, EdgeNext, WalkHolds, PTL DEF Spec

(* When nothing waits, both directions together are an equality.           *)
LEMMA UnknownExact ==
    ASSUME TypeOK, AtHand, WalkInv, EdgeInv, stage = "walk", Walked
    PROVE  unknown = ClaimNothing(anchor)
  <1>0. in \in Case /\ WalkTypeOK(g) /\ in.limit \in Nat /\ Crossed /\ Entered
    BY CaseFields DEF TypeOK, EdgeInv
  <1>1. \A e : ~Crossing(e)
    BY EmptySeq DEF Walked, Crossing, Waits, InHand
  <1>2. ASSUME NEW e \in g.edges, GoesOn(e) PROVE e \in unknown
    <2> PICK k \in 0 .. in.limit - 1 : Reached(e.to, Unknown, k)
      BY <1>2 DEF GoesOn
    <2>1. e.to \in Object /\ Unknown \in Lineage /\ k \in 0 .. in.limit
      BY <1>0, EdgeTyped DEF Lineage, Unknown, Exact
    <2>2. Covers(e.to, Unknown, k)
      BY <2>1, AllCovered
    <2>3. best[e.to].conf # Unseen
      BY <2>2 DEF Covers, Unseen, Unknown
    <2> QED
      BY <1>0, <1>1, <1>2, <2>3 DEF Entered
  <1>3. \A e \in g.edges : GoesOn(e) <=> e \in ClaimNothing(anchor)
    BY DEF GoesOn, Reached, ByWalk, ClaimNothing
  <1>4. unknown \subseteq g.edges /\ ClaimNothing(anchor) \subseteq g.edges
    BY <1>0 DEF WalkTypeOK, ClaimNothing
  <1> QED
    BY <1>0, <1>2, <1>3, <1>4 DEF Crossed

(* For any graph, limit and order of the edges, impact() misses nothing a  *)
(* walk within the limit leads to, at the confidence and distance of the   *)
(* best, and lists just the edges that claim nothing such walks go on by.  *)
THEOREM ImpactIsExact == Spec => []ImpactExact
  <1>1. TypeOK /\ AtHand /\ WalkInv /\ EdgeInv => ImpactExact
    <2> SUFFICES ASSUME TypeOK, AtHand, WalkInv, stage = "walk", Walked,
                        NEW k \in 0 .. in.limit, NEW s \in [1 .. k -> g.edges],
                        NEW c \in Lineage, IsWalk(g, anchor, s, k), HasConfidence(s, k, c)
                 PROVE  Covers(EndOf(anchor, s, k), c, k)
      BY UnknownExact DEF ImpactExact
    <2>1. Reached(EndOf(anchor, s, k), c, k)
      BY DEF Reached
    <2>2. EndOf(anchor, s, k) \in Object
      <3>1. CASE k = 0
        BY <3>1, CaseFields DEF EndOf, AtHand, TypeOK
      <3>2. CASE k # 0
        <4>1. k \in 1 .. k
          BY <3>2, CaseFields DEF TypeOK
        <4>2. s[k] \in g.edges
          BY <4>1
        <4> QED
          BY <3>2, <4>2, EdgeTyped DEF EndOf, TypeOK
      <3> QED
        BY <3>1, <3>2
    <2> QED
      BY <2>1, <2>2, AllCovered
  <1> QED
    BY <1>1, EdgeHolds, PTL

-----------------------------------------------------------------------------
(* What is reported of the objects, in both directions: the confidence and *)
(* distance of each are those of its best walk.                            *)
LEMMA AffectedExact ==
    ASSUME TypeOK, AtHand, WalkInv, stage = "walk", Walked, anchor \in g.nodes
    PROVE  Affected(g) = Exactly(anchor).affected
  <1>0. /\ in \in Case /\ WalkTypeOK(g) /\ in.limit \in Nat /\ cur.depth \in Nat
        /\ g.nodes \subseteq Object /\ Sound /\ InOrder /\ PassedOn
    BY CaseFields DEF TypeOK, AtHand, WalkInv, Visit
  <1>1. \A n, c, k : Reached(n, c, k) <=> ByWalk(anchor, n, c, k)
    BY DEF Reached, ByWalk
  <1>2. ASSUME NEW n \in g.nodes, best[n].conf # Unseen
        PROVE  /\ best[n].conf \in Lineage /\ best[n].hops \in 0 .. in.limit
               /\ ByWalk(anchor, n, best[n].conf, best[n].hops)
    <2>1. n \in Object /\ best[n].conf \in Lineage /\ best[n].hops \in Nat
      BY <1>0, <1>2, MarkTyped
    <2>2. ~Waits(Latest(n))
      BY EmptySeq DEF Walked, Waits
    <2>3. best[n].hops <= in.limit
      BY <1>0, <1>2, <2>1, <2>2 DEF PassedOn, InOrder
    <2> QED
      BY <1>0, <1>1, <1>2, <2>1, <2>3 DEF Sound
  <1>3. ASSUME NEW n \in g.nodes, NEW j \in 0 .. in.limit, NEW d \in Lineage,
               ByWalk(anchor, n, d, j)
        PROVE  Covers(n, d, j)
    <2>1. n \in Object /\ Reached(n, d, j)
      BY <1>0, <1>1, <1>3
    <2> QED
      BY <2>1, AllCovered
  <1>4. ASSUME NEW n \in g.nodes, best[n].conf # Unseen
        PROVE  IsBest(anchor, n, best[n].conf, best[n].hops)
    BY <1>2, <1>3, <1>4 DEF IsBest, Covers
  <1>5. ASSUME NEW n \in g.nodes, NEW k \in 0 .. in.limit, NEW c \in Lineage,
               IsBest(anchor, n, c, k)
        PROVE  best[n].conf # Unseen /\ c = best[n].conf /\ k = best[n].hops
    <2>1. Covers(n, c, k)
      BY <1>3, <1>5 DEF IsBest
    <2>2. best[n].conf # Unseen
      BY <2>1 DEF Covers, Unseen, Lineage, Unknown, Exact
    <2>3. /\ best[n].conf \in Lineage /\ best[n].hops \in 0 .. in.limit
          /\ ByWalk(anchor, n, best[n].conf, best[n].hops)
      BY <1>2, <2>2
    <2>4. best[n].conf < c \/ (best[n].conf = c /\ k <= best[n].hops)
      BY <1>5, <2>3 DEF IsBest
    <2> QED
      BY <1>0, <2>1, <2>2, <2>3, <2>4 DEF Covers, Lineage, Unknown, Exact
  <1> DEFINE A == [object : g.nodes \ {anchor}, hops : 0 .. in.limit, conf : Lineage]
  <1>6. Exactly(anchor).affected = {x \in A : IsBest(anchor, x.object, x.conf, x.hops)}
    BY DEF Exactly
  <1>7. ASSUME NEW x \in Affected(g)
        PROVE  x \in A /\ IsBest(anchor, x.object, x.conf, x.hops)
    <2> PICK n \in g.nodes : /\ n # anchor /\ best[n].conf # Unseen
                             /\ x = [object |-> n, hops |-> best[n].hops,
                                     conf |-> best[n].conf]
      BY <1>7 DEF Affected
    <2> QED
      BY <1>2, <1>4
  <1>8. ASSUME NEW x \in A, IsBest(anchor, x.object, x.conf, x.hops)
        PROVE  x \in Affected(g)
    <2>1. x.object \in g.nodes /\ x.object # anchor
      OBVIOUS
    <2>2. /\ best[x.object].conf # Unseen /\ x.conf = best[x.object].conf
          /\ x.hops = best[x.object].hops
      BY <1>5, <1>8
    <2>3. x = [object |-> x.object, hops |-> best[x.object].hops,
               conf |-> best[x.object].conf]
      BY <2>2
    <2> QED
      BY <2>1, <2>2, <2>3 DEF Affected
  <1> HIDE DEF A
  <1> QED
    BY <1>6, <1>7, <1>8

(* A result is made of what its own walk ends with.                        *)
ExactInv ==
    /\ stage \in {"anchor", "walk"} => Len(results) = at - 1
    /\ stage = "walk" => anchor = in.anchors[at] /\ anchor \in g.nodes
    /\ ResultsExact

LEMMA ExactStays ==
    ASSUME in \in Case, results \in Seq(Result), UNCHANGED in, ResultsExact,
           NEW r \in Result, results' = Append(results, r),
           NEW m \in Nat, m = Len(results) + 1, r = Exactly(in.anchors[m])
    PROVE  Len(results') = m /\ ResultsExact'
  <1>1. /\ Len(results) \in Nat /\ Len(results') = m /\ results'[m] = r
        /\ \A i \in 1 .. Len(results) : results'[i] = results[i]
    BY AppendProperties, LenProperties
  <1>2. \A a : Exactly(a)' = Exactly(a)
    BY DEF Exactly, ClaimNothing, IsBest, ByWalk, g
  <1> QED
    BY <1>1, <1>2 DEF ResultsExact

LEMMA ExactNext ==
    TypeOK /\ AtHand /\ WalkInv /\ EdgeInv /\ ExactInv /\ [Next]_vars => ExactInv'
  <1> SUFFICES ASSUME TypeOK, AtHand, WalkInv, EdgeInv, ExactInv, [Next]_vars
               PROVE  ExactInv'
    OBVIOUS
  <1>0. /\ in \in Case /\ at \in Nat \ {0} /\ results \in Seq(Result) /\ ResultsExact
    BY DEF TypeOK, ExactInv
  <1> PICK m \in Nat : m = at
    BY <1>0
  <1>m. Len(results) = at - 1 => m = Len(results) + 1
    BY <1>0
  <1>k. UNCHANGED <<in, results>> => ResultsExact'
    <2> SUFFICES ASSUME UNCHANGED <<in, results>> PROVE ResultsExact'
      OBVIOUS
    <2>1. \A a : Exactly(a)' = Exactly(a)
      BY DEF Exactly, ClaimNothing, IsBest, ByWalk, g
    <2> QED
      BY <1>0, <2>1 DEF ResultsExact
  <1>1. CASE Anchor
    <2>1. stage = "anchor" /\ at <= Len(in.anchors) /\ UNCHANGED in /\ Len(results) = at - 1
      BY <1>1 DEF Anchor, ExactInv
    <2>2. CASE in.anchors[at] \in g.nodes
      <3>1. /\ stage' = "walk" /\ anchor' = in.anchors[at] /\ UNCHANGED <<at, results>>
        BY <1>1, <2>2 DEF Anchor, Begin
      <3> QED
        BY <1>k, <2>1, <2>2, <3>1 DEF ExactInv, g
    <2>3. CASE in.anchors[at] \notin g.nodes
      <3>1. in.anchors[at] \in Object
        BY <1>0, <2>1, AnchorsTyped
      <3> PICK r \in Result : r = [anchor |-> in.anchors[at], affected |-> {},
                                   unknown |-> {}]
        BY <3>1 DEF Result
      <3>2. stage' = "anchor" /\ at' = m + 1 /\ results' = Append(results, r)
        BY <1>1, <2>1, <2>3 DEF Anchor
      <3>3. r = Exactly(in.anchors[m])
        BY <2>3 DEF Exactly
      <3>4. Len(results') = m /\ ResultsExact'
        BY <1>0, <1>m, <2>1, <3>2, <3>3, ExactStays
      <3> QED
        BY <3>2, <3>4 DEF ExactInv
    <2> QED
      BY <2>2, <2>3
  <1>2. CASE Walk
    <2>1. UNCHANGED <<in, stage, at, results, anchor>>
      BY <1>2 DEF Walk, impactVars, Pop, Relax
    <2> QED
      BY <1>k, <2>1 DEF ExactInv, g
  <1>3. CASE EndWalk
    <2>1. /\ stage = "walk" /\ Walked /\ stage' = "anchor" /\ UNCHANGED in
          /\ anchor = in.anchors[at] /\ anchor \in g.nodes /\ Len(results) = at - 1
      BY <1>3 DEF EndWalk, ExactInv
    <2>2. [anchor |-> anchor, affected |-> Affected(g), unknown |-> unknown] \in Result
      <3>1. anchor \in Object /\ unknown \in SUBSET Edge
        BY <1>0, <2>1, CaseFields DEF AtHand, TypeOK, WalkTypeOK
      <3>2. Affected(g) \in SUBSET [object : Object, hops : Nat, conf : Lineage]
        BY <1>0, AffectedTyped DEF TypeOK
      <3> QED
        BY <3>1, <3>2 DEF Result
    <2> PICK r \in Result : r = [anchor |-> anchor, affected |-> Affected(g),
                                 unknown |-> unknown]
      BY <2>2
    <2>3. at' = m + 1 /\ results' = Append(results, r)
      BY <1>3 DEF EndWalk
    <2>4. r = Exactly(in.anchors[m])
      <3>1. Affected(g) = Exactly(anchor).affected /\ unknown = ClaimNothing(anchor)
        BY <2>1, AffectedExact, UnknownExact
      <3>2. Exactly(anchor) = [anchor   |-> anchor,
                               affected |-> Exactly(anchor).affected,
                               unknown  |-> ClaimNothing(anchor)]
        BY <2>1 DEF Exactly
      <3> QED
        BY <2>1, <3>1, <3>2
    <2>5. Len(results') = m /\ ResultsExact'
      BY <1>0, <1>m, <2>1, <2>3, <2>4, ExactStays
    <2> QED
      BY <2>1, <2>3, <2>5 DEF ExactInv
  <1>4. CASE UNCHANGED <<in, results>> /\ stage' \notin {"anchor", "walk"}
    BY <1>k, <1>4 DEF ExactInv
  <1>5. CASE EndAnchors \/ Predict \/ EndPredict \/ NextResult \/ MergeNode \/ MergeUnknown
    BY <1>4, <1>5 DEF EndAnchors, Predict, EndPredict, NextResult, MergeNode, MergeUnknown,
       impactVars
  <1>6. CASE EndMerge \/ EndResults \/ Plan \/ RunGate \/ Order \/ PeelNext \/ EndOrder
    BY <1>4, <1>6 DEF EndMerge, EndResults, Plan, RunGate, Order, PeelNext, EndOrder,
       impactVars
  <1>7. CASE UNCHANGED vars
    <2>1. UNCHANGED <<in, results, stage, at, anchor>>
      BY <1>7 DEF vars, impactVars, walkVars
    <2> QED
      BY <1>k, <2>1 DEF ExactInv, g
  <1> QED
    BY <1>1, <1>2, <1>3, <1>5, <1>6, <1>7 DEF Next

(* Whatever the graph, the limit and the order the edges come in: the      *)
(* result of an anchor is the one the graph, the limit and the anchor      *)
(* determine.                                                              *)
THEOREM ResultsAreExact == Spec => []ResultsExact
  <1>1. Init => ExactInv
    <2> SUFFICES ASSUME Init PROVE ExactInv
      OBVIOUS
    <2>1. Len(results) = 0 /\ at = 1 /\ stage # "walk"
      BY EmptySeq DEF Init
    <2> QED
      BY <2>1 DEF ExactInv, ResultsExact
  <1>2. ExactInv => ResultsExact
    BY DEF ExactInv
  <1> QED
    BY <1>1, <1>2, ExactNext, EdgeHolds, PTL DEF Spec

-----------------------------------------------------------------------------
(* From the anchors to the decision.  The result of an anchor has all that *)
(* a walk from it leads to.                                                *)
FoundAll(i) ==
    LET a == in.anchors[i]
    IN \A n \in g.nodes, k \in 1 .. in.limit : \A s \in [1 .. k -> g.edges] :
          a \in g.nodes \ {n} /\ IsWalk(g, a, s, k) /\ EndOf(a, s, k) = n
             => \E x \in results[i].affected : x.object = n

ResultsInv ==
    in.call = "predict" =>
        /\ stage \in {"anchor", "walk"} =>
              Len(results) = at - 1 /\ at <= Len(in.anchors) + 1
        /\ stage = "walk" => at <= Len(in.anchors) /\ anchor = in.anchors[at]
        /\ stage \notin {"anchor", "walk"} => Len(results) = Len(in.anchors)
        /\ \A i \in 1 .. Len(results) : FoundAll(i)

LEMMA WalkFindsAll ==
    ASSUME TypeOK, AtHand, WalkInv, stage = "walk", Walked,
           NEW n \in g.nodes, n # anchor, NEW k \in 1 .. in.limit,
           NEW s \in [1 .. k -> g.edges], IsWalk(g, anchor, s, k), EndOf(anchor, s, k) = n
    PROVE  \E x \in Affected(g) : x.object = n
  <1>0. in \in Case /\ n \in Object /\ in.limit \in Nat /\ WalkTypeOK(g)
    BY CaseFields DEF TypeOK
  <1>1. Unknown \in Lineage
    BY DEF Lineage, Unknown, Exact
  <1>2. HasConfidence(s, k, Unknown)
    <2> SUFFICES ASSUME NEW i \in 1 .. k PROVE AsLineage(s[i].level) >= Unknown
      BY DEF HasConfidence
    <2>1. AsLineage(s[i].level) \in Lineage
      BY <1>0, EdgeTyped
    <2> QED
      BY <2>1 DEF Lineage, Unknown, Exact
  <1>3. Reached(n, Unknown, k) /\ k \in 0 .. in.limit
    BY <1>0, <1>2 DEF Reached
  <1>4. Covers(n, Unknown, k)
    BY <1>0, <1>1, <1>3, AllCovered
  <1>5. best[n].conf # Unseen
    BY <1>0, <1>4, MarkTyped DEF Covers, Unseen, Lineage, Unknown, Exact
  <1>6. [object |-> n, hops |-> best[n].hops, conf |-> best[n].conf] \in Affected(g)
    BY <1>5 DEF Affected
  <1> QED
    BY <1>6

(* One more result: what the others have stays.                            *)
LEMMA FoundStays ==
    ASSUME in \in Case, NEW r, results \in Seq(Result), r \in Result,
           results' = Append(results, r), UNCHANGED in,
           \A i \in 1 .. Len(results) : FoundAll(i),
           NEW m \in Nat, m = Len(results) + 1, FoundAll(m)'
    PROVE  Len(results') = m /\ \A i \in 1 .. Len(results') : FoundAll(i)'
  <1>1. /\ Len(results) \in Nat /\ Len(results') = m
        /\ \A i \in 1 .. Len(results) : results'[i] = results[i]
    BY AppendProperties, LenProperties
  <1>2. ASSUME NEW i \in 1 .. Len(results) PROVE FoundAll(i)'
    <2>1. FoundAll(i) /\ results'[i] = results[i] /\ g' = g
      BY <1>1 DEF g
    <2> QED
      BY <2>1 DEF FoundAll
  <1> QED
    BY <1>1, <1>2

LEMMA ResultsNext ==
    TypeOK /\ AtHand /\ WalkInv /\ Shape /\ ResultsInv /\ [Next]_vars => ResultsInv'
  <1> SUFFICES ASSUME TypeOK, AtHand, WalkInv, Shape, ResultsInv, [Next]_vars,
                      in'.call = "predict"
               PROVE  ResultsInv'
    BY DEF ResultsInv
  <1>0. /\ in \in Case /\ at \in Nat \ {0} /\ results \in Seq(Result)
        /\ Len(in.anchors) \in Nat /\ Len(results) \in Nat
    BY CaseFields, LenProperties DEF TypeOK
  <1>1. CASE Anchor
    <2>1. /\ stage = "anchor" /\ at <= Len(in.anchors) /\ UNCHANGED in
          /\ Len(results) = at - 1 /\ \A i \in 1 .. Len(results) : FoundAll(i)
      BY <1>1 DEF Anchor, ResultsInv
    <2>2. CASE in.anchors[at] \in g.nodes
      <3>1. stage' = "walk" /\ anchor' = in.anchors[at] /\ UNCHANGED <<at, results>>
        BY <1>1, <2>2 DEF Anchor, Begin
      <3>2. \A i \in 1 .. Len(results) : FoundAll(i)'
        BY <2>1, <3>1 DEF FoundAll, g
      <3> QED
        BY <1>0, <2>1, <3>1, <3>2 DEF ResultsInv
    <2>3. CASE in.anchors[at] \notin g.nodes
      <3>1. in.anchors[at] \in Object
        BY <1>0, <2>1, AnchorsTyped
      <3> PICK r \in Result : r = [anchor |-> in.anchors[at], affected |-> {},
                                   unknown |-> {}]
        BY <3>1 DEF Result
      <3> PICK m \in Nat : m = at
        BY <1>0
      <3>2. stage' = "anchor" /\ at' = m + 1 /\ results' = Append(results, r)
        BY <1>1, <2>1, <2>3 DEF Anchor
      <3>3. FoundAll(m)'
        BY <2>1, <2>3 DEF FoundAll, g
      <3>4. Len(results') = m /\ \A i \in 1 .. Len(results') : FoundAll(i)'
        BY <1>0, <2>1, <3>2, <3>3, FoundStays
      <3> QED
        BY <1>0, <2>1, <3>2, <3>4 DEF ResultsInv
    <2> QED
      BY <2>2, <2>3
  <1>2. CASE Walk
    <2>1. UNCHANGED <<in, stage, at, results, anchor>> /\ stage = "walk"
      BY <1>2 DEF Walk, impactVars, Pop, Relax
    <2> QED
      BY <2>1 DEF ResultsInv, FoundAll, g
  <1>3. CASE EndWalk
    <2>1. /\ stage = "walk" /\ Walked /\ stage' = "anchor" /\ UNCHANGED in
          /\ at <= Len(in.anchors) /\ anchor = in.anchors[at]
          /\ Len(results) = at - 1 /\ \A i \in 1 .. Len(results) : FoundAll(i)
      BY <1>3 DEF EndWalk, ResultsInv
    <2>2. [anchor |-> anchor, affected |-> Affected(g), unknown |-> unknown] \in Result
      <3>1. anchor \in Object /\ unknown \in SUBSET Edge
        BY <1>0, <2>1, CaseFields DEF AtHand, TypeOK, WalkTypeOK
      <3>2. Affected(g) \in SUBSET [object : Object, hops : Nat, conf : Lineage]
        BY <1>0, AffectedTyped DEF TypeOK
      <3> QED
        BY <3>1, <3>2 DEF Result
    <2> PICK r \in Result : /\ r = [anchor |-> anchor, affected |-> Affected(g),
                                    unknown |-> unknown]
                            /\ r.affected = Affected(g)
      BY <2>2
    <2> PICK m \in Nat : m = at
      BY <1>0
    <2>3. at' = m + 1 /\ results' = Append(results, r)
      BY <1>3 DEF EndWalk
    <2>4. results'[m] = r
      BY <1>0, <2>1, <2>3, AppendProperties
    <2>5. FoundAll(m)'
      <3> SUFFICES ASSUME NEW n \in g.nodes, NEW k \in 1 .. in.limit,
                          NEW s \in [1 .. k -> g.edges], n # anchor,
                          IsWalk(g, anchor, s, k), EndOf(anchor, s, k) = n
                   PROVE  \E x \in r.affected : x.object = n
        BY <2>1, <2>4 DEF FoundAll, g
      <3> QED
        BY <2>1, WalkFindsAll
    <2>6. Len(results') = m /\ \A i \in 1 .. Len(results') : FoundAll(i)'
      BY <1>0, <2>1, <2>3, <2>5, FoundStays
    <2> QED
      BY <1>0, <2>1, <2>3, <2>6 DEF ResultsInv
  <1>4. CASE EndAnchors
    <2>1. /\ UNCHANGED <<in, results>> /\ stage = "anchor" /\ at > Len(in.anchors)
          /\ stage' = "predict"
      BY <1>4 DEF EndAnchors
    <2>2. Len(results) = Len(in.anchors)
      BY <1>0, <2>1 DEF ResultsInv
    <2> QED
      BY <2>1, <2>2 DEF ResultsInv, FoundAll, g
  <1>5. CASE Predict \/ EndPredict \/ NextResult \/ MergeNode \/ MergeUnknown \/ EndMerge
    <2>1. /\ UNCHANGED <<in, results>> /\ stage \notin {"anchor", "walk"}
          /\ stage' \notin {"anchor", "walk"}
      BY <1>5 DEF Predict, EndPredict, NextResult, MergeNode, MergeUnknown, EndMerge,
         impactVars
    <2> QED
      BY <2>1 DEF ResultsInv, FoundAll, g
  <1>6. CASE EndResults \/ Plan \/ RunGate \/ Order \/ PeelNext \/ EndOrder
    <2>1. /\ UNCHANGED <<in, results>> /\ stage \notin {"anchor", "walk"}
          /\ stage' \notin {"anchor", "walk"}
      BY <1>6 DEF EndResults, Plan, RunGate, Order, PeelNext, EndOrder, impactVars
    <2> QED
      BY <2>1 DEF ResultsInv, FoundAll, g
  <1>7. CASE UNCHANGED vars
    <2>1. UNCHANGED <<in, results, stage, at, anchor>>
      BY <1>7 DEF vars, impactVars, walkVars
    <2> QED
      BY <2>1 DEF ResultsInv, FoundAll, g
  <1> QED
    BY <1>1, <1>2, <1>3, <1>4, <1>5, <1>6, <1>7 DEF Next

-----------------------------------------------------------------------------
(* The gate decides on what the prediction lists in the end.               *)
DecisionInv ==
    /\ IsFiniteSet(DOMAIN lineage)
    /\ in.call = "predict" /\ stage = "done" =>
          decision.policy \in Policies /\ decision.failures = Failures(decision.policy)

LEMMA DecisionNext ==
    TypeOK /\ Shape /\ DecisionInv /\ [Next]_vars => DecisionInv'
  <1> SUFFICES ASSUME TypeOK, Shape, DecisionInv, [Next]_vars PROVE DecisionInv'
    OBVIOUS
  <1>0. IsFiniteSet(DOMAIN lineage) /\ in \in Case
    BY DEF DecisionInv, TypeOK
  <1>1. CASE MergeNode
    <2> PICK x \in nodes : \/ Unresolved(x)
                           \/ Resolved(x, in.meta[x.object])
      BY <1>1 DEF MergeNode
    <2>1. stage' # "done"
      BY <1>1 DEF MergeNode, impactVars
    <2>2. CASE UNCHANGED lineage
      BY <1>0, <2>1, <2>2 DEF DecisionInv
    <2>3. ASSUME NEW row, Keep(row) PROVE DecisionInv'
      <3>1. DOMAIN lineage' = DOMAIN lineage \cup {row.key}
        BY <2>3, KeepShape
      <3>2. IsFiniteSet(DOMAIN lineage \cup {row.key})
        BY <1>0, FS_AddElement
      <3> QED
        BY <2>1, <3>1, <3>2 DEF DecisionInv
    <2> QED
      BY <2>2, <2>3 DEF Unresolved, Resolved
  <1>2. CASE RunGate
    <2> PICK p \in Policies : decision' = [policy |-> p, failures |-> Failures(p)]
      BY <1>2 DEF RunGate
    <2>1. UNCHANGED <<direct, lineage, unc>>
      BY <1>2 DEF RunGate, predictVars
    <2>2. Failures(p)' = Failures(p)
      BY <2>1 DEF Failures, RowCount, AllKeys, Levels
    <2> QED
      BY <1>0, <2>1, <2>2 DEF DecisionInv, Failures
  <1>3. CASE UNCHANGED lineage /\ (in'.call = "predict" => stage' # "done")
    BY <1>0, <1>3 DEF DecisionInv
  <1>4. CASE Anchor \/ Walk \/ EndWalk \/ EndAnchors \/ Predict \/ EndPredict
    BY <1>3, <1>4 DEF Anchor, Walk, EndWalk, EndAnchors, Predict, EndPredict, impactVars,
       predictVars, PredictObject, Finish
  <1>5. CASE NextResult \/ MergeUnknown \/ EndMerge \/ EndResults \/ Plan
    BY <1>3, <1>5 DEF NextResult, MergeUnknown, EndMerge, EndResults, Plan, impactVars,
       predictVars, MergeEdge, Finish
  <1>6. CASE Order \/ PeelNext \/ EndOrder
    <2>1. UNCHANGED <<in, lineage>> /\ in.call # "predict"
      BY <1>6 DEF Order, PeelNext, EndOrder, impactVars, predictVars, Shape
    <2> QED
      BY <1>3, <2>1
  <1>7. CASE UNCHANGED vars
    <2>1. UNCHANGED <<in, stage, decision, direct, lineage, unc>>
      BY <1>7 DEF vars, impactVars, endVars, predictVars
    <2> QED
      BY <2>1 DEF DecisionInv, Failures, RowCount, AllKeys, Levels
  <1> QED
    BY <1>1, <1>2, <1>4, <1>5, <1>6, <1>7 DEF Next

(* A sequence of rows has no more keys than it is long.                    *)
LEMMA KeysCounted ==
    ASSUME NEW s \in Seq(Row)
    PROVE  IsFiniteSet(KeysOf(s)) /\ Cardinality(KeysOf(s)) <= Len(s)
  <1>1. KeysOf(s) = {s[i].key : i \in 1 .. Len(s)} /\ Len(s) \in Nat
    BY KeysTyped, LenProperties
  <1> DEFINE f == [i \in 1 .. Len(s) |-> s[i].key]
  <1>2. f \in Surjection(1 .. Len(s), KeysOf(s))
    BY <1>1 DEF Surjection
  <1>3. IsFiniteSet(1 .. Len(s)) /\ Cardinality(1 .. Len(s)) = Len(s)
    BY <1>1, FS_Interval
  <1> HIDE DEF f
  <1> QED
    BY <1>2, <1>3, FS_Surjection

LEMMA AllKeysCounted ==
    ASSUME PredictTypeOK, IsFiniteSet(DOMAIN lineage), NEW T \in SUBSET AllKeys
    PROVE  Cardinality(T) <= RowCount /\ Cardinality(T) \in Nat /\ RowCount \in Nat
  <1> DEFINE K == KeysOf(direct)
             D == DOMAIN lineage
  <1>1. IsFiniteSet(K) /\ Cardinality(K) <= Len(direct) /\ Len(direct) \in Nat
    BY KeysCounted, LenProperties DEF PredictTypeOK
  <1>2. /\ IsFiniteSet(K \cup D)
        /\ Cardinality(K \cup D) = Cardinality(K) + Cardinality(D) - Cardinality(K \cap D)
    BY <1>1, FS_Union
  <1>3. Cardinality(K) \in Nat /\ Cardinality(D) \in Nat /\ Cardinality(K \cap D) \in Nat
    <2>1. IsFiniteSet(K \cap D)
      BY <1>1, FS_Subset
    <2> QED
      BY <1>1, <2>1, FS_CardinalityType
  <1>4. IsFiniteSet(T) /\ Cardinality(T) <= Cardinality(K \cup D)
    BY <1>2, FS_Subset DEF AllKeys
  <1>5. Cardinality(T) \in Nat
    BY <1>4, FS_CardinalityType
  <1>6. RowCount = Len(direct) + Cardinality(D)
    BY DEF RowCount
  <1> HIDE DEF K, D
  <1> QED
    BY <1>1, <1>2, <1>3, <1>4, <1>5, <1>6

LEMMA DecisionHolds == Spec => [](ResultsInv /\ DecisionInv)
  <1>1. Init => ResultsInv /\ DecisionInv
    <2> SUFFICES ASSUME Init PROVE ResultsInv /\ DecisionInv
      OBVIOUS
    <2>1. Len(results) = 0 /\ at = 1 /\ DOMAIN lineage = {}
      BY EmptySeq DEF Init, PredictParked
    <2>2. in.call = "predict" => stage = "anchor"
      BY DEF Init
    <2>3. in.call = "predict" => Len(in.anchors) \in Nat
      BY CasesAssumption, CaseFields, LenProperties DEF Init
    <2> QED
      BY <2>1, <2>2, <2>3, FS_EmptySet DEF ResultsInv, DecisionInv
  <1>2. MergeInv => Shape
    BY DEF MergeInv
  <1> QED
    BY <1>1, <1>2, ResultsNext, DecisionNext, WalkHolds, MergeHolds, PTL DEF Spec

(* Whatever the graph, the changes and the policy: what the gate allows    *)
(* leaves nothing out that a walk within the limit leads to.               *)
THEOREM AllowedMeansExplained == Spec => []AllowedIsExplained
  <1>1. TypeOK /\ MergeInv /\ ResultsInv /\ DecisionInv => AllowedIsExplained
    <2> SUFFICES ASSUME TypeOK, MergeInv, ResultsInv, DecisionInv, stage = "done",
                        in.call = "predict", decision.failures = {}
                 PROVE  AllowedIsExplained
      BY DEF AllowedIsExplained
    <2> DEFINE known == {n \in Reachable : in.meta[n] # None}
    <2> PICK p \in Policies : p = decision.policy
      BY DEF DecisionInv
    <2>1. Failures(p) = {} /\ p \in Policy
      BY PoliciesAssumption DEF DecisionInv
    <2>2. ASSUME NEW n \in Reachable
          PROVE  \E i \in DOMAIN results : \E x \in results[i].affected : x.object = n
      <3>1. n \in g.nodes
        BY <2>2 DEF Reachable
      <3> PICK i \in DOMAIN in.anchors, k \in 1 .. in.limit :
           \E s \in [1 .. k -> g.edges] :
             /\ in.anchors[i] \in g.nodes \ {n}
             /\ IsWalk(g, in.anchors[i], s, k) /\ EndOf(in.anchors[i], s, k) = n
        BY <2>2 DEF Reachable
      <3>2. i \in 1 .. Len(results) /\ i \in DOMAIN results
        BY CaseFields, LenProperties DEF ResultsInv, TypeOK
      <3> QED
        BY <3>1, <3>2 DEF ResultsInv, FoundAll
    <2>3. ASSUME NEW n \in Reachable
          PROVE  IF in.meta[n] = None
                 THEN Noted("MissingCatalogObject", n)
                 ELSE in.meta[n] \in AllKeys
      <3>1. NoSilentLoss
        BY NoLossFromMerge
      <3> QED
        BY <2>2, <2>3, <3>1 DEF NoSilentLoss, Predicted
    <2>4. \A n \in known : in.meta[n].type \notin p.kinds
      BY <2>1, <2>3 DEF Failures
    <2>5. p.cap # None => Cardinality({in.meta[n] : n \in known}) <= p.cap
      <3>1. {in.meta[n] : n \in known} \in SUBSET AllKeys
        BY <2>3
      <3>2. PredictTypeOK /\ IsFiniteSet(DOMAIN lineage)
        BY DEF TypeOK, DecisionInv
      <3>3. /\ Cardinality({in.meta[n] : n \in known}) <= RowCount
            /\ Cardinality({in.meta[n] : n \in known}) \in Nat
            /\ RowCount \in Nat
        <4> HIDE DEF known
        <4> QED
          BY <3>1, <3>2, AllKeysCounted
      <3>4. p.cap # None => ~(RowCount > p.cap) /\ p.cap \in Nat
        BY <2>1 DEF Failures, Policy
      <3> QED
        BY <3>3, <3>4
    <2>6. "MissingCatalogObject" \in p.reasons => known = Reachable
      <3> SUFFICES ASSUME "MissingCatalogObject" \in p.reasons, NEW n \in Reachable,
                          in.meta[n] = None
                   PROVE  FALSE
        OBVIOUS
      <3> PICK i \in DOMAIN unc : unc[i].reason = "MissingCatalogObject"
        BY <2>3 DEF Noted
      <3> QED
        BY <2>1 DEF Failures
    <2> QED
      BY <2>4, <2>5, <2>6 DEF AllowedIsExplained
  <1> QED
    BY <1>1, TypeCorrect, MergeHolds, DecisionHolds, PTL
-----------------------------------------------------------------------------
(* Every step leaves less of a call.  The loops are over what is finite,   *)
(* and the counters do not run past it.                                    *)
Bounded ==
    /\ IsFiniteSet(g.nodes) /\ IsFiniteSet(g.edges)
    /\ stage = "anchor" => at <= Len(in.anchors) + 1
    /\ stage = "walk" => at <= Len(in.anchors)
    /\ stage = "predict" => at <= Len(in.changes) + 1
    /\ stage \in {"result", "merge"} => at <= Len(results) + 1
    /\ inSet \subseteq g.nodes

Below == {p \in Nat \X Nat : p[1] < p[2]}

Fewer == LexProductOrdering(Below, Nat, 6)

Ranked == Rank \in [1 .. 6 -> Nat]

Falls == <<Rank', Rank>> \in Fewer

LEMMA BoundedInit == Init => Bounded
  <1> SUFFICES ASSUME Init PROVE Bounded
    OBVIOUS
  <1>1. /\ in \in Impacts \cup Orders \cup Predictions /\ in \in Case
        /\ at = 1 /\ stage \in {"anchor", "order"} /\ inSet = {}
    BY CasesAssumption DEF Init, OrderParked
  <1>2. Len(in.anchors) \in Nat
    BY <1>1, CaseFields, LenProperties
  <1> QED
    BY <1>1, <1>2, FiniteAssumption DEF Bounded, g

LEMMA BoundedNext == TypeOK /\ Bounded /\ [Next]_vars => Bounded'
  <1> SUFFICES ASSUME TypeOK, Bounded, [Next]_vars PROVE Bounded'
    OBVIOUS
  <1>0. /\ in \in Case /\ at \in Nat \ {0} /\ Len(in.anchors) \in Nat
        /\ Len(in.changes) \in Nat /\ Len(results) \in Nat
        /\ IsFiniteSet(g.nodes) /\ IsFiniteSet(g.edges) /\ inSet \subseteq g.nodes
    BY CaseFields, ChangesTyped, LenProperties DEF TypeOK, Bounded
  <1>1. CASE Anchor
    BY <1>0, <1>1 DEF Anchor, Bounded, orderVars, g
  <1>2. CASE Walk
    BY <1>0, <1>2 DEF Walk, Bounded, impactVars, orderVars, g
  <1>3. CASE EndWalk
    BY <1>0, <1>3 DEF EndWalk, Bounded, orderVars, g
  <1>4. CASE EndAnchors
    BY <1>0, <1>4 DEF EndAnchors, Bounded, orderVars, g
  <1>5. CASE Predict \/ EndPredict
    BY <1>0, <1>5 DEF Predict, EndPredict, Bounded, orderVars, g
  <1>6. CASE NextResult \/ MergeNode \/ MergeUnknown \/ EndMerge
    BY <1>0, <1>6 DEF NextResult, MergeNode, MergeUnknown, EndMerge, Bounded, impactVars,
       orderVars, g
  <1>7. CASE EndResults \/ Plan \/ RunGate
    BY <1>0, <1>7 DEF EndResults, Plan, RunGate, Bounded, orderVars, g
  <1>8. CASE Order
    BY <1>0, <1>8 DEF Order, StartOrder, Bounded, g
  <1>9. CASE PeelNext \/ EndOrder
    BY <1>0, <1>9 DEF PeelNext, EndOrder, Peel, Bounded, impactVars, orderVars, g
  <1>10. CASE UNCHANGED vars
    BY <1>0, <1>10 DEF vars, Bounded, impactVars, orderVars, g
  <1> QED
    BY <1>1, <1>2, <1>3, <1>4, <1>5, <1>6, <1>7, <1>8, <1>9, <1>10 DEF Next

LEMMA UpToFinite == IsFiniteSet(Lineage) /\ \A k \in Nat : IsFiniteSet(0 .. k)
  <1>1. \A a, b \in Int : IsFiniteSet(a .. b)
    BY FS_Interval
  <1>2. Lineage = 0 .. 2
    BY DEF Lineage, Unknown, Exact
  <1>3. 0 \in Int /\ 2 \in Int /\ \A k \in Nat : k \in Int
    OBVIOUS
  <1>4. IsFiniteSet(Lineage)
    BY ONLY <1>1, <1>2, <1>3, Zenon
  <1>5. \A k \in Nat : IsFiniteSet(0 .. k)
    BY ONLY <1>1, <1>3, Zenon
  <1> QED
    BY <1>4, <1>5

LEMMA UnraisedFinite ==
    ASSUME IsFiniteSet(g.edges) PROVE IsFiniteSet(Unraised)
  <1> DEFINE f == [e \in g.edges |-> e.from]
             T == {e.from : e \in g.edges}
  <1>1. f \in Surjection(g.edges, T)
    BY DEF Surjection
  <1> HIDE DEF f
  <1>2. IsFiniteSet(T)
    BY <1>1, FS_Surjection
  <1>3. IsFiniteSet(Lineage)
    BY UpToFinite
  <1>4. IsFiniteSet(T \X Lineage)
    BY <1>2, <1>3, FS_Product
  <1>5. Unraised \subseteq T \X Lineage
    BY DEF Unraised
  <1> HIDE DEF T
  <1> QED
    BY <1>4, <1>5, FS_Subset

(* What the results list is part of the graph.                             *)
LEMMA ListedFinite ==
    ASSUME TypeOK, Bounded, ResultsExact
    PROVE  IsFiniteSet(nodes) /\ IsFiniteSet(edges)
  <1>0. in.limit \in Nat /\ DOMAIN results = 1 .. Len(results)
    BY CaseFields, LenProperties DEF TypeOK
  <1> DEFINE P == (g.nodes \X (0 .. in.limit)) \X Lineage
             A == [object : g.nodes, hops : 0 .. in.limit, conf : Lineage]
             f == [p \in P |-> [object |-> p[1][1], hops |-> p[1][2], conf |-> p[2]]]
  <1>1. f \in Surjection(P, A)
    <2>1. f \in [P -> A]
      OBVIOUS
    <2>2. ASSUME NEW x \in A PROVE \E p \in P : f[p] = x
      <3>1. <<<<x.object, x.hops>>, x.conf>> \in P
        OBVIOUS
      <3>2. f[<<<<x.object, x.hops>>, x.conf>>] = x
        BY <3>1
      <3> QED
        BY <3>1, <3>2
    <2> HIDE DEF f, A, P
    <2> QED
      BY <2>1, <2>2 DEF Surjection
  <1>2. IsFiniteSet(P)
    <2>1. IsFiniteSet(0 .. in.limit) /\ IsFiniteSet(Lineage)
      BY <1>0, UpToFinite
    <2>2. IsFiniteSet(g.nodes \X (0 .. in.limit))
      BY <2>1, FS_Product DEF Bounded
    <2> QED
      BY <2>1, <2>2, FS_Product
  <1> HIDE DEF f, P
  <1>3. IsFiniteSet(A)
    BY <1>1, <1>2, FS_Surjection
  <1>4. ASSUME NEW i \in DOMAIN results
        PROVE  results[i].affected \subseteq A /\ results[i].unknown \subseteq g.edges
    <2>1. results[i] = Exactly(in.anchors[i])
      BY <1>0, <1>4 DEF ResultsExact
    <2> QED
      BY <2>1 DEF Exactly, ClaimNothing
  <1> HIDE DEF A
  <1>5. nodes \subseteq A /\ edges \subseteq g.edges
    BY <1>4 DEF TypeOK
  <1> QED
    BY <1>3, <1>5, FS_Subset DEF Bounded

LEMMA LoopsFinite ==
    ASSUME TypeOK, Bounded, ResultsExact
    PROVE  /\ IsFiniteSet(Unraised) /\ Cardinality(Unraised) \in Nat
           /\ IsFiniteSet(pending) /\ Cardinality(pending) \in Nat
           /\ IsFiniteSet(nodes) /\ Cardinality(nodes) \in Nat
           /\ IsFiniteSet(edges) /\ Cardinality(edges) \in Nat
           /\ IsFiniteSet(Remaining) /\ Cardinality(Remaining) \in Nat
           /\ Len(queue) \in Nat
  <1>1. IsFiniteSet(Unraised)
    BY UnraisedFinite DEF Bounded
  <1>2. IsFiniteSet(pending)
    BY FS_Subset DEF TypeOK, WalkTypeOK, Bounded
  <1>3. IsFiniteSet(nodes) /\ IsFiniteSet(edges)
    BY ListedFinite
  <1>4. IsFiniteSet(Remaining)
    <2>1. Remaining \subseteq g.nodes
      BY DEF Remaining, Bounded
    <2> QED
      BY <2>1, FS_Subset DEF Bounded
  <1>5. Len(queue) \in Nat
    BY LenProperties DEF TypeOK, WalkTypeOK
  <1> QED
    BY <1>1, <1>2, <1>3, <1>4, <1>5, FS_CardinalityType

LEMMA RankIs ==
    /\ Rank[1] = Phase[stage] /\ Rank[2] = Left
    /\ Rank[3] = IF stage \in {"anchor", "merge"} THEN 1 ELSE 0
    /\ Rank[4] = Outer /\ Rank[5] = Inner /\ Rank[6] = Innermost
    /\ Rank'[1] = Phase[stage'] /\ Rank'[2] = Left'
    /\ Rank'[3] = IF stage' \in {"anchor", "merge"} THEN 1 ELSE 0
    /\ Rank'[4] = Outer' /\ Rank'[5] = Inner' /\ Rank'[6] = Innermost'
  BY DEF Rank, Phase

LEMMA PhaseIs ==
    /\ Phase["anchor"] = 5 /\ Phase["walk"] = 5 /\ Phase["predict"] = 4
    /\ Phase["result"] = 3 /\ Phase["merge"] = 3 /\ Phase["plan"] = 2
    /\ Phase["gate"] = 1 /\ Phase["order"] = 2 /\ Phase["peel"] = 1 /\ Phase["done"] = 0
  BY DEF Phase

LEMMA RankTyped == TypeOK /\ Bounded /\ ResultsExact => Rank \in [1 .. 6 -> Nat]
  <1> SUFFICES ASSUME TypeOK, Bounded, ResultsExact PROVE Rank \in [1 .. 6 -> Nat]
    OBVIOUS
  <1>0. /\ at \in Nat \ {0} /\ Len(in.anchors) \in Nat /\ stage \in Stage
        /\ Len(in.changes) \in Nat /\ Len(results) \in Nat
    BY CaseFields, ChangesTyped, LenProperties DEF TypeOK
  <1>1. Phase[stage] \in Nat
    BY <1>0, PhaseIs DEF Stage
  <1>2. Left \in Nat
    <2>1. CASE stage \in {"anchor", "walk"}
      BY <1>0, <2>1 DEF Left, Bounded
    <2>2. CASE stage = "predict"
      BY <1>0, <2>2 DEF Left, Bounded
    <2>3. CASE stage \in {"result", "merge"}
      BY <1>0, <2>3 DEF Left, Bounded
    <2>4. CASE stage \in {"peel", "plan", "gate", "order", "done"}
      BY <2>4, LoopsFinite DEF Left
    <2> QED
      BY <1>0, <2>1, <2>2, <2>3, <2>4 DEF Stage
  <1>3. Outer \in Nat /\ Inner \in Nat /\ Innermost \in Nat
    <2>1. CASE stage = "walk"
      BY <2>1, LoopsFinite DEF Outer, Inner, Innermost
    <2>2. CASE stage = "merge"
      BY <2>2, LoopsFinite DEF Outer, Inner, Innermost
    <2>3. CASE stage \notin {"walk", "merge"}
      BY <2>3 DEF Outer, Inner, Innermost
    <2> QED
      BY <2>1, <2>2, <2>3
  <1>4. (IF stage \in {"anchor", "merge"} THEN 1 ELSE 0) \in Nat
    OBVIOUS
  <1> QED
    BY <1>1, <1>2, <1>3, <1>4 DEF Rank

LEMMA LessThan ==
    ASSUME NEW S, IsFiniteSet(S), NEW T \in SUBSET S, NEW x \in S \ T
    PROVE  Cardinality(T) < Cardinality(S)
  <1>1. Cardinality(T) <= Cardinality(S) /\ Cardinality(S) # Cardinality(T)
    BY FS_Subset
  <1>2. Cardinality(T) \in Nat /\ Cardinality(S) \in Nat
    BY FS_Subset, FS_CardinalityType
  <1> QED
    BY <1>1, <1>2

(* One pass of either loop: the inner one takes an edge from those at hand *)
(* or raises an object; the outer one takes an entry from the queue.       *)
LEMMA WalkCloser ==
    ASSUME TypeOK, AtHand, WalkInv, Bounded, ResultsExact, Walk
    PROVE  \E i \in 4 .. 6 : Rank'[i] < Rank[i] /\ \A j \in 1 .. i - 1 : Rank'[j] = Rank[j]
  <1>0. /\ in \in Case /\ WalkTypeOK(g) /\ g' = g /\ stage = "walk" /\ stage' = "walk"
        /\ UNCHANGED <<in, at>> /\ Left' = Left
    BY DEF Walk, TypeOK, impactVars, g, Left
  <1>1. Rank'[1] = Rank[1] /\ Rank'[2] = Rank[2] /\ Rank'[3] = Rank[3]
    BY <1>0, RankIs
  <1>2. /\ Rank[4] = Cardinality(Unraised) /\ Rank'[4] = Cardinality(Unraised')
        /\ Rank[5] = Len(queue) /\ Rank'[5] = Len(queue')
        /\ Rank[6] = Cardinality(pending) /\ Rank'[6] = Cardinality(pending')
    BY <1>0, RankIs DEF Outer, Inner, Innermost
  <1>3. CASE Pop(g, in.limit)
    <2>1. Unraised' = Unraised
      BY <1>0, <1>3 DEF Pop, Unraised
    <2>2. Len(queue') < Len(queue)
      <3>1. queue \in Seq(Visit) /\ queue # <<>> /\ queue' = Tail(queue)
        BY <1>0, <1>3 DEF Pop, Popped, WalkTypeOK
      <3>2. Len(Tail(queue)) = Len(queue) - 1 /\ Len(queue) \in Nat
        BY <3>1, HeadTailProperties, LenProperties
      <3> QED
        BY <3>1, <3>2
    <2>3. Rank'[5] < Rank[5] /\ \A j \in 1 .. 4 : Rank'[j] = Rank[j]
      BY <1>1, <1>2, <2>1, <2>2
    <2> QED
      BY <2>3
  <1>4. CASE Relax
    <2> PICK e \in pending :
          LET next == Weaker(cur.conf, AsLineage(e.level))
          IN /\ pending' = pending \ {e}
             /\ IF Improves(e.from, next)
                THEN best' = [best EXCEPT ![e.from] =
                                [conf |-> next, hops |-> cur.depth + 1]]
                ELSE UNCHANGED <<best, queue>>
      BY <1>4 DEF Relax
    <2>1. e \in g.edges /\ e.from \in Object /\ AsLineage(e.level) \in Lineage
          /\ cur.conf \in Lineage
      BY <1>0, EdgeTyped DEF AtHand, WalkTypeOK, Visit
    <2> PICK next \in Lineage : next = Weaker(cur.conf, AsLineage(e.level))
      BY <2>1, WeakerMonotone
    <2>2. CASE Improves(e.from, next)
      <3>1. /\ best'[e.from].conf = next /\ next > best[e.from].conf
            /\ \A n \in Object : n # e.from => best'[n] = best[n]
        BY <1>0, <2>1, <2>2 DEF Improves, WalkTypeOK
      <3>2. <<e.from, next>> \in Unraised /\ <<e.from, next>> \notin Unraised'
        BY <1>0, <2>1, <3>1 DEF Unraised, Lineage, Unknown, Exact
      <3>3. Unraised' \subseteq Unraised
        <4> SUFFICES ASSUME NEW x \in Unraised' PROVE x \in Unraised
          OBVIOUS
        <4>1. /\ x \in {f.from : f \in g.edges} \X Lineage
              /\ x[2] > best'[x[1]].conf
          BY <1>0 DEF Unraised
        <4>2. x[1] \in Object
          BY <1>0, <4>1, EdgeTyped
        <4>3. best[x[1]].conf \in {Unseen} \cup Lineage /\ x[2] \in Lineage
          BY <1>0, <4>1, <4>2, MarkTyped
        <4>4. x[2] > best[x[1]].conf
          BY <3>1, <4>1, <4>2, <4>3 DEF Lineage, Unseen, Unknown, Exact
        <4> QED
          BY <4>1, <4>4 DEF Unraised
      <3>4. Cardinality(Unraised') < Cardinality(Unraised)
        BY <3>2, <3>3, LoopsFinite, LessThan
      <3>5. Rank'[4] < Rank[4] /\ \A j \in 1 .. 3 : Rank'[j] = Rank[j]
        BY <1>1, <1>2, <3>4
      <3> QED
        BY <3>5
    <2>3. CASE ~Improves(e.from, next)
      <3>1. Unraised' = Unraised /\ queue' = queue
        BY <1>0, <2>3 DEF Unraised
      <3>2. Cardinality(pending') < Cardinality(pending)
        <4>1. pending' \in SUBSET pending /\ e \in pending \ pending'
          OBVIOUS
        <4> QED
          BY <4>1, LoopsFinite, LessThan
      <3>3. Rank'[6] < Rank[6] /\ \A j \in 1 .. 5 : Rank'[j] = Rank[j]
        BY <1>1, <1>2, <3>1, <3>2
      <3> QED
        BY <3>3
    <2> QED
      BY <2>2, <2>3
  <1> QED
    BY <1>3, <1>4 DEF Walk

(* A step of predict_with_lineage() takes a node or an edge from those     *)
(* still to be merged.                                                     *)
LEMMA MergeCloser ==
    ASSUME TypeOK, Bounded, ResultsExact, MergeNode \/ MergeUnknown
    PROVE  \E i \in 4 .. 5 : Rank'[i] < Rank[i] /\ \A j \in 1 .. i - 1 : Rank'[j] = Rank[j]
  <1>0. /\ stage = "merge" /\ stage' = "merge" /\ UNCHANGED <<at, results>>
        /\ Left' = Left
    BY DEF MergeNode, MergeUnknown, impactVars, Left
  <1>1. /\ Rank'[1] = Rank[1] /\ Rank'[2] = Rank[2] /\ Rank'[3] = Rank[3]
        /\ Rank[4] = Cardinality(nodes) /\ Rank'[4] = Cardinality(nodes')
        /\ Rank[5] = Cardinality(edges) /\ Rank'[5] = Cardinality(edges')
    BY <1>0, RankIs DEF Outer, Inner
  <1>2. CASE MergeNode
    <2> PICK x \in nodes : nodes' = nodes \ {x}
      BY <1>2 DEF MergeNode
    <2>1. nodes' \in SUBSET nodes /\ x \in nodes \ nodes'
      OBVIOUS
    <2>2. Rank'[4] < Rank[4] /\ \A j \in 1 .. 3 : Rank'[j] = Rank[j]
      BY <1>1, <2>1, LoopsFinite, LessThan
    <2> QED
      BY <2>2
  <1>3. CASE MergeUnknown
    <2> PICK e \in edges : edges' = edges \ {e}
      BY <1>3 DEF MergeUnknown
    <2>1. edges' \in SUBSET edges /\ e \in edges \ edges' /\ UNCHANGED nodes
      BY <1>3 DEF MergeUnknown
    <2>2. Rank'[5] < Rank[5] /\ \A j \in 1 .. 4 : Rank'[j] = Rank[j]
      BY <1>1, <2>1, LoopsFinite, LessThan
    <2> QED
      BY <2>2
  <1> QED
    BY <1>2, <1>3

LEMMA PeelCloser ==
    ASSUME TypeOK, Bounded, ResultsExact, OrderInv, PeelNext
    PROVE  Rank'[1] = Rank[1] /\ Rank'[2] < Rank[2]
  <1>0. stage = "peel" /\ stage' = "peel" /\ UNCHANGED inSet /\ OrderTypeOK
    BY DEF PeelNext, Peel, impactVars, TypeOK
  <1> PICK n \in ready : Release(n)
    BY DEF PeelNext, Peel
  <1>1. Remaining' \in SUBSET Remaining /\ n \in Remaining \ Remaining'
    <2>1. Peeled' = Peeled \cup {n} /\ n \in Remaining
      BY <1>0, PeeledGrows DEF OrderInv
    <2> QED
      BY <1>0, <2>1 DEF Remaining
  <1>2. Cardinality(Remaining') < Cardinality(Remaining)
    BY <1>1, LoopsFinite, LessThan
  <1>3. Left = Cardinality(Remaining) /\ Left' = Cardinality(Remaining')
    BY <1>0 DEF Left
  <1> QED
    BY <1>0, <1>2, <1>3, RankIs

LEMMA StepCloser ==
    TypeOK /\ AtHand /\ WalkInv /\ OrderInv /\ Bounded /\ ResultsExact /\ Next => Less
  <1> SUFFICES ASSUME TypeOK, AtHand, WalkInv, OrderInv, Bounded, ResultsExact, Next
               PROVE  \E i \in 1 .. 6 : /\ Rank'[i] < Rank[i]
                                        /\ \A j \in 1 .. i - 1 : Rank'[j] = Rank[j]
    BY DEF Less
  <1>0. /\ at \in Nat \ {0} /\ Len(in.anchors) \in Nat
        /\ Len(in.changes) \in Nat /\ Len(results) \in Nat
    BY CaseFields, ChangesTyped, LenProperties DEF TypeOK
  <1>f. Rank'[1] < Rank[1]
          => \E i \in 1 .. 6 : Rank'[i] < Rank[i] /\ \A j \in 1 .. i - 1 : Rank'[j] = Rank[j]
    <2>1. \A j \in 1 .. 1 - 1 : Rank'[j] = Rank[j]
      OBVIOUS
    <2> QED
      BY <2>1
  <1>s. Rank'[1] = Rank[1] /\ Rank'[2] < Rank[2]
          => \E i \in 1 .. 6 : Rank'[i] < Rank[i] /\ \A j \in 1 .. i - 1 : Rank'[j] = Rank[j]
    <2>1. Rank'[1] = Rank[1] => \A j \in 1 .. 2 - 1 : Rank'[j] = Rank[j]
      OBVIOUS
    <2> QED
      BY <2>1
  <1>t. Rank'[1] = Rank[1] /\ Rank'[2] = Rank[2] /\ Rank'[3] < Rank[3]
          => \E i \in 1 .. 6 : Rank'[i] < Rank[i] /\ \A j \in 1 .. i - 1 : Rank'[j] = Rank[j]
    <2>1. Rank'[1] = Rank[1] /\ Rank'[2] = Rank[2]
            => \A j \in 1 .. 3 - 1 : Rank'[j] = Rank[j]
      OBVIOUS
    <2> QED
      BY <2>1
  <1>1. CASE Anchor
    <2>1. stage = "anchor" /\ UNCHANGED in
      BY <1>1 DEF Anchor
    <2>2. CASE in.anchors[at] \in g.nodes
      <3>1. stage' = "walk" /\ UNCHANGED at
        BY <1>1, <2>2 DEF Anchor
      <3>2. Rank'[1] = Rank[1] /\ Rank'[2] = Rank[2] /\ Rank'[3] < Rank[3]
        BY <2>1, <3>1, RankIs, PhaseIs DEF Left
      <3> QED
        BY <1>t, <3>2
    <2>3. CASE in.anchors[at] \notin g.nodes
      <3>1. stage' = "anchor" /\ at' = at + 1
        BY <1>1, <2>1, <2>3 DEF Anchor
      <3>2. Rank'[1] = Rank[1] /\ Rank'[2] < Rank[2]
        BY <1>0, <2>1, <3>1, RankIs DEF Left
      <3> QED
        BY <1>s, <3>2
    <2> QED
      BY <2>2, <2>3
  <1>2. CASE Walk
    BY <1>2, WalkCloser
  <1>3. CASE EndWalk
    <2>1. stage = "walk" /\ stage' = "anchor" /\ UNCHANGED in /\ at' = at + 1
      BY <1>3 DEF EndWalk
    <2>2. Rank'[1] = Rank[1] /\ Rank'[2] < Rank[2]
      BY <1>0, <2>1, RankIs, PhaseIs DEF Left
    <2> QED
      BY <1>s, <2>2
  <1>4. CASE EndAnchors
    <2>1. stage = "anchor" /\ stage' \in {"done", "predict"}
      BY <1>4 DEF EndAnchors
    <2> QED
      BY <1>f, <2>1, RankIs, PhaseIs
  <1>5. CASE Predict
    <2>1. stage = "predict" /\ stage' = "predict" /\ UNCHANGED in /\ at' = at + 1
      BY <1>5 DEF Predict
    <2>2. Rank'[1] = Rank[1] /\ Rank'[2] < Rank[2]
      BY <1>0, <2>1, RankIs DEF Left
    <2> QED
      BY <1>s, <2>2
  <1>6. CASE EndPredict
    <2>1. stage = "predict" /\ stage' = "result"
      BY <1>6 DEF EndPredict
    <2> QED
      BY <1>f, <2>1, RankIs, PhaseIs
  <1>7. CASE NextResult
    <2>1. stage = "result" /\ stage' = "merge" /\ UNCHANGED results /\ at' = at + 1
      BY <1>7 DEF NextResult
    <2>2. Rank'[1] = Rank[1] /\ Rank'[2] < Rank[2]
      BY <1>0, <2>1, RankIs, PhaseIs DEF Left
    <2> QED
      BY <1>s, <2>2
  <1>8. CASE MergeNode \/ MergeUnknown
    BY <1>8, MergeCloser
  <1>9. CASE EndMerge
    <2>1. stage = "merge" /\ stage' = "result" /\ UNCHANGED <<at, results>>
      BY <1>9 DEF EndMerge
    <2>2. Rank'[1] = Rank[1] /\ Rank'[2] = Rank[2] /\ Rank'[3] < Rank[3]
      BY <2>1, RankIs, PhaseIs DEF Left
    <2> QED
      BY <1>t, <2>2
  <1>10. CASE EndResults
    <2>1. stage = "result" /\ stage' = "plan"
      BY <1>10 DEF EndResults
    <2> QED
      BY <1>f, <2>1, RankIs, PhaseIs
  <1>11. CASE Plan
    <2>1. stage = "plan" /\ stage' = "gate"
      BY <1>11 DEF Plan
    <2> QED
      BY <1>f, <2>1, RankIs, PhaseIs
  <1>12. CASE RunGate
    <2>1. stage = "gate" /\ stage' = "done"
      BY <1>12 DEF RunGate
    <2> QED
      BY <1>f, <2>1, RankIs, PhaseIs
  <1>13. CASE Order
    <2>1. stage = "order" /\ stage' = "peel"
      BY <1>13 DEF Order
    <2> QED
      BY <1>f, <2>1, RankIs, PhaseIs
  <1>14. CASE PeelNext
    BY <1>14, <1>s, PeelCloser
  <1>15. CASE EndOrder
    <2>1. stage = "peel" /\ stage' = "done"
      BY <1>15 DEF EndOrder
    <2> QED
      BY <1>f, <2>1, RankIs, PhaseIs
  <1> QED
    BY <1>1, <1>2, <1>3, <1>4, <1>5, <1>6, <1>7, <1>8, <1>9, <1>10, <1>11, <1>12, <1>13,
       <1>14, <1>15 DEF Next

LEMMA RankHolds ==
    Spec => [](TypeOK /\ AtHand /\ WalkInv /\ OrderInv /\ Bounded /\ ResultsExact)
  BY BoundedInit, BoundedNext, WalkHolds, OrderHolds, ResultsAreExact, PTL DEF Spec

(* For any graph with any cycles, set, changeset and policy: every step of *)
(* a call leaves less of it, in an order in which nothing falls for ever.  *)
(* So no run takes steps for ever, which is the part of EveryCallEnds that *)
(* hangs on the size of what a call is given.                              *)
THEOREM EveryStepComesCloser == Spec => ComesCloser
  <1>1. TypeOK /\ AtHand /\ WalkInv /\ OrderInv /\ Bounded /\ ResultsExact /\ [Next]_vars
          => [Less]_vars
    BY StepCloser
  <1> QED
    BY <1>1, RankHolds, PTL DEF Spec, ComesCloser

LEMMA FewerIsWellFounded == IsWellFoundedOn(Fewer, [1 .. 6 -> Nat])
  <1>1. Below = OpToRel(<, Nat)
    BY DEF Below, OpToRel
  <1>2. IsWellFoundedOn(Below, Nat)
    BY <1>1, NatLessThanWellFounded
  <1> QED
    BY <1>2, WFLexProductOrdering DEF Fewer

(* The order is one in which nothing falls for ever, and the rank is never *)
(* outside of it.                                                          *)
THEOREM NothingFallsForEver ==
    /\ IsWellFoundedOn(Fewer, [1 .. 6 -> Nat])
    /\ Spec => []Ranked
    /\ Spec => [][Falls]_vars
  <1>1. TypeOK /\ Bounded /\ ResultsExact => Ranked
    BY RankTyped DEF Ranked
  <1>2. Spec => []Ranked
    BY <1>1, RankHolds, PTL
  <1>3. Ranked /\ Ranked' /\ [Less]_vars => [Falls]_vars
    <2> SUFFICES ASSUME Ranked, Ranked', NEW i \in 1 .. 6, Rank'[i] < Rank[i],
                        \A j \in 1 .. i - 1 : Rank'[j] = Rank[j]
                 PROVE  Falls
      BY DEF Less
    <2>1. /\ Rank \in [1 .. 6 -> Nat] /\ Rank' \in [1 .. 6 -> Nat]
          /\ Rank'[i] \in Nat /\ Rank[i] \in Nat
      BY DEF Ranked
    <2>2. <<Rank'[i], Rank[i]>> \in Below
      BY <2>1 DEF Below
    <2> QED
      BY <2>1, <2>2 DEF Fewer, Falls, LexProductOrdering
  <1>4. Spec => [][Falls]_vars
    BY <1>2, <1>3, EveryStepComesCloser, PTL DEF ComesCloser
  <1> QED
    BY <1>2, <1>4, FewerIsWellFounded, PTL

=============================================================================

--------------------------- MODULE TripwireProofs ---------------------------
(***************************************************************************)
(* Theorems about Tripwire for any number of runs, any arguments, ratios   *)
(* and histories: the floor holds, a pass is not below the baseline, and   *)
(* only a drop of the ratio is a regression.                               *)
(***************************************************************************)
EXTENDS Tripwire, Integers, FiniteSetTheorems, SequenceTheorems,
        WellFoundedInduction, TLAPS

(* The history had the length a run remembers when it appended.            *)
PosInv == \A r \in Run : pos[r] <= Len(history)

(* No entry counts more signatures than have been landed.                  *)
Counted(h, S) ==
    \A i \in DOMAIN h :
        h[i].index.coverage_index
          <= h[i].index.extracted_semantics_ratio + Unit * Cardinality(S)

CountInv ==
    /\ Counted(history, landed)
    /\ \A r \in Run : resolved[r] \subseteq landed

(* Runs that are active together know it, so that a run that was not       *)
(* overlapped is the only one to append after it has read what is landed.  *)
Alone ==
    \A r, q \in Run :
        pc[r] \in Active /\ ~overlapped[r] /\ q # r => pc[q] \notin Active

Appending == {"append", "rest", "judge"}

CountedAlone ==
    \A r \in Run :
        pc[r] \in Appending /\ ~overlapped[r] => Counted(history, resolved[r])

-----------------------------------------------------------------------------
LEMMA LeastExists ==
    ASSUME NEW T \in SUBSET Nat, T # {}
    PROVE  \E x \in T : \A y \in T : x <= y
<1>1. PICK x \in T : \A y \in T : ~ (<<y, x>> \in OpToRel(<, Nat))
  BY NatLessThanWellFounded, WFMin
<1>2. ASSUME NEW y \in T PROVE ~ y < x
  BY <1>1, <1>2 DEF OpToRel
<1>3. QED
  BY <1>2

LEMMA GreatestExists ==
    ASSUME NEW n \in Nat, NEW T \in SUBSET (1 .. n), T # {}
    PROVE  \E x \in T : \A y \in T : y <= x
<1> DEFINE D == {d \in Nat : n - d \in T}
<1>1. \A y \in T : y \in Int /\ n - y \in Nat /\ n - (n - y) = y
  OBVIOUS
<1>2. D \in SUBSET Nat /\ \A y \in T : n - y \in D
  BY <1>1
<1>3. PICK d \in D : \A e \in D : d <= e
  BY <1>2, LeastExists
<1>4. \A y \in T : d <= n - y
  BY <1>2, <1>3
<1>5. d \in Nat /\ n - d \in T
  OBVIOUS
<1>6. QED
  BY <1>1, <1>4, <1>5

(* rfind finds an entry of the ref unless the history has none.            *)
LEMMA LastExists ==
    ASSUME NEW h \in Seq(Entry), NEW ref, NEW k \in DOMAIN h, h[k].ref = ref
    PROVE  LastOf(h, ref) # {}
<1> DEFINE T == {i \in DOMAIN h : h[i].ref = ref}
<1>1. Len(h) \in Nat /\ DOMAIN h = 1 .. Len(h)
  BY LenProperties
<1>2. T \in SUBSET (1 .. Len(h)) /\ k \in T
  BY <1>1
<1>3. PICK i \in T : \A j \in T : j <= i
  BY <1>1, <1>2, GreatestExists
<1>4. QED
  BY <1>3 DEF LastOf

LEMMA TimesMonotone ==
    ASSUME NEW u \in Nat, NEW a \in Nat, NEW b \in Nat, a <= b
    PROVE  u * a \in Nat /\ u * b \in Nat /\ u * a <= u * b
  OBVIOUS

LEMMA SigsCounted ==
    ASSUME NEW S \in SUBSET Sig, NEW T \in SUBSET S
    PROVE  /\ Cardinality(S) \in Nat /\ Cardinality(T) \in Nat
           /\ Unit * Cardinality(S) \in Nat /\ Unit * Cardinality(T) \in Nat
           /\ Unit * Cardinality(T) <= Unit * Cardinality(S)
<1>1. IsFiniteSet(S) /\ IsFiniteSet(T)
  BY SigAssumption, FS_Subset
<1>2. /\ Cardinality(S) \in Nat /\ Cardinality(T) \in Nat
      /\ Cardinality(T) <= Cardinality(S)
  BY <1>1, FS_Subset, FS_CardinalityType
<1>3. QED
  BY <1>2, UnitAssumption, TimesMonotone

LEMMA EntryTyped ==
    ASSUME TypeOK, NEW r \in Run
    PROVE  /\ Measured(r) \in Index
           /\ EntryOf(r) \in Entry
           /\ EntryOf(r).index = Measured(r)
<1>1. ratio[r] \in Nat /\ commit[r] \in Nat /\ in[r].ref \in Ref
  BY InputsAssumption, UnitAssumption DEF TypeOK, Input
<1>2. Unit * Cardinality(resolved[r]) \in Nat
  BY SigsCounted DEF TypeOK
<1>3. Measured(r) \in Index
  BY <1>1, <1>2 DEF Measured, Index
<1>4. QED
  BY <1>1, <1>3 DEF EntryOf, Entry

-----------------------------------------------------------------------------
LEMMA TypeInit == Init => TypeOK
  BY RatioAssumption, PastAssumption, UnitAssumption
     DEF Init, TypeOK, Active, Ended, Passed

LEMMA VerdictTyped ==
    ASSUME NEW r \in Run
    PROVE  Verdict(r) \in Ended
  BY DEF Verdict, Ended, Passed

LEMMA RatioTyped ==
    /\ Len(Ratio) \in Nat
    /\ DOMAIN Ratio = 1 .. Len(Ratio)
    /\ \A h \in DOMAIN Ratio : Ratio[h] \in 0 .. Unit
  BY RatioAssumption, LenProperties, ElementOfSeq

LEMMA TypeStep ==
    ASSUME TypeOK, [Next]_vars
    PROVE  TypeOK'
<1> USE DEF Goto, world, measure, mine, Active, Ended, Passed
<1>1. ASSUME NEW r \in Run, Measure(r) PROVE TypeOK'
  <2>1. Ratio[head] \in 0 .. Unit
    BY RatioTyped DEF TypeOK
  <2>2. overlapped' \in [Run -> BOOLEAN]
    BY <1>1 DEF Measure, TypeOK
  <2>3. QED
    BY <1>1, <2>1, <2>2 DEF Measure, TypeOK
<1>2. ASSUME NEW r \in Run, ReadLedger(r) PROVE TypeOK'
  <2>1. head \in Nat
    BY RatioTyped DEF TypeOK
  <2>2. QED
    BY <1>2, <2>1 DEF ReadLedger, TypeOK
<1>3. ASSUME NEW r \in Run,
             AppendFails(r) \/ AppendSkips(r) \/ AppendGlues(r) \/ AppendShort(r)
      PROVE  TypeOK'
  <2>1. Len(history) \in Nat
    BY LenProperties DEF TypeOK
  <2>2. CASE AppendSkips(r) \/ AppendGlues(r)
    BY <2>1, <2>2 DEF AppendSkips, AppendGlues, TypeOK
  <2>3. CASE AppendFails(r) \/ AppendShort(r)
    BY <2>3 DEF AppendFails, AppendShort, TypeOK
  <2>4. QED
    BY <1>3, <2>2, <2>3
<1>4. ASSUME NEW r \in Run, AppendEntry(r) \/ AppendRest(r) PROVE TypeOK'
  <2>1. Append(history, EntryOf(r)) \in Seq(Entry) /\ Len(history) + 1 \in Nat
    BY EntryTyped, AppendProperties, LenProperties DEF TypeOK
  <2>2. CASE AppendEntry(r)
    BY <2>1, <2>2 DEF AppendEntry, TypeOK
  <2>3. CASE AppendRest(r)
    BY <2>1, <2>3 DEF AppendRest, TypeOK
  <2>4. QED
    BY <1>4, <2>2, <2>3
<1>5. ASSUME NEW r \in Run, Judge(r) PROVE TypeOK'
  <2>1. Verdict(r) \in Ended
    BY VerdictTyped
  <2>2. QED
    BY <1>5, <2>1 DEF Judge, TypeOK
<1>6. ASSUME NEW r \in Run, Stop(r) PROVE TypeOK'
  BY <1>6 DEF Stop, TypeOK
<1>7. ASSUME NEW r \in Run, StopInAppend(r) PROVE TypeOK'
  <2>1. Append(history, EntryOf(r)) \in Seq(Entry)
    BY EntryTyped, AppendProperties DEF TypeOK
  <2>2. QED
    BY <1>7, <2>1 DEF StopInAppend, TypeOK
<1>8. ASSUME CutLine \/ (\E s \in Sig \ landed : LandSig(s)) \/ Commit PROVE TypeOK'
  <2>1. head < Len(Ratio) => head + 1 \in DOMAIN Ratio
    BY RatioTyped DEF TypeOK
  <2>2. QED
    BY <1>8, <2>1 DEF CutLine, LandSig, Commit, TypeOK
<1>9. CASE UNCHANGED vars
  BY <1>9 DEF vars, TypeOK
<1>10. QED
  BY <1>1, <1>2, <1>3, <1>4, <1>5, <1>6, <1>7, <1>8, <1>9 DEF Next, Step, AllEnded

(* All variables stay in their ranges: whatever runs, landings and commits *)
(* interleave, what is recorded is a measurement.                          *)
THEOREM TypeCorrect == Spec => []TypeOK
  BY TypeInit, TypeStep, PTL DEF Spec

-----------------------------------------------------------------------------
(* A run stands still unless the step is its own.                          *)
LEMMA Mover ==
    ASSUME TypeOK, [Next]_vars, NEW r \in Run
    PROVE  \/ pc'[r] = pc[r]
           \/ Step(r) \/ AppendShort(r) \/ Stop(r) \/ StopInAppend(r)
<1>1. ASSUME NEW q \in Run, Step(q) \/ AppendShort(q) \/ Stop(q) \/ StopInAppend(q)
      PROVE  q = r \/ pc'[r] = pc[r]
  BY <1>1 DEF TypeOK, Step, Goto, Measure, ReadLedger, AppendFails, AppendSkips,
         AppendGlues, AppendEntry, AppendShort, AppendRest, Judge, Stop, StopInAppend
<1>2. CASE CutLine \/ (\E s \in Sig \ landed : LandSig(s)) \/ Commit
  BY <1>2 DEF CutLine, LandSig, Commit, mine, measure
<1>3. CASE UNCHANGED vars
  BY <1>3 DEF vars
<1>4. QED
  BY <1>1, <1>2, <1>3 DEF Next, AllEnded

(* What a run has measured and found stays what it was.                    *)
LEMMA Keeps ==
    ASSUME TypeOK, [Next]_vars, NEW r \in Run
    PROVE  /\ in'[r] = in[r]
           /\ pc[r] # "start" => ratio'[r] = ratio[r]
           /\ pc[r] \notin {"start", "ledger"} => Measured(r)' = Measured(r)
           /\ pc[r] \in Ended => /\ pc'[r] = pc[r]
                                 /\ pos'[r] = pos[r]
                                 /\ blind'[r] = blind[r]
<1> USE DEF Goto, Measured, Active, Ended, Passed, world, measure, mine
<1>1. ASSUME NEW q \in Run, Measure(q) \/ ReadLedger(q) \/ Judge(q) \/ Stop(q)
      PROVE  /\ in'[r] = in[r]
             /\ pc[r] # "start" => ratio'[r] = ratio[r]
             /\ pc[r] \notin {"start", "ledger"} => /\ ratio'[r] = ratio[r]
                                                    /\ resolved'[r] = resolved[r]
             /\ pc[r] \in Ended => /\ pc'[r] = pc[r]
                                   /\ pos'[r] = pos[r]
                                   /\ blind'[r] = blind[r]
  BY <1>1 DEF Measure, ReadLedger, Judge, Stop, TypeOK
<1>2. ASSUME NEW q \in Run, \/ AppendFails(q) \/ AppendSkips(q) \/ AppendGlues(q)
                            \/ AppendEntry(q) \/ AppendShort(q) \/ AppendRest(q)
                            \/ StopInAppend(q)
      PROVE  /\ UNCHANGED <<in, ratio, resolved, blind>>
             /\ pc[r] \in Ended => pc'[r] = pc[r] /\ pos'[r] = pos[r]
  BY <1>2 DEF AppendFails, AppendSkips, AppendGlues, AppendEntry, AppendShort,
         AppendRest, StopInAppend, TypeOK
<1>3. CASE \/ CutLine \/ (\E s \in Sig \ landed : LandSig(s)) \/ Commit
           \/ UNCHANGED vars
  BY <1>3 DEF CutLine, LandSig, Commit, vars
<1>4. QED
  BY <1>1, <1>2, <1>3 DEF Next, Step, AllEnded

(* How a step changes the history, if it does.                             *)
Grown(q) == pc[q] \in {"append", "rest"} /\ history' = Append(history, EntryOf(q))

LEMMA HistoryMoves ==
    ASSUME [Next]_vars
    PROVE  history' = history \/ \E q \in Run : Grown(q)
  BY DEF Next, Step, AllEnded, vars, world, measure, mine, Goto, Grown, Measure,
         ReadLedger, AppendFails, AppendSkips, AppendGlues, AppendEntry,
         AppendShort, AppendRest, Judge, Stop, StopInAppend, CutLine, LandSig, Commit

LEMMA GrownHistory ==
    ASSUME TypeOK, NEW q \in Run, Grown(q)
    PROVE  /\ Len(history) \in Nat
           /\ DOMAIN history = 1 .. Len(history)
           /\ Len(history') = Len(history) + 1
           /\ DOMAIN history' = 1 .. Len(history) + 1
           /\ \A i \in 1 .. Len(history) : history'[i] = history[i]
           /\ history'[Len(history) + 1] = EntryOf(q)
  BY EntryTyped, AppendProperties, LenProperties DEF TypeOK, Grown

(* The entries of the history stay where they are.                         *)
LEMMA HistoryGrows ==
    ASSUME TypeOK, [Next]_vars
    PROVE  /\ Len(history) \in Nat /\ Len(history') \in Nat
           /\ DOMAIN history = 1 .. Len(history)
           /\ DOMAIN history' = 1 .. Len(history')
           /\ Len(history) <= Len(history')
           /\ \A i \in DOMAIN history : i \in DOMAIN history' /\ history'[i] = history[i]
<1>1. CASE history' = history
  BY <1>1, LenProperties DEF TypeOK
<1>2. ASSUME NEW q \in Run, Grown(q)
      PROVE  /\ Len(history) \in Nat /\ Len(history') \in Nat
             /\ DOMAIN history = 1 .. Len(history)
             /\ DOMAIN history' = 1 .. Len(history')
             /\ Len(history) <= Len(history')
             /\ \A i \in DOMAIN history :
                  i \in DOMAIN history' /\ history'[i] = history[i]
  BY <1>2, GrownHistory
<1>3. QED
  BY <1>1, <1>2, HistoryMoves

-----------------------------------------------------------------------------
LEMMA FloorInit == Init => FloorHolds
  BY DEF Init, FloorHolds, Passed

LEMMA FloorStep ==
    ASSUME TypeOK, FloorHolds, [Next]_vars
    PROVE  FloorHolds'
<1> SUFFICES ASSUME NEW r \in Run, pc'[r] \in Passed
             PROVE  /\ in'[r].valid
                    /\ \A b \in in'[r].floor : NotBelow(Measured(r), b)'
                    /\ pc'[r] = "seeded" => in'[r].floor = {}
  BY DEF FloorHolds
<1>1. in'[r] = in[r]
  BY Keeps
<1>2. CASE pc'[r] = pc[r]
  <2>1. Measured(r)' = Measured(r)
    BY <1>2, Keeps DEF Passed
  <2>2. QED
    BY <1>1, <1>2, <2>1 DEF FloorHolds, NotBelow
<1>3. CASE Judge(r)
  <2>1. Measured(r)' = Measured(r) /\ pc'[r] = Verdict(r)
    BY <1>3, Keeps DEF Judge, Goto, TypeOK
  <2>2. in[r].valid /\ \A b \in in[r].floor : NotBelow(Measured(r), b)
    BY <2>1 DEF Verdict, Passed, Baselines
  <2>3. pc'[r] = "seeded" => in[r].floor = {}
    BY <2>1 DEF Verdict, Baselines
  <2>4. QED
    BY <1>1, <2>1, <2>2, <2>3 DEF NotBelow
<1>4. CASE \/ Step(r) /\ ~Judge(r)
           \/ AppendShort(r) \/ Stop(r) \/ StopInAppend(r)
  BY <1>4 DEF Step, Goto, Measure, ReadLedger, AppendFails, AppendSkips,
         AppendGlues, AppendEntry, AppendShort, AppendRest, Stop, StopInAppend,
         Passed, TypeOK
<1>5. QED
  BY <1>2, <1>3, <1>4, Mover

(* Whatever becomes of the history, a run that was given a floor does not  *)
(* pass below it.                                                          *)
THEOREM FloorIsKept == Spec => []FloorHolds
  BY TypeInit, TypeStep, FloorInit, FloorStep, PTL DEF Spec

-----------------------------------------------------------------------------
LEMMA PosInit == Init => PosInv
<1> SUFFICES ASSUME Init PROVE PosInv
  OBVIOUS
<1>1. Len(history) \in Nat
  BY PastAssumption, LenProperties DEF Init
<1>2. QED
  BY <1>1 DEF Init, PosInv

LEMMA PosStep ==
    ASSUME TypeOK, PosInv, [Next]_vars
    PROVE  PosInv'
<1> SUFFICES ASSUME NEW r \in Run PROVE pos'[r] <= Len(history')
  BY DEF PosInv
<1>1. pos[r] \in Nat /\ pos[r] <= Len(history)
  BY DEF TypeOK, PosInv
<1>2. CASE pos'[r] = pos[r]
  BY <1>1, <1>2, HistoryGrows
<1>3. CASE AppendSkips(r) \/ AppendGlues(r)
  <2>1. pos'[r] = Len(history) /\ history' = history
    BY <1>3 DEF AppendSkips, AppendGlues, world, TypeOK
  <2>2. QED
    BY <2>1, HistoryGrows
<1>4. CASE AppendEntry(r) \/ AppendRest(r)
  <2>1. pos'[r] = Len(history) + 1 /\ Grown(r)
    BY <1>4 DEF AppendEntry, AppendRest, TypeOK, Grown, Goto
  <2>2. QED
    BY <2>1, GrownHistory
<1>5. \/ pos'[r] = pos[r]
      \/ AppendSkips(r) \/ AppendGlues(r) \/ AppendEntry(r) \/ AppendRest(r)
  BY DEF Next, Step, AllEnded, vars, Measure, ReadLedger, AppendFails, AppendSkips,
         AppendGlues, AppendEntry, AppendShort, AppendRest, Judge, Stop,
         StopInAppend, CutLine, LandSig, Commit, TypeOK
<1>6. QED
  BY <1>2, <1>3, <1>4, <1>5

(* A pass whose history could be read has looked at the last measurement   *)
(* of its baseline ref.                                                    *)
LEMMA JudgedByLast ==
    ASSUME TypeOK, PosInv, NEW r \in Run, Verdict(r) \in Passed, tail # "torn"
    PROVE  \/ \A k \in 1 .. pos[r] : history[k].ref # in[r].base
           \/ \E i \in DOMAIN history :
                /\ history[i].ref = in[r].base
                /\ NotBelow(Measured(r), history[i].index)
                /\ \A k \in 1 .. pos[r] : history[k].ref = in[r].base => k <= i
<1> DEFINE last == LastOf(history, in[r].base)
<1>1. 1 .. pos[r] \subseteq DOMAIN history
  BY LenProperties DEF TypeOK, PosInv
<1>2. Baselines(r) = {history[i].index : i \in last} \cup in[r].floor
  BY DEF Baselines, Readable
<1>3. CASE last = {}
  BY <1>1, <1>3, LastExists DEF TypeOK
<1>4. ASSUME NEW i \in last
      PROVE  \E j \in DOMAIN history :
                /\ history[j].ref = in[r].base
                /\ NotBelow(Measured(r), history[j].index)
                /\ \A k \in 1 .. pos[r] : history[k].ref = in[r].base => k <= j
  <2>1. /\ i \in DOMAIN history /\ history[i].ref = in[r].base
        /\ \A k \in DOMAIN history : history[k].ref = in[r].base => k <= i
    BY DEF LastOf
  <2>2. history[i].index \in Baselines(r)
    BY <1>2
  <2>3. NotBelow(Measured(r), history[i].index)
    BY <2>2 DEF Verdict, Passed
  <2>4. QED
    BY <1>1, <2>1, <2>3
<1>5. QED
  BY <1>3, <1>4

LEMMA PassInit == Init => PassIsNotBelow
  BY DEF Init, PassIsNotBelow, Passed

LEMMA PassStep ==
    ASSUME TypeOK, PosInv, PassIsNotBelow, [Next]_vars
    PROVE  PassIsNotBelow'
<1> SUFFICES ASSUME NEW r \in Run, pc'[r] \in Passed, ~blind'[r],
                    in'[r].base # in'[r].ref
             PROVE  \/ \A k \in 1 .. pos'[r] : history'[k].ref # in'[r].base
                    \/ \E i \in DOMAIN history' :
                         /\ history'[i].ref = in'[r].base
                         /\ NotBelow(Measured(r), history[i].index)'
                         /\ \A k \in 1 .. pos'[r] :
                              history'[k].ref = in'[r].base => k <= i
  BY DEF PassIsNotBelow
<1>1. pos[r] \in Nat /\ 1 .. pos[r] \subseteq DOMAIN history
  BY LenProperties DEF TypeOK, PosInv
<1>2. CASE pc'[r] = pc[r]
  <2>1. /\ pos'[r] = pos[r] /\ blind'[r] = blind[r] /\ in'[r] = in[r]
        /\ Measured(r)' = Measured(r)
    BY <1>2, Keeps DEF Passed, Ended
  <2>2. \/ \A k \in 1 .. pos[r] : history[k].ref # in[r].base
        \/ \E i \in DOMAIN history :
             /\ history[i].ref = in[r].base
             /\ NotBelow(Measured(r), history[i].index)
             /\ \A k \in 1 .. pos[r] : history[k].ref = in[r].base => k <= i
    BY <1>2, <2>1 DEF PassIsNotBelow
  <2>3. QED
    BY <1>1, <2>1, <2>2, HistoryGrows DEF NotBelow
<1>3. CASE Judge(r)
  <2>1. /\ pos' = pos /\ history' = history /\ in' = in
        /\ pc'[r] = Verdict(r) /\ blind'[r] = (tail = "torn")
        /\ Measured(r)' = Measured(r)
    BY <1>3, Keeps DEF Judge, Goto, mine, TypeOK
  <2>2. Verdict(r) \in Passed /\ tail # "torn"
    BY <2>1
  <2>3. QED
    BY <2>1, <2>2, JudgedByLast DEF NotBelow
<1>4. CASE \/ Step(r) /\ ~Judge(r)
           \/ AppendShort(r) \/ Stop(r) \/ StopInAppend(r)
  BY <1>4 DEF Step, Goto, Measure, ReadLedger, AppendFails, AppendSkips,
         AppendGlues, AppendEntry, AppendShort, AppendRest, Stop, StopInAppend,
         Passed, TypeOK
<1>5. QED
  BY <1>2, <1>3, <1>4, Mover

(* A run that passes is not below the last measurement of its baseline ref *)
(* as of its own append, unless it could not read the history.             *)
THEOREM PassIsEarned == Spec => []PassIsNotBelow
  BY TypeInit, TypeStep, PosInit, PosStep, PassInit, PassStep, PTL DEF Spec

-----------------------------------------------------------------------------
LEMMA IndexTyped ==
    ASSUME NEW h \in Seq(Entry), NEW i \in DOMAIN h
    PROVE  /\ h[i].index.coverage_index \in Nat
           /\ h[i].index.extracted_semantics_ratio \in Nat
<1>1. h[i] \in Entry
  BY ElementOfSeq, LenProperties
<1>2. h[i].index \in Index
  BY <1>1 DEF Entry
<1>3. QED
  BY <1>2 DEF Index

LEMMA CountInit == Init => CountInv
<1> SUFFICES ASSUME Init PROVE CountInv
  OBVIOUS
<1>1. history \in Seq(Entry) /\ landed = {} /\ resolved = [r \in Run |-> {}]
  BY PastAssumption DEF Init
<1>2. ASSUME NEW i \in DOMAIN history
      PROVE  /\ history[i].index.extracted_semantics_ratio \in Nat
             /\ history[i].index.coverage_index
                  = history[i].index.extracted_semantics_ratio
  BY <1>1, PastAssumption, IndexTyped DEF Init
<1>3. Unit * Cardinality({}) \in Nat
  BY SigsCounted
<1>4. QED
  BY <1>1, <1>2, <1>3 DEF CountInv, Counted

(* An entry counts what its run counted.                                   *)
LEMMA CountedEntry ==
    ASSUME TypeOK, NEW q \in Run, NEW S \in SUBSET Sig, resolved[q] \subseteq S
    PROVE  EntryOf(q).index.coverage_index
             <= EntryOf(q).index.extracted_semantics_ratio + Unit * Cardinality(S)
<1>1. ratio[q] \in Nat
  BY UnitAssumption DEF TypeOK
<1>2. /\ EntryOf(q).index.coverage_index
           = ratio[q] + Unit * Cardinality(resolved[q])
      /\ EntryOf(q).index.extracted_semantics_ratio = ratio[q]
  BY DEF EntryOf, Measured
<1>3. QED
  BY <1>1, <1>2, SigsCounted

(* Landing more signatures never makes an entry count too many.            *)
LEMMA CountedMore ==
    ASSUME NEW h \in Seq(Entry), NEW S \in SUBSET Sig, NEW T \in SUBSET S,
           Counted(h, T)
    PROVE  Counted(h, S)
<1> SUFFICES ASSUME NEW i \in DOMAIN h
             PROVE  h[i].index.coverage_index
                      <= h[i].index.extracted_semantics_ratio + Unit * Cardinality(S)
  BY DEF Counted
<1>1. h[i].index.coverage_index
        <= h[i].index.extracted_semantics_ratio + Unit * Cardinality(T)
  BY DEF Counted
<1>2. QED
  BY <1>1, IndexTyped, SigsCounted

LEMMA CountStep ==
    ASSUME TypeOK, CountInv, [Next]_vars
    PROVE  CountInv'
<1>1. landed \subseteq landed' /\ landed' \subseteq Sig
  BY TypeStep DEF Next, Step, AllEnded, vars, world, Measure, ReadLedger, AppendFails,
     AppendSkips, AppendGlues, AppendEntry, AppendShort, AppendRest, Judge, Stop,
     StopInAppend, CutLine, LandSig, Commit, TypeOK
<1>2. Counted(history, landed')
  BY <1>1, CountedMore DEF CountInv, TypeOK
<1>3. Counted(history', landed')
  <2>1. CASE history' = history
    BY <1>2, <2>1
  <2>2. ASSUME NEW q \in Run, Grown(q)
        PROVE  Counted(history', landed')
    <3>1. resolved[q] \subseteq landed'
      BY <1>1 DEF CountInv
    <3>2. ASSUME NEW i \in DOMAIN history'
          PROVE  \/ i \in DOMAIN history /\ history'[i] = history[i]
                 \/ history'[i] = EntryOf(q)
      BY <2>2, GrownHistory
    <3>3. QED
      BY <1>1, <1>2, <3>1, <3>2, CountedEntry DEF Counted
  <2>3. QED
    BY <2>1, <2>2, HistoryMoves
<1>4. ASSUME NEW r \in Run PROVE resolved'[r] \subseteq landed'
  <2>1. resolved'[r] = resolved[r] \/ resolved'[r] = landed
    BY DEF Next, Step, AllEnded, vars, measure, Measure, ReadLedger, AppendFails,
       AppendSkips, AppendGlues, AppendEntry, AppendShort, AppendRest, Judge, Stop,
       StopInAppend, CutLine, LandSig, Commit, TypeOK
  <2>2. QED
    BY <1>1, <2>1 DEF CountInv
<1>5. QED
  BY <1>3, <1>4 DEF CountInv

LEMMA AloneInit == Init => Alone
  BY DEF Init, Alone, Active

LEMMA AloneStep ==
    ASSUME TypeOK, Alone, [Next]_vars
    PROVE  Alone'
<1> SUFFICES ASSUME NEW r \in Run, NEW k \in Run, k # r,
                    pc'[r] \in Active, ~overlapped'[r]
             PROVE  pc'[k] \notin Active
  BY DEF Alone
<1> USE DEF Goto, mine
<1>1. ASSUME NEW q \in Run, Measure(q) PROVE pc'[k] \notin Active
  <2>1. pc' = [pc EXCEPT ![q] = "ledger"] /\ pc[q] \notin Active
    BY <1>1 DEF Measure, Active
  <2>2. ~overlapped[r] /\ pc[r] \notin Active
          /\ (q = r => \A j \in Run : pc[j] \notin Active)
    BY <1>1 DEF Measure, TypeOK
  <2>3. QED
    BY <2>1, <2>2 DEF TypeOK
<1>2. ASSUME NEW q \in Run,
             \/ Step(q) /\ ~Measure(q)
             \/ AppendShort(q) \/ Stop(q) \/ StopInAppend(q)
      PROVE  pc'[k] \notin Active
  <2>1. /\ overlapped' = overlapped
        /\ pc'[q] \in Active => pc[q] \in Active
        /\ \A j \in Run \ {q} : pc'[j] = pc[j]
    BY <1>2 DEF Step, ReadLedger, AppendFails, AppendSkips, AppendGlues,
       AppendEntry, AppendShort, AppendRest, Judge, Stop, StopInAppend, Active,
       TypeOK
  <2>2. QED
    BY <2>1 DEF Alone
<1>3. CASE \/ CutLine \/ (\E s \in Sig \ landed : LandSig(s)) \/ Commit
           \/ UNCHANGED vars
  BY <1>3 DEF CutLine, LandSig, Commit, vars, Alone
<1>4. QED
  BY <1>1, <1>2, <1>3 DEF Next, AllEnded

LEMMA CountedAloneInit == Init => CountedAlone
  BY DEF Init, CountedAlone, Appending

(* Who is about to append or to judge has been so before, or has just read *)
(* the landed signatures; being overlapped is not forgotten.               *)
LEMMA Enters ==
    ASSUME TypeOK, [Next]_vars, NEW r \in Run, pc'[r] \in Appending
    PROVE  /\ ~overlapped'[r] => ~overlapped[r]
           /\ pc[r] \in Appending \/ ReadLedger(r)
<1>1. overlapped[r] => overlapped'[r]
  BY DEF Next, Step, AllEnded, vars, mine, Measure, ReadLedger, AppendFails,
     AppendSkips, AppendGlues, AppendEntry, AppendShort, AppendRest, Judge, Stop,
     StopInAppend, CutLine, LandSig, Commit, TypeOK
<1>2. pc[r] \in Appending \/ ReadLedger(r)
  BY Mover, VerdictTyped DEF Step, Goto, Measure, AppendFails, AppendSkips,
     AppendGlues, AppendEntry, AppendShort, AppendRest, Judge, Stop, StopInAppend,
     Appending, Ended, Passed, TypeOK
<1>3. QED
  BY <1>1, <1>2

LEMMA CountedAloneStep ==
    ASSUME TypeOK, CountInv, Alone, CountedAlone, [Next]_vars
    PROVE  CountedAlone'
<1> SUFFICES ASSUME NEW r \in Run, pc'[r] \in Appending, ~overlapped'[r]
             PROVE  Counted(history', resolved'[r])
  BY DEF CountedAlone, Counted
<1>1. CASE ReadLedger(r)
  <2>1. resolved'[r] = landed /\ history' = history
    BY <1>1 DEF ReadLedger, Goto, Appending, TypeOK
  <2>2. QED
    BY <2>1 DEF CountInv
<1>2. CASE pc[r] \in Appending
  <2>1. resolved'[r] = resolved[r]
    BY <1>2 DEF Next, Step, AllEnded, vars, measure, Goto, Appending, Measure,
       ReadLedger, AppendFails, AppendSkips, AppendGlues, AppendEntry, AppendShort,
       AppendRest, Judge, Stop, StopInAppend, CutLine, LandSig, Commit, TypeOK
  <2>2. Counted(history, resolved[r])
    BY <1>2, Enters DEF CountedAlone
  <2>3. ASSUME NEW q \in Run, Grown(q) PROVE Counted(history', resolved[r])
    <3>1. q = r
      BY <1>2, <2>3, Enters DEF Alone, Grown, Appending, Active
    <3>2. ASSUME NEW i \in DOMAIN history'
          PROVE  \/ i \in DOMAIN history /\ history'[i] = history[i]
                 \/ history'[i] = EntryOf(r)
      BY <2>3, <3>1, GrownHistory
    <3>3. resolved[r] \in SUBSET Sig
      BY DEF TypeOK
    <3>4. QED
      BY <2>2, <3>2, <3>3, CountedEntry DEF Counted
  <2>4. QED
    BY <2>1, <2>2, <2>3, HistoryMoves
<1>3. QED
  BY <1>1, <1>2, Enters

LEMMA RegressionInit == Init => RegressionIsReal
  BY DEF Init, RegressionIsReal

(* A run alone on its ledger that finds itself below its baseline, with no *)
(* floor, has a lower ratio: it counts at least as many signatures.        *)
LEMMA BelowByRatio ==
    ASSUME TypeOK, CountedAlone, NEW r \in Run, pc[r] = "judge", ~overlapped[r],
           in[r].floor = {}, Verdict(r) = "regression"
    PROVE  \E i \in DOMAIN history :
                /\ history[i].ref = in[r].base
                /\ history[i].index.extracted_semantics_ratio > ratio[r]
<1>1. PICK b \in Baselines(r) : ~NotBelow(Measured(r), b)
  BY DEF Verdict
<1>2. PICK i \in LastOf(history, in[r].base) : b = history[i].index
  BY <1>1, LenProperties, EmptySeq DEF Baselines, Readable, LastOf
<1>3. i \in DOMAIN history /\ history[i].ref = in[r].base
  BY DEF LastOf
<1>4. b.coverage_index \in Nat /\ b.extracted_semantics_ratio \in Nat
  BY <1>2, <1>3, IndexTyped DEF TypeOK
<1>5. b.coverage_index
        <= b.extracted_semantics_ratio + Unit * Cardinality(resolved[r])
  BY <1>2, <1>3 DEF CountedAlone, Counted, Appending
<1>6. ratio[r] \in Nat /\ Unit * Cardinality(resolved[r]) \in Nat
  <2>1. ratio[r] \in 0 .. Unit /\ resolved[r] \in SUBSET Sig
    BY DEF TypeOK
  <2>2. QED
    BY <2>1, UnitAssumption, SigsCounted
<1>7. ~ (/\ ratio[r] + Unit * Cardinality(resolved[r]) >= b.coverage_index
         /\ ratio[r] >= b.extracted_semantics_ratio)
  BY <1>1 DEF NotBelow, Measured
<1>8. b.extracted_semantics_ratio > ratio[r]
  BY <1>4, <1>5, <1>6, <1>7
<1>9. QED
  BY <1>2, <1>3, <1>8

LEMMA RegressionStep ==
    ASSUME TypeOK, CountedAlone, RegressionIsReal, [Next]_vars
    PROVE  RegressionIsReal'
<1> SUFFICES ASSUME NEW r \in Run, pc'[r] = "regression", ~overlapped'[r],
                    in'[r].floor = {}
             PROVE  \E i \in DOMAIN history' :
                        /\ history'[i].ref = in'[r].base
                        /\ history'[i].index.extracted_semantics_ratio > ratio'[r]
  BY DEF RegressionIsReal
<1>1. in'[r] = in[r]
  BY Keeps
<1>2. CASE pc[r] = "regression"
  <2>1. ratio'[r] = ratio[r]
    BY <1>2, Keeps
  <2>2. ~overlapped[r]
    BY <1>2 DEF Next, Step, AllEnded, vars, mine, Measure, ReadLedger, AppendFails,
       AppendSkips, AppendGlues, AppendEntry, AppendShort, AppendRest, Judge, Stop,
       StopInAppend, CutLine, LandSig, Commit, TypeOK
  <2>3. QED
    BY <1>1, <1>2, <2>1, <2>2, HistoryGrows DEF RegressionIsReal
<1>3. CASE Judge(r)
  <2>1. /\ pc[r] = "judge" /\ pc'[r] = Verdict(r)
        /\ history' = history /\ ratio' = ratio /\ overlapped' = overlapped
    BY <1>3 DEF Judge, Goto, mine, measure, TypeOK
  <2>2. QED
    BY <1>1, <2>1, BelowByRatio
<1>4. CASE \/ Step(r) /\ ~Judge(r)
           \/ AppendShort(r) \/ Stop(r) \/ StopInAppend(r)
  BY <1>4 DEF Step, Goto, Measure, ReadLedger, AppendFails, AppendSkips,
         AppendGlues, AppendEntry, AppendShort, AppendRest, Stop, StopInAppend,
         TypeOK
<1>5. QED
  BY <1>2, <1>3, <1>4, Mover

(* Landing patches never looks like a regression: a run alone on its       *)
(* ledger reports one against a ref only when the ratio dropped.           *)
THEOREM RegressionsAreReal == Spec => []RegressionIsReal
<1>1. Init => TypeOK /\ CountInv /\ Alone /\ CountedAlone /\ RegressionIsReal
  BY TypeInit, CountInit, AloneInit, CountedAloneInit, RegressionInit
<1>2. TypeOK /\ CountInv /\ Alone /\ CountedAlone /\ RegressionIsReal /\ [Next]_vars
        => (TypeOK /\ CountInv /\ Alone /\ CountedAlone /\ RegressionIsReal)'
  BY TypeStep, CountStep, AloneStep, CountedAloneStep, RegressionStep
<1>3. QED
  BY <1>1, <1>2, PTL DEF Spec

-----------------------------------------------------------------------------
(* What is known of a run that has begun its line, of a line that has no   *)
(* newline, and of a run that has not appended yet.                        *)
LogInv ==
    /\ \A r \in Run : pc[r] = "rest" =>
         /\ tail = "torn"
         /\ ~IsTip(EntryOf(r))
         /\ \A q \in Run : pc[q] = "rest" => q = r
    /\ tail = "unterminated" => history # <<>>
    /\ \A r \in Run : pos[r] # 0 => pc[r] \in {"judge"} \cup Ended

LEMMA LogInvInit == Init => LogInv
  BY DEF Init, LogInv

LEMMA LogInvStep ==
    ASSUME TypeOK, LogInv, [Next]_vars
    PROVE  LogInv'
<1> USE DEF Goto, Active, Ended, Passed, world, measure, mine
<1>0. Len(history) \in Nat
  BY LenProperties DEF TypeOK
<1>1. ASSUME NEW r \in Run, Measure(r) \/ ReadLedger(r)
      PROVE  LogInv'
  <2>1. /\ history' = history /\ tail' = tail /\ pos' = pos /\ in' = in
        /\ pc[r] \in {"start", "ledger"} /\ pc'[r] \in {"ledger", "append", "err"}
        /\ \A q \in Run : q # r => /\ pc'[q] = pc[q] /\ ratio'[q] = ratio[q]
                                  /\ resolved'[q] = resolved[q]
                                  /\ commit'[q] = commit[q]
    BY <1>1 DEF Measure, ReadLedger, TypeOK
  <2>2. \A q \in Run : q # r => EntryOf(q)' = EntryOf(q)
    BY <2>1 DEF EntryOf, Measured
  <2>3. QED
    BY <2>1, <2>2 DEF LogInv, IsTip
<1>2. ASSUME NEW r \in Run, AppendFails(r) \/ AppendSkips(r) \/ AppendGlues(r)
                             \/ AppendEntry(r) \/ StopInAppend(r)
      PROVE  LogInv'
  <2>1. /\ \A q \in Run : pc'[q] # "rest"
        /\ pc'[r] \in {"judge", "err"}
        /\ \A q \in Run : q # r => pc'[q] = pc[q] /\ pos'[q] = pos[q]
    BY <1>2 DEF AppendFails, AppendSkips, AppendGlues, AppendEntry, StopInAppend,
                LockFree, TypeOK
  <2>2. tail' = "unterminated" => history' # <<>>
    <3>1. Append(history, EntryOf(r)) # <<>>
      <4>1. history \in Seq(Entry) /\ EntryOf(r) \in Entry
        BY EntryTyped DEF TypeOK
      <4>2. QED
        BY <4>1, AppendProperties
    <3>2. QED
      BY <1>2, <3>1 DEF AppendFails, AppendSkips, AppendGlues, AppendEntry,
                        StopInAppend, LogInv
  <2>3. QED
    BY <2>1, <2>2 DEF LogInv
<1>3. ASSUME NEW r \in Run, AppendShort(r) PROVE LogInv'
  <2>1. /\ \A q \in Run : q # r => pc[q] # "rest"
        /\ pc' = [pc EXCEPT ![r] = "rest"] /\ pc[r] = "append"
        /\ tail' = "torn" /\ ~IsTip(EntryOf(r))
        /\ UNCHANGED <<history, pos, in, ratio, resolved, commit>>
    BY <1>3 DEF AppendShort, LockFree
  <2>2. ~IsTip(EntryOf(r))'
    BY <2>1 DEF IsTip, EntryOf, Measured
  <2>3. QED
    BY <2>1, <2>2 DEF LogInv, TypeOK
<1>4. ASSUME NEW r \in Run, AppendRest(r) PROVE LogInv'
  <2>1. /\ pc[r] = "rest" /\ pc' = [pc EXCEPT ![r] = "judge"]
        /\ tail' = "whole" /\ pos' = [pos EXCEPT ![r] = Len(history) + 1]
    BY <1>4 DEF AppendRest
  <2>2. \A q \in Run : pc'[q] # "rest"
    BY <2>1 DEF LogInv, TypeOK
  <2>3. QED
    BY <2>1, <2>2 DEF LogInv, TypeOK
<1>5. ASSUME NEW r \in Run, Judge(r) \/ Stop(r) PROVE LogInv'
  <2>1. /\ UNCHANGED <<history, tail, pos, in, ratio, resolved, commit>>
        /\ pc'[r] \in Ended /\ \A q \in Run : q # r => pc'[q] = pc[q]
    BY <1>5, VerdictTyped DEF Judge, Stop, TypeOK
  <2>2. \A q \in Run : IsTip(EntryOf(q))' = IsTip(EntryOf(q))
    BY <2>1 DEF IsTip, EntryOf, Measured
  <2>3. QED
    BY <2>1, <2>2 DEF LogInv
<1>6. ASSUME UNCHANGED <<mine, pc, measure, pos, history, tail>> PROVE LogInv'
  BY <1>6 DEF LogInv, IsTip, EntryOf, Measured
<1>7. QED
  BY <1>1, <1>2, <1>3, <1>4, <1>5, <1>6
     DEF Next, Step, CutLine, LandSig, Commit, AllEnded, vars

LEMMA LogInvHolds == Spec => [](TypeOK /\ LogInv)
  BY TypeInit, TypeStep, LogInvInit, LogInvStep, PTL DEF Spec

-----------------------------------------------------------------------------
(* Runs and the accretion ledger: however runs interleave and wherever one *)
(* stops, what happens to it are steps of the shared log, and nothing but  *)
(* them.                                                                   *)
ToldEntry(r) == IF pos[r] # 0 THEN <<EntryOf(r)>> ELSE <<>>

LEMMA ToldOf ==
    ASSUME TypeOK, LogInv, NEW r \in Run, pc[r] \in {"append", "rest"},
           NEW n \in Nat, n # 0, pos' = [pos EXCEPT ![r] = n],
           UNCHANGED <<in, ratio, resolved, commit>>
    PROVE  [q \in Run |-> ToldEntry(q)]' =
             [[q \in Run |-> ToldEntry(q)] EXCEPT ![r] = Append(@, EntryOf(r))]
<1>1. Append(<<>>, EntryOf(r)) = <<EntryOf(r)>>
  BY EntryTyped, EmptySeq, AppendProperties, LenProperties
<1>2. pos[r] = 0 /\ pos'[r] = n
  BY DEF LogInv, Ended, Passed, TypeOK
<1>3. \A q \in Run : q # r => pos'[q] = pos[q]
  BY DEF TypeOK
<1>4. \A q \in Run : EntryOf(q)' = EntryOf(q)
  BY DEF EntryOf, Measured
<1>5. QED
  BY <1>1, <1>2, <1>3, <1>4 DEF ToldEntry

LEMMA SharedQuiet ==
    ASSUME history' = history, tail' = tail, pos' = pos, LockFree' = LockFree,
           \A q \in Run : pos[q] # 0 => EntryOf(q)' = EntryOf(q)
    PROVE  UNCHANGED Shared!sharedVars
  BY DEF Shared!sharedVars, Torn

LEMMA SharedStep ==
    ASSUME TypeOK, LogInv, [Next]_vars
    PROVE  [Shared!SharedNext]_(Shared!sharedVars)
<1> USE DEF Goto, world, measure, mine
<1>0. Len(history) \in Nat /\ (history = <<>> <=> Len(history) = 0)
  BY LenProperties, EmptySeq DEF TypeOK
<1>1. ASSUME NEW r \in Run, AppendSkips(r) \/ AppendGlues(r) \/ AppendEntry(r)
      PROVE  \/ Shared!Skip(r, EntryOf(r)) \/ Shared!Glue(r, EntryOf(r))
             \/ Shared!Add(r, EntryOf(r))
  <2>1. LockFree /\ LockFree'
    BY <1>1 DEF AppendSkips, AppendGlues, AppendEntry, LockFree, TypeOK
  <2>2. tail = "unterminated" => history # <<>>
    BY DEF LogInv
  <2>3. PICK n \in Nat : n # 0 /\ pos' = [pos EXCEPT ![r] = n]
    BY <1>0, <1>1, <2>2 DEF AppendSkips, AppendGlues, AppendEntry, IsTip
  <2>4. pc[r] = "append" /\ UNCHANGED <<in, ratio, resolved, commit>>
    BY <1>1 DEF AppendSkips, AppendGlues, AppendEntry
  <2>5. [q \in Run |-> ToldEntry(q)]' =
          [[q \in Run |-> ToldEntry(q)] EXCEPT ![r] = Append(@, EntryOf(r))]
    BY <2>3, <2>4, ToldOf
  <2>6. QED
    BY <1>1, <2>1, <2>5
       DEF AppendSkips, AppendGlues, AppendEntry, Shared!Skip, Shared!Glue,
           Shared!Add, Shared!Tell, Shared!IsTip, IsTip, Torn, ToldEntry
<1>2. ASSUME NEW r \in Run, AppendRest(r) PROVE Shared!Add(r, EntryOf(r))
  <2>1. ~LockFree /\ LockFree' /\ ~IsTip(EntryOf(r))
    BY <1>2 DEF AppendRest, LockFree, LogInv, TypeOK
  <2>2. [q \in Run |-> ToldEntry(q)]' =
          [[q \in Run |-> ToldEntry(q)] EXCEPT ![r] = Append(@, EntryOf(r))]
    <3>1. /\ pc[r] = "rest" /\ pos' = [pos EXCEPT ![r] = Len(history) + 1]
          /\ UNCHANGED <<in, ratio, resolved, commit>>
      BY <1>2 DEF AppendRest
    <3>2. Len(history) + 1 \in Nat /\ Len(history) + 1 # 0
      BY <1>0
    <3>3. QED
      BY <3>1, <3>2, ToldOf
  <2>3. QED
    BY <1>2, <2>1, <2>2
       DEF AppendRest, Shared!Add, Shared!Tell, Shared!IsTip, IsTip, Torn, ToldEntry
<1>3. ASSUME NEW r \in Run, StopInAppend(r)
      PROVE  Shared!LeaveEntry(EntryOf(r)) \/ Shared!LeaveTorn(EntryOf(r))
  <2>1. LockFree /\ LockFree'
    BY <1>3 DEF StopInAppend, LockFree, TypeOK
  <2>2. UNCHANGED [q \in Run |-> ToldEntry(q)]
    BY <1>3 DEF StopInAppend, ToldEntry, EntryOf, Measured
  <2>3. QED
    BY <1>3, <2>1, <2>2
       DEF StopInAppend, Shared!LeaveEntry, Shared!LeaveTorn, Shared!IsTip, IsTip,
           Torn, ToldEntry
<1>4. ASSUME NEW r \in Run, Stop(r), pc[r] = "rest" PROVE Shared!LeaveTorn(EntryOf(r))
  <2>1. ~LockFree /\ LockFree' /\ tail = "torn" /\ ~IsTip(EntryOf(r))
    BY <1>4 DEF Stop, LockFree, LogInv, TypeOK
  <2>2. UNCHANGED [q \in Run |-> ToldEntry(q)]
    BY <1>4 DEF Stop, ToldEntry, EntryOf, Measured
  <2>3. QED
    BY <1>4, <2>1, <2>2
       DEF Stop, Shared!LeaveTorn, Shared!IsTip, IsTip, Torn, ToldEntry
<1>5. ASSUME NEW r \in Run, AppendShort(r) PROVE UNCHANGED Shared!sharedVars
  <2>1. LockFree /\ ~LockFree'
    BY <1>5 DEF AppendShort, LockFree, TypeOK
  <2>2. \A q \in Run : EntryOf(q)' = EntryOf(q)
    BY <1>5 DEF AppendShort, EntryOf, Measured
  <2>3. QED
    BY <1>5, <2>1, <2>2 DEF AppendShort, Shared!sharedVars, Torn
<1>6. ASSUME NEW r \in Run, Measure(r) \/ ReadLedger(r)
      PROVE  UNCHANGED Shared!sharedVars
  <2>1. /\ history' = history /\ tail' = tail /\ pos' = pos /\ in' = in
        /\ pc[r] \in {"start", "ledger"} /\ pc'[r] # "rest"
        /\ \A q \in Run : q # r => /\ pc'[q] = pc[q] /\ ratio'[q] = ratio[q]
                                  /\ resolved'[q] = resolved[q]
                                  /\ commit'[q] = commit[q]
    BY <1>6 DEF Measure, ReadLedger, TypeOK
  <2>2. LockFree' = LockFree
    BY <2>1 DEF LockFree
  <2>3. pos[r] = 0
    BY <2>1 DEF LogInv, Ended, Passed
  <2>4. \A q \in Run : pos[q] # 0 => EntryOf(q)' = EntryOf(q)
    BY <2>1, <2>3 DEF EntryOf, Measured
  <2>5. QED
    BY <2>1, <2>2, <2>4, SharedQuiet
<1>7. ASSUME NEW r \in Run, AppendFails(r) \/ Judge(r) \/ Stop(r), pc[r] # "rest"
      PROVE  UNCHANGED Shared!sharedVars
  <2>1. /\ history' = history /\ tail' = tail /\ pos' = pos
        /\ UNCHANGED <<in, ratio, resolved, commit>>
        /\ pc'[r] # "rest" /\ \A q \in Run : q # r => pc'[q] = pc[q]
    BY <1>7, VerdictTyped DEF AppendFails, Judge, Stop, TypeOK, Ended, Passed
  <2>2. LockFree' = LockFree
    BY <1>7, <2>1 DEF LockFree
  <2>3. \A q \in Run : EntryOf(q)' = EntryOf(q)
    BY <2>1 DEF EntryOf, Measured
  <2>4. QED
    BY <2>1, <2>2, <2>3, SharedQuiet
<1>8. ASSUME UNCHANGED <<mine, pc, measure, pos, history, tail>>
      PROVE  UNCHANGED Shared!sharedVars
  BY <1>8, SharedQuiet DEF LockFree, EntryOf, Measured
<1>9. ASSUME NEW r \in Run, Step(r) \/ AppendShort(r) \/ Stop(r) \/ StopInAppend(r)
      PROVE  [Shared!SharedNext]_(Shared!sharedVars)
  <2>1. EntryOf(r) \in Entry
    BY EntryTyped
  <2>2. AppendFails(r) \/ Judge(r) => pc[r] # "rest"
    BY DEF AppendFails, Judge
  <2>3. QED
    BY <1>1, <1>2, <1>3, <1>4, <1>5, <1>6, <1>7, <1>9, <2>1, <2>2
       DEF Step, Shared!SharedNext
<1>10. QED
  BY <1>8, <1>9 DEF Next, CutLine, LandSig, Commit, AllEnded, vars

(* All that runs do to the accretion ledger, the shared log allows: a line *)
(* that is being written is there when its append is answered, and one     *)
(* whose run stopped tears the log.                                        *)
THEOREM TripwireUsesSharedLog == Spec => UsesSharedLog
<1>1. Init => Shared!SharedInit
  BY DEF Init, Shared!SharedInit, Torn, LockFree
<1>2. TypeOK /\ LogInv /\ [Next]_vars => [Shared!SharedNext]_(Shared!sharedVars)
  BY SharedStep
<1>3. QED
  BY <1>1, <1>2, LogInvHolds, PTL DEF Spec, UsesSharedLog, Shared!SharedSpec
=============================================================================

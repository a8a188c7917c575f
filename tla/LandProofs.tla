----------------------------- MODULE LandProofs -----------------------------
(***************************************************************************)
(* Theorems about Land for any number of invocations, candidates, fixtures *)
(* and texts: nothing unproven is ever landed, the ledger is written       *)
(* last, and a receipt stands for a recorded landing.                      *)
(***************************************************************************)
EXTENDS Land, SequenceTheorems, TLAPS

(* How far an invocation is tells what its gate run has found so far: its  *)
(* stages were shown the text unless another landing of the candidate was  *)
(* rewriting the file ...                                                  *)
PassedGate == {"check", "apply", "corpus", "truncate", "fill", "ledger", "landed"}

GateInv ==
    \A p \in Proc :
        /\ pc[p] \in InGate => Shown(p) \/ LandedTwice(cand(p))
        /\ pc[p] \in {"G8", "G9"} => "G7" \in Holds[cand(p)]
        /\ pc[p] = "G9" => "G8" \in Holds[cand(p)] \/ LandedTwice(cand(p))
        /\ pc[p] \in PassedGate => Proven(cand(p))
        /\ pc[p] = "reject" => "reject" \in gated[cand(p)]

(* ... and which of its traces are there.                                  *)
PassedApply == {"corpus", "truncate", "fill", "ledger", "landed"}

ApplyInv ==
    \A p \in Proc : pc[p] \in PassedApply =>
        Settled(cand(p), applied)

CorpusInv ==
    /\ \A p \in Proc : pc[p] \in {"fill", "ledger"} => corpus[fix(p)] # "absent"
    /\ \A f \in Fixture : corpus[f] = "empty" => Rewriting(f)

LedgerInv ==
    \A i \in DOMAIN ledger :
        /\ Settled(ledger[i].cand, applied)
        /\ corpus[ledger[i].fix] # "absent"

IInv ==
    /\ TypeOK
    /\ GateInv /\ NothingUnproven
    /\ ApplyInv /\ CorpusInv /\ LedgerInv
    /\ ReceiptIsRecorded

-----------------------------------------------------------------------------
LEMMA JobTyped ==
    ASSUME TypeOK, NEW p \in Proc
    PROVE  job[p] \in Job /\ cand(p) \in Cand /\ fix(p) \in Fixture
  BY JobAssumption DEF TypeOK, cand, fix

(* An invocation stands still unless the step is its own.                  *)
LEMMA Mover ==
    ASSUME TypeOK, [Next]_vars, NEW p \in Proc
    PROVE  \/ pc'[p] = pc[p]
           \/ Step(p) \/ Stop(p) \/ StopInAppend(p)
<1>1. CASE UNCHANGED vars
  BY <1>1 DEF vars
<1>2. ASSUME NEW q \in Proc, Step(q) \/ Stop(q) \/ StopInAppend(q)
      PROVE  q = p \/ pc'[p] = pc[p]
  BY <1>2 DEF TypeOK, Step, Goto, CreateCandidate, WriteCandidate, CheckTree,
     CheckHonesty, CheckResidue, CheckPins, Reject, InGate, Quarantine,
     CheckApply, DoApply, ReadCorpus, TruncateFixture, FillFixture,
     AppendFails, AppendSkips, AppendGlues, AppendEntry, Stop, StopInAppend
<1>3. QED
  BY <1>1, <1>2 DEF Next, Terminated

(* How a step changes the ledger, if it does.                              *)
LedgerGrown(p) ==
    /\ pc[p] = "ledger"
    /\ ledger' = Append(ledger, job[p])

LEMMA LedgerMoves ==
    ASSUME [Next]_vars
    PROVE  ledger' = ledger \/ \E p \in Proc : LedgerGrown(p)
  BY DEF Next, Step, Terminated, vars, disk, LedgerGrown, Goto, BodyOf,
     CreateCandidate, WriteCandidate, CheckTree, CheckHonesty, CheckResidue,
     CheckPins, Reject, InGate, Quarantine, CheckApply, DoApply, ReadCorpus,
     TruncateFixture, FillFixture, AppendFails, AppendSkips, AppendGlues,
     AppendEntry, Stop, StopInAppend

LEMMA GrownLedger ==
    ASSUME TypeOK, NEW p \in Proc, LedgerGrown(p)
    PROVE  /\ ledger' \in Seq(Job)
           /\ Len(ledger) \in Nat
           /\ DOMAIN ledger = 1 .. Len(ledger)
           /\ DOMAIN ledger' = 1 .. Len(ledger) + 1
           /\ \A i \in 1 .. Len(ledger) : ledger'[i] = ledger[i]
           /\ ledger'[Len(ledger) + 1] = job[p]
  BY JobTyped, AppendProperties, LenProperties DEF TypeOK, LedgerGrown

LEMMA TipRecorded ==
    ASSUME TypeOK, NEW b, IsTip(b)
    PROVE  \E i \in DOMAIN ledger : ledger[i] = b
<1>1. Len(ledger) \in DOMAIN ledger
  BY EmptySeq, LenProperties DEF TypeOK, IsTip
<1>2. QED
  BY <1>1 DEF IsTip

-----------------------------------------------------------------------------
LEMMA TypeInit == Init => TypeOK
  BY GivenAssumption, EmptySeq DEF Init, TypeOK, Working, Ended, File

LEMMA TypeStep ==
    ASSUME TypeOK, [Next]_vars
    PROVE  TypeOK'
<1> USE DEF Goto, Working, InGate, Ended, File, disk
<1>1. ASSUME NEW p \in Proc, CreateCandidate(p) PROVE TypeOK'
  BY <1>1 DEF CreateCandidate, TypeOK
<1>2. ASSUME NEW p \in Proc, WriteCandidate(p) PROVE TypeOK'
  BY <1>2 DEF WriteCandidate, TypeOK
<1>3. ASSUME NEW p \in Proc, CheckTree(p) \/ CheckHonesty(p) \/ CheckResidue(p)
      PROVE  TypeOK'
  BY <1>3 DEF CheckTree, CheckHonesty, CheckResidue, TypeOK
<1>a. ASSUME NEW p \in Proc, CheckPins(p) \/ Reject(p) PROVE TypeOK'
  BY <1>a, JobTyped DEF CheckPins, Reject, Verdict, TypeOK
<1>4. ASSUME NEW p \in Proc, Quarantine(p) PROVE TypeOK'
  BY <1>4, JobTyped DEF Quarantine, TypeOK
<1>5. ASSUME NEW p \in Proc, CheckApply(p) PROVE TypeOK'
  BY <1>5 DEF CheckApply, TypeOK
<1>6. ASSUME NEW p \in Proc, DoApply(p) PROVE TypeOK'
  BY <1>6, JobTyped DEF DoApply, TypeOK
<1>7. ASSUME NEW p \in Proc, ReadCorpus(p) PROVE TypeOK'
  BY <1>7 DEF ReadCorpus, TypeOK
<1>8. ASSUME NEW p \in Proc, TruncateFixture(p) PROVE TypeOK'
  BY <1>8 DEF TruncateFixture, TypeOK
<1>9. ASSUME NEW p \in Proc, FillFixture(p) PROVE TypeOK'
  BY <1>9 DEF FillFixture, TypeOK
<1>10. ASSUME NEW p \in Proc, AppendFails(p) \/ AppendSkips(p) \/ AppendGlues(p)
       PROVE  TypeOK'
  BY <1>10 DEF AppendFails, AppendSkips, AppendGlues, TypeOK
<1>11. ASSUME NEW p \in Proc, AppendEntry(p) PROVE TypeOK'
  BY <1>11, JobTyped, AppendProperties DEF AppendEntry, BodyOf, TypeOK
<1>12. ASSUME NEW p \in Proc, Stop(p) PROVE TypeOK'
  BY <1>12 DEF Stop, TypeOK
<1>13. ASSUME NEW p \in Proc, StopInAppend(p) PROVE TypeOK'
  BY <1>13, JobTyped, AppendProperties DEF StopInAppend, BodyOf, TypeOK
<1>14. CASE UNCHANGED vars
  BY <1>14 DEF vars, TypeOK
<1>15. QED
  BY <1>1, <1>2, <1>3, <1>a, <1>4, <1>5, <1>6, <1>7, <1>8, <1>9, <1>10, <1>11, <1>12,
     <1>13, <1>14 DEF Next, Step, Terminated

(* Every file, the ledger and the tree always hold what they may hold.     *)
THEOREM TypeCorrect == Spec => []TypeOK
<1>1. TypeOK /\ [Next]_vars => TypeOK'
  BY TypeStep
<1>2. QED
  BY <1>1, TypeInit, PTL DEF Spec

-----------------------------------------------------------------------------
(* Nothing is taken back.                                                  *)
Grows ==
    /\ applied \subseteq applied'
    /\ \A i \in DOMAIN ledger : i \in DOMAIN ledger' /\ ledger'[i] = ledger[i]
    /\ \A f \in Fixture : corpus[f] # "absent" => corpus'[f] # "absent"

LEMMA GrowsStep ==
    ASSUME TypeOK, [Next]_vars
    PROVE  /\ Grows
           /\ job' = job
           /\ \A c \in Cand : gated[c] \subseteq gated'[c]
<1>1. \A i \in DOMAIN ledger : i \in DOMAIN ledger' /\ ledger'[i] = ledger[i]
  <2>1. ASSUME NEW p \in Proc, LedgerGrown(p)
        PROVE  \A i \in DOMAIN ledger : i \in DOMAIN ledger' /\ ledger'[i] = ledger[i]
    BY <2>1, GrownLedger
  <2>2. QED
    BY <2>1, LedgerMoves
<1>2. /\ applied \subseteq applied'
      /\ \A c \in Cand : gated[c] \subseteq gated'[c]
      /\ job' = job
  BY DEF TypeOK, Next, Step, Terminated, vars, disk, Goto, Verdict,
     CreateCandidate, WriteCandidate, CheckTree, CheckHonesty, CheckResidue,
     CheckPins, Reject, InGate, Quarantine, CheckApply, DoApply, ReadCorpus,
     TruncateFixture, FillFixture, AppendFails, AppendSkips, AppendGlues,
     AppendEntry, Stop, StopInAppend
<1>3. \A f \in Fixture : corpus[f] # "absent" => corpus'[f] # "absent"
  BY DEF TypeOK, Next, Step, Terminated, vars, disk, Goto, Verdict,
     CreateCandidate, WriteCandidate, CheckTree, CheckHonesty, CheckResidue,
     CheckPins, Reject, InGate, Quarantine, CheckApply, DoApply, ReadCorpus,
     TruncateFixture, FillFixture, AppendFails, AppendSkips, AppendGlues,
     AppendEntry, Stop, StopInAppend
<1>4. QED
  BY <1>1, <1>2, <1>3 DEF Grows

(* A landing, whether it succeeds, fails or dies, never takes back what    *)
(* was landed before: patches, fixtures and entries only accumulate.       *)
THEOREM NothingTakenBack == Spec => OnlyGrows
<1>1. TypeOK /\ [Next]_vars => [Grows]_vars
  BY GrowsStep
<1>2. QED
  BY <1>1, TypeCorrect, PTL DEF Spec, OnlyGrows, Grows

-----------------------------------------------------------------------------
(* What is already true of a candidate stays true.                         *)
LEMMA SettledStays ==
    ASSUME NEW c, NEW old, NEW new, old \subseteq new, Settled(c, old)
    PROVE  Settled(c, new)
  BY DEF Settled

LEMMA ProvenStays ==
    ASSUME TypeOK, [Next]_vars, NEW c \in Cand, Proven(c)
    PROVE  Proven(c)'
<1>1. gated[c] \subseteq gated'[c] /\ job' = job
  BY GrowsStep
<1>2. LandedTwice(c) => LandedTwice(c)'
  BY <1>1 DEF LandedTwice, cand
<1>3. QED
  BY <1>1, <1>2 DEF Proven

(* The candidate file of an invocation is rewritten by itself, before its  *)
(* gate run, or by another landing of the same candidate.                  *)
LEMMA ShownStep ==
    ASSUME TypeOK, GateInv, [Next]_vars, NEW p \in Proc, pc'[p] \in InGate
    PROVE  Shown(p)' \/ LandedTwice(cand(p))'
<1> USE DEF InGate
<1>1. job' = job /\ cand(p) \in Cand
  BY GrowsStep, JobTyped
<1>2. (cand(p))' = cand(p) /\ (LandedTwice(cand(p)) => LandedTwice(cand(p))')
  BY <1>1 DEF LandedTwice, cand
<1>3. CASE pc[p] \notin InGate
  <2>1. WriteCandidate(p)
    BY <1>3, Mover DEF TypeOK, Step, Goto, CreateCandidate, CheckTree,
       CheckHonesty, CheckResidue, CheckPins, Reject, InGate, Quarantine,
       CheckApply, DoApply, ReadCorpus, TruncateFixture, FillFixture,
       AppendFails, AppendSkips, AppendGlues, AppendEntry, Stop, StopInAppend
  <2>2. QED
    BY <1>1, <1>2, <2>1 DEF WriteCandidate, Shown, TypeOK
<1>4. CASE pc[p] \in InGate
  <2>1. Shown(p) \/ LandedTwice(cand(p))
    BY <1>4 DEF GateInv
  <2>2. CASE scratch' = scratch
    BY <1>2, <2>1, <2>2 DEF Shown
  <2>3. ASSUME NEW q \in Proc, CreateCandidate(q) \/ WriteCandidate(q)
        PROVE  Shown(p)' \/ LandedTwice(cand(p))'
    <3>1. q # p
      BY <1>4, <2>3 DEF CreateCandidate, WriteCandidate, Goto
    <3>2. CASE cand(q) = cand(p)
      BY <1>1, <3>1, <3>2 DEF LandedTwice, cand
    <3>3. CASE cand(q) # cand(p)
      BY <1>1, <1>2, <2>1, <2>3, <3>3, JobTyped
         DEF CreateCandidate, WriteCandidate, Shown, TypeOK
    <3>4. QED
      BY <3>2, <3>3
  <2>4. QED
    BY <2>2, <2>3 DEF Next, Step, Terminated, vars, disk, CheckTree,
       CheckHonesty, CheckResidue, CheckPins, Reject, InGate, Quarantine,
       CheckApply, DoApply, ReadCorpus, TruncateFixture, FillFixture,
       AppendFails, AppendSkips, AppendGlues, AppendEntry, Stop, StopInAppend
<1>5. QED
  BY <1>3, <1>4

LEMMA GateStep ==
    ASSUME TypeOK, GateInv, [Next]_vars
    PROVE  GateInv'
<1> SUFFICES ASSUME NEW p \in Proc
             PROVE  /\ pc'[p] \in {"G8", "G9"} => "G7" \in Holds[cand(p)]
                    /\ pc'[p] = "G9" =>
                         "G8" \in Holds[cand(p)] \/ LandedTwice(cand(p))'
                    /\ pc'[p] \in PassedGate => Proven(cand(p))'
                    /\ pc'[p] = "reject" => "reject" \in gated'[cand(p)]
  BY GrowsStep, ShownStep DEF GateInv, cand
<1>1. /\ job' = job /\ cand(p) \in Cand /\ cand(p)' = cand(p)
      /\ gated[cand(p)] \subseteq gated'[cand(p)]
      /\ Proven(cand(p)) => Proven(cand(p))'
      /\ LandedTwice(cand(p)) => LandedTwice(cand(p))'
  BY JobTyped, GrowsStep, ProvenStays DEF cand, LandedTwice
<1>2. CASE pc'[p] = pc[p]
  BY <1>1, <1>2 DEF GateInv
<1>3. CASE CheckHonesty(p)
  <2>1. pc'[p] = "G8" /\ "G7" \in Holds[cand(p)]
    BY <1>3 DEF CheckHonesty, InOrder, Goto, TypeOK
  <2>2. QED
    BY <2>1 DEF PassedGate
<1>4. CASE CheckResidue(p)
  <2>1. /\ pc[p] = "G8" /\ pc'[p] \in {"privacy_abort", "G9"}
        /\ pc'[p] = "G9" => (Shown(p) => "G8" \in Holds[cand(p)])
    BY <1>4 DEF CheckResidue, Goto, TypeOK
  <2>2. Shown(p) \/ LandedTwice(cand(p))
    BY <2>1 DEF GateInv, InGate
  <2>3. "G7" \in Holds[cand(p)]
    BY <2>1 DEF GateInv
  <2>4. QED
    BY <1>1, <2>1, <2>2, <2>3 DEF PassedGate
<1>5. CASE CheckPins(p)
  <2>1. /\ pc[p] = "G9" /\ pc'[p] = "check" /\ "G9" \in Holds[cand(p)]
        /\ "accept" \in gated'[cand(p)]
    BY <1>1, <1>5 DEF CheckPins, InOrder, Goto, Verdict, TypeOK
  <2>2. Proven(cand(p))'
    BY <1>1, <2>1 DEF GateInv, Proven
  <2>3. QED
    BY <2>1, <2>2
<1>6. CASE Reject(p)
  <2>1. pc'[p] = "reject" /\ "reject" \in gated'[cand(p)]
    BY <1>1, <1>6 DEF Reject, Verdict, TypeOK
  <2>2. QED
    BY <2>1 DEF PassedGate
<1>7. CASE /\ pc'[p] # pc[p]
           /\ ~CheckHonesty(p) /\ ~CheckResidue(p) /\ ~CheckPins(p) /\ ~Reject(p)
  <2>1. pc'[p] \notin {"G8", "G9", "reject"}
    BY <1>7, Mover DEF TypeOK, Step, Goto, CreateCandidate, WriteCandidate,
       CheckTree, Quarantine, CheckApply, DoApply, ReadCorpus, TruncateFixture,
       FillFixture, AppendFails, AppendSkips, AppendGlues, AppendEntry, Stop,
       StopInAppend
  <2>2. pc'[p] \in PassedGate => pc[p] \in PassedGate
    BY <1>7, Mover DEF PassedGate, TypeOK, Step, Goto, CreateCandidate,
       WriteCandidate, CheckTree, Quarantine, CheckApply, DoApply, ReadCorpus,
       TruncateFixture, FillFixture, AppendFails, AppendSkips, AppendGlues,
       AppendEntry, Stop, StopInAppend
  <2>3. QED
    BY <1>1, <2>1, <2>2 DEF GateInv
<1>8. QED
  BY <1>2, <1>3, <1>4, <1>5, <1>6, <1>7

LEMMA ApplyStep ==
    ASSUME TypeOK, ApplyInv, [Next]_vars
    PROVE  ApplyInv'
<1> SUFFICES ASSUME NEW p \in Proc, pc'[p] \in PassedApply
             PROVE  Settled(cand(p), applied')
  BY GrowsStep DEF ApplyInv, cand, Settled
<1>1. applied \subseteq applied' /\ cand(p) \in Cand
  BY GrowsStep, JobTyped DEF Grows
<1>2. CASE pc[p] \in PassedApply
  BY <1>1, <1>2, SettledStays DEF ApplyInv
<1>3. CASE CheckApply(p)
  <2>1. ~Applies(cand(p))
    BY <1>3 DEF CheckApply, Goto, TypeOK, PassedApply
  <2>2. Settled(cand(p), applied)
    BY <2>1 DEF Applies, Settled
  <2>3. QED
    BY <1>1, <2>2, SettledStays
<1>4. CASE DoApply(p)
  <2>1. Applies(cand(p))
    BY <1>4 DEF DoApply, Goto, TypeOK, PassedApply
  <2>2. QED
    BY <1>4, <2>1 DEF DoApply, Settled
<1>5. CASE pc[p] \notin PassedApply /\ ~CheckApply(p) /\ ~DoApply(p)
  <2>1. pc'[p] # pc[p] /\ (Step(p) \/ Stop(p) \/ StopInAppend(p))
    BY <1>5, Mover
  <2>2. QED
    BY <1>5, <2>1 DEF PassedApply, TypeOK, Step, Goto,
       CreateCandidate, WriteCandidate, CheckTree, CheckHonesty, CheckResidue,
       CheckPins, Reject, InGate, Quarantine, ReadCorpus,
       TruncateFixture, FillFixture, AppendFails, AppendSkips, AppendGlues,
       AppendEntry, Stop, StopInAppend
<1>6. QED
  BY <1>2, <1>3, <1>4, <1>5

-----------------------------------------------------------------------------
LEMMA CorpusStep ==
    ASSUME TypeOK, CorpusInv, [Next]_vars
    PROVE  CorpusInv'
<1>1. ASSUME NEW p \in Proc, pc'[p] \in {"fill", "ledger"}
      PROVE  corpus'[fix(p)] # "absent"
  <2>1. fix(p) \in Fixture
    BY JobTyped
  <2>2. CASE pc[p] \in {"fill", "ledger"}
    BY <2>1, <2>2, GrowsStep DEF CorpusInv, Grows
  <2>3. CASE pc[p] \notin {"fill", "ledger"}
    <3>1. Step(p) \/ Stop(p) \/ StopInAppend(p)
      BY <1>1, <2>3, Mover
    <3>2. \/ ReadCorpus(p) /\ corpus[fix(p)] = "whole"
          \/ TruncateFixture(p)
      BY <1>1, <2>3, <3>1 DEF TypeOK, Step, Goto, CreateCandidate,
         WriteCandidate, CheckTree, CheckHonesty, CheckResidue, CheckPins,
         Reject, InGate, Quarantine, CheckApply, DoApply, ReadCorpus,
         FillFixture, AppendFails, AppendSkips, AppendGlues, AppendEntry,
         Stop, StopInAppend
    <3>3. QED
      BY <2>1, <3>2 DEF TypeOK, ReadCorpus, TruncateFixture, disk
  <2>4. QED
    BY <2>2, <2>3
<1>2. ASSUME NEW f \in Fixture, corpus'[f] = "empty"
      PROVE  \E p \in Proc : fix(p) = f /\ pc'[p] \in {"fill", "err", "crashed"}
  <2>1. CASE corpus[f] = "empty"
    <3>1. PICK p \in Proc : fix(p) = f /\ pc[p] \in {"fill", "err", "crashed"}
      BY <2>1 DEF CorpusInv, Rewriting
    <3>2. ~FillFixture(p)
      BY <1>2, <3>1 DEF FillFixture, TypeOK
    <3>3. pc'[p] \in {"fill", "err", "crashed"}
      BY <3>1, <3>2, Mover DEF TypeOK, Step, Goto, CreateCandidate,
         WriteCandidate, CheckTree, CheckHonesty, CheckResidue, CheckPins,
         Reject, InGate, Quarantine, CheckApply, DoApply, ReadCorpus,
         TruncateFixture, AppendFails, AppendSkips, AppendGlues, AppendEntry,
         Stop, StopInAppend
    <3>4. QED
      BY <3>1, <3>3
  <2>2. CASE corpus[f] # "empty"
    <3>1. PICK p \in Proc : TruncateFixture(p) \/ FillFixture(p)
      BY <1>2, <2>2 DEF Next, Step, Terminated, vars, disk, CreateCandidate,
         WriteCandidate, CheckTree, CheckHonesty, CheckResidue, CheckPins,
         Reject, InGate, Quarantine, CheckApply, DoApply, ReadCorpus,
         AppendFails, AppendSkips, AppendGlues, AppendEntry, Stop,
         StopInAppend
    <3>2. TruncateFixture(p) /\ fix(p) = f
      BY <1>2, <2>2, <3>1 DEF TruncateFixture, FillFixture, TypeOK
    <3>3. QED
      BY <3>2 DEF TruncateFixture, Goto, TypeOK
  <2>3. QED
    BY <2>1, <2>2
<1>3. QED
  BY <1>1, <1>2, GrowsStep DEF CorpusInv, Rewriting, fix

LEMMA LedgerStep ==
    ASSUME TypeOK, ApplyInv, CorpusInv, LedgerInv, [Next]_vars
    PROVE  LedgerInv'
<1> DEFINE Kept(b) == Settled(b.cand, applied') /\ corpus'[b.fix] # "absent"
<1>1. applied \subseteq applied'
      /\ \A f \in Fixture : corpus[f] # "absent" => corpus'[f] # "absent"
  BY GrowsStep DEF Grows
<1>2. ASSUME NEW i \in DOMAIN ledger PROVE Kept(ledger[i])
  <2>1. ledger[i].fix \in Fixture
    BY JobAssumption, ElementOfSeq DEF TypeOK
  <2>2. QED
    BY <1>1, <2>1, SettledStays DEF LedgerInv
<1>3. CASE ledger' = ledger
  BY <1>2, <1>3 DEF LedgerInv
<1>4. ASSUME NEW p \in Proc, LedgerGrown(p) PROVE LedgerInv'
  <2>1. Kept(job[p])
    <3>1. Settled(cand(p), applied) /\ corpus[fix(p)] # "absent"
      BY <1>4 DEF LedgerGrown, ApplyInv, CorpusInv, PassedApply
    <3>2. QED
      BY <1>1, <3>1, JobTyped, SettledStays DEF cand, fix
  <2>2. \A i \in DOMAIN ledger' : Kept(ledger'[i])
    BY <1>2, <1>4, <2>1, GrownLedger
  <2>3. QED
    BY <2>2 DEF LedgerInv
<1>5. QED
  BY <1>3, <1>4, LedgerMoves

LEMMA ReceiptStep ==
    ASSUME TypeOK, ReceiptIsRecorded, [Next]_vars
    PROVE  ReceiptIsRecorded'
<1> SUFFICES ASSUME NEW p \in Proc, pc'[p] = "landed", tail' # "torn"
             PROVE  \E i \in DOMAIN ledger' : ledger'[i] = job[p]
  BY GrowsStep DEF ReceiptIsRecorded
<1>1. ASSUME \E i \in DOMAIN ledger : ledger[i] = job[p]
      PROVE  \E i \in DOMAIN ledger' : ledger'[i] = job[p]
  BY <1>1, GrowsStep DEF Grows
<1>2. CASE pc[p] = "landed"
  <2>1. tail # "torn"
    BY <1>2 DEF Next, Step, Terminated, vars, disk, CreateCandidate,
       WriteCandidate, CheckTree, CheckHonesty, CheckResidue, CheckPins,
       Reject, InGate, Quarantine, CheckApply, DoApply, ReadCorpus,
       TruncateFixture, FillFixture, AppendFails, AppendSkips, AppendGlues,
       AppendEntry, Stop, StopInAppend
  <2>2. QED
    BY <1>1, <1>2, <2>1 DEF ReceiptIsRecorded
<1>3. CASE pc[p] # "landed"
  <2>1. Step(p) \/ Stop(p) \/ StopInAppend(p)
    BY <1>3, Mover
  <2>2. AppendSkips(p) \/ AppendEntry(p)
    BY <1>3, <2>1 DEF TypeOK, Step, Goto,
       CreateCandidate, WriteCandidate, CheckTree, CheckHonesty, CheckResidue,
       CheckPins, Reject, InGate, Quarantine, CheckApply, DoApply,
       ReadCorpus, TruncateFixture, FillFixture, AppendFails, AppendGlues,
       Stop, StopInAppend
  <2>3. CASE AppendSkips(p)
    BY <1>1, <2>3, TipRecorded DEF AppendSkips, BodyOf
  <2>4. CASE AppendEntry(p)
    <3>1. LedgerGrown(p)
      BY <2>4 DEF AppendEntry, LedgerGrown, Goto, BodyOf
    <3>2. QED
      BY <3>1, GrownLedger
  <2>5. QED
    BY <2>2, <2>3, <2>4
<1>4. QED
  BY <1>2, <1>3

-----------------------------------------------------------------------------
LEMMA ProvenStep ==
    ASSUME TypeOK, GateInv, NothingUnproven, [Next]_vars
    PROVE  NothingUnproven'
<1> DEFINE After(c) == /\ "accept" \in gated'[c]
                       /\ {"G7", "G9"} \subseteq Holds[c]
                       /\ "G8" \in Holds[c] \/ LandedTwice(c)
<1>1. \A c \in Cand : gated[c] \subseteq gated'[c]
  BY GrowsStep
<1>8. ASSUME NEW c \in Cand, Proven(c) PROVE After(c)
  BY <1>8, <1>1 DEF Proven
<1> HIDE DEF After
<1>2. ASSUME NEW p \in Proc, pc[p] \in PassedGate
      PROVE  After(cand(p))
  BY <1>2, JobTyped, <1>8 DEF GateInv
<1>3. \A c \in applied' : After(c)
  <2>1. applied' = applied
        \/ \E p \in Proc : applied' = applied \cup {cand(p)} /\ pc[p] = "apply"
    BY DEF Next, Step, Terminated, vars, disk, Goto, CreateCandidate,
       WriteCandidate, CheckTree, CheckHonesty, CheckResidue, CheckPins,
       Reject, InGate, Quarantine, CheckApply, DoApply, ReadCorpus,
       TruncateFixture, FillFixture, AppendFails, AppendSkips, AppendGlues,
       AppendEntry, Stop, StopInAppend
  <2>2. \A c \in applied : After(c)
    BY <1>8 DEF TypeOK, NothingUnproven
  <2>3. QED
    BY <1>2, <2>1, <2>2 DEF PassedGate
<1>4. ASSUME NEW f \in Fixture, corpus'[f] # "absent"
      PROVE  \E p \in Proc : fix(p) = f /\ After(cand(p))
  <2>1. CASE corpus[f] # "absent"
    BY <2>1, JobTyped, <1>8 DEF NothingUnproven
  <2>2. CASE corpus[f] = "absent"
    <3>1. PICK p \in Proc : TruncateFixture(p) \/ FillFixture(p)
      BY <1>4, <2>2 DEF Next, Step, Terminated, vars, disk, CreateCandidate,
         WriteCandidate, CheckTree, CheckHonesty, CheckResidue, CheckPins,
         Reject, InGate, Quarantine, CheckApply, DoApply, ReadCorpus,
         AppendFails, AppendSkips, AppendGlues, AppendEntry, Stop,
         StopInAppend
    <3>2. fix(p) = f
      BY <1>4, <2>2, <3>1 DEF TruncateFixture, FillFixture, TypeOK
    <3>3. pc[p] \in PassedGate
      BY <3>1 DEF TruncateFixture, FillFixture, Goto, PassedGate
    <3>4. QED
      BY <1>2, <3>2, <3>3
  <2>3. QED
    BY <2>1, <2>2
<1>5. \A i \in DOMAIN ledger' : After(ledger'[i].cand)
  <2>1. ASSUME NEW i \in DOMAIN ledger
        PROVE  After(ledger[i].cand)
    <3>1. ledger[i].cand \in Cand
      BY JobAssumption, ElementOfSeq DEF TypeOK
    <3>2. QED
      BY <3>1, <1>8 DEF NothingUnproven
  <2>2. ASSUME NEW p \in Proc, LedgerGrown(p)
        PROVE  \A i \in DOMAIN ledger' : After(ledger'[i].cand)
    <3>1. After(job[p].cand)
      BY <1>2, <2>2 DEF LedgerGrown, PassedGate, cand
    <3>2. QED
      BY <2>1, <2>2, <3>1, GrownLedger
  <2>3. QED
    BY <2>1, <2>2, LedgerMoves
<1>6. \A c \in quarantine' : "reject" \in gated'[c]
  <2>1. quarantine' = quarantine
        \/ \E p \in Proc : /\ quarantine' = quarantine \cup {cand(p)}
                          /\ pc[p] = "reject"
    BY DEF Next, Step, Terminated, vars, disk, Goto, CreateCandidate,
       WriteCandidate, CheckTree, CheckHonesty, CheckResidue, CheckPins,
       Reject, InGate, Quarantine, CheckApply, DoApply, ReadCorpus,
       TruncateFixture, FillFixture, AppendFails, AppendSkips, AppendGlues,
       AppendEntry, Stop, StopInAppend
  <2>2. \A c \in quarantine : "reject" \in gated'[c]
    BY <1>1 DEF TypeOK, NothingUnproven
  <2>3. QED
    BY <1>1, <2>1, <2>2, JobTyped DEF GateInv
<1>7. QED
  <2>1. job' = job
    BY GrowsStep
  <2>2. \A c : After(c) => ( /\ "accept" \in gated'[c]
                             /\ {"G7", "G9"} \subseteq Holds[c]
                             /\ "G8" \in Holds[c] \/ LandedTwice(c) )
    BY DEF After
  <2>3. QED
    BY <1>3, <1>4, <1>5, <1>6, <2>1, <2>2
       DEF NothingUnproven, Proven, LandedTwice, cand, fix

LEMMA InvInit == Init => IInv
  BY TypeInit DEF Init, IInv, GateInv, NothingUnproven, ApplyInv, CorpusInv,
     LedgerInv, ReceiptIsRecorded, PassedGate, PassedApply, InGate

LEMMA InvStep == IInv /\ [Next]_vars => IInv'
  BY TypeStep, GateStep, ProvenStep, ApplyStep, CorpusStep, LedgerStep,
     ReceiptStep DEF IInv

LEMMA InvHolds == Spec => []IInv
  BY InvInit, InvStep, PTL DEF Spec

(* Whichever landings run at once, rewrite each other's candidate file     *)
(* between two stages of a gate, and stop anywhere: only what a gate run   *)
(* accepted, with an honest and pinned text, reaches the tree, the corpus  *)
(* or the ledger, and nothing with residue unless two landings of that     *)
(* very candidate ran.                                                     *)
THEOREM OnlyProvenLands == Spec => []NothingUnproven
<1>1. IInv => NothingUnproven
  BY DEF IInv
<1>2. QED
  BY <1>1, InvHolds, PTL

(* Whoever reads a landing in the ledger finds its patch settled and its   *)
(* fixture in the corpus; the fixture is whole unless a rewrite of it was  *)
(* cut short.                                                              *)
THEOREM LedgerWrittenLast == Spec => []LedgerIsLast
<1>1. IInv => LedgerIsLast
  <2>1. ASSUME TypeOK, NEW i \in DOMAIN ledger PROVE ledger[i].fix \in Fixture
    BY <2>1, JobAssumption, ElementOfSeq DEF TypeOK
  <2>2. QED
    BY <2>1 DEF IInv, LedgerInv, CorpusInv, LedgerIsLast
<1>2. QED
  BY <1>1, InvHolds, PTL

(* A receipt stands for a recorded landing as long as the ledger parses.   *)
THEOREM ReceiptsRecorded == Spec => []ReceiptIsRecorded
<1>1. IInv => ReceiptIsRecorded
  BY DEF IInv
<1>2. QED
  BY <1>1, InvHolds, PTL

-----------------------------------------------------------------------------
(* Landings and the ledger: whatever interleaves and wherever a landing    *)
(* stops, all that happens to the ledger are steps of the shared log that  *)
(* Ledger.tla implements, and nothing but them.                            *)
LEMMA ToldOf ==
    ASSUME TypeOK, NEW p \in Proc, Goto(p, "ledger", "landed"), job' = job
    PROVE  [q \in Proc |-> IF pc[q] = "landed" THEN <<BodyOf(q)>> ELSE <<>>]' =
             [[q \in Proc |-> IF pc[q] = "landed" THEN <<BodyOf(q)>> ELSE <<>>]
               EXCEPT ![p] = Append(@, BodyOf(p))]
<1>1. Append(<<>>, BodyOf(p)) = <<BodyOf(p)>>
  BY JobTyped, EmptySeq, AppendProperties, LenProperties DEF BodyOf
<1>2. pc[p] = "ledger" /\ pc'[p] = "landed"
  BY DEF Goto, TypeOK
<1>3. \A q \in Proc : q # p => pc'[q] = pc[q]
  BY DEF Goto, TypeOK
<1>4. QED
  BY <1>1, <1>2, <1>3 DEF BodyOf

LEMMA SharedStep ==
    ASSUME TypeOK, [Next]_vars
    PROVE  [Shared!SharedNext]_(Shared!sharedVars)
<1> USE DEF Shared!Skip, Shared!Add, Shared!Glue, Shared!LeaveEntry,
            Shared!LeaveTorn, Shared!Tell, Shared!IsTip
<1>1. ASSUME NEW p \in Proc, AppendSkips(p) PROVE Shared!Skip(p, BodyOf(p))
  BY <1>1, ToldOf DEF AppendSkips, IsTip, disk
<1>2. ASSUME NEW p \in Proc, AppendGlues(p) PROVE Shared!Glue(p, BodyOf(p))
  BY <1>2, ToldOf DEF AppendGlues, IsTip
<1>3. ASSUME NEW p \in Proc, AppendEntry(p) PROVE Shared!Add(p, BodyOf(p))
  BY <1>3, ToldOf DEF AppendEntry, IsTip
<1>4. ASSUME NEW p \in Proc, StopInAppend(p)
      PROVE  Shared!LeaveEntry(BodyOf(p)) \/ Shared!LeaveTorn(BodyOf(p))
  <2>1. /\ pc[p] = "ledger" /\ job' = job
        /\ \A q \in Proc : pc'[q] = "landed" <=> pc[q] = "landed"
    BY <1>4 DEF StopInAppend, Goto, TypeOK
  <2>2. UNCHANGED [q \in Proc |-> IF pc[q] = "landed" THEN <<BodyOf(q)>> ELSE <<>>]
    BY <2>1 DEF BodyOf
  <2>3. QED
    BY <1>4, <2>2 DEF StopInAppend, IsTip
<1>5. ASSUME ledger' = ledger, tail' = tail, job' = job,
             \A q \in Proc : pc'[q] = "landed" <=> pc[q] = "landed"
      PROVE  UNCHANGED Shared!sharedVars
  BY <1>5 DEF Shared!sharedVars, BodyOf
<1>6. ASSUME NEW p \in Proc, Stop(p) \/ AppendFails(p)
      PROVE  UNCHANGED Shared!sharedVars
  <2>1. \A q \in Proc : pc'[q] = "landed" <=> pc[q] = "landed"
    BY <1>6 DEF Stop, AppendFails, Goto, TypeOK, Working, InGate
  <2>2. QED
    BY <1>5, <1>6, <2>1 DEF Stop, AppendFails, disk
<1>7. ASSUME NEW p \in Proc,
             \/ CheckTree(p) \/ CheckHonesty(p) \/ CheckResidue(p)
             \/ CheckPins(p) \/ Reject(p)
      PROVE  UNCHANGED Shared!sharedVars
  <2>1. \A q \in Proc : pc'[q] = "landed" <=> pc[q] = "landed"
    BY <1>7 DEF CheckTree, CheckHonesty, CheckResidue, CheckPins, Reject,
       InGate, Goto, InGate, TypeOK
  <2>2. QED
    BY <1>5, <1>7, <2>1 DEF CheckTree, CheckHonesty, CheckResidue, CheckPins,
                            Reject, disk
<1>8. ASSUME NEW p \in Proc,
             \/ CreateCandidate(p) \/ WriteCandidate(p) \/ Quarantine(p)
             \/ CheckApply(p) \/ DoApply(p) \/ ReadCorpus(p)
             \/ TruncateFixture(p) \/ FillFixture(p)
      PROVE  UNCHANGED Shared!sharedVars
  <2>1. ledger' = ledger /\ tail' = tail /\ job' = job
    BY <1>8 DEF CreateCandidate, WriteCandidate, Quarantine, CheckApply,
       DoApply, ReadCorpus, TruncateFixture, FillFixture, disk
  <2>2. \A q \in Proc : pc'[q] = "landed" <=> pc[q] = "landed"
    BY <1>8 DEF CreateCandidate, WriteCandidate, Quarantine, CheckApply,
       DoApply, ReadCorpus, TruncateFixture, FillFixture, Goto, TypeOK
  <2>3. QED
    BY <1>5, <2>1, <2>2
<1>9. ASSUME NEW p \in Proc, Step(p) \/ Stop(p) \/ StopInAppend(p)
      PROVE  [Shared!SharedNext]_(Shared!sharedVars)
  <2>1. BodyOf(p) \in Job
    BY JobTyped DEF BodyOf
  <2>2. QED
    BY <1>1, <1>2, <1>3, <1>4, <1>6, <1>7, <1>8, <1>9, <2>1
       DEF Step, Shared!SharedNext
<1>10. CASE UNCHANGED vars
  BY <1>5, <1>10 DEF vars
<1>11. QED
  BY <1>9, <1>10 DEF Next, Terminated

(* All that landings do to the ledger, whoever stops at whichever point,   *)
(* the ledger allows: they are steps of the shared log.                    *)
THEOREM LandUsesSharedLog == Spec => UsesSharedLog
<1>1. Init => Shared!SharedInit
  BY DEF Init, Shared!SharedInit
<1>2. TypeOK /\ [Next]_vars => [Shared!SharedNext]_(Shared!sharedVars)
  BY SharedStep
<1>3. QED
  BY <1>1, <1>2, TypeInit, TypeStep, PTL DEF Spec, UsesSharedLog, Shared!SharedSpec

(* ... and the other way round: whatever an append may do to that log, an  *)
(* invocation that has come to its append may do here, so nothing the      *)
(* ledger shows of Ledger.tla is left out of Land.                         *)
THEOREM LandAllowsSharedLog ==
    ASSUME NEW p \in Proc,
           UNCHANGED <<job, scratch, applied, corpus, quarantine, gated>>,
           tail' = "torn" => ledger' = ledger,
           \/ /\ Goto(p, "ledger", "landed")
              /\ \/ Shared!Skip(p, BodyOf(p))
                 \/ Shared!Add(p, BodyOf(p))
                 \/ Shared!Glue(p, BodyOf(p))
           \/ /\ Goto(p, "ledger", "crashed")
              /\ Shared!LeaveEntry(BodyOf(p)) \/ Shared!LeaveTorn(BodyOf(p))
    PROVE  Step(p) \/ StopInAppend(p)
<1> USE DEF IsTip, disk, Shared!IsTip
<1>1. ASSUME Goto(p, "ledger", "landed"), Shared!Skip(p, BodyOf(p))
      PROVE  AppendSkips(p)
  BY <1>1 DEF AppendSkips, Shared!Skip
<1>2. ASSUME Goto(p, "ledger", "landed"), Shared!Add(p, BodyOf(p))
      PROVE  AppendEntry(p)
  BY <1>2 DEF AppendEntry, Shared!Add
<1>3. ASSUME Goto(p, "ledger", "landed"), Shared!Glue(p, BodyOf(p))
      PROVE  AppendGlues(p)
  BY <1>3 DEF AppendGlues, Shared!Glue
<1>4. ASSUME Goto(p, "ledger", "crashed"),
             Shared!LeaveEntry(BodyOf(p)) \/ Shared!LeaveTorn(BodyOf(p))
      PROVE  StopInAppend(p)
  BY <1>4 DEF StopInAppend, Shared!LeaveEntry, Shared!LeaveTorn
<1>5. QED
  BY <1>1, <1>2, <1>3, <1>4 DEF Step
=============================================================================

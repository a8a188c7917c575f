----------------------------- MODULE GateProofs -----------------------------
(***************************************************************************)
(* Theorems about Gate for any number of runs, checkouts, gap classes and  *)
(* inputs: what an acceptance and a privacy abort always stand for, and    *)
(* that an undisturbed run gives the verdict its inputs deserve.           *)
(***************************************************************************)
EXTENDS Gate, SequenceTheorems, TLAPS

(* What the inputs of a run must be like for it to have come this far.     *)
Came(i, at, rev) ==
    /\ at \in Script \cup {"exited"} => i.sha
    /\ at \in Script \ {"G0"} => "G0" \in i.ok
    /\ at \in Script \ {"G0", "G1"} => "G1" \in i.ok
    /\ at \in Script \ {"G0", "G1", "G2"} => "G2" \in i.ok
    /\ at \in Script \ {"G0", "G1", "G2", "G3"} => "G3" \in i.ok
    /\ at \in Script \ {"G0", "G1", "G2", "G3", "G4"} => "G4" \in i.ok
    /\ at \in Script \ {"G0", "G1", "G2", "G3", "G4", "G5"} => "G5" \in i.ok
    /\ at = "harness" => i.estate # "absent"
    /\ at \in {"grep", "measure"} => i.estate \notin {"absent", "insane"}
    /\ at \in {"metrics", "compare"} =>
           i.estate \notin {"absent", "insane", "unmeasured"}
    /\ at \in {"G7", "G8", "setup", "cmd", "revert", "recmd", "restore"} =>
           i.estate \notin {"insane", "unmeasured"}
    /\ at \in {"G8", "setup", "cmd", "revert", "recmd", "restore"} => "G7" \in i.ok
    /\ at \in {"setup", "cmd", "revert", "recmd", "restore"} => "G8" \in i.ok
    /\ at \in {"cmd", "revert", "recmd", "restore"} => i.pin # "none"
    /\ at \in {"recmd", "restore"} => i.pin # "unrevertable"
    /\ at = "restore" => (rev \/ i.pin # "tautology")

Accepted(i) ==
    /\ i.sha
    /\ i.ok = OwnStages
    /\ i.estate \notin {"insane", "unmeasured"}
    /\ i.pin \in {"real", "unreverted"}

Leaks(i) ==
    "G8" \notin i.ok /\ {"G0", "G1", "G2", "G3", "G4", "G5", "G7"} \subseteq i.ok

Earned ==
    \A g \in Run :
        /\ Came(in[g], pc[g], reverted[g])
        /\ exit[g] = 0 => Accepted(in[g])
        /\ exit[g] = 9 => Leaks(in[g])
        /\ outcome[g] = "accept" => Accepted(in[g])
        /\ outcome[g] = "privacy_abort" => Leaks(in[g])

EarnedInv == TypeOK /\ Earned

-----------------------------------------------------------------------------
LEMMA InputTyped ==
    ASSUME TypeOK, NEW g \in Run
    PROVE  /\ in[g] \in Input
           /\ in[g].ok \subseteq OwnStages
           /\ in[g].sha \in BOOLEAN
           /\ in[g].estate \in Estates
           /\ in[g].pin \in Pins
           /\ Marker(g) \in Tree \X Sig
  BY InputsAssumption DEF TypeOK, Input, Marker

Verdict == [stage : {"G1", "G2", "G3", "G4", "G5", "G6", "G7", "G8", "G9"},
            passed : BOOLEAN]

LEMMA LineAppended ==
    ASSUME TypeOK, NEW g \in Run,
           NEW s \in {"G1", "G2", "G3", "G4", "G5", "G6", "G7", "G8", "G9"},
           NEW b \in BOOLEAN
    PROVE  [lines EXCEPT ![g] = Append(@, [stage |-> s, passed |-> b])]
             \in [Run -> Seq(Verdict)]
<1>1. Append(lines[g], [stage |-> s, passed |-> b]) \in Seq(Verdict)
  BY AppendProperties DEF TypeOK, Verdict
<1>2. QED
  BY <1>1 DEF TypeOK, Verdict

LEMMA TypeInit == Init => TypeOK
  BY EmptySeq DEF Init, TypeOK, NoExit

(* The control variables keep their ranges in any move of the script.      *)
Ctl ==
    /\ lines \in [Run -> Seq(Verdict)]
    /\ pc \in [Run -> {"idle", "exited", "done"} \cup Script]
    /\ exit \in [Run -> {0, 1, 9, NoExit, Killed}]

LEMMA CtlTyped ==
    ASSUME TypeOK, NEW g \in Run, NEW next \in Script, NEW code \in {1, 9},
           NEW s \in {"G1", "G2", "G3", "G4", "G5", "G6", "G7", "G8", "G9"},
           Pass(g, s, next) \/ Fail(g, s, code) \/ Goto(g, next)
    PROVE  Ctl'
<1>1. CASE Pass(g, s, next)
  <2>1. lines' \in [Run -> Seq(Verdict)]
    BY <1>1, LineAppended DEF Pass
  <2>2. QED
    BY <1>1, <2>1 DEF Ctl, Pass, TypeOK
<1>2. CASE Fail(g, s, code)
  <2>1. lines' \in [Run -> Seq(Verdict)]
    BY <1>2, LineAppended DEF Fail
  <2>2. QED
    BY <1>2, <2>1 DEF Ctl, Fail, TypeOK
<1>3. CASE Goto(g, next)
  BY <1>3 DEF Goto, Ctl, TypeOK, Verdict
<1>4. QED
  BY <1>1, <1>2, <1>3

LEMMA TypeStep ==
    ASSUME EarnedInv, [Next]_vars
    PROVE  TypeOK'
<1> USE DEF mine, shared, Script, EarnedInv
<1>1. ASSUME NEW g \in Run, Start(g) PROVE TypeOK'
  BY <1>1 DEF Start, TypeOK, Active
<1>2. ASSUME NEW g \in Run, ShaMismatch(g) PROVE TypeOK'
  BY <1>2 DEF ShaMismatch, TypeOK
<1>3. ASSUME NEW g \in Run, BuildHelper(g) PROVE TypeOK'
  <2>1. lines' = lines /\ exit' \in [Run -> {0, 1, 9, NoExit, Killed}]
    BY <1>3 DEF BuildHelper, Goto, TypeOK
  <2>2. pc' \in [Run -> {"idle", "exited", "done"} \cup Script]
    BY <1>3 DEF BuildHelper, Goto, TypeOK
  <2>3. QED
    BY <1>3, <2>1, <2>2 DEF BuildHelper, TypeOK
<1>4. ASSUME NEW g \in Run, CheckOwn(g) PROVE TypeOK'
  <2>1. PICK s \in {"G1", "G2", "G3", "G4", "G5", "G7", "G8"} :
          /\ Pass(g, s, NextStage[s]) \/ Fail(g, s, FailCode(s))
          /\ UNCHANGED <<mine, shared, reverted>>
    BY <1>4 DEF CheckOwn, OwnStages
  <2>2. NextStage[s] \in Script /\ FailCode(s) \in {1, 9}
    BY DEF NextStage, OwnStages, FailCode
  <2>3. Ctl'
    BY <2>1, <2>2, CtlTyped
  <2>4. QED
    BY <2>1, <2>3 DEF Ctl, TypeOK, Verdict
<1>5. ASSUME NEW g \in Run, Estate(g) PROVE TypeOK'
  <2>1. Ctl'
    BY <1>5, CtlTyped DEF Estate
  <2>2. QED
    BY <1>5, <2>1 DEF Estate, Ctl, TypeOK, Verdict
<1>6. ASSUME NEW g \in Run, Harness(g) PROVE TypeOK'
  <2>1. Ctl'
    BY <1>6, CtlTyped DEF Harness
  <2>2. QED
    BY <1>6, <2>1 DEF Harness, Ctl, TypeOK, Verdict
<1>7. ASSUME NEW g \in Run, Grep(g) PROVE TypeOK'
  <2>1. Ctl'
    BY <1>7, CtlTyped DEF Grep
  <2>2. QED
    BY <1>7, <2>1 DEF Grep, Ctl, TypeOK, Verdict
<1>8. ASSUME NEW g \in Run, Measure(g) PROVE TypeOK'
  <2>1. Ctl'
    BY <1>8, CtlTyped DEF Measure
  <2>2. QED
    BY <1>8, <2>1 DEF Measure, Ctl, TypeOK, Verdict
<1>9. ASSUME NEW g \in Run, WriteMetrics(g) PROVE TypeOK'
  <2>1. in[g].estate \in {"below", "above"}
    BY <1>9, InputTyped DEF WriteMetrics, Earned, Came, Estates
  <2>2. Ctl'
    BY <1>9, CtlTyped DEF WriteMetrics
  <2>3. QED
    BY <1>9, <2>1, <2>2 DEF WriteMetrics, Ctl, TypeOK, Verdict
<1>10. ASSUME NEW g \in Run, Compare(g) PROVE TypeOK'
  <2>1. Ctl'
    BY <1>10, CtlTyped DEF Compare
  <2>2. QED
    BY <1>10, <2>1 DEF Compare, Ctl, TypeOK, Verdict
<1>11. ASSUME NEW g \in Run, Setup(g) PROVE TypeOK'
  <2>1. Ctl'
    BY <1>11, CtlTyped DEF Setup
  <2>2. marker' \subseteq Tree \X Sig
    BY <1>11, InputTyped DEF Setup, TypeOK
  <2>3. QED
    BY <1>11, <2>1, <2>2 DEF Setup, Ctl, TypeOK, Verdict
<1>12. ASSUME NEW g \in Run, TestPatched(g) PROVE TypeOK'
  <2>1. Ctl'
    BY <1>12, CtlTyped DEF TestPatched
  <2>2. QED
    BY <1>12, <2>1 DEF TestPatched, Ctl, TypeOK, Verdict
<1>13. ASSUME NEW g \in Run, Revert(g) PROVE TypeOK'
  <2>1. Ctl'
    BY <1>13, CtlTyped DEF Revert
  <2>2. marker' \subseteq Tree \X Sig
    BY <1>13 DEF Revert, TypeOK
  <2>3. QED
    BY <1>13, <2>1, <2>2 DEF Revert, Ctl, TypeOK, Verdict
<1>14. ASSUME NEW g \in Run, TestReverted(g) PROVE TypeOK'
  <2>1. Ctl'
    BY <1>14, CtlTyped DEF TestReverted
  <2>2. reverted' \in [Run -> BOOLEAN]
    BY <1>14 DEF TestReverted, TestPasses, TypeOK
  <2>3. QED
    BY <1>14, <2>1, <2>2 DEF TestReverted, Ctl, TypeOK, Verdict
<1>15. ASSUME NEW g \in Run, Restore(g) PROVE TypeOK'
  <2>1. Ctl'
    <3>1. CASE in[g].pin = "unrestorable" \/ reverted[g]
      BY <1>15, <3>1, CtlTyped DEF Restore
    <3>2. CASE ~(in[g].pin = "unrestorable" \/ reverted[g])
      <4>1. lines' = [lines EXCEPT ![g] = Append(@, [stage |-> "G9", passed |-> TRUE])]
        BY <1>15, <3>2 DEF Restore
      <4>2. lines' \in [Run -> Seq(Verdict)]
        BY <4>1, LineAppended
      <4>3. QED
        BY <1>15, <3>2, <4>2 DEF Restore, Ctl, TypeOK
    <3>3. QED
      BY <3>1, <3>2
  <2>2. marker' \subseteq Tree \X Sig
    BY <1>15, InputTyped DEF Restore, TypeOK
  <2>3. QED
    BY <1>15, <2>1, <2>2 DEF Restore, Ctl, TypeOK, Verdict
<1>16. ASSUME NEW g \in Run, Fold(g) PROVE TypeOK'
  BY <1>16 DEF Fold, Folded, TypeOK
<1>17. ASSUME NEW g \in Run, Kill(g) PROVE TypeOK'
  BY <1>17 DEF Kill, TypeOK
<1>18. CASE UNCHANGED vars
  BY <1>18 DEF vars, TypeOK
<1>19. QED
  BY <1>1, <1>2, <1>3, <1>4, <1>5, <1>6, <1>7, <1>8, <1>9, <1>10, <1>11, <1>12,
     <1>13, <1>14, <1>15, <1>16, <1>17, <1>18 DEF Next, Step, Terminated

-----------------------------------------------------------------------------
(* A run stands still unless the step is its own; inputs never change.     *)
LEMMA Mover ==
    ASSUME TypeOK, [Next]_vars, NEW g \in Run
    PROVE  \/ Step(g) \/ Kill(g)
           \/ UNCHANGED <<in, pc[g], lines[g], exit[g], outcome[g], reverted[g]>>
<1>1. CASE UNCHANGED vars
  BY <1>1 DEF vars
<1>2. ASSUME NEW h \in Run, h # g, Step(h) \/ Kill(h)
      PROVE  UNCHANGED <<in, pc[g], lines[g], exit[g], outcome[g], reverted[g]>>
  BY <1>2 DEF TypeOK, Step, mine, Start, ShaMismatch, BuildHelper, CheckOwn,
     Pass, Fail, Goto, Estate, Harness, Grep, Measure, WriteMetrics, Compare,
     Setup, TestPatched, Revert, TestReverted, Restore, Fold, Kill
<1>3. QED
  BY <1>1, <1>2 DEF Next, Terminated

(* A run's own step keeps what its progress and its verdict stand for.     *)
EarnedBy(g) ==
    /\ Came(in[g], pc[g], reverted[g])
    /\ exit[g] = 0 => Accepted(in[g])
    /\ exit[g] = 9 => Leaks(in[g])
    /\ outcome[g] = "accept" => Accepted(in[g])
    /\ outcome[g] = "privacy_abort" => Leaks(in[g])

LEMMA EarnedOwn ==
    ASSUME TypeOK, NEW g \in Run, EarnedBy(g), Step(g) \/ Kill(g)
    PROVE  EarnedBy(g)'
<1> USE DEF mine, Script, Goto, EarnedBy, Came, TypeOK
<1>0. /\ in[g].ok \subseteq OwnStages
      /\ in[g].estate \in Estates
      /\ in[g].pin \in Pins
  BY InputTyped
<1>1. ASSUME Start(g) PROVE EarnedBy(g)'
  BY <1>1 DEF Start
<1>2. ASSUME ShaMismatch(g) PROVE EarnedBy(g)'
  BY <1>2 DEF ShaMismatch
<1>3. ASSUME BuildHelper(g) PROVE EarnedBy(g)'
  BY <1>3 DEF BuildHelper
<1>4. ASSUME CheckOwn(g) PROVE EarnedBy(g)'
  <2>1. PICK s \in {"G1", "G2", "G3", "G4", "G5", "G7", "G8"} :
          /\ pc[g] = s
          /\ IF s \in in[g].ok THEN Pass(g, s, NextStage[s])
             ELSE Fail(g, s, FailCode(s))
          /\ UNCHANGED <<mine, reverted>>
    BY <1>4 DEF CheckOwn, OwnStages
  <2>2. CASE s \in in[g].ok
    BY <2>1, <2>2 DEF Pass, NextStage, OwnStages
  <2>3. CASE s \notin in[g].ok
    BY <2>1, <2>3 DEF Fail, FailCode, Leaks
  <2>4. QED
    BY <2>2, <2>3
<1>5. ASSUME Estate(g) PROVE EarnedBy(g)'
  BY <1>5 DEF Estate, Pass
<1>6. ASSUME Harness(g) PROVE EarnedBy(g)'
  BY <1>6 DEF Harness, Fail
<1>7. ASSUME Grep(g) PROVE EarnedBy(g)'
  BY <1>7 DEF Grep, Fail
<1>8. ASSUME Measure(g) PROVE EarnedBy(g)'
  BY <1>8 DEF Measure, Fail
<1>9. ASSUME WriteMetrics(g) PROVE EarnedBy(g)'
  BY <1>9 DEF WriteMetrics
<1>10. ASSUME Compare(g) PROVE EarnedBy(g)'
  BY <1>10 DEF Compare, Pass, Fail
<1>11. ASSUME Setup(g) PROVE EarnedBy(g)'
  BY <1>11 DEF Setup, Fail
<1>12. ASSUME TestPatched(g) PROVE EarnedBy(g)'
  BY <1>12 DEF TestPatched, Fail
<1>13. ASSUME Revert(g) PROVE EarnedBy(g)'
  BY <1>13 DEF Revert, Fail
<1>14. ASSUME TestReverted(g) PROVE EarnedBy(g)'
  BY <1>14 DEF TestReverted, TestPasses
<1>15. ASSUME Restore(g) PROVE EarnedBy(g)'
  <2>1. pc[g] = "restore" /\ in' = in /\ outcome' = outcome /\ reverted' = reverted
    BY <1>15 DEF Restore
  <2>2. in[g].ok = OwnStages
    BY <1>0, <2>1 DEF OwnStages
  <2>3. CASE in[g].pin = "unrestorable" \/ reverted[g]
    BY <1>15, <2>1, <2>3 DEF Restore, Fail
  <2>4. CASE ~(in[g].pin = "unrestorable" \/ reverted[g])
    BY <1>0, <1>15, <2>1, <2>2, <2>4 DEF Restore, Accepted, Pins
  <2>5. QED
    BY <2>3, <2>4
<1>16. ASSUME Fold(g) PROVE EarnedBy(g)'
  BY <1>16 DEF Fold, Folded
<1>17. ASSUME Kill(g) PROVE EarnedBy(g)'
  BY <1>17 DEF Kill, Killed
<1>18. QED
  BY <1>1, <1>2, <1>3, <1>4, <1>5, <1>6, <1>7, <1>8, <1>9, <1>10, <1>11, <1>12,
     <1>13, <1>14, <1>15, <1>16, <1>17 DEF Step

LEMMA EarnedStep ==
    ASSUME EarnedInv, [Next]_vars
    PROVE  EarnedInv'
<1>1. TypeOK'
  BY TypeStep
<1>2. ASSUME NEW g \in Run PROVE EarnedBy(g)'
  <2>1. EarnedBy(g)
    BY DEF EarnedInv, Earned, EarnedBy
  <2>2. CASE Step(g) \/ Kill(g)
    BY <2>1, <2>2, EarnedOwn DEF EarnedInv
  <2>3. CASE UNCHANGED <<in, pc[g], lines[g], exit[g], outcome[g], reverted[g]>>
    BY <2>1, <2>3 DEF EarnedBy, Came, Accepted, Leaks
  <2>4. QED
    BY <2>2, <2>3, Mover DEF EarnedInv
<1>3. QED
  BY <1>1, <1>2 DEF EarnedInv, Earned, EarnedBy

LEMMA EarnedInit == Init => EarnedInv
<1>1. ASSUME Init, NEW g \in Run PROVE EarnedBy(g)
  <2>1. pc[g] = "idle" /\ exit[g] = 99 /\ outcome[g] = "none"
    BY <1>1 DEF Init, NoExit
  <2>2. QED
    BY <2>1 DEF EarnedBy, Came, Script
<1>2. QED
  BY <1>1, TypeInit DEF EarnedInv, Earned, EarnedBy

LEMMA EarnedAlways == Spec => []EarnedInv
<1>1. EarnedInv /\ [Next]_vars => EarnedInv'
  BY EarnedStep
<1>2. QED
  BY EarnedInit, <1>1, PTL DEF Spec

-----------------------------------------------------------------------------
(* Every variable stays in its range, the codes and outcomes included.     *)
THEOREM TypeCorrect == Spec => []TypeOK
<1>1. EarnedInv => TypeOK
  BY DEF EarnedInv
<1>2. QED
  BY EarnedAlways, <1>1, PTL

(* However many runs share /tmp and the markers, run_gate accepts no       *)
(* candidate that fails a check of its own, and pins nothing else.         *)
THEOREM AcceptIsEarned == Spec => []AcceptKeepsOwnChecks
<1>1. EarnedInv => AcceptKeepsOwnChecks
  BY DEF EarnedInv, Earned, Accepted, AcceptKeepsOwnChecks
<1>2. QED
  BY EarnedAlways, <1>1, PTL

(* A privacy abort is a leak of the run's own candidate, found after its   *)
(* stages before G8 passed.                                                *)
THEOREM PrivacyAbortEarned == Spec => []PrivacyAbortIsEarned
<1>1. EarnedInv => PrivacyAbortIsEarned
  BY DEF EarnedInv, Earned, Leaks, PrivacyAbortIsEarned
<1>2. QED
  BY EarnedAlways, <1>1, PTL

-----------------------------------------------------------------------------
(* An undisturbed run.  Its lines are those of the stages it has passed.   *)
Passing(n) == [i \in 1 .. n |-> [stage |-> GATE_STAGES[i], passed |-> TRUE]]

Printed(at, ls) ==
    /\ at \in {"idle", "G0", "G1"} => ls = Passing(0)
    /\ at = "G2" => ls = Passing(1)
    /\ at = "G3" => ls = Passing(2)
    /\ at = "G4" => ls = Passing(3)
    /\ at = "G5" => ls = Passing(4)
    /\ at \in {"estate", "harness", "grep", "measure", "metrics", "compare"} =>
           ls = Passing(5)
    /\ at = "G7" => ls = Passing(6)
    /\ at = "G8" => ls = Passing(7)
    /\ at \in {"setup", "cmd", "revert", "recmd", "restore"} => ls = Passing(8)

LinesBy(g) ==
    /\ Printed(pc[g], lines[g])
    /\ exit[g] # NoExit => pc[g] \in {"exited", "done"}
    /\ exit[g] = 0 => lines[g] = Passing(9)

(* Two runs that are active together know it.                              *)
Alone == \A g, h \in Run : g # h /\ Active(g) /\ Active(h) => overlapped[g]

(* The shared files hold what the run itself put there, and its exit code  *)
(* is the one its inputs deserve.                                          *)
Files(g) ==
    /\ pc[g] = "grep" => g6out = "PASS"
    /\ pc[g] = "compare" => g6metrics = in[g].estate
    /\ pc[g] \in {"cmd", "revert"} => Marker(g) \in marker
    /\ pc[g] = "recmd" => (Marker(g) \in marker <=> in[g].pin = "unreverted")

Codes(g) ==
    /\ pc[g] \in {"G7", "G8", "setup", "cmd", "revert", "recmd", "restore"} =>
           in[g].estate \in {"absent", "above"}
    /\ pc[g] = "restore" =>
           (reverted[g] <=> in[g].pin \in {"tautology", "unreverted"})
    /\ pc[g] = "exited" =>
           /\ exit[g] \in {0, 1, 9, Killed}
           /\ exit[g] = 0 => Deserved(in[g]) = "accept"
           /\ exit[g] = 1 => Deserved(in[g]) = "reject"
           /\ exit[g] = 9 => Deserved(in[g]) = "privacy_abort"
    /\ pc[g] = "done" /\ exit[g] # Killed => outcome[g] = Deserved(in[g])

ExactBy(g) == ~overlapped[g] => Files(g) /\ Codes(g)

ExactInv ==
    /\ EarnedInv
    /\ Alone
    /\ \A g \in Run : LinesBy(g) /\ ExactBy(g)

LEMMA StageNames ==
    /\ GATE_STAGES[1] = "G1" /\ GATE_STAGES[2] = "G2" /\ GATE_STAGES[3] = "G3"
    /\ GATE_STAGES[4] = "G4" /\ GATE_STAGES[5] = "G5" /\ GATE_STAGES[6] = "G6"
    /\ GATE_STAGES[7] = "G7" /\ GATE_STAGES[8] = "G8" /\ GATE_STAGES[9] = "G9"
    /\ Len(GATE_STAGES) = 9
    /\ DOMAIN GATE_STAGES = 1 .. 9
  BY DEF GATE_STAGES

LEMMA PassingTyped ==
    ASSUME NEW n \in 0 .. 9
    PROVE  Passing(n) \in Seq(Verdict) /\ Len(Passing(n)) = n
<1>1. \A i \in 1 .. n : [stage |-> GATE_STAGES[i], passed |-> TRUE] \in Verdict
  <2>1. \A i \in 1 .. 9 : GATE_STAGES[i] \in
          {"G1", "G2", "G3", "G4", "G5", "G6", "G7", "G8", "G9"}
    BY StageNames
  <2>2. QED
    BY <2>1 DEF Verdict
<1>2. Passing(n) \in [1 .. n -> Verdict]
  BY <1>1 DEF Passing
<1>3. QED
  BY <1>2

LEMMA PassingGrows ==
    ASSUME NEW n \in 0 .. 8
    PROVE  Append(Passing(n), [stage |-> GATE_STAGES[n + 1], passed |-> TRUE])
             = Passing(n + 1)
<1> DEFINE v == [stage |-> GATE_STAGES[n + 1], passed |-> TRUE]
<1>0. n \in 0 .. 9 /\ n + 1 \in 0 .. 9
  OBVIOUS
<1>1. Passing(n) \in Seq(Verdict) /\ Len(Passing(n)) = n
  BY <1>0, PassingTyped
<1>2. Passing(n + 1) \in Seq(Verdict) /\ Len(Passing(n + 1)) = n + 1
  BY <1>0, PassingTyped
<1>3. v = Passing(n + 1)[n + 1] /\ v \in Verdict
  <2>1. n + 1 \in 1 .. n + 1
    OBVIOUS
  <2>2. v = Passing(n + 1)[n + 1]
    BY <2>1 DEF Passing
  <2>3. QED
    BY <1>2, <2>1, <2>2, ElementOfSeq
<1>4. \A i \in 1 .. n : Passing(n)[i] = Passing(n + 1)[i]
  BY DEF Passing
<1> HIDE DEF v
<1>5. /\ Append(Passing(n), v) \in Seq(Verdict)
      /\ Len(Append(Passing(n), v)) = n + 1
      /\ \A i \in 1 .. n : Append(Passing(n), v)[i] = Passing(n)[i]
      /\ Append(Passing(n), v)[n + 1] = v
  BY <1>1, <1>3, AppendProperties
<1>6. \A i \in 1 .. n + 1 : Append(Passing(n), v)[i] = Passing(n + 1)[i]
  <2>1. ASSUME NEW i \in 1 .. n + 1
        PROVE  Append(Passing(n), v)[i] = Passing(n + 1)[i]
    <3>1. CASE i = n + 1
      BY <1>3, <1>5, <3>1
    <3>2. CASE i \in 1 .. n
      BY <1>4, <1>5, <3>2
    <3>3. i = n + 1 \/ i \in 1 .. n
      OBVIOUS
    <3>4. QED
      BY <3>1, <3>2, <3>3
  <2>2. QED
    BY <2>1
<1>7. Append(Passing(n), v) = Passing(n + 1)
  <2> DEFINE s == Append(Passing(n), v)
             t == Passing(n + 1)
  <2>1. s \in Seq(Verdict) /\ t \in Seq(Verdict) /\ Len(s) = Len(t)
    BY <1>2, <1>5
  <2>2. \A i \in 1 .. Len(s) : s[i] = t[i]
    BY <1>5, <1>6
  <2> HIDE DEF s, t
  <2>3. s = t
    BY <2>1, <2>2, SeqEqual
  <2>4. QED
    BY <2>3 DEF s, t
<1>8. QED
  BY <1>7 DEF v

LEMMA PassingAll == Folded(Passing(9), 0) = "accept"
<1>1. Len(Passing(9)) = 9 /\ DOMAIN Passing(9) = 1 .. 9
  BY PassingTyped DEF Passing
<1>2. \A i \in 1 .. 9 : /\ Passing(9)[i].passed
                        /\ Passing(9)[i].stage = GATE_STAGES[i]
  BY DEF Passing
<1>3. QED
  BY <1>1, <1>2, StageNames DEF Folded

LEMMA LinePassed ==
    ASSUME TypeOK, NEW g \in Run, NEW n \in 0 .. 8, NEW s, NEW next,
           lines[g] = Passing(n), s = GATE_STAGES[n + 1], Pass(g, s, next)
    PROVE  lines'[g] = Passing(n + 1) /\ pc'[g] = next /\ exit'[g] = exit[g]
  BY PassingGrows DEF TypeOK, Pass

LEMMA LinesOwn ==
    ASSUME TypeOK, NEW g \in Run, LinesBy(g), Step(g) \/ Kill(g)
    PROVE  LinesBy(g)'
<1> USE DEF mine, Script, Goto, LinesBy, Printed, NoExit
<1>0. TypeOK
  OBVIOUS
<1>a. ASSUME NEW s, NEW code \in {1, 9}, Fail(g, s, code) PROVE LinesBy(g)'
  BY <1>0, <1>a DEF Fail, TypeOK
<1>b. ASSUME NEW next, Goto(g, next), pc[g] \in Script,
             Printed(pc[g], lines[g]) => Printed(next, lines[g])
      PROVE  LinesBy(g)'
  BY <1>0, <1>b DEF TypeOK
<1>1. ASSUME Start(g) PROVE LinesBy(g)'
  BY <1>0, <1>1 DEF Start, TypeOK
<1>2. ASSUME ShaMismatch(g) PROVE LinesBy(g)'
  BY <1>0, <1>2 DEF ShaMismatch, TypeOK
<1>3. ASSUME BuildHelper(g) PROVE LinesBy(g)'
  BY <1>0, <1>3 DEF BuildHelper, TypeOK
<1>4. ASSUME CheckOwn(g) PROVE LinesBy(g)'
  <2>1. PICK s \in {"G1", "G2", "G3", "G4", "G5", "G7", "G8"} :
          /\ pc[g] = s
          /\ IF s \in in[g].ok THEN Pass(g, s, NextStage[s])
             ELSE Fail(g, s, FailCode(s))
    BY <1>4 DEF CheckOwn, OwnStages
  <2>2. CASE s \notin in[g].ok
    BY <1>a, <2>1, <2>2 DEF FailCode
  <2>3. CASE s \in in[g].ok
    <3>1. Pass(g, s, NextStage[s])
      BY <2>1, <2>3
    <3>2. exit[g] = NoExit
      BY <2>1
    <3>3. CASE s = "G1"
      <4>1. lines[g] = Passing(0) /\ NextStage[s] = "G2"
        BY <2>1, <3>3 DEF NextStage, OwnStages
      <4>2. lines'[g] = Passing(1) /\ pc'[g] = "G2" /\ exit'[g] = NoExit
        BY <3>1, <3>2, <3>3, <4>1, LinePassed, StageNames
      <4>3. QED
        BY <4>2
    <3>4. CASE s = "G2"
      <4>1. lines[g] = Passing(1) /\ NextStage[s] = "G3"
        BY <2>1, <3>4 DEF NextStage, OwnStages
      <4>2. lines'[g] = Passing(2) /\ pc'[g] = "G3" /\ exit'[g] = NoExit
        BY <3>1, <3>2, <3>4, <4>1, LinePassed, StageNames
      <4>3. QED
        BY <4>2
    <3>5. CASE s = "G3"
      <4>1. lines[g] = Passing(2) /\ NextStage[s] = "G4"
        BY <2>1, <3>5 DEF NextStage, OwnStages
      <4>2. lines'[g] = Passing(3) /\ pc'[g] = "G4" /\ exit'[g] = NoExit
        BY <3>1, <3>2, <3>5, <4>1, LinePassed, StageNames
      <4>3. QED
        BY <4>2
    <3>6. CASE s = "G4"
      <4>1. lines[g] = Passing(3) /\ NextStage[s] = "G5"
        BY <2>1, <3>6 DEF NextStage, OwnStages
      <4>2. lines'[g] = Passing(4) /\ pc'[g] = "G5" /\ exit'[g] = NoExit
        BY <3>1, <3>2, <3>6, <4>1, LinePassed, StageNames
      <4>3. QED
        BY <4>2
    <3>7. CASE s = "G5"
      <4>1. lines[g] = Passing(4) /\ NextStage[s] = "estate"
        BY <2>1, <3>7 DEF NextStage, OwnStages
      <4>2. lines'[g] = Passing(5) /\ pc'[g] = "estate" /\ exit'[g] = NoExit
        BY <3>1, <3>2, <3>7, <4>1, LinePassed, StageNames
      <4>3. QED
        BY <4>2
    <3>8. CASE s = "G7"
      <4>1. lines[g] = Passing(6) /\ NextStage[s] = "G8"
        BY <2>1, <3>8 DEF NextStage, OwnStages
      <4>2. lines'[g] = Passing(7) /\ pc'[g] = "G8" /\ exit'[g] = NoExit
        BY <3>1, <3>2, <3>8, <4>1, LinePassed, StageNames
      <4>3. QED
        BY <4>2
    <3>9. CASE s = "G8"
      <4>1. lines[g] = Passing(7) /\ NextStage[s] = "setup"
        BY <2>1, <3>9 DEF NextStage, OwnStages
      <4>2. lines'[g] = Passing(8) /\ pc'[g] = "setup" /\ exit'[g] = NoExit
        BY <3>1, <3>2, <3>9, <4>1, LinePassed, StageNames
      <4>3. QED
        BY <4>2
    <3>10. QED
      BY <3>3, <3>4, <3>5, <3>6, <3>7, <3>8, <3>9
  <2>4. QED
    BY <2>2, <2>3
<1>c. ASSUME Pass(g, "G6", "G7"), pc[g] \in {"estate", "compare"} PROVE LinesBy(g)'
  <2>1. lines[g] = Passing(5) /\ exit[g] = NoExit
    BY <1>c
  <2>2. lines'[g] = Passing(6) /\ pc'[g] = "G7" /\ exit'[g] = NoExit
    BY <1>c, <2>1, LinePassed, StageNames
  <2>3. QED
    BY <2>2
<1>5. ASSUME Estate(g) PROVE LinesBy(g)'
  BY <1>5, <1>b, <1>c DEF Estate
<1>6. ASSUME Harness(g) PROVE LinesBy(g)'
  BY <1>6, <1>a, <1>b DEF Harness
<1>7. ASSUME Grep(g) PROVE LinesBy(g)'
  BY <1>7, <1>a, <1>b DEF Grep
<1>8. ASSUME Measure(g) PROVE LinesBy(g)'
  BY <1>8, <1>a, <1>b DEF Measure
<1>9. ASSUME WriteMetrics(g) PROVE LinesBy(g)'
  BY <1>9, <1>b DEF WriteMetrics
<1>10. ASSUME Compare(g) PROVE LinesBy(g)'
  BY <1>10, <1>a, <1>c DEF Compare
<1>11. ASSUME Setup(g) PROVE LinesBy(g)'
  BY <1>11, <1>a, <1>b DEF Setup
<1>12. ASSUME TestPatched(g) PROVE LinesBy(g)'
  BY <1>12, <1>a, <1>b DEF TestPatched
<1>13. ASSUME Revert(g) PROVE LinesBy(g)'
  BY <1>13, <1>a, <1>b DEF Revert
<1>14. ASSUME TestReverted(g) PROVE LinesBy(g)'
  BY <1>14, <1>b DEF TestReverted
<1>15. ASSUME Restore(g) PROVE LinesBy(g)'
  <2>1. CASE in[g].pin = "unrestorable" \/ reverted[g]
    BY <1>15, <1>a, <2>1 DEF Restore
  <2>2. CASE ~(in[g].pin = "unrestorable" \/ reverted[g])
    <3>1. lines[g] = Passing(8)
      BY <1>15 DEF Restore
    <3>2. lines'[g] = Append(lines[g], [stage |-> "G9", passed |-> TRUE])
      BY <1>0, <1>15, <2>2 DEF Restore, TypeOK
    <3>3. lines'[g] = Passing(9)
      <4>1. Append(Passing(8), [stage |-> GATE_STAGES[8 + 1], passed |-> TRUE])
              = Passing(8 + 1)
        BY PassingGrows
      <4>2. 8 + 1 = 9
        OBVIOUS
      <4>3. Append(Passing(8), [stage |-> GATE_STAGES[9], passed |-> TRUE])
              = Passing(9)
        BY <4>1, <4>2
      <4>4. QED
        BY <3>1, <3>2, <4>3, StageNames
    <3>4. pc'[g] = "exited"
      BY <1>0, <1>15, <2>2 DEF Restore, TypeOK
    <3>5. QED
      BY <3>3, <3>4
  <2>3. QED
    BY <2>1, <2>2
<1>16. ASSUME Fold(g) PROVE LinesBy(g)'
  BY <1>0, <1>16 DEF Fold, TypeOK
<1>17. ASSUME Kill(g) PROVE LinesBy(g)'
  BY <1>0, <1>17 DEF Kill, Killed, TypeOK
<1>18. QED
  BY <1>1, <1>2, <1>3, <1>4, <1>5, <1>6, <1>7, <1>8, <1>9, <1>10, <1>11, <1>12,
     <1>13, <1>14, <1>15, <1>16, <1>17 DEF Step

-----------------------------------------------------------------------------
(* Being overlapped is never forgotten, and a run becomes active only by   *)
(* starting.                                                               *)
LEMMA Overlapping ==
    ASSUME TypeOK, [Next]_vars, NEW g \in Run
    PROVE  /\ overlapped[g] => overlapped'[g]
           /\ Active(g)' => Active(g) \/ Start(g)
<1>1. overlapped[g] => overlapped'[g]
  BY DEF TypeOK, Next, Step, Terminated, vars, mine, Start, ShaMismatch,
     BuildHelper, CheckOwn, Estate, Harness, Grep, Measure, WriteMetrics,
     Compare, Setup, TestPatched, Revert, TestReverted, Restore, Fold, Kill
<1>2. Active(g)' => Active(g) \/ Start(g)
  <2>1. CASE Step(g) \/ Kill(g)
    BY <2>1 DEF TypeOK, Active, Script, OwnStages, Step, ShaMismatch, BuildHelper,
       CheckOwn, Estate, Harness, Grep, Measure, WriteMetrics, Compare, Setup,
       TestPatched, Revert, TestReverted, Restore, Fold, Kill
  <2>2. CASE UNCHANGED <<in, pc[g], lines[g], exit[g], outcome[g], reverted[g]>>
    BY <2>2 DEF Active
  <2>3. QED
    BY <2>1, <2>2, Mover
<1>3. QED
  BY <1>1, <1>2

LEMMA AloneStep ==
    ASSUME TypeOK, Alone, [Next]_vars
    PROVE  Alone'
<1>1. ASSUME NEW g \in Run, NEW h \in Run, g # h, Active(g)', Active(h)'
      PROVE  overlapped'[g]
  <2>1. CASE Active(g) /\ Active(h)
    BY <1>1, <2>1, Overlapping DEF Alone
  <2>2. CASE Start(g)
    <3>1. Active(h)
      BY <1>1, <2>2 DEF TypeOK, Start, Active
    <3>2. QED
      BY <2>2, <3>1 DEF Start
  <2>3. CASE Start(h)
    <3>1. Active(g)
      BY <1>1, <2>3 DEF TypeOK, Start, Active
    <3>2. QED
      BY <2>3, <3>1 DEF Start
  <2>4. QED
    BY <1>1, <2>1, <2>2, <2>3, Overlapping
<1>2. QED
  BY <1>1 DEF Alone

(* The undisturbed run's own step ...                                      *)
LEMMA ExactOwn ==
    ASSUME EarnedInv, NEW g \in Run, LinesBy(g), ExactBy(g),
           Step(g) \/ Kill(g), ~overlapped'[g]
    PROVE  Files(g)' /\ Codes(g)'
<1> DEFINE Done == Files(g)' /\ Codes(g)'
<1>0. /\ TypeOK
      /\ in[g].ok \subseteq OwnStages
      /\ in[g].estate \in Estates
      /\ in[g].pin \in Pins
      /\ Came(in[g], pc[g], reverted[g])
  BY InputTyped DEF EarnedInv, Earned
<1> USE DEF mine, shared, Script, Goto, Files, Codes, Marker, Estates, Pins
<1>a. Start(g) \/ ShaMismatch(g) \/ (Files(g) /\ Codes(g) /\ ~overlapped[g])
  BY <1>0 DEF ExactBy, Step, BuildHelper, CheckOwn, Estate, Harness, Grep,
     Measure, WriteMetrics, Compare, Setup, TestPatched, Revert, TestReverted,
     Restore, Fold, Kill
<1>1. ASSUME Start(g) PROVE Done
  BY <1>0, <1>1 DEF Start, TypeOK
<1>2. ASSUME ShaMismatch(g) PROVE Done
  BY <1>0, <1>2 DEF ShaMismatch, TypeOK, Deserved
<1>3. ASSUME BuildHelper(g) PROVE Done
  BY <1>0, <1>3 DEF BuildHelper, TypeOK, Deserved, Came
<1>4. ASSUME CheckOwn(g) PROVE Done
  <2>1. PICK s \in {"G1", "G2", "G3", "G4", "G5", "G7", "G8"} :
          /\ pc[g] = s
          /\ IF s \in in[g].ok THEN Pass(g, s, NextStage[s])
             ELSE Fail(g, s, FailCode(s))
          /\ UNCHANGED <<mine, shared, reverted>>
    BY <1>4 DEF CheckOwn, OwnStages
  <2>2. CASE s \in in[g].ok
    BY <1>0, <1>a, <1>4, <2>1, <2>2 DEF Pass, NextStage, OwnStages, TypeOK, Start,
       ShaMismatch
  <2>3. CASE s \notin in[g].ok
    BY <1>0, <1>a, <1>4, <2>1, <2>3 DEF Fail, FailCode, Deserved, Came, TypeOK,
       Start, ShaMismatch
  <2>4. QED
    BY <2>2, <2>3
<1>5. ASSUME Estate(g) PROVE Done
  BY <1>0, <1>a, <1>5 DEF Estate, Pass, TypeOK, Came, Deserved, Start, ShaMismatch
<1>6. ASSUME Harness(g) PROVE Done
  BY <1>0, <1>a, <1>6 DEF Harness, Fail, TypeOK, Came, Deserved, Start, ShaMismatch
<1>7. ASSUME Grep(g) PROVE Done
  BY <1>0, <1>a, <1>7 DEF Grep, Fail, TypeOK, Came, Deserved, Start, ShaMismatch
<1>8. ASSUME Measure(g) PROVE Done
  BY <1>0, <1>a, <1>8 DEF Measure, Fail, TypeOK, Came, Deserved, Start, ShaMismatch
<1>9. ASSUME WriteMetrics(g) PROVE Done
  BY <1>0, <1>a, <1>9 DEF WriteMetrics, TypeOK, Came, Deserved, Start, ShaMismatch
<1>10. ASSUME Compare(g) PROVE Done
  BY <1>0, <1>a, <1>10 DEF Compare, Pass, Fail, TypeOK, Came, Deserved, Start, ShaMismatch
<1>11. ASSUME Setup(g) PROVE Done
  BY <1>0, <1>a, <1>11 DEF Setup, Fail, TypeOK, Came, Deserved, Start, ShaMismatch
<1>12. ASSUME TestPatched(g) PROVE Done
  BY <1>0, <1>a, <1>12 DEF TestPatched, TestPasses, Fail, TypeOK, Came, Deserved, Start, ShaMismatch
<1>13. ASSUME Revert(g) PROVE Done
  BY <1>0, <1>a, <1>13 DEF Revert, Fail, TypeOK, Came, Deserved, Start, ShaMismatch
<1>14. ASSUME TestReverted(g) PROVE Done
  BY <1>0, <1>a, <1>14 DEF TestReverted, TestPasses, TypeOK, Came, Deserved, Start, ShaMismatch
<1>15. ASSUME Restore(g) PROVE Done
  BY <1>0, <1>a, <1>15 DEF Restore, Fail, TypeOK, Came, Deserved, Start, ShaMismatch
<1>16. ASSUME Fold(g) PROVE Done
  <2>1. /\ pc[g] = "exited" /\ pc'[g] = "done"
        /\ exit' = exit /\ in' = in
        /\ outcome'[g] = Folded(lines[g], exit[g])
    BY <1>0, <1>16 DEF Fold, TypeOK
  <2>2. Codes(g)
    BY <1>a, <2>1 DEF Start, ShaMismatch
  <2>3. exit[g] # Killed => Folded(lines[g], exit[g]) = Deserved(in[g])
    <3>1. CASE exit[g] = 0
      BY <2>1, <2>2, <3>1, PassingAll DEF LinesBy
    <3>2. CASE exit[g] = 1
      BY <2>1, <2>2, <3>2 DEF Folded
    <3>3. CASE exit[g] = 9
      BY <2>1, <2>2, <3>3 DEF Folded
    <3>4. QED
      BY <2>1, <2>2, <3>1, <3>2, <3>3
  <2>4. QED
    BY <2>1, <2>3
<1>17. ASSUME Kill(g) PROVE Done
  BY <1>0, <1>17 DEF Kill, Killed, TypeOK
<1>18. QED
  BY <1>1, <1>2, <1>3, <1>4, <1>5, <1>6, <1>7, <1>8, <1>9, <1>10, <1>11, <1>12,
     <1>13, <1>14, <1>15, <1>16, <1>17 DEF Step

(* ... and the steps of others while it is not disturbed.                  *)
LEMMA ExactOther ==
    ASSUME TypeOK, Alone, NEW g \in Run, NEW h \in Run, g # h, ExactBy(g),
           [Next]_vars, Step(h) \/ Kill(h), ~overlapped'[g],
           UNCHANGED <<in, pc[g], lines[g], exit[g], outcome[g], reverted[g]>>
    PROVE  Files(g)' /\ Codes(g)'
<1>1. ~overlapped[g] /\ Files(g) /\ Codes(g)
  BY Overlapping DEF ExactBy
<1>2. CASE ~Active(g)
  BY <1>1, <1>2 DEF Active, Script, Files, Codes
<1>3. CASE Active(g)
  <2>1. ~Active(h)
    BY <1>1, <1>3 DEF Alone
  <2>2. ~Start(h)
    BY <1>3 DEF TypeOK, Start
  <2>3. ShaMismatch(h)
    BY <2>1, <2>2 DEF Active, Script, OwnStages, Step, BuildHelper, CheckOwn,
       Estate, Harness, Grep, Measure, WriteMetrics, Compare, Setup, TestPatched,
       Revert, TestReverted, Restore, Fold, Kill
  <2>4. UNCHANGED shared
    BY <2>3 DEF ShaMismatch
  <2>5. QED
    BY <1>1, <2>4 DEF shared, Files, Codes, Marker
<1>4. QED
  BY <1>2, <1>3

LEMMA ExactStep ==
    ASSUME ExactInv, [Next]_vars
    PROVE  ExactInv'
<1>0. EarnedInv /\ TypeOK /\ Alone
  BY DEF ExactInv, EarnedInv
<1>1. EarnedInv' /\ Alone'
  BY <1>0, EarnedStep, AloneStep
<1>2. ASSUME NEW g \in Run PROVE LinesBy(g)' /\ ExactBy(g)'
  <2>0. LinesBy(g) /\ ExactBy(g)
    BY DEF ExactInv
  <2>1. CASE Step(g) \/ Kill(g)
    BY <1>0, <2>0, <2>1, LinesOwn, ExactOwn DEF ExactBy
  <2>2. CASE UNCHANGED <<in, pc[g], lines[g], exit[g], outcome[g], reverted[g]>>
                /\ ~(Step(g) \/ Kill(g))
    <3>1. LinesBy(g)'
      BY <2>0, <2>2 DEF LinesBy, Printed
    <3>2. CASE UNCHANGED vars
      BY <2>0, <3>1, <3>2 DEF vars, shared, ExactBy, Files, Codes, Marker
    <3>3. ASSUME NEW h \in Run, Step(h) \/ Kill(h) PROVE ExactBy(g)'
      <4>1. h # g
        BY <2>2, <3>3
      <4>2. QED
        BY <1>0, <2>0, <2>2, <3>3, <4>1, ExactOther DEF ExactBy
    <3>4. QED
      BY <3>1, <3>2, <3>3 DEF Next, Terminated
  <2>3. QED
    BY <1>0, <2>1, <2>2, Mover
<1>3. QED
  BY <1>1, <1>2 DEF ExactInv

LEMMA ExactInit == Init => ExactInv
<1>1. ASSUME Init, NEW g \in Run
      PROVE  LinesBy(g) /\ ExactBy(g) /\ ~Active(g)
  <2>1. pc[g] = "idle" /\ exit[g] = NoExit /\ lines[g] = <<>>
    BY <1>1 DEF Init
  <2>2. Passing(0) = <<>>
    BY PassingTyped, EmptySeq
  <2>3. QED
    BY <2>1, <2>2 DEF LinesBy, Printed, ExactBy, Files, Codes, Active, Script, NoExit
<1>2. QED
  BY <1>1, EarnedInit DEF ExactInv, Alone

(* A run no other run and no signal disturbs gives the verdict its inputs  *)
(* deserve, in whatever state earlier runs left /tmp and the markers.      *)
THEOREM UndisturbedExact == Spec => []UndisturbedIsExact
<1>1. ExactInv /\ [Next]_vars => ExactInv'
  BY ExactStep
<1>2. ExactInv => UndisturbedIsExact
  BY DEF ExactInv, ExactBy, Codes, UndisturbedIsExact
<1>3. QED
  BY ExactInit, <1>1, <1>2, PTL DEF Spec
=============================================================================

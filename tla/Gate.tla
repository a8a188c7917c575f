-------------------------------- MODULE Gate --------------------------------
(***************************************************************************)
(* The conformance gate: scripts/usr_gate.sh as run_gate of                *)
(* crates/plsql-accretion/src/gate.rs starts it and folds its output into  *)
(* a verdict, with several gate runs on one host at once.                  *)
(*                                                                         *)
(* The nine stages run strictly in order and the first failure ends the    *)
(* script.  G1-G5, G7 and G8 read only what belongs to the run, so each is *)
(* one check of its input.  Two stages use files other runs use as well:   *)
(*   - G6 passes the harness verdict and the metrics through               *)
(*     /tmp/usr_gate_g6.out and /tmp/usr_gate_g6.metrics, one pair for all *)
(*     the checkouts of the host;                                          *)
(*   - G9 proves a pin by creating, removing and restoring the marker      *)
(*     .usr/usr_pin_<signature>, one per checkout and gap class.           *)
(***************************************************************************)
EXTENDS Naturals, Sequences

CONSTANTS
    Run,     \* gate runs
    Tree,    \* checkouts
    Sig,     \* gap classes
    Inputs   \* what a run may be given

GATE_STAGES == <<"G1", "G2", "G3", "G4", "G5", "G6", "G7", "G8", "G9">>

(* The stages that depend on nothing but the run's own candidate and tree; *)
(* G0 is the build of the check helper.                                    *)
OwnStages == {"G0", "G1", "G2", "G3", "G4", "G5", "G7", "G8"}

(* sha: the script matches its pin.  ok: the own stages whose check holds. *)
(* estate: absent, insane (estate_correctness.sh fails), without metrics   *)
(* (the helper cannot measure them), below or above the committed          *)
(* baseline.  pin: the hooks of the candidate - real ones, ones whose test *)
(* passes anyway (tautology), ones that revert nothing (unreverted), fail  *)
(* to revert (unrevertable) or fail to restore (unrestorable), or none     *)
(* that may be run and set the tree up.                                    *)
Estates == {"absent", "insane", "unmeasured", "below", "above"}
Pins == {"real", "tautology", "unreverted", "unrevertable", "unrestorable", "none"}

Input == [tree : Tree, sig : Sig, sha : BOOLEAN, ok : SUBSET OwnStages,
          estate : Estates, pin : Pins]

ASSUME InputsAssumption == Inputs \subseteq Input

VARIABLES
    in,         \* in[g]: the input of run g
    pc,         \* how far run g is
    lines,      \* lines[g]: the verdict lines its script printed
    exit,       \* exit[g]: the exit code of its script; 99 while it runs
    outcome,    \* outcome[g]: what run_gate returned
    g6out,      \* /tmp/usr_gate_g6.out
    g6metrics,  \* /tmp/usr_gate_g6.metrics
    marker,     \* the pin markers that exist
    reverted,   \* reverted[g]: the test passed on the reverted tree
    overlapped  \* overlapped[g]: another run was active together with g

vars == <<in, pc, lines, exit, outcome, g6out, g6metrics, marker, reverted,
          overlapped>>

shared == <<g6out, g6metrics, marker>>

Script == {"G0", "G1", "G2", "G3", "G4", "G5",
           "estate", "harness", "grep", "measure", "metrics", "compare",
           "G7", "G8", "setup", "cmd", "revert", "recmd", "restore"}

NoExit == 99
Killed == 98   \* Rust sees no exit code and takes -1

TypeOK ==
    /\ in \in [Run -> Inputs]
    /\ pc \in [Run -> {"idle", "exited", "done"} \cup Script]
    /\ lines \in [Run -> Seq([stage : {"G1", "G2", "G3", "G4", "G5", "G6", "G7",
                                       "G8", "G9"}, passed : BOOLEAN])]
    /\ exit \in [Run -> {0, 1, 9, NoExit, Killed}]
    /\ outcome \in [Run -> {"none", "accept", "reject", "privacy_abort", "abort"}]
    /\ g6out \in {"empty", "PASS", "FAIL"}
    /\ g6metrics \in {"empty", "below", "above"}
    /\ marker \subseteq Tree \X Sig
    /\ reverted \in [Run -> BOOLEAN]
    /\ overlapped \in [Run -> BOOLEAN]

(* The host is clean, or earlier runs left all their files behind.         *)
Init ==
    /\ in \in [Run -> Inputs]
    /\ pc = [g \in Run |-> "idle"]
    /\ lines = [g \in Run |-> <<>>]
    /\ exit = [g \in Run |-> NoExit]
    /\ outcome = [g \in Run |-> "none"]
    /\ \/ g6out = "empty" /\ g6metrics = "empty" /\ marker = {}
       \/ g6out = "PASS" /\ g6metrics = "above" /\ marker = Tree \X Sig
    /\ reverted = [g \in Run |-> FALSE]
    /\ overlapped = [g \in Run |-> FALSE]

Active(g) == pc[g] \in Script \cup {"exited"}

-----------------------------------------------------------------------------
(* run_gate: the pin is verified first; a script that differs never runs.  *)
Start(g) ==
    /\ pc[g] = "idle"
    /\ in[g].sha
    /\ pc' = [pc EXCEPT ![g] = "G0"]
    /\ overlapped' =
         [h \in Run |-> \/ overlapped[h]
                        \/ h = g /\ \E k \in Run : Active(k)
                        \/ Active(h)]
    /\ UNCHANGED <<in, lines, exit, outcome, shared, reverted>>

ShaMismatch(g) ==
    /\ pc[g] = "idle"
    /\ ~in[g].sha
    /\ pc' = [pc EXCEPT ![g] = "done"]
    /\ outcome' = [outcome EXCEPT ![g] = "abort"]
    /\ UNCHANGED <<in, lines, exit, shared, reverted, overlapped>>

(* pass and fail_stop of the script.                                       *)
Pass(g, stage, next) ==
    /\ lines' = [lines EXCEPT ![g] = Append(@, [stage |-> stage, passed |-> TRUE])]
    /\ pc' = [pc EXCEPT ![g] = next]
    /\ UNCHANGED exit

Fail(g, stage, code) ==
    /\ lines' = [lines EXCEPT ![g] = Append(@, [stage |-> stage, passed |-> FALSE])]
    /\ pc' = [pc EXCEPT ![g] = "exited"]
    /\ exit' = [exit EXCEPT ![g] = code]

Goto(g, next) == pc' = [pc EXCEPT ![g] = next] /\ UNCHANGED <<lines, exit>>

mine == <<in, outcome, overlapped>>

BuildHelper(g) ==
    /\ pc[g] = "G0"
    /\ IF "G0" \in in[g].ok THEN Goto(g, "G1")
       ELSE /\ pc' = [pc EXCEPT ![g] = "exited"]
            /\ exit' = [exit EXCEPT ![g] = 1]
            /\ UNCHANGED lines
    /\ UNCHANGED <<mine, shared, reverted>>

NextStage == [s \in OwnStages \ {"G0"} |->
                 CASE s = "G1" -> "G2" [] s = "G2" -> "G3" [] s = "G3" -> "G4"
                   [] s = "G4" -> "G5" [] s = "G5" -> "estate"
                   [] s = "G7" -> "G8" [] s = "G8" -> "setup"]

FailCodeBug(stage) == IF stage = "G8" THEN 8 ELSE 1

FailCodeBoth(stage) == IF stage \in {"G7", "G8"} THEN 9 ELSE 1

FailCode(stage) == IF stage = "G8" THEN 9 ELSE 1

(* G1-G5, G7, G8.                                                          *)
CheckOwnBug(g) ==
    \E s \in OwnStages \ {"G0"} :
        /\ pc[g] = s
        /\ IF s \in in[g].ok \/ s = "G5" THEN Pass(g, s, NextStage[s])
           ELSE Fail(g, s, FailCode(s))
        /\ UNCHANGED <<mine, shared, reverted>>

CheckOwn(g) ==
    \E s \in OwnStages \ {"G0"} :
        /\ pc[g] = s
        /\ IF s \in in[g].ok THEN Pass(g, s, NextStage[s])
           ELSE Fail(g, s, FailCode(s))
        /\ UNCHANGED <<mine, shared, reverted>>

-----------------------------------------------------------------------------
(* G6.  Without an estate there is no metric that could regress.  The      *)
(* shell truncates the output file before the harness runs.                *)
Estate(g) ==
    /\ pc[g] = "estate"
    /\ IF in[g].estate = "absent"
         THEN Pass(g, "G6", "G7") /\ UNCHANGED g6out
         ELSE Goto(g, "harness") /\ g6out' = "empty"
    /\ UNCHANGED <<mine, g6metrics, marker, reverted>>

Harness(g) ==
    /\ pc[g] = "harness"
    /\ g6out' = IF in[g].estate = "insane" THEN "FAIL" ELSE "PASS"
    /\ IF in[g].estate = "insane" THEN Fail(g, "G6", 1) ELSE Goto(g, "grep")
    /\ UNCHANGED <<mine, g6metrics, marker, reverted>>

GrepBug(g) ==
    /\ pc[g] = "grep"
    /\ g6out = "PASS"
    /\ Goto(g, "measure")
    /\ UNCHANGED <<mine, shared, reverted>>

Grep(g) ==
    /\ pc[g] = "grep"
    /\ IF g6out = "PASS" THEN Goto(g, "measure") ELSE Fail(g, "G6", 1)
    /\ UNCHANGED <<mine, shared, reverted>>

(* The metrics are measured before the file for them is truncated.         *)
Measure(g) ==
    /\ pc[g] = "measure"
    /\ IF in[g].estate = "unmeasured"
         THEN Fail(g, "G6", 1) /\ UNCHANGED g6metrics
         ELSE Goto(g, "metrics") /\ g6metrics' = "empty"
    /\ UNCHANGED <<mine, g6out, marker, reverted>>

WriteMetrics(g) ==
    /\ pc[g] = "metrics"
    /\ g6metrics' = in[g].estate
    /\ Goto(g, "compare")
    /\ UNCHANGED <<mine, g6out, marker, reverted>>

(* baseline_cmp fails on a metric that is missing.                         *)
Compare(g) ==
    /\ pc[g] = "compare"
    /\ IF g6metrics = "above" THEN Pass(g, "G6", "G7") ELSE Fail(g, "G6", 1)
    /\ UNCHANGED <<mine, shared, reverted>>

-----------------------------------------------------------------------------
(* G9, pins_check: setup, test, revert, test, restore.                     *)
Marker(g) == <<in[g].tree, in[g].sig>>

TestPasses(g) == in[g].pin = "tautology" \/ Marker(g) \in marker

SetupBug(g) ==
    /\ pc[g] = "setup"
    /\ IF in[g].pin = "none" THEN Fail(g, "G9", 1) ELSE Goto(g, "cmd")
    /\ UNCHANGED <<mine, shared, reverted>>

Setup(g) ==
    /\ pc[g] = "setup"
    /\ IF in[g].pin = "none" THEN Fail(g, "G9", 1) /\ UNCHANGED marker
       ELSE Goto(g, "cmd") /\ marker' = marker \cup {Marker(g)}
    /\ UNCHANGED <<mine, g6out, g6metrics, reverted>>

TestPatched(g) ==
    /\ pc[g] = "cmd"
    /\ IF TestPasses(g) THEN Goto(g, "revert") ELSE Fail(g, "G9", 1)
    /\ UNCHANGED <<mine, shared, reverted>>

(* A revert hook that fails ends the check, without the restore.           *)
Revert(g) ==
    /\ pc[g] = "revert"
    /\ marker' = IF in[g].pin \in {"unreverted", "unrevertable"} THEN marker
                 ELSE marker \ {Marker(g)}
    /\ IF in[g].pin = "unrevertable" THEN Fail(g, "G9", 1) ELSE Goto(g, "recmd")
    /\ UNCHANGED <<mine, g6out, g6metrics, reverted>>

TestReverted(g) ==
    /\ pc[g] = "recmd"
    /\ reverted' = [reverted EXCEPT ![g] = TestPasses(g)]
    /\ Goto(g, "restore")
    /\ UNCHANGED <<mine, shared>>

(* The tree is restored first; a hook that fails to is a failure of the    *)
(* stage.  Then a test that passed without the patch is called vacuous.    *)
Restore(g) ==
    /\ pc[g] = "restore"
    /\ marker' = IF in[g].pin = "unrestorable" THEN marker
                 ELSE marker \cup {Marker(g)}
    /\ IF in[g].pin = "unrestorable" \/ reverted[g] THEN Fail(g, "G9", 1)
       ELSE /\ lines' = [lines EXCEPT ![g] = Append(@, [stage |-> "G9", passed |-> TRUE])]
            /\ pc' = [pc EXCEPT ![g] = "exited"]
            /\ exit' = [exit EXCEPT ![g] = 0]
    /\ UNCHANGED <<mine, g6out, g6metrics, reverted>>

-----------------------------------------------------------------------------
(* run_gate's fold: nine PASS lines and exit 0, or no acceptance.          *)
Folded(ls, code) ==
    IF code = 9 THEN "privacy_abort"
    ELSE IF /\ code = 0
            /\ Len(ls) = Len(GATE_STAGES)
            /\ \A i \in DOMAIN ls : ls[i].passed
            /\ \A i \in DOMAIN GATE_STAGES :
                 \E k \in DOMAIN ls : ls[k].stage = GATE_STAGES[i]
      THEN "accept"
    ELSE "reject"

Fold(g) ==
    /\ pc[g] = "exited"
    /\ outcome' = [outcome EXCEPT ![g] = Folded(lines[g], exit[g])]
    /\ pc' = [pc EXCEPT ![g] = "done"]
    /\ UNCHANGED <<in, lines, exit, shared, reverted, overlapped>>

(* The script is killed (out of memory, the operator), with its children.  *)
Kill(g) ==
    /\ pc[g] \in Script
    /\ pc' = [pc EXCEPT ![g] = "exited"]
    /\ exit' = [exit EXCEPT ![g] = Killed]
    /\ UNCHANGED <<mine, lines, shared, reverted>>

Step(g) ==
    \/ Start(g) \/ ShaMismatch(g) \/ BuildHelper(g) \/ CheckOwn(g)
    \/ Estate(g) \/ Harness(g) \/ Grep(g)
    \/ Measure(g) \/ WriteMetrics(g) \/ Compare(g)
    \/ Setup(g) \/ TestPatched(g) \/ Revert(g) \/ TestReverted(g) \/ Restore(g)
    \/ Fold(g)

AllDone == \A g \in Run : pc[g] = "done"

Terminated == AllDone /\ UNCHANGED vars

Next == (\E g \in Run : Step(g) \/ Kill(g)) \/ Terminated

(* Every run is a process of its own.                                      *)
Fairness == \A g \in Run : WF_vars(Step(g))

Spec == Init /\ [][Next]_vars

FairSpec == Spec /\ Fairness

-----------------------------------------------------------------------------
(* What the run's own inputs deserve, the first failing check deciding.    *)
Deserved(i) ==
    IF ~i.sha THEN "abort"
    ELSE IF \E s \in {"G0", "G1", "G2", "G3", "G4", "G5"} : s \notin i.ok THEN "reject"
    ELSE IF i.estate \notin {"absent", "above"} \/ "G7" \notin i.ok THEN "reject"
    ELSE IF "G8" \notin i.ok THEN "privacy_abort"
    ELSE IF i.pin = "real" THEN "accept"
    ELSE "reject"

(* A run that is not disturbed - by no other run and by no signal - gives  *)
(* the verdict its inputs deserve, whatever earlier runs, finished or      *)
(* killed at any point, left in /tmp and in .usr.                          *)
UndisturbedIsExact ==
    \A g \in Run : pc[g] = "done" /\ ~overlapped[g] /\ exit[g] # Killed =>
        outcome[g] = Deserved(in[g])

(* Whatever the other runs do to the shared files: no run is accepted that *)
(* fails a check of its own, is insane on its estate or pins nothing, and  *)
(* a privacy leak is never the cause of anything but its own abort.        *)
AcceptKeepsOwnChecks ==
    \A g \in Run : outcome[g] = "accept" =>
        /\ in[g].sha
        /\ in[g].ok = OwnStages
        /\ in[g].estate \notin {"insane", "unmeasured"}
        /\ in[g].pin \in {"real", "unreverted"}

PrivacyAbortIsEarned ==
    \A g \in Run : outcome[g] = "privacy_abort" =>
        "G8" \notin in[g].ok /\ {"G0", "G1", "G2", "G3", "G4", "G5", "G7"} \subseteq in[g].ok

EveryRunEnds == <>AllDone

(* "Determinism: same candidate + same commit => identical outcome."       *)
(* False when two runs share a marker or the files in /tmp.                *)
SameInputsSameOutcome ==
    \A g, h \in Run :
        /\ pc[g] = "done" /\ pc[h] = "done"
        /\ exit[g] # Killed /\ exit[h] # Killed
        /\ in[g] = in[h]
        => outcome[g] = outcome[h]
=============================================================================

-------------------------------- MODULE Land --------------------------------
(***************************************************************************)
(* Landing a candidate: crates/plsql-accretion/src/land.rs as it is driven *)
(* by `usr-loop land` (tools/usr-loop/src/main.rs, run_land_cmd), with     *)
(* several invocations in one repository at once, any of which may die or  *)
(* fail at any step and be tried again.                                    *)
(*                                                                         *)
(* A landing leaves its traces in four places, one after the other: the    *)
(* candidate file the gate reads, the working tree, the regression corpus  *)
(* and the ledger.  Nothing encloses them; land.rs takes no lock.          *)
(*                                                                         *)
(* A file written by std::fs::write is truncated and then filled, so       *)
(* another invocation, or the next one after a crash, may find it empty.   *)
(* The gate opens that file once for each of the stages that look at it,   *)
(* so the stages of one run need not see the same text; what else Gate.tla *)
(* models of a gate run is here a stage that fails.  The ledger is what    *)
(* Ledger.tla shows of it: an atomic log whose last line may be            *)
(* unterminated or torn.                                                   *)
(***************************************************************************)
EXTENDS Naturals, Sequences, FiniteSets

CONSTANTS
    Proc,        \* `usr-loop land` invocations
    Cand,        \* CandidateDiffs, by id
    Fixture,     \* MinFixtures, by content id
    Job,         \* what may be landed: a candidate and the fixture given to it
    Given,       \* what the invocations may be given to land, all at once
    Holds,       \* Holds[c]: the stages that find the text of c in order
    Patched,     \* candidates whose hunks apply to the tree as it is at first
    OutOfScope,  \* candidates with a header outside the R20 allowlist
    Conflict     \* pairs of candidates whose hunks exclude each other

ASSUME JobAssumption == Job \subseteq [cand : Cand, fix : Fixture]
ASSUME GivenAssumption == Given \subseteq [Proc -> Job]
ASSUME HoldsAssumption == Holds \in [Cand -> SUBSET {"G7", "G8", "G9"}]

VARIABLES
    job,         \* job[p]: what invocation p lands
    pc,          \* where each invocation stands
    scratch,     \* .usr/land/candidate_<id>.diff
    applied,     \* candidates whose patch is in the working tree
    corpus,      \* corpus/synthetic/regressions/usr_<id>.sql
    ledger,      \* bodies in ledger.jsonl; a landing's body is its job
    tail,        \* the state of the ledger's last line
    quarantine,  \* candidates with an artifact in .usr/quarantine
    gated        \* gated[c]: what gate runs said of c so far

vars == <<job, pc, scratch, applied, corpus, ledger, tail, quarantine, gated>>

disk == <<scratch, applied, corpus, ledger, tail, quarantine>>

File == {"absent", "empty", "whole"}
InGate == {"gate", "G7", "G8", "G9"}
Working == InGate \cup {"start", "candidate", "reject", "check", "apply",
                        "corpus", "truncate", "fill", "ledger"}
Ended == {"landed", "quarantined", "privacy_abort", "abort", "err", "crashed"}

TypeOK ==
    /\ job \in [Proc -> Job]
    /\ pc \in [Proc -> Working \cup Ended]
    /\ scratch \in [Cand -> File]
    /\ applied \subseteq Cand
    /\ corpus \in [Fixture -> File]
    /\ ledger \in Seq(Job)
    /\ tail \in {"whole", "unterminated", "torn"}
    /\ quarantine \subseteq Cand
    /\ gated \in [Cand -> SUBSET {"accept", "reject"}]

Init ==
    /\ job \in Given
    /\ pc = [p \in Proc |-> "start"]
    /\ scratch = [c \in Cand |-> "absent"]
    /\ applied = {}
    /\ corpus = [f \in Fixture |-> "absent"]
    /\ ledger = <<>>
    /\ tail = "whole"
    /\ quarantine = {}
    /\ gated = [c \in Cand |-> {}]

cand(p) == job[p].cand
fix(p) == job[p].fix

Goto(p, from, to) == pc[p] = from /\ pc' = [pc EXCEPT ![p] = to]

-----------------------------------------------------------------------------
(* 1. The candidate body goes to a file the gate can read.                 *)
CreateCandidate(p) ==
    /\ Goto(p, "start", "candidate")
    /\ scratch' = [scratch EXCEPT ![cand(p)] = "empty"]
    /\ UNCHANGED <<job, applied, corpus, ledger, tail, quarantine, gated>>

WriteCandidate(p) ==
    /\ Goto(p, "candidate", "gate")
    /\ scratch' = [scratch EXCEPT ![cand(p)] = "whole"]
    /\ UNCHANGED <<job, applied, corpus, ledger, tail, quarantine, gated>>

(* 2. The gate.  G1 to G6 say something about the tree and the host, which *)
(* may change from run to run; of the candidate G4 alone looks for a line  *)
(* that excuses a churn.  A gate that is not the pinned one does not run.  *)
CheckTree(p) ==
    /\ \/ Goto(p, "gate", "G7")
       \/ Goto(p, "gate", "abort")
    /\ UNCHANGED <<job, disk, gated>>

Verdict(p, v) == gated' = [gated EXCEPT ![cand(p)] = @ \cup {v}]

(* Any stage may fail for a reason that is not in the candidate, and a     *)
(* gate that is killed is a rejection.                                     *)
RejectAgain(p) ==
    /\ pc[p] \in InGate
    /\ pc' = [pc EXCEPT ![p] = "start"]
    /\ Verdict(p, "reject")
    /\ UNCHANGED <<job, disk>>

Reject(p) ==
    /\ pc[p] \in InGate
    /\ pc' = [pc EXCEPT ![p] = "reject"]
    /\ Verdict(p, "reject")
    /\ UNCHANGED <<job, disk>>

(* What a stage is shown of the candidate: its text, or, while another     *)
(* landing of it is between truncating and filling the file, nothing.      *)
Shown(p) == scratch[cand(p)] = "whole"

(* G7 wants an honesty manifest, G9 pinning hooks that prove themselves: a *)
(* file with nothing in it fails both.                                     *)
InOrderBug(p, stage) == Shown(p) => stage \in Holds[cand(p)]

InOrder(p, stage) == Shown(p) /\ stage \in Holds[cand(p)]

CheckHonesty(p) ==
    /\ InOrder(p, "G7")
    /\ Goto(p, "G7", "G8")
    /\ UNCHANGED <<job, disk, gated>>

(* G8 looks for residue in the candidate and in all stored fixtures: where *)
(* there is nothing it finds none.                                         *)
CheckResidue(p) ==
    /\ \/ Goto(p, "G8", "privacy_abort")
       \/ (Shown(p) => "G8" \in Holds[cand(p)]) /\ Goto(p, "G8", "G9")
    /\ UNCHANGED <<job, disk, gated>>

CheckPins(p) ==
    /\ InOrder(p, "G9")
    /\ Goto(p, "G9", "check")
    /\ Verdict(p, "accept")
    /\ UNCHANGED <<job, disk>>

(* [F'] persist_quarantine; run_land_cmd drops its error.                  *)
Quarantine(p) ==
    /\ Goto(p, "reject", "quarantined")
    /\ quarantine' \in {quarantine, quarantine \cup {cand(p)}}
    /\ UNCHANGED <<job, scratch, applied, corpus, ledger, tail, gated>>

(* 3. apply_diff_idempotent: an out-of-scope header is refused; a patch    *)
(* that is there already, or does not apply, or is none, is a no-op.       *)
Applies(c) ==
    /\ c \in Patched \ applied
    /\ \A d \in applied : <<c, d>> \notin Conflict

CheckApply(p) ==
    /\ Goto(p, "check", IF cand(p) \in OutOfScope THEN "err"
                        ELSE IF Applies(cand(p)) THEN "apply" ELSE "corpus")
    /\ UNCHANGED <<job, disk, gated>>

(* `git apply` after the check; the tree may have changed in between.      *)
DoApplyBug(p) ==
    /\ Goto(p, "apply", "corpus")
    /\ UNCHANGED <<job, disk, gated>>

DoApply(p) ==
    /\ Goto(p, "apply", IF Applies(cand(p)) THEN "corpus" ELSE "err")
    /\ applied' = IF Applies(cand(p)) THEN applied \cup {cand(p)} ELSE applied
    /\ UNCHANGED <<job, scratch, corpus, ledger, tail, quarantine, gated>>

(* add_fixture_to_corpus: nothing to do when the same source is there.     *)
ReadCorpus(p) ==
    /\ Goto(p, "corpus", IF corpus[fix(p)] = "whole" THEN "ledger" ELSE "truncate")
    /\ UNCHANGED <<job, disk, gated>>

TruncateFixtureBug(p) ==
    /\ Goto(p, "truncate", "fill")
    /\ corpus' = [corpus EXCEPT ![fix(p)] = "absent"]
    /\ UNCHANGED <<job, scratch, applied, ledger, tail, quarantine, gated>>

TruncateFixture(p) ==
    /\ Goto(p, "truncate", "fill")
    /\ corpus' = [corpus EXCEPT ![fix(p)] = "empty"]
    /\ UNCHANGED <<job, scratch, applied, ledger, tail, quarantine, gated>>

FillFixture(p) ==
    /\ Goto(p, "fill", "ledger")
    /\ corpus' = [corpus EXCEPT ![fix(p)] = "whole"]
    /\ UNCHANGED <<job, scratch, applied, ledger, tail, quarantine, gated>>

(* The body of the entry names the candidate (landed_patch) and the        *)
(* fixture (representative_min_fixtures).                                  *)
BodyOfBug(p) == [cand |-> cand(p)]

BodyOf(p) == job[p]

(* Ledger::append under its lock: an unreadable ledger is an error, the    *)
(* tip is not appended again, and an entry behind an unterminated line is  *)
(* glued to it.                                                            *)
IsTipBug(body) == ledger # <<>>

IsTip(body) == ledger # <<>> /\ ledger[Len(ledger)] = body

AppendFails(p) ==
    /\ tail = "torn"
    /\ Goto(p, "ledger", "err")
    /\ UNCHANGED <<job, disk, gated>>

AppendSkips(p) ==
    /\ tail # "torn"
    /\ IsTip(BodyOf(p))
    /\ Goto(p, "ledger", "landed")
    /\ UNCHANGED <<job, disk, gated>>

AppendGlues(p) ==
    /\ tail = "unterminated"
    /\ ~IsTip(BodyOf(p))
    /\ Goto(p, "ledger", "landed")
    /\ tail' = "torn"
    /\ UNCHANGED <<job, scratch, applied, corpus, ledger, quarantine, gated>>

AppendEntry(p) ==
    /\ tail = "whole"
    /\ ~IsTip(BodyOf(p))
    /\ Goto(p, "ledger", "landed")
    /\ ledger' = Append(ledger, BodyOf(p))
    /\ UNCHANGED <<job, scratch, applied, corpus, tail, quarantine, gated>>

Step(p) ==
    \/ CreateCandidate(p) \/ WriteCandidate(p)
    \/ CheckTree(p) \/ CheckHonesty(p) \/ CheckResidue(p) \/ CheckPins(p)
    \/ Reject(p) \/ Quarantine(p)
    \/ CheckApply(p) \/ DoApply(p)
    \/ ReadCorpus(p) \/ TruncateFixture(p) \/ FillFixture(p)
    \/ AppendFails(p) \/ AppendSkips(p) \/ AppendGlues(p) \/ AppendEntry(p)

-----------------------------------------------------------------------------
(* Faults: an I/O error ends the invocation with exit 1, a crash just ends *)
(* it.  Either, inside append, leaves the entry without its newline or a   *)
(* part of it.                                                             *)
Stop(p) ==
    /\ pc[p] \in Working
    /\ pc' \in {[pc EXCEPT ![p] = "err"], [pc EXCEPT ![p] = "crashed"]}
    /\ UNCHANGED <<job, disk, gated>>

StopInAppend(p) ==
    /\ tail # "torn"
    /\ ~IsTip(BodyOf(p))
    /\ Goto(p, "ledger", "crashed")
    /\ \/ /\ tail = "whole"
          /\ ledger' = Append(ledger, BodyOf(p))
          /\ tail' = "unterminated"
       \/ UNCHANGED ledger /\ tail' = "torn"
    /\ UNCHANGED <<job, scratch, applied, corpus, quarantine, gated>>

AllEnded == \A p \in Proc : pc[p] \in Ended

Terminated == AllEnded /\ UNCHANGED vars

Next == \/ \E p \in Proc : Step(p) \/ Stop(p) \/ StopInAppend(p)
        \/ Terminated

(* Every invocation is a running process.                                  *)
Fairness == \A p \in Proc : WF_vars(Step(p))

Spec == Init /\ [][Next]_vars

FairSpec == Spec /\ Fairness

-----------------------------------------------------------------------------
(* Propose, prove, then land: whatever happens to be interrupted, nothing  *)
(* of a candidate is in the tree, the corpus or the ledger unless a gate   *)
(* run accepted it, and only a rejected candidate, never one of a privacy  *)
(* abort alone, has a quarantine artifact.  Nor does it help a candidate   *)
(* that its file is rewritten between the stages of one gate run: its text *)
(* is honest and pinned, and free of residue unless there were two         *)
(* landings of that very candidate.                                        *)
LandedTwice(c) == \E p, q \in Proc : p # q /\ cand(p) = c /\ cand(q) = c

Proven(c) ==
    /\ "accept" \in gated[c]
    /\ {"G7", "G9"} \subseteq Holds[c]
    /\ "G8" \in Holds[c] \/ LandedTwice(c)

NothingUnproven ==
    /\ \A c \in applied : Proven(c)
    /\ \A f \in Fixture : corpus[f] # "absent" =>
           \E p \in Proc : fix(p) = f /\ Proven(cand(p))
    /\ \A i \in DOMAIN ledger : Proven(ledger[i].cand)
    /\ \A c \in quarantine : "reject" \in gated[c]

(* The ledger is written last: a body in it names a candidate whose patch  *)
(* is in the tree, or could not be put there, and a fixture in the corpus. *)
(* The fixture's file is empty only while, or after, another invocation    *)
(* that rewrites the same fixture stopped before it had filled it.         *)
Rewriting(f) ==
    \E p \in Proc : fix(p) = f /\ pc[p] \in {"fill", "err", "crashed"}

Settled(c, tree) ==
    c \in tree \/ c \notin Patched \/ \E d \in tree : <<c, d>> \in Conflict

LedgerIsLast ==
    \A i \in DOMAIN ledger :
        /\ Settled(ledger[i].cand, applied)
        /\ corpus[ledger[i].fix] # "absent"
        /\ corpus[ledger[i].fix] = "empty" => Rewriting(ledger[i].fix)

(* A receipt stands for a landing that is recorded, unless the ledger can  *)
(* no longer be read.                                                      *)
ReceiptIsRecorded ==
    \A p \in Proc : pc[p] = "landed" /\ tail # "torn" =>
        \E i \in DOMAIN ledger : ledger[i] = job[p]

(* Nothing that was landed is taken back by a landing, failed or not.      *)
OnlyGrows ==
    [][ /\ applied \subseteq applied'
        /\ \A i \in DOMAIN ledger : i \in DOMAIN ledger' /\ ledger'[i] = ledger[i]
        /\ \A f \in Fixture : corpus[f] # "absent" => corpus'[f] # "absent" ]_vars

EveryLandingEnds == <>AllEnded

(* Landings ask no more of the ledger than Ledger.tla is shown to give:    *)
(* their appends, answered or interrupted, are those of its shared log.    *)
Shared == INSTANCE SharedLog WITH
            Body <- Job,
            Start <- {<<>>},
            log <- IF tail = "torn" THEN <<>> ELSE ledger,
            told <- [p \in Proc |-> IF pc[p] = "landed" THEN <<BodyOf(p)>> ELSE <<>>]

UsesSharedLog == Shared!SharedSpec

(* "Landing the same accepted candidate twice is a no-op ... the ledger    *)
(* append is idempotent-by-content": no body is in the ledger twice.       *)
(* False once another candidate was landed in between.                     *)
RelandingIsNoop ==
    \A i, k \in DOMAIN ledger : ledger[i] = ledger[k] => i = k
=============================================================================

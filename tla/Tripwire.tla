------------------------------ MODULE Tripwire ------------------------------
(***************************************************************************)
(* The monotonic tripwire: run_tripwire of tools/usr-loop/src/main.rs over *)
(* AccretionLedger of crates/plsql-accretion/src/ledger.rs, several runs   *)
(* at once, while landings go on and the checkout moves to new commits.    *)
(*                                                                         *)
(* A run measures the benchmark, reads the landed signatures from the      *)
(* provenance ledger, appends its measurement to the accretion ledger      *)
(* under the lock and only then, without the lock, reads the baselines it  *)
(* compares with.  Both ledgers appear as what Ledger.tla shows of them:   *)
(* append-only logs whose last line may be unterminated or torn.           *)
(*                                                                         *)
(* The extraction ratio is a number of steps between 0 and Unit, a         *)
(* resolved signature is worth Unit of them; f64::EPSILON in the           *)
(* comparisons is far below one step.                                      *)
(***************************************************************************)
EXTENDS Naturals, Sequences, FiniteSets

CONSTANTS
    Run,      \* `usr-loop ledger tripwire` invocations
    Ref,      \* release tags, numbered in their order
    Sig,      \* gap signatures that may be landed
    Unit,     \* steps of the extraction ratio
    Ratio,    \* Ratio[h]: the extraction ratio of the checkout at commit h
    Inputs,   \* the arguments of a run
    Past      \* histories that earlier runs may have left

Index == [coverage_index : Nat, extracted_semantics_ratio : Nat]

(* ref: --git-ref.  base: --baseline-ref, 0 when there is none.  floor:    *)
(* the tracked floor, if a file is given.  valid: that file can be read.   *)
Input == [ref : Ref, base : Ref \cup {0}, floor : SUBSET Index, valid : BOOLEAN]

ASSUME RefAssumption == Ref \subseteq Nat \ {0}
ASSUME SigAssumption == IsFiniteSet(Sig)
ASSUME UnitAssumption == Unit \in Nat
ASSUME RatioAssumption == Ratio \in Seq(0 .. Unit) /\ Ratio # <<>>
ASSUME InputsAssumption == Inputs \subseteq Input

Entry == [ref : Ref, index : Index, commit : Nat]

(* Nothing was landed when the earlier runs measured.                      *)
ASSUME PastAssumption ==
    \A h \in Past :
        /\ h \in Seq(Entry)
        /\ \A i \in DOMAIN h :
             h[i].index.coverage_index = h[i].index.extracted_semantics_ratio

VARIABLES
    in,          \* in[r]: the arguments of run r
    pc,          \* how far run r is; how it ended
    ratio,       \* ratio[r]: what r measured
    resolved,    \* resolved[r]: the landed signatures r counted
    commit,      \* commit[r]: the commit r says it measured
    pos,         \* pos[r]: the length of the history at r's own append
    blind,       \* blind[r]: r found the history unreadable afterwards
    overlapped,  \* overlapped[r]: another run was active together with r
    head,        \* the commit of the checkout
    landed,      \* landed signatures in the provenance ledger
    readable,    \* the provenance ledger parses
    history,     \* the entries of accretion_ledger.jsonl
    tail         \* the state of its last line

vars == <<in, pc, ratio, resolved, commit, pos, blind, overlapped, head, landed,
          readable, history, tail>>

world == <<head, landed, readable>>
measure == <<ratio, resolved, commit>>
mine == <<in, overlapped>>

Active == {"ledger", "append", "rest", "judge"}
Passed == {"ok", "seeded"}
Ended == Passed \cup {"regression", "err"}

TypeOK ==
    /\ in \in [Run -> Inputs]
    /\ pc \in [Run -> {"start"} \cup Active \cup Ended]
    /\ ratio \in [Run -> 0 .. Unit]
    /\ resolved \in [Run -> SUBSET Sig]
    /\ commit \in [Run -> Nat]
    /\ pos \in [Run -> Nat]
    /\ blind \in [Run -> BOOLEAN]
    /\ overlapped \in [Run -> BOOLEAN]
    /\ head \in DOMAIN Ratio
    /\ landed \subseteq Sig
    /\ readable \in BOOLEAN
    /\ history \in Seq(Entry)
    /\ tail \in {"whole", "unterminated", "torn"}

Init ==
    /\ in \in [Run -> Inputs]
    /\ pc = [r \in Run |-> "start"]
    /\ ratio = [r \in Run |-> 0]
    /\ resolved = [r \in Run |-> {}]
    /\ commit = [r \in Run |-> 0]
    /\ pos = [r \in Run |-> 0]
    /\ blind = [r \in Run |-> FALSE]
    /\ overlapped = [r \in Run |-> FALSE]
    /\ head = 1
    /\ landed = {}
    /\ readable = TRUE
    /\ history \in Past
    /\ tail = "whole"

Goto(r, from, to) == pc[r] = from /\ pc' = [pc EXCEPT ![r] = to]

-----------------------------------------------------------------------------
(* 1. The engine analyses the benchmark corpus of the checkout.            *)
Measure(r) ==
    /\ Goto(r, "start", "ledger")
    /\ ratio' = [ratio EXCEPT ![r] = Ratio[head]]
    /\ overlapped' = [q \in Run |-> \/ overlapped[q]
                                    \/ q = r /\ \E k \in Run : pc[k] \in Active
                                    \/ pc[q] \in Active]
    /\ UNCHANGED <<in, resolved, commit, pos, blind, world, history, tail>>

(* 2. The distinct signatures with a landed patch, read without a lock,    *)
(* and the commit the checkout is at by now.                               *)
ReadLedgerBug(r) ==
    /\ Goto(r, "ledger", "append")
    /\ resolved' = [resolved EXCEPT ![r] = IF readable THEN landed ELSE {}]
    /\ commit' = [commit EXCEPT ![r] = head]
    /\ UNCHANGED <<mine, ratio, pos, blind, world, history, tail>>

ReadLedger(r) ==
    /\ Goto(r, "ledger", IF readable THEN "append" ELSE "err")
    /\ resolved' = [resolved EXCEPT ![r] = IF readable THEN landed ELSE @]
    /\ commit' = [commit EXCEPT ![r] = IF readable THEN head ELSE @]
    /\ UNCHANGED <<mine, ratio, pos, blind, world, history, tail>>

(* compute_accretion_index.                                                *)
Measured(r) ==
    [coverage_index |-> ratio[r] + Unit * Cardinality(resolved[r]),
     extracted_semantics_ratio |-> ratio[r]]

EntryOfBug(r) == [ref |-> in[r].ref, index |-> Measured(r)]

EntryOf(r) == [ref |-> in[r].ref, index |-> Measured(r), commit |-> commit[r]]

-----------------------------------------------------------------------------
(* 3. AccretionLedger::append, the same protocol as Ledger::append.        *)
LockFree == \A q \in Run : pc[q] # "rest"

IsTip(e) == history # <<>> /\ history[Len(history)] = e

AppendFailsBug(r) ==
    /\ LockFree /\ tail = "torn"
    /\ pc[r] = "append"
    /\ UNCHANGED vars

AppendFails(r) ==
    /\ LockFree /\ tail = "torn"
    /\ Goto(r, "append", "err")
    /\ UNCHANGED <<mine, measure, pos, blind, world, history, tail>>

AppendSkips(r) ==
    /\ LockFree /\ tail # "torn" /\ IsTip(EntryOf(r))
    /\ Goto(r, "append", "judge")
    /\ pos' = [pos EXCEPT ![r] = Len(history)]
    /\ UNCHANGED <<mine, measure, blind, world, history, tail>>

AppendGlues(r) ==
    /\ LockFree /\ tail = "unterminated" /\ ~IsTip(EntryOf(r))
    /\ Goto(r, "append", "judge")
    /\ tail' = "torn"
    /\ pos' = [pos EXCEPT ![r] = Len(history)]
    /\ UNCHANGED <<mine, measure, blind, world, history>>

AppendEntry(r) ==
    /\ LockFree /\ tail = "whole" /\ ~IsTip(EntryOf(r))
    /\ Goto(r, "append", "judge")
    /\ history' = Append(history, EntryOf(r))
    /\ pos' = [pos EXCEPT ![r] = Len(history) + 1]
    /\ UNCHANGED <<mine, measure, blind, world, tail>>

(* write(2) stores a beginning of the line; write_all retries.             *)
AppendShort(r) ==
    /\ LockFree /\ tail = "whole" /\ ~IsTip(EntryOf(r))
    /\ Goto(r, "append", "rest")
    /\ tail' = "torn"
    /\ UNCHANGED <<mine, measure, pos, blind, world, history>>

AppendRest(r) ==
    /\ Goto(r, "rest", "judge")
    /\ history' = Append(history, EntryOf(r))
    /\ tail' = "whole"
    /\ pos' = [pos EXCEPT ![r] = Len(history) + 1]
    /\ UNCHANGED <<mine, measure, blind, world>>

-----------------------------------------------------------------------------
(* 4. The last entry of the baseline ref, as a set of at most one index.   *)
LastOfBug(h, ref) ==
    {i \in DOMAIN h : /\ h[i].ref = ref
                      /\ \A k \in DOMAIN h : h[k].ref = ref => k >= i}

LastOf(h, ref) ==
    {i \in DOMAIN h : /\ h[i].ref = ref
                      /\ \A k \in DOMAIN h : h[k].ref = ref => k <= i}

(* An unreadable history counts as an empty one.                           *)
Readable(h) == IF tail = "torn" THEN <<>> ELSE h

BaselinesBug(r) ==
    LET last == LastOf(Readable(history), in[r].base)
    IN  IF last = {} THEN in[r].floor
        ELSE {Readable(history)[i].index : i \in last}

Baselines(r) ==
    {Readable(history)[i].index : i \in LastOf(Readable(history), in[r].base)}
      \cup in[r].floor

NotBelow(x, b) ==
    /\ x.coverage_index >= b.coverage_index
    /\ x.extracted_semantics_ratio >= b.extracted_semantics_ratio

Verdict(r) ==
    IF ~in[r].valid THEN "err"
    ELSE IF Baselines(r) = {} THEN "seeded"
    ELSE IF \A b \in Baselines(r) : NotBelow(Measured(r), b) THEN "ok"
    ELSE "regression"

Judge(r) ==
    /\ Goto(r, "judge", Verdict(r))
    /\ blind' = [blind EXCEPT ![r] = tail = "torn"]
    /\ UNCHANGED <<mine, measure, pos, world, history, tail>>

Step(r) ==
    \/ Measure(r) \/ ReadLedger(r)
    \/ AppendFails(r) \/ AppendSkips(r) \/ AppendGlues(r) \/ AppendEntry(r)
    \/ AppendRest(r) \/ Judge(r)

-----------------------------------------------------------------------------
(* A run ends without a verdict, by an error or by dying, also in append.  *)
Stop(r) ==
    /\ pc[r] \in {"start"} \cup Active
    /\ pc' = [pc EXCEPT ![r] = "err"]
    /\ UNCHANGED <<mine, measure, pos, blind, world, history, tail>>

StopInAppend(r) ==
    /\ LockFree /\ ~IsTip(EntryOf(r))
    /\ Goto(r, "append", "err")
    /\ \/ /\ tail = "whole"
          /\ history' = Append(history, EntryOf(r))
          /\ tail' = "unterminated"
       \/ /\ tail = "unterminated"
          /\ tail' = "torn"
          /\ UNCHANGED history
    /\ UNCHANGED <<mine, measure, pos, blind, world>>

(* What goes on around the runs: a landing writes its line, perhaps in two *)
(* pieces or never to its end, and the checkout moves to the next commit.  *)
CutLine ==
    /\ readable
    /\ readable' = FALSE
    /\ UNCHANGED <<mine, pc, measure, pos, blind, head, landed, history, tail>>

LandSig(s) ==
    /\ landed' = landed \cup {s}
    /\ readable' = TRUE
    /\ UNCHANGED <<mine, pc, measure, pos, blind, head, history, tail>>

Commit ==
    /\ head < Len(Ratio)
    /\ head' = head + 1
    /\ UNCHANGED <<mine, pc, measure, pos, blind, landed, readable, history, tail>>

AllEnded == \A r \in Run : pc[r] \in Ended

Next ==
    \/ \E r \in Run : Step(r) \/ AppendShort(r) \/ Stop(r) \/ StopInAppend(r)
    \/ CutLine \/ (\E s \in Sig \ landed : LandSig(s)) \/ Commit
    \/ AllEnded /\ UNCHANGED vars

(* Every run is a running process.                                         *)
Fairness == \A r \in Run : WF_vars(Step(r))

Spec == Init /\ [][Next]_vars

FairSpec == Spec /\ Fairness

-----------------------------------------------------------------------------
(* A run that passes against another ref is not below that ref's last      *)
(* measurement as of the run's own append, nor below any later one it      *)
(* read; it passes unseen only when the history could not be read.         *)
PassIsNotBelow ==
    \A r \in Run :
        pc[r] \in Passed /\ ~blind[r] /\ in[r].base # in[r].ref =>
            \/ \A k \in 1 .. pos[r] : history[k].ref # in[r].base
            \/ \E i \in DOMAIN history :
                 /\ history[i].ref = in[r].base
                 /\ NotBelow(Measured(r), history[i].index)
                 /\ \A k \in 1 .. pos[r] : history[k].ref = in[r].base => k <= i

(* Whatever became of the history: no run that was given a floor passes    *)
(* below it, and "seeded" is never said when there is a floor.             *)
FloorHolds ==
    \A r \in Run : pc[r] \in Passed =>
        /\ in[r].valid
        /\ \A b \in in[r].floor : NotBelow(Measured(r), b)
        /\ pc[r] = "seeded" => in[r].floor = {}

(* Closing gaps never looks like a regression: a run alone on its ledger   *)
(* reports one against a ref only if the extraction ratio itself dropped.  *)
RegressionIsReal ==
    \A r \in Run :
        pc[r] = "regression" /\ ~overlapped[r] /\ in[r].floor = {} =>
            \E i \in DOMAIN history :
                /\ history[i].ref = in[r].base
                /\ history[i].index.extracted_semantics_ratio > ratio[r]

EveryRunEnds == <>AllEnded

(* Runs ask no more of the accretion ledger than Ledger.tla is shown to    *)
(* give of such a ledger.  A line that is being written is not in the log  *)
(* yet, though who reads the file at that moment cannot read it.           *)
Torn == tail = "torn" /\ LockFree

Shared == INSTANCE SharedLog WITH
            Proc <- Run,
            Body <- Entry,
            Start <- Past,
            log <- IF Torn THEN <<>> ELSE history,
            tail <- IF LockFree THEN tail ELSE "whole",
            told <- [r \in Run |-> IF pos[r] # 0 THEN <<EntryOf(r)>> ELSE <<>>]

UsesSharedLog == Shared!SharedSpec

(* "assert coverage_index(HEAD) >= coverage_index(last release tag)": a    *)
(* passing run for a release is not below the last measurement of the      *)
(* release before.  False at a commit that carries the tag itself, where   *)
(* the last tag is the run's own ref and the run is its own baseline.      *)
ReleasesNeverLower ==
    \A r \in Run : pc[r] \in Passed /\ ~blind[r] =>
        \A i \in 1 .. pos[r] :
            /\ history[i].ref = in[r].ref - 1
            /\ \A k \in 1 .. pos[r] : history[k].ref = history[i].ref => k <= i
            => NotBelow(Measured(r), history[i].index)
=============================================================================

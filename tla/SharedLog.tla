----------------------------- MODULE SharedLog -----------------------------
(***************************************************************************)
(* What a JSONL ledger of crates/plsql-accretion/src/ledger.rs is to those *)
(* who append to it when processes may die and writes may fail: a log      *)
(* whose appends take effect at once, which remembers one thing about the  *)
(* last append, whether its line was finished.                             *)
(*                                                                         *)
(* Ledger.tla, with its locks and its several writes for each entry, is    *)
(* shown to implement this module whatever fails; Land.tla and             *)
(* Tripwire.tla, which use the two ledgers of the program, are shown to    *)
(* ask no more of them than this module promises.  LedgerLog.tla is the    *)
(* stronger promise that is kept as long as nothing fails.                 *)
(***************************************************************************)
EXTENDS Naturals, Sequences

CONSTANTS
    Proc,   \* those who append
    Body,   \* the bodies of entries
    Start   \* the sequences of bodies the log may be at first

VARIABLES
    log,   \* the bodies a reader is given, oldest first; none of a torn log
    tail,  \* the last line: "whole", "unterminated", or "torn" for ever
    told   \* told[p]: the bodies append() returned Ok for to p, in order

sharedVars == <<log, tail, told>>

SharedInit ==
    /\ log \in Start
    /\ tail = "whole"
    /\ told = [p \in Proc |-> <<>>]

IsTip(b) == log # <<>> /\ log[Len(log)] = b

Tell(p, b) == told' = [told EXCEPT ![p] = Append(@, b)]

(* The body is at the end already.                                         *)
Skip(p, b) ==
    /\ tail # "torn" /\ IsTip(b)
    /\ Tell(p, b)
    /\ UNCHANGED <<log, tail>>

Add(p, b) ==
    /\ tail = "whole" /\ ~IsTip(b)
    /\ log' = Append(log, b)
    /\ Tell(p, b)
    /\ UNCHANGED tail

(* An append behind an unterminated line succeeds and tears the log.       *)
Glue(p, b) ==
    /\ tail = "unterminated" /\ ~IsTip(b)
    /\ log' = <<>>
    /\ tail' = "torn"
    /\ Tell(p, b)

(* An append that is not answered may leave its entry behind without the   *)
(* newline, or a part of it, or nothing.                                   *)
LeaveEntry(b) ==
    /\ tail = "whole" /\ ~IsTip(b)
    /\ log' = Append(log, b)
    /\ tail' = "unterminated"
    /\ UNCHANGED told

LeaveTorn(b) ==
    /\ tail # "torn" /\ ~IsTip(b)
    /\ log' = <<>>
    /\ tail' = "torn"
    /\ UNCHANGED told

SharedNext ==
    \E b \in Body :
        \/ \E p \in Proc : Skip(p, b) \/ Add(p, b) \/ Glue(p, b)
        \/ LeaveEntry(b) \/ LeaveTorn(b)

SharedSpec == SharedInit /\ [][SharedNext]_sharedVars
=============================================================================

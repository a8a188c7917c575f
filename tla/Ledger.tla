------------------------------- MODULE Ledger -------------------------------
(***************************************************************************)
(* The append-only provenance ledger of the USR loop,                      *)
(* crates/plsql-accretion/src/ledger.rs, as several `usr-loop` invocations *)
(* append to it at once (tools/usr-loop/src/main.rs, run_ledger; a landing *)
(* appends one body through the same Ledger::append).                      *)
(*                                                                         *)
(* The file is the sequence of its text lines.  A line is an entry or, if  *)
(* serde_json cannot parse it, Torn.  The line and its newline are two     *)
(* separate write_all calls, so the last line may be unterminated; text    *)
(* written behind an unterminated line continues that line.                *)
(*                                                                         *)
(* sha256 is taken to be free of collisions: the id of an entry is the     *)
(* sequence of the bodies hashed into it.                                  *)
(***************************************************************************)
EXTENDS Naturals, Sequences

CONSTANTS
    Proc,     \* usr-loop invocations, each a process with its own handle
    Body,     \* LedgerBody values
    Plans,    \* the body sequences an invocation may have to append
    Torn,     \* the content of a line that does not parse
    NoProc    \* the holder of a free lock

ASSUME PlansAssumption == Plans \subseteq Seq(Body)
ASSUME NoProcAssumption == NoProc \notin Proc

VARIABLES
    file,          \* the lines of ledger.jsonl
    unterminated,  \* TRUE when the last line has no newline yet
    lock,          \* holder of the exclusive flock on ledger.jsonl.lock
    pc,            \* where each invocation stands
    plan,          \* plan[p]: the bodies p has still to append
    parent,        \* parent[p]: the tip id p read under the lock
    acked          \* acked[p]: the ids append() returned Ok to p with

vars == <<file, unterminated, lock, pc, plan, parent, acked>>

-----------------------------------------------------------------------------
(* Entries and their ids.                                                  *)

EntryId == Seq(Body)

GENESIS_PARENT == <<>>

entry_id(par, body) == Append(par, body)

LedgerEntry == [entry_id : EntryId, parent_entry_id : EntryId, body : Body]

ASSUME TornAssumption == Torn \notin LedgerEntry

Line == LedgerEntry \cup {Torn}

NewEntryBug(par, b) == [entry_id |-> entry_id(par, b), body |-> b]

NewEntry(par, b) ==
    [entry_id |-> entry_id(par, b), parent_entry_id |-> par, body |-> b]

(* Ledger::iter succeeds exactly when every line parses.                   *)
Readable(f) == \A i \in DOMAIN f : f[i] # Torn

TipId(f) == IF f = <<>> THEN GENESIS_PARENT ELSE f[Len(f)].entry_id

ParentOfNextBug(f) == IF Len(f) < 2 THEN TipId(f) ELSE f[Len(f) - 1].entry_id

ParentOfNext(f) == TipId(f)

(* The only comparison append makes: with the tip, not with older entries. *)
SameAsTipBug(f, b) == FALSE

SameAsTip(f, b) == f # <<>> /\ f[Len(f)].body = b

(* Line i of a readable file continues the chain.                          *)
Linked(f, i) ==
    /\ f[i].parent_entry_id =
         IF i = 1 THEN GENESIS_PARENT ELSE f[i - 1].entry_id
    /\ f[i].entry_id = entry_id(f[i].parent_entry_id, f[i].body)

verify_chain(f) ==
    IF ~Readable(f) THEN "parse_error"
    ELSE IF \A i \in DOMAIN f : Linked(f, i) THEN "ok"
    ELSE "chain_broken"

-----------------------------------------------------------------------------
(* Control states.  "idle" is between two appends; from "read" to          *)
(* "newline" the invocation is inside append() and owns the guard.         *)

Critical == {"read", "write", "short", "newline"}
Ended == {"ok", "err", "crashed"}

TypeOK ==
    /\ file \in Seq(Line)
    /\ unterminated \in BOOLEAN
    /\ lock \in Proc \cup {NoProc}
    /\ pc \in [Proc -> {"idle"} \cup Critical \cup Ended]
    /\ plan \in [Proc -> Seq(Body)]
    /\ parent \in [Proc -> EntryId]
    /\ acked \in [Proc -> Seq(EntryId)]

Init ==
    /\ file = <<>>
    /\ unterminated = FALSE
    /\ lock = NoProc
    /\ pc = [p \in Proc |-> "idle"]
    /\ plan \in [Proc -> Plans]
    /\ parent = [p \in Proc |-> GENESIS_PARENT]
    /\ acked = [p \in Proc |-> <<>>]

-----------------------------------------------------------------------------
LockFreeBug == TRUE

LockFree == lock = NoProc

(* LedgerLockGuard::acquire blocks until the lock is free.                 *)
Acquire(p) ==
    /\ pc[p] = "idle"
    /\ plan[p] # <<>>
    /\ LockFree
    /\ lock' = p
    /\ pc' = [pc EXCEPT ![p] = "read"]
    /\ UNCHANGED <<file, unterminated, plan, parent, acked>>

(* iter() meets a line that does not parse: append returns Err, the guard  *)
(* is dropped and run_ledger exits 1 without trying its other bodies.      *)
ReadFailsBug(p) ==
    /\ pc[p] = "read"
    /\ ~Readable(file)
    /\ pc' = [pc EXCEPT ![p] = "err"]
    /\ UNCHANGED <<file, unterminated, lock, plan, parent, acked>>

ReadFails(p) ==
    /\ pc[p] = "read"
    /\ ~Readable(file)
    /\ lock' = NoProc
    /\ pc' = [pc EXCEPT ![p] = "err"]
    /\ UNCHANGED <<file, unterminated, plan, parent, acked>>

(* The body is already the tip: Ok(tip id), nothing is written.            *)
SkipTip(p) ==
    /\ pc[p] = "read"
    /\ Readable(file)
    /\ SameAsTip(file, Head(plan[p]))
    /\ acked' = [acked EXCEPT ![p] = Append(@, TipId(file))]
    /\ plan' = [plan EXCEPT ![p] = Tail(@)]
    /\ lock' = NoProc
    /\ pc' = [pc EXCEPT ![p] = "idle"]
    /\ UNCHANGED <<file, unterminated, parent>>

ReadTipBug(p) ==
    /\ pc[p] = "read"
    /\ parent' = [parent EXCEPT ![p] = IF Readable(file) THEN ParentOfNext(file)
                                       ELSE GENESIS_PARENT]
    /\ pc' = [pc EXCEPT ![p] = "write"]
    /\ UNCHANGED <<file, unterminated, lock, plan, acked>>

ReadTip(p) ==
    /\ pc[p] = "read"
    /\ Readable(file)
    /\ ~SameAsTip(file, Head(plan[p]))
    /\ parent' = [parent EXCEPT ![p] = ParentOfNext(file)]
    /\ pc' = [pc EXCEPT ![p] = "write"]
    /\ UNCHANGED <<file, unterminated, lock, plan, acked>>

MyEntry(p) == NewEntry(parent[p], Head(plan[p]))

(* write_all(line) on a file opened for append.  Behind an unterminated    *)
(* line the text lands on that line, and two entries on a line parse as    *)
(* none.                                                                   *)
WriteLineBug(p) ==
    /\ pc[p] = "write"
    /\ file' = <<MyEntry(p)>>
    /\ unterminated' = TRUE
    /\ pc' = [pc EXCEPT ![p] = "newline"]
    /\ UNCHANGED <<lock, plan, parent, acked>>

WriteLine(p) ==
    /\ pc[p] = "write"
    /\ file' = IF unterminated THEN [file EXCEPT ![Len(file)] = Torn]
               ELSE Append(file, MyEntry(p))
    /\ unterminated' = TRUE
    /\ pc' = [pc EXCEPT ![p] = "newline"]
    /\ UNCHANGED <<lock, plan, parent, acked>>

(* write_all(b"\n"); append returns Ok(entry_id) and drops the guard.      *)
WriteNewline(p) ==
    /\ pc[p] = "newline"
    /\ unterminated' = FALSE
    /\ acked' = [acked EXCEPT ![p] = Append(@, MyEntry(p).entry_id)]
    /\ plan' = [plan EXCEPT ![p] = Tail(@)]
    /\ lock' = NoProc
    /\ pc' = [pc EXCEPT ![p] = "idle"]
    /\ UNCHANGED <<file, parent>>

(* Every body appended: the invocation reports and exits 0.                *)
Finish(p) ==
    /\ pc[p] = "idle"
    /\ plan[p] = <<>>
    /\ pc' = [pc EXCEPT ![p] = "ok"]
    /\ UNCHANGED <<file, unterminated, lock, plan, parent, acked>>

Step(p) ==
    \/ Acquire(p) \/ ReadFails(p) \/ SkipTip(p) \/ ReadTip(p)
    \/ WriteLine(p) \/ WriteNewline(p) \/ Finish(p)

-----------------------------------------------------------------------------
(* Faults of the host.                                                     *)

(* write(2) stores only a beginning of the line; write_all will retry.     *)
ShortWrite(p) ==
    /\ pc[p] = "write"
    /\ ~unterminated
    /\ file' = Append(file, Torn)
    /\ unterminated' = TRUE
    /\ pc' = [pc EXCEPT ![p] = "short"]
    /\ UNCHANGED <<lock, plan, parent, acked>>

WriteRest(p) ==
    /\ pc[p] = "short"
    /\ file' = [file EXCEPT ![Len(file)] = MyEntry(p)]
    /\ pc' = [pc EXCEPT ![p] = "newline"]
    /\ UNCHANGED <<unterminated, lock, plan, parent, acked>>

(* The lock file, the ledger or a write fails (disk full, I/O error):      *)
(* append returns Err, a guard is dropped, run_ledger exits 1.             *)
IoFailsBug(p) ==
    /\ pc[p] \in {"idle"} \cup Critical
    /\ plan[p] # <<>>
    /\ lock' = IF lock = p THEN NoProc ELSE lock
    /\ pc' = [pc EXCEPT ![p] = "err"]
    /\ acked' = IF pc[p] # "newline" THEN acked
                ELSE [acked EXCEPT ![p] = Append(@, MyEntry(p).entry_id)]
    /\ UNCHANGED <<file, unterminated, plan, parent>>

IoFails(p) ==
    /\ pc[p] \in {"idle"} \cup Critical
    /\ plan[p] # <<>>
    /\ lock' = IF lock = p THEN NoProc ELSE lock
    /\ pc' = [pc EXCEPT ![p] = "err"]
    /\ UNCHANGED <<file, unterminated, plan, parent, acked>>

(* The process dies; the kernel closes its handles and frees the flock.    *)
Crash(p) ==
    /\ pc[p] \notin Ended
    /\ lock' = IF lock = p THEN NoProc ELSE lock
    /\ pc' = [pc EXCEPT ![p] = "crashed"]
    /\ UNCHANGED <<file, unterminated, plan, parent, acked>>

Fault(p) == ShortWrite(p) \/ IoFails(p) \/ Crash(p)

-----------------------------------------------------------------------------
AllEnded == \A p \in Proc : pc[p] \in Ended

Terminated == AllEnded /\ UNCHANGED vars

Next == \/ \E p \in Proc : Step(p) \/ WriteRest(p) \/ Fault(p)
        \/ Terminated

(* Without faults: no process dies and no write is cut short or refused.   *)
ReliableNext == (\E p \in Proc : Step(p)) \/ Terminated

(* An invocation is a running process: it takes its next step whenever it  *)
(* can.  Weak fairness of the blocked flock suffices, since every          *)
(* invocation takes the lock only finitely often.                          *)
Fairness == \A p \in Proc : WF_vars(Step(p) \/ WriteRest(p))

Spec == Init /\ [][Next]_vars

FairSpec == Spec /\ Fairness

ReliableSpec == Init /\ [][ReliableNext]_vars

-----------------------------------------------------------------------------
(* What holds whatever fails.                                              *)

(* At every moment, also for a reader that takes no lock (verify_chain,    *)
(* the tripwire), all lines but the last are entries of one unforked chain *)
(* from GENESIS_PARENT, and the last is one or does not parse: no two      *)
(* appends ever share a parent, whichever process died at whichever point. *)
Chained(f) ==
    \A i \in DOMAIN f : IF f[i] = Torn THEN i = Len(f) ELSE Linked(f, i)

ChainToTheTail == Chained(file)

(* Acting twice on one cluster, even from two invocations at once or after *)
(* a crash before the acknowledgement, never records it twice in a row.    *)
Distinct(f) ==
    \A i \in DOMAIN f : i > 1 /\ f[i] # Torn => f[i].body # f[i - 1].body

NoDuplicateNeighbours == Distinct(file)

(* An id append() returned names an entry of the file as long as the file  *)
(* can be read at all.                                                     *)
AckedIn(f) ==
    \A p \in Proc : \A k \in DOMAIN acked[p] :
        \E i \in DOMAIN f : f[i] # Torn /\ f[i].entry_id = acked[p][k]

AckedUnlessUnreadable == Readable(file) => AckedIn(file)

(* A ledger left unreadable stays exactly as it is for ever: no later      *)
(* invocation gets to write to it, and none is told its body was recorded. *)
LeftUnreadable ==
    /\ ~Readable(file)
    /\ \A p \in Proc : pc[p] \notin {"write", "short", "newline"}

UnreadableIsFinal ==
    [][LeftUnreadable => LeftUnreadable' /\ UNCHANGED <<file, acked>>]_vars

(* Every invocation ends, though others fail while they hold the lock: a   *)
(* guard is released on each way out of append(), and by the kernel.       *)
EveryInvocationEnds == <>AllEnded

(* Whatever fails, the ledger implements the log that others share: an      *)
(* append takes effect when it is answered or when its process dies, and   *)
(* until then it is as if its line were not there.                         *)
Bodies(f) == [i \in DOMAIN f |-> f[i].body]

Unanswered == lock # NoProc /\ pc[lock] \in {"short", "newline"}

SharedEntries ==
    IF Unanswered THEN parent[lock]
    ELSE IF Readable(file) THEN Bodies(file) ELSE <<>>

(* An unanswered line that does not parse, though it was written in full,  *)
(* lies on a line that had no newline.                                     *)
SharedTail ==
    IF Readable(file)
    THEN IF unterminated /\ ~Unanswered THEN "unterminated" ELSE "whole"
    ELSE IF ~Unanswered THEN "torn"
    ELSE IF pc[lock] = "newline" THEN "unterminated" ELSE "whole"

LastOf(id) == id[Len(id)]

Told(p) == [k \in DOMAIN acked[p] |-> LastOf(acked[p][k])]

Shared == INSTANCE SharedLog WITH
            Start <- {<<>>},
            log <- SharedEntries,
            tail <- SharedTail,
            told <- [p \in Proc |-> Told(p)]

ImplementsShared == Shared!SharedSpec

-----------------------------------------------------------------------------
(* What holds when no process dies and no write fails.                     *)

(* verify_chain succeeds in every state, in the middle of appends too, and *)
(* whoever ended recorded all it had to append.                            *)
VerifiesThroughout ==
    /\ verify_chain(file) = "ok"
    /\ \A p \in Proc : pc[p] \in Ended => pc[p] = "ok"

(* The ledger implements the abstract log: an append takes effect at once, *)
(* when its line is written, and its caller is told the id of the tip.     *)
PendingId(p) == IF pc[p] = "newline" THEN MyEntry(p).entry_id ELSE <<>>

Log == INSTANCE LedgerLog WITH
         log <- Bodies(file),
         pending <- [p \in Proc |-> PendingId(p)]

ImplementsLog == Log!LogSpec

-----------------------------------------------------------------------------
(* append() returning Ok means that the body was added: iter() returns its *)
(* entry then ("the only mutation is append, which is additive"; "every    *)
(* concurrent append must land").  False after an invocation died between  *)
(* the two writes of its append: the next body lands on the same line.     *)
AckMeansRecorded == [][acked' # acked => Readable(file') /\ AckedIn(file)']_vars
=============================================================================

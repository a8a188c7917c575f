----------------------------- MODULE LedgerLog -----------------------------
(***************************************************************************)
(* What crates/plsql-accretion/src/ledger.rs promises its callers: one     *)
(* shared, append-only log of provenance bodies.  An append either adds    *)
(* one body at the end or, when the same body is already the tip, changes  *)
(* nothing; in both cases the caller is told the id of the tip it acted    *)
(* on.  An id is sha256 over the parent id and the body, so it identifies  *)
(* the whole history up to its entry: here it IS that history.             *)
(*                                                                         *)
(* There are no files, locks or line formats here: Ledger.tla is shown to  *)
(* implement this module.                                                  *)
(***************************************************************************)
EXTENDS Naturals, Sequences

CONSTANTS
    Proc,   \* the usr-loop invocations that append
    Body    \* the provenance bodies

VARIABLES
    log,      \* the bodies recorded so far, oldest first
    pending,  \* pending[p]: the id p recorded and was not yet told, or None
    acked     \* acked[p]: the ids append() returned to p, in order

logVars == <<log, pending, acked>>

None == <<>>

LogTypeOK ==
    /\ log \in Seq(Body)
    /\ pending \in [Proc -> Seq(Body)]
    /\ acked \in [Proc -> Seq(Seq(Body))]

LogInit ==
    /\ log = <<>>
    /\ pending = [p \in Proc |-> None]
    /\ acked = [p \in Proc |-> <<>>]

(* A body becomes the new tip.  It is never the body that is the tip, and  *)
(* nobody is still owed the id of an earlier recording.                    *)
Record(p, b) ==
    /\ pending = [q \in Proc |-> None]
    /\ log # <<>> => log[Len(log)] # b
    /\ log' = Append(log, b)
    /\ pending' = [pending EXCEPT ![p] = Append(log, b)]
    /\ UNCHANGED acked

(* The caller learns the id it recorded, which still is the tip.           *)
Acknowledge(p) ==
    /\ pending[p] # None
    /\ pending[p] = log
    /\ acked' = [acked EXCEPT ![p] = Append(@, pending[p])]
    /\ pending' = [pending EXCEPT ![p] = None]
    /\ UNCHANGED log

(* Re-appending the tip grows nothing and returns the tip's id.            *)
AcknowledgeTip(p) ==
    /\ log # <<>>
    /\ pending = [q \in Proc |-> None]
    /\ acked' = [acked EXCEPT ![p] = Append(@, log)]
    /\ UNCHANGED <<log, pending>>

LogNext ==
    \E p \in Proc :
        \/ \E b \in Body : Record(p, b)
        \/ Acknowledge(p)
        \/ AcknowledgeTip(p)

LogSpec == LogInit /\ [][LogNext]_logVars
=============================================================================

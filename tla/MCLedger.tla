------------------------------ MODULE MCLedger ------------------------------
(***************************************************************************)
(* Small instances of Ledger: invocations that append one or two of two    *)
(* bodies (clusters are sorted and distinct, so an invocation never        *)
(* repeats a body itself) and may meet one another at any point.           *)
(***************************************************************************)
EXTENDS Ledger

CONSTANTS a, b

MCPlans == {<<a>>, <<b>>, <<a, b>>}

=============================================================================

------------------------------- MODULE MCLand -------------------------------
(* Three landings: two candidates for one gap class, which share a fixture *)
(* and whose patches exclude each other; one outside the allowlist; one    *)
(* with residue in its text; and one that is neither honest nor pinned.    *)
EXTENDS Land, TLC

CONSTANTS a, b, scope, leaky, bad, f, g, p1, p2, p3

MCProc == {p1, p2, p3}
MCCand == {a, b, scope, leaky, bad}
MCFixture == {f, g}
MCJobs == <<[cand |-> a, fix |-> f], [cand |-> b, fix |-> f],
            [cand |-> scope, fix |-> g], [cand |-> leaky, fix |-> g],
            [cand |-> bad, fix |-> g]>>
MCJob == {MCJobs[i] : i \in DOMAIN MCJobs}

(* Invocations are all alike: who is given which job does not matter.      *)
MCGiven ==
    {(p1 :> MCJobs[i]) @@ (p2 :> MCJobs[j]) @@ (p3 :> MCJobs[k]) :
        <<i, j, k>> \in {x \in (1 .. 5) \X (1 .. 5) \X (1 .. 5) :
                            x[1] <= x[2] /\ x[2] <= x[3]}}

MCHolds == [c \in MCCand |->
              CASE c = leaky -> {"G7", "G9"}
                [] c = bad -> {"G8"}
                [] OTHER -> {"G7", "G8", "G9"}]
MCPatched == {a, b, scope, leaky, bad}
MCOutOfScope == {scope}
MCConflict == {<<a, b>>, <<b, a>>}

=============================================================================

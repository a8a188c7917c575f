----------------------------- MODULE MCTripwire -----------------------------
(* Runs for two releases, against no release, the one before or their own, *)
(* with and without a floor, while the ratio first rises and then falls.   *)
EXTENDS Tripwire

CONSTANTS s1

MCRatio == <<2, 1>>

MCFloor == [coverage_index |-> 2, extracted_semantics_ratio |-> 1]

MCPast ==
    {<<>>,
     <<[ref |-> 1, commit |-> 0,
        index |-> [coverage_index |-> 1, extracted_semantics_ratio |-> 1]]>>}

MCInputs ==
    {[ref |-> 1, base |-> 0, floor |-> {}, valid |-> TRUE],
     [ref |-> 1, base |-> 1, floor |-> {MCFloor}, valid |-> FALSE],
     [ref |-> 2, base |-> 1, floor |-> {}, valid |-> TRUE],
     [ref |-> 2, base |-> 2, floor |-> {MCFloor}, valid |-> TRUE]}

(* What accretion_tripwire.sh passes at a commit that carries the tag: the *)
(* last tag, `git describe --tags --abbrev=0`, is the tag itself.          *)
MCTagFloor == [coverage_index |-> 1, extracted_semantics_ratio |-> 1]

MCTagInputs ==
    {[ref |-> t, base |-> t, floor |-> {MCTagFloor}, valid |-> TRUE] : t \in {1, 2}}
=============================================================================

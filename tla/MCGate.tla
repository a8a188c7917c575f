------------------------------- MODULE MCGate -------------------------------
(* Two gate runs: on one checkout or on two, for one gap class or for two, *)
(* with inputs that fail at every kind of stage.                           *)
EXTENDS Gate

CONSTANTS t1, t2, s1, s2

MCGood == [tree |-> t1, sig |-> s1, sha |-> TRUE, ok |-> OwnStages,
           estate |-> "above", pin |-> "real"]

MCInputs ==
    {MCGood,
     [MCGood EXCEPT !.sha = FALSE],
     [MCGood EXCEPT !.estate = "absent", !.sig = s2],
     [MCGood EXCEPT !.tree = t2, !.estate = "below"],
     [MCGood EXCEPT !.tree = t2, !.estate = "insane"],
     [MCGood EXCEPT !.estate = "unmeasured"],
     [MCGood EXCEPT !.pin = "tautology"],
     [MCGood EXCEPT !.pin = "unreverted"],
     [MCGood EXCEPT !.pin = "unrevertable"],
     [MCGood EXCEPT !.pin = "unrestorable"],
     [MCGood EXCEPT !.pin = "none", !.estate = "absent"],
     [MCGood EXCEPT !.ok = OwnStages \ {"G0"}],
     [MCGood EXCEPT !.ok = OwnStages \ {"G5"}],
     [MCGood EXCEPT !.ok = OwnStages \ {"G7", "G8"}],
     [MCGood EXCEPT !.ok = OwnStages \ {"G8"}]}
=============================================================================

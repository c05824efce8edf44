--------------------------- MODULE AnalysisChainMC ---------------------------
(* A small study for TLC: "item" on the list leads to the page of "buy", the *)
(* critical element; "about" leads to a page without elements.  The task is  *)
(* also done by "skip", on the list: a walk shorter than the baseline.       *)
EXTENDS AnalysisChain, TLC

CONSTANTS p1, p2

MCScreens == {"list", "page", "about"}
MCOn      == [list |-> {"item", "info", "skip"}, page |-> {"buy", "more"}, about |-> {}]
MCLeads   == {[from |-> "list", trigger |-> "item", to |-> "page"],
              [from |-> "list", trigger |-> "info", to |-> "about"]}
MCExpected == {"primary_action"}
MCCritical == {"buy"}
MCMarks    == [e \in UNION {MCOn[s] : s \in MCScreens} |-> IF e = "buy" THEN MCExpected ELSE {}]
MCKind     == [e \in DOMAIN MCMarks |-> "CLICK"]

\* One of them is on the threshold.
MCTraits == p1 :> [tech |-> 5] @@ p2 :> [tech |-> 2]

MCBenchmark == [completion |-> Share(1, 2), size |-> 40, clicks |-> [item |-> Share(9, 10)],
                attention |-> [item |-> Share(1, 2), buy |-> Share(1, 2)]]
MCSiblings  == <<[model |-> "random", summary |-> [MCBenchmark EXCEPT !.completion = Share(0, 2)]],
                 [model |-> "heuristic", summary |-> MCBenchmark]>>
MCPresent == {{}, {0, 1, 2}}
MCRelationships == {[low |-> <<"tech", "low">>, high |-> <<"tech", "high">>,
                     metric |-> "completion_rate", direction |-> "lower"]}
=============================================================================

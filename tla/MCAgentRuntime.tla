--------------------------- MODULE MCAgentRuntime -----------------------------
(* Instances of AgentRuntime for TLC: two readers and a writer, one reader *)
(* with a priced provider.                                                 *)
EXTENDS AgentRuntime

CONSTANTS a, b, w, scout, mutator

ThreeCalls == {a, b, w}
OneWriter == {w}
TwoAgents == {scout, mutator}
AgentOfCall == a :> scout @@ b :> scout @@ w :> mutator
Prices == a :> None @@ b :> 1 @@ w :> 2
AllPriced == a :> 1 @@ b :> 1 @@ w :> 2
ModelRetries == a :> 1 @@ b :> 0 @@ w :> 1

(* Below the estimate, above it with the provider's own price, missing.    *)
ModelEstimates == {2}
ModelUsages == {[tokens |-> 1, cost |-> None], [tokens |-> 5, cost |-> 6], Unknown}
===============================================================================

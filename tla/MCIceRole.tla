------------------------------ MODULE MCIceRole ------------------------------
EXTENDS IceRole

\* Two agents with different tiebreakers, as in scenario 6 of the spec.
MCAgents == {"A", "B"}
MCTiebrkDistinct == [a \in MCAgents |-> IF a = "A" THEN 1 ELSE 2]
=============================================================================

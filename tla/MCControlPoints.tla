-------------------------- MODULE MCControlPoints --------------------------
(* Four points in a chain, two of each team, and five mini-rounds: the middle *)
(* is played first, and the ends can be approached from either middle point.  *)
EXTENDS ControlPoints, TLC

MCTeams == {2, 3}
MCPoints == 0..3
MCDefault == [p \in MCPoints |-> IF p < 2 THEN 2 ELSE 3]
MCAreas == MCTeams \X MCPoints
MCRounds == 1..5
MCPointsOf == 1 :> {1, 2} @@ 2 :> {2, 3} @@ 3 :> {1, 3} @@ 4 :> {0, 1} @@ 5 :> {0, 2}
MCPriority == [r \in MCRounds |-> IF r = 1 THEN 2 ELSE 1]
MCInvalid == [r \in MCRounds |-> 0]

=============================================================================

---------------------------- MODULE MCCaptureArea ----------------------------
(* Instances of CaptureArea for TLC: a scout of team 2 against a spy of     *)
(* team 3.                                                                  *)
EXTENDS CaptureArea

MCTeams == {2, 3}
MCPlayers == {"scout", "spy"}
MCTeamOf == [p \in MCPlayers |-> IF p = "scout" THEN 2 ELSE 3]
MCValue == [p \in MCPlayers |-> IF p = "scout" THEN 2 ELSE 1]
MCRequired == [t \in MCTeams |-> 1]
MCRate == [n \in 1..4 |-> IF n = 1 THEN 1 ELSE 2]

MCMayCapture == {{2, 3}, {3}}
MCMapAllows == {{2, 3}, {2}}
MCConditions == [p \in MCPlayers |->
  IF p = "scout" THEN {"cap", "dead"} ELSE {"cap", "block", "hidden", "dead"}]

=============================================================================

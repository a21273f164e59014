---------------------------- MODULE MCCaptureFlag ----------------------------
(* One flag that two players of the other team may steal, and one that a      *)
(* player carries for his own team.                                           *)
EXTENDS CaptureFlag, TLC

CONSTANTS p1, p2, p3, f1, f2

MCPlayers == {p1, p2, p3}
MCTeam == p1 :> 3 @@ p2 :> 3 @@ p3 :> 2
MCFlags == {f1, f2}
MCKind == f1 :> "ctf" @@ f2 :> "attack_defend"
MCFlagTeam == [f \in MCFlags |-> 2]

=============================================================================

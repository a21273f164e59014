---------------------------- MODULE MCRoundTimer ----------------------------
(* An instance of RoundTimer for TLC: two ticks to a second, a timer with     *)
(* setup and one without.                                                     *)
EXTENDS RoundTimer, TLC

MCMapTimers == {1, 2}
MCSetup == 1 :> 2 @@ 2 :> 0
MCInitial == 1 :> 2 @@ 2 :> 2
MCMaxLength == 1 :> 4 @@ 2 :> 0
MCStartPaused == {2}
MCResetTime == {1}
MCStartDisabled == {}
MCStartShown == {1, 2}
MCWarnings == {2}
MCTimes == {2, -2}
MCScripted == {1}

=============================================================================

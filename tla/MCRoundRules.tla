---------------------------- MODULE MCRoundRules ----------------------------
(* Instances of RoundRules and RoundRulesLive for TLC.                     *)
EXTENDS RoundRulesLive

CONSTANTS red, blue, unassigned

MCTeams == {red, blue}

InPlay == {<<"RND_RUNNING", FALSE>>, <<"STALEMATE", FALSE>>}

\* In play, a waiting period included.
Overlapping == InPlay \cup {<<"RND_RUNNING", TRUE>>, <<"STALEMATE", TRUE>>}

\* For runs that check safety only: parity stands still.
SafetySpec == LiveInit /\ [][Next /\ UNCHANGED parity]_liveVars

Anytime == {"PREROUND", "RND_RUNNING", "TEAM_WIN", "STALEMATE"} \X BOOLEAN

NoCvars == {}
RestartCvars == {"restartgame", "restartround", "readyrestart"}
OperatorCvars == {"restartround", "waitrestart", "waitcancel", "switchteams"}

PlayFacts == {"fragLimit"}
FlagFacts == {"timerMayExpire", "canGoToStalemate", "flagCaps"}
StalemateFacts == {"timerMayExpire"}
RoundsFacts == {"timerMayExpire", "roundsLeft"}
OperatorFacts == {"roundsLeft", "nextlevel"}

=============================================================================

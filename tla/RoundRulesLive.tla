--------------------------- MODULE RoundRulesLive ---------------------------
(***************************************************************************)
(* What the round rules eventually do.  The frames of the server are fair  *)
(* in the sense of QuietFrame below; a parity of the quiet frames so far   *)
(* turns "infinitely many of them" into a formula about states, which TLC  *)
(* checks without evaluating a whole think on every edge of the graph.     *)
(***************************************************************************)
EXTENDS RoundRules

VARIABLE parity

liveVars == <<vars, parity>>

\* A frame that makes the periodic checks, falls between two respawn waves and
\* finds no point being captured (CTFGameRules::TimerMayExpire).
QuietFrame == [periodic |-> TRUE, facts |-> {"timerMayExpire"} \cap Facts,
               wave |-> {}, caps |-> NoTeam]

LiveInit == Init /\ parity = FALSE
LiveNext == (Think(QuietFrame) /\ parity' = ~parity) \/ (Next /\ UNCHANGED parity)

\* The server keeps thinking, quiet frames keep coming, and time passes.
Fairness ==
  /\ []<>(parity \/ rules.over) /\ []<>(~parity \/ rules.over)
  /\ WF_liveVars(ElapseWait /\ UNCHANGED parity)
  /\ WF_liveVars(ElapseRestart /\ UNCHANGED parity)
  /\ WF_liveVars(ElapseTransition /\ UNCHANGED parity)
  /\ WF_liveVars(ElapseStalemate /\ UNCHANGED parity)

LiveSpec == LiveInit /\ [][LiveNext]_liveVars /\ Fairness

Deserted == ~CountActivePlayers(rules)

\* A restart that was announced happens (or is called off by a ready restart, or
\* the game ends first), though only State_Think_RND_RUNNING looks at it.
RestartHonoured ==
  rules.restart # "off" ~> (rules.restart = "off" \/ rules.over \/ Deserted)

\* The waiting period ends, unless a ready restart holds it.
WaitingEnds == rules.waiting ~> (~rules.waiting \/ rules.ready \/ rules.over \/ Deserted)

\* When every team has signalled ready the restart is set going.
ReadyHonoured ==
  (rules.ready /\ rules.teamReady = Teams) ~> (~rules.ready \/ rules.over \/ Deserted
                                               \/ rules.teamReady = {})

\* A stalemate is always decided, by deaths or by its timer.
StalemateEnds == rules.state = "STALEMATE" ~> rules.state # "STALEMATE"

\* A draw at the time limit gets one stalemate, and then the level changes.
DrawAtTimeLimitEndsGame ==
  (rules.lastRound /\ rules.state \in {"STALEMATE", "TEAM_WIN"}) ~> (rules.over \/ Deserted)

=============================================================================

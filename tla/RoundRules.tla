----------------------------- MODULE RoundRules -----------------------------
(***************************************************************************)
(* The round state machine of the game: CTeamplayRoundBasedRules           *)
(* (teamplayroundbased_gamerules.cpp) with the overrides of CTFGameRules   *)
(* (tf_gamerules.cpp).                                                     *)
(*                                                                         *)
(* The server is one thread, so a handler runs to its end before anything  *)
(* else does.  What is hard is the order in which handlers are called: the *)
(* think of a frame, the inputs of map entities, the variables the         *)
(* operator sets, players who join, die and leave, and the deadlines that  *)
(* pass between frames.  A handler is an operator from the rules' state s  *)
(* to their next state, composed in the order of the code's calls; the     *)
(* operator has the name of the function it stands for.                    *)
(***************************************************************************)
EXTENDS Naturals, FiniteSets

CONSTANTS
  Teams,              \* the game teams, FIRST_GAME_TEAM .. GetNumberOfTeams()-1
  Red, Blue,          \* the two teams that HandleSwitchTeams exchanges
  NoTeam,             \* TEAM_UNASSIGNED
  MaxRounds,          \* mp_maxrounds, 0 for no limit
  WinLimit,           \* mp_winlimit, 0 for no limit
  TimeLimit,          \* mp_timelimit is set (to more than five minutes)
  WaitForPlayers,     \* mp_waitingforplayers_time > 0
  StalemateEnabled,   \* mp_stalemate_enable
  StalemateOnTimeLimit, \* m_bAllowStalemateAtTimelimit, set by the map
  Master,             \* the map's control point master: "none", "points", "rounds"
  PlayAllRounds,      \* the master wants all mini-rounds played (play_all_rounds)
  AdminCvars,         \* the server variables the operator may set
  SwitchOnWin,        \* the map switches teams after a full win (switch_teams)
  Facts,              \* what a think may find true of the rest of the server
  MapWhen,            \* <<round state, waiting>> in which the map fires inputs
  SameFrameStalemate, \* the map may ask for a stalemate in the frame one ended
  MaxInputs,          \* bound: wins, stalemates and game ends from outside
  MaxRequests         \* bound: operator requests

RoundStates == {"PREGAME", "STARTGAME", "PREROUND", "RND_RUNNING",
                "TEAM_WIN", "STALEMATE", "GAME_OVER"}
Deadline == {"off", "pending", "passed"}   \* a time_t that is -1, ahead, behind
Entity == {"none", "live", "dying"}        \* "dying": UTIL_Remove'd, not yet freed
HudTimers == {"none", "round", "wait", "stale"}
MapTime == {"early", "late", "ending", "over"} \* >= 5 min, > 5 s, > 0 s, <= 0 s
Presence == {"empty", "dead", "alive"}     \* of a team's players
AllCvars == {"restartround", "restartgame", "readyrestart", "waitrestart",
             "waitcancel", "switchteams"}
AllFacts == {"timerMayExpire", "canGoToStalemate", "nextlevel", "roundsLeft",
             "fragLimit", "flagCaps"}

ASSUME ConstantsAssumption ==
  /\ Red \in Teams /\ Blue \in Teams /\ Red # Blue /\ NoTeam \notin Teams
  /\ MaxRounds \in Nat /\ WinLimit \in Nat /\ MaxInputs \in Nat /\ MaxRequests \in Nat
  /\ {TimeLimit, WaitForPlayers, StalemateEnabled, StalemateOnTimeLimit,
      PlayAllRounds, SwitchOnWin, SameFrameStalemate} \subseteq BOOLEAN
  /\ Master \in {"none", "points", "rounds"}
  /\ AdminCvars \subseteq AllCvars /\ Facts \subseteq AllFacts
  /\ MapWhen \subseteq RoundStates \X BOOLEAN

VARIABLES
  rules,    \* the members of the rules object and what they own
  inputs,   \* inputs from outside so far (bounded by MaxInputs)
  requests  \* operator requests so far (bounded by MaxRequests)

vars == <<rules, inputs, requests>>

RulesType ==
  [state: RoundStates, over: BOOLEAN,          \* m_iRoundState, g_fGameOver
   reset: BOOLEAN, prevWait: BOOLEAN,          \* m_bForceMapReset, m_bPrevRoundWas...
   waiting: BOOLEAN, waitEnds: Deadline, waitTimer: Entity,
   staleTimer: Entity, staleTime: {"running", "up"},
   hud: HudTimers, prevTimer: HudTimers,       \* m_bShowInHUD, m_hPreviousActiveTimer
   restart: Deadline, ready: BOOLEAN, teamReady: SUBSET Teams,
   trans: Deadline,                            \* m_flStateTransitionTime
   score: [Teams -> Nat], rounds: Nat, keepScores: BOOLEAN,
   timeLeft: MapTime, lastRound: BOOLEAN,      \* m_bChangelevelAfterStalemate
   switch: BOOLEAN, cvars: SUBSET AllCvars, team: [Teams -> Presence],
   \* history, read by the properties only
   world: {"clean", "waited", "played"},       \* who used the map since CleanUpMap
   fullWin: BOOLEAN,                           \* the last win asked for a full reset,
                                               \* and mp_restartround was not taken up since
   counted: Nat,                               \* counts of the round in progress
   nested: BOOLEAN]                            \* HideActiveTimer's assertion failed, and
                                               \* not for a waiting period in a stalemate

-----------------------------------------------------------------------------
(* Timers in the HUD.  Making one active turns the others off               *)
(* (CTeamRoundTimer::SetActiveTimer), so at most one is shown.              *)

HideActiveTimer(s) ==
  [s EXCEPT !.nested = @ \/ (s.prevTimer # "none" /\ ~(s.waiting /\ s.state = "STALEMATE")),
            !.prevTimer = s.hud, !.hud = "none"]

RestoreActiveTimer(s) ==
  IF s.prevTimer = "none" THEN s
  ELSE [s EXCEPT !.hud = s.prevTimer, !.prevTimer = "none"]

Remove(timer) == IF timer = "none" THEN "none" ELSE "dying"

\* gEntList.CleanupDeleteList at the end of a frame: handles to a removed
\* timer become null, and it leaves the HUD.
Gone(s) == {t \in {"wait", "stale"} :
              (IF t = "wait" THEN s.waitTimer ELSE s.staleTimer) = "dying"}
Sweep(s) ==
  [s EXCEPT !.waitTimer = IF @ = "dying" THEN "none" ELSE @,
            !.staleTimer = IF @ = "dying" THEN "none" ELSE @,
            !.hud = IF @ \in Gone(s) THEN "none" ELSE @,
            !.prevTimer = IF @ \in Gone(s) THEN "none" ELSE @]

-----------------------------------------------------------------------------
(* Players *)

CountActivePlayers(s) == \E t \in Teams : s.team[t] # "empty"

Respawn(s, which) ==
  [s EXCEPT !.team = [t \in Teams |-> IF t \in which /\ s.team[t] = "dead"
                                      THEN "alive" ELSE s.team[t]]]
RespawnPlayers(s) == Respawn(s, Teams)
CheckRespawnWaves(s, c) == Respawn(s, c.wave)

-----------------------------------------------------------------------------
(* Waiting for players, scores, the map *)

\* Faulty: the hidden timer is not shown again.
SetInWaitingForPlayers_NoRestore(s, b) ==
  IF s.waiting = b THEN s
  ELSE IF b THEN [s EXCEPT !.waiting = TRUE, !.waitEnds = "pending"]
  ELSE [s EXCEPT !.waiting = FALSE, !.waitEnds = "off", !.waitTimer = Remove(@)]

\* Faulty: the timer of the waiting period outlives it.
SetInWaitingForPlayers_KeepsTimer(s, b) ==
  IF s.waiting = b THEN s
  ELSE IF b THEN [s EXCEPT !.waiting = TRUE, !.waitEnds = "pending"]
  ELSE RestoreActiveTimer([s EXCEPT !.waiting = FALSE, !.waitEnds = "off"])

SetInWaitingForPlayers(s, b) ==
  IF s.waiting = b THEN s
  ELSE IF b THEN [s EXCEPT !.waiting = TRUE, !.waitEnds = "pending"]
  ELSE RestoreActiveTimer(
         [s EXCEPT !.waiting = FALSE, !.waitEnds = "off", !.waitTimer = Remove(@)])

ResetScores(s) ==
  [s EXCEPT !.score = IF s.keepScores THEN @ ELSE [t \in Teams |-> 0],
            !.rounds = IF s.keepScores THEN @ ELSE 0,
            !.keepScores = FALSE]

ResetMapTime(s) == [s EXCEPT !.timeLeft = "early"]

\* Every entity but the players and the preserved ones is removed and the map's
\* own are created again, the round timer among them.
CleanUpMap(s) ==
  [s EXCEPT !.waitTimer = "none", !.staleTimer = "none", !.hud = "round",
            !.prevTimer = "none", !.world = "clean"]

Swapped(t) == IF t = Red THEN Blue ELSE IF t = Blue THEN Red ELSE t
HandleSwitchTeams(s) ==
  [s EXCEPT !.team = [t \in Teams |-> s.team[Swapped(t)]],
            !.score = [t \in Teams |-> s.score[Swapped(t)]],
            !.switch = FALSE]

\* Faulty: cleans the map after a waiting period only.
RoundRespawn_OnlyPrevWait(s) ==
  LET cleaned  == IF s.prevWait THEN CleanUpMap(s) ELSE s
      switched == IF s.switch THEN HandleSwitchTeams(cleaned) ELSE cleaned
  IN  [RespawnPlayers(switched) EXCEPT !.counted = 0]

\* Faulty: forgets that the round before was a waiting period.
RoundRespawn_NoPrevWait(s) ==
  LET cleaned  == IF s.reset THEN CleanUpMap(s) ELSE s
      switched == IF s.switch THEN HandleSwitchTeams(cleaned) ELSE cleaned
  IN  [RespawnPlayers(switched) EXCEPT !.counted = 0]

RoundRespawn(s) ==
  LET cleaned  == IF s.reset \/ s.prevWait THEN CleanUpMap(s) ELSE s
      switched == IF s.switch THEN HandleSwitchTeams(cleaned) ELSE cleaned
  IN  [RespawnPlayers(switched) EXCEPT !.counted = 0]

GoToIntermission(s) == [s EXCEPT !.over = TRUE, !.state = "GAME_OVER"]

-----------------------------------------------------------------------------
(* Entering and leaving a round state (State_Transition).  RESTART is       *)
(* entered and left within one call and is never the state of a frame.      *)

\* Faulty: the timer stays; the hidden timer stays hidden.
State_Leave_STALEMATE_KeepsTimer(s) == RestoreActiveTimer(s)
State_Leave_STALEMATE_NoRestore(s) == [s EXCEPT !.staleTimer = Remove(@)]

State_Leave_STALEMATE(s) == RestoreActiveTimer([s EXCEPT !.staleTimer = Remove(@)])

State_Leave(s) == IF s.state = "STALEMATE" THEN State_Leave_STALEMATE(s) ELSE s

State_Enter_PREGAME(s) == [s EXCEPT !.state = "PREGAME"]

State_Enter_STARTGAME(s) == [s EXCEPT !.state = "STARTGAME", !.trans = "pending"]

State_Enter_PREROUND(s) == RoundRespawn([s EXCEPT !.state = "PREROUND", !.trans = "pending"])

State_Enter_RND_RUNNING(s) ==
  [s EXCEPT !.state = "RND_RUNNING", !.prevWait = FALSE,
            !.world = IF s.waiting THEN "waited" ELSE "played"]

State_Enter_TEAM_WIN(s) ==
  LET count == IF s.reset THEN 1 ELSE 0
  IN  [s EXCEPT !.state = "TEAM_WIN", !.trans = "pending",
                !.rounds = @ + count, !.counted = @ + count]

\* Faulty: no timer is made.
State_Enter_STALEMATE_NoTimer(s) ==
  HideActiveTimer(RespawnPlayers([s EXCEPT !.state = "STALEMATE"]))

State_Enter_STALEMATE(s) ==
  [HideActiveTimer(RespawnPlayers([s EXCEPT !.state = "STALEMATE"])) EXCEPT
     !.staleTimer = IF @ = "none" THEN "live" ELSE @,
     !.staleTime = "running", !.hud = "stale"]

\* Faulty: a restart does not end the waiting period.
State_Enter_RESTART_StillWaiting(s) ==
  State_Enter_PREROUND(ResetMapTime(ResetScores([s EXCEPT !.prevWait = s.waiting])))

State_Enter_RESTART(s) ==
  State_Enter_PREROUND(ResetMapTime(ResetScores(
    SetInWaitingForPlayers([s EXCEPT !.prevWait = s.waiting], FALSE))))

-----------------------------------------------------------------------------
(* Declaring a winner or a stalemate.  Neither function looks at the state  *)
(* the round is in.                                                         *)

\* Faulty: a draw is rewarded too, with a point for TEAM_UNASSIGNED.
SetWinningTeam_ScoresDraw(s, t, full, switch) ==
  LET reward == full \/ (TimeLimit /\ s.timeLeft = "over")
      old(u) == IF u \in Teams THEN s.score[u] ELSE 0
      scored == [s EXCEPT !.reset = full, !.fullWin = full, !.switch = switch,
                          !.score = [u \in Teams \cup {t} |->
                                       IF u = t /\ reward THEN old(u) + 1 ELSE old(u)]]
  IN  State_Enter_TEAM_WIN(State_Leave(scored))

SetWinningTeam(s, t, full, switch) ==
  LET reward == full \/ (TimeLimit /\ s.timeLeft = "over")
      scored == [s EXCEPT !.reset = full, !.fullWin = full, !.switch = switch,
                          !.score = [u \in Teams |-> IF u = t /\ reward THEN @[u] + 1 ELSE @[u]]]
  IN  State_Enter_TEAM_WIN(State_Leave(scored))

SetStalemate(s, full, switch) ==
  IF ~StalemateEnabled THEN SetWinningTeam(s, NoTeam, full, switch)
  ELSE IF s.state = "STALEMATE" THEN s
  ELSE State_Enter_STALEMATE(State_Leave([s EXCEPT !.reset = full]))

\* Whether the control point master resets the whole map after this win
\* (InternalSetWinner): it does unless mini-rounds are left to play.
MasterFullWin(facts) == ~(Master = "rounds" /\ "roundsLeft" \in facts)

\* InputSetWinnerAndForceCaps: the last point forced makes the master find the
\* round won, and then InternalSetWinner declares the winner again.
SetWinnerAndForceCaps(s, t, c) ==
  LET full   == MasterFullWin(c.facts)
      switch == full /\ SwitchOnWin
  IN  SetWinningTeam(SetWinningTeam(s, t, full, switch), t, full, switch)

CheckCapsPerRound(s, c) ==
  IF c.caps = NoTeam THEN s ELSE SetWinningTeam(s, c.caps, TRUE, FALSE)

-----------------------------------------------------------------------------
(* Conditions that end the game                                            *)

WinLimitReached(s) == WinLimit > 0 /\ \E t \in Teams : s.score[t] >= WinLimit
\* Faulty: off by one.
MaxRoundsReached_OffByOne(s) == MaxRounds > 0 /\ s.rounds > MaxRounds
MaxRoundsReached(s) == MaxRounds > 0 /\ s.rounds >= MaxRounds
NextLevelSet(s, c) == s.reset /\ "nextlevel" \in c.facts

\* CTFGameRules::CanChangelevelBecauseOfTimeLimit
CanChangelevel(s, c) == s.reset \/ ~PlayAllRounds \/ MasterFullWin(c.facts)
TimeLimitReached(s, c) ==
  (TimeLimit /\ CanChangelevel(s, c) /\ s.timeLeft # "early") \/ s.lastRound

-----------------------------------------------------------------------------
(* The think of each state                                                 *)

State_Think_PREGAME(s, c) ==
  LET woken == CheckRespawnWaves(s, c)
  IN  IF CountActivePlayers(woken) THEN State_Enter_STARTGAME(woken) ELSE woken

State_Think_STARTGAME(s) ==
  IF s.trans # "passed" THEN s
  ELSE State_Enter_PREROUND(IF WaitForPlayers THEN SetInWaitingForPlayers(s, TRUE) ELSE s)

State_Think_PREROUND(s, c) ==
  CheckRespawnWaves(IF s.trans = "passed" THEN State_Enter_RND_RUNNING(s) ELSE s, c)

\* Faulty: no restart while waiting for players.
TimeToRestart_NotWaiting(s) ==
  IF s.restart = "passed" /\ ~s.waiting
  THEN [State_Enter_RESTART(s) EXCEPT !.restart = "off"] ELSE s

TimeToRestart(s) ==
  IF s.restart = "passed" THEN [State_Enter_RESTART(s) EXCEPT !.restart = "off"] ELSE s

\* Faulty: m_bAwaitingReadyRestart is not cleared.
ReadyRestart_StaysAwaiting(s) ==
  IF s.ready /\ s.teamReady = Teams THEN [s EXCEPT !.restart = "pending"] ELSE s

ReadyRestart(s) ==
  IF s.ready /\ s.teamReady = Teams
  THEN [s EXCEPT !.restart = "pending", !.ready = FALSE] ELSE s

\* CTFGameRules::CanGoToStalemate ends the round itself when a team has
\* captured enough flags.
TimeLimitComing(s, c) ==
  IF ~(s.state = "RND_RUNNING" /\ StalemateOnTimeLimit /\ TimeLimit
       /\ s.timeLeft \in {"ending", "over"}) THEN s
  ELSE IF \E t, u \in Teams : s.score[t] # s.score[u] THEN GoToIntermission(s)
  ELSE IF "canGoToStalemate" \notin c.facts THEN s
  ELSE IF c.caps # NoTeam THEN CheckCapsPerRound(s, c)
  ELSE SetStalemate([s EXCEPT !.lastRound = TRUE], FALSE, FALSE)

State_Think_RND_RUNNING(s, c) ==
  IF ~CountActivePlayers(s) THEN State_Enter_PREGAME(s)
  ELSE TimeLimitComing(ReadyRestart(TimeToRestart(CheckRespawnWaves(s, c))), c)

\* Faulty: the time limit is not looked at.
State_Think_TEAM_WIN_NoTimeLimit(s, c) ==
  IF s.trans # "passed" THEN s
  ELSE IF WinLimitReached(s) \/ MaxRoundsReached(s) \/ NextLevelSet(s, c)
       THEN GoToIntermission(s)
       ELSE State_Enter_PREROUND(s)

State_Think_TEAM_WIN(s, c) ==
  IF s.trans # "passed" THEN s
  ELSE IF TimeLimitReached(s, c) \/ WinLimitReached(s) \/ MaxRoundsReached(s) \/ NextLevelSet(s, c)
       THEN GoToIntermission(s)
       ELSE State_Enter_PREROUND(s)

\* One team has players and none alive, another has one alive (the code takes
\* the last such team; the order of the teams is abstracted).
State_Think_STALEMATE(s, c) ==
  LET dead  == {t \in Teams : s.team[t] = "dead"}
      alive == {t \in Teams : s.team[t] = "alive"}
      last  == CHOOSE t \in alive : TRUE
  IN  IF ~CountActivePlayers(s) THEN State_Enter_PREGAME(State_Leave(s))
      ELSE IF dead # {} /\ alive # {} THEN
             IF ~s.reset /\ Master # "none" THEN SetWinnerAndForceCaps(s, last, c)
             ELSE SetWinningTeam(s, last, s.reset, FALSE)
      ELSE IF alive = {} \/ (/\ s.staleTimer # "none" /\ s.staleTime = "up"
                             /\ "timerMayExpire" \in c.facts)
             THEN SetWinningTeam(s, NoTeam, Master # "rounds", FALSE)
      ELSE s

State_Think(s, c) ==
  CASE s.state = "PREGAME" -> State_Think_PREGAME(s, c)
    [] s.state = "STARTGAME" -> State_Think_STARTGAME(s)
    [] s.state = "PREROUND" -> State_Think_PREROUND(s, c)
    [] s.state = "RND_RUNNING" -> State_Think_RND_RUNNING(s, c)
    [] s.state = "TEAM_WIN" -> State_Think_TEAM_WIN(s, c)
    [] s.state = "STALEMATE" -> State_Think_STALEMATE(s, c)
    [] OTHER -> s

-----------------------------------------------------------------------------
(* The periodic checks, once a second                                      *)

CheckRestartRound(s) ==
  LET ready == IF "readyrestart" \notin s.cvars THEN s
               ELSE [s EXCEPT !.ready = TRUE, !.teamReady = {}, !.restart = "off",
                              !.cvars = @ \ {"readyrestart"}]
  IN  IF ready.cvars \cap {"restartround", "restartgame"} = {} THEN ready
      ELSE [ready EXCEPT !.reset = "restartgame" \in s.cvars,
                         !.fullWin = @ /\ "restartgame" \in s.cvars, !.restart = "pending",
                         !.cvars = @ \ {"restartround", "restartgame"}, !.ready = FALSE]

WaitRestart(s) ==
  IF "waitrestart" \notin s.cvars THEN s
  ELSE [SetInWaitingForPlayers(s, TRUE) EXCEPT !.waitEnds = "pending",
                                               !.cvars = @ \ {"waitrestart"}]

WaitCancel(s) ==
  IF "waitcancel" \notin s.cvars THEN s
  ELSE [SetInWaitingForPlayers(s, FALSE) EXCEPT !.cvars = @ \ {"waitcancel"}]

CheckWaitingForPlayers(s0) ==
  LET s == WaitCancel(WaitRestart(s0))
  IN  IF ~s.waiting THEN s
      ELSE IF s.waitEnds = "passed" /\ s.restart = "off" /\ ~s.ready
           THEN [s EXCEPT !.restart = "pending"]
      ELSE IF s.waitTimer = "none"
           THEN [HideActiveTimer(s) EXCEPT !.waitTimer = "live", !.hud = "wait"]
      ELSE s

Periodic(s) ==
  IF s.state \notin {"TEAM_WIN", "STALEMATE"} /\ (WinLimitReached(s) \/ MaxRoundsReached(s))
  THEN GoToIntermission(s)
  ELSE CheckWaitingForPlayers(CheckRestartRound(s))

\* CTeamplayRoundBasedRules::Think.  Entering PREGAME puts the next periodic
\* check off.
BaseThink(s, c) ==
  LET t == State_Think(s, c)
  IN  IF s.over THEN s
      ELSE IF c.periodic /\ ~(t.state = "PREGAME" /\ s.state # "PREGAME") THEN Periodic(t)
      ELSE t

\* Faulty: a round that flags have won is won again in the time after it.
GameThink_CapsAlways(s, c) ==
  IF c.periodic /\ c.caps # NoTeam THEN CheckCapsPerRound(s, c) ELSE BaseThink(s, c)

\* CTFGameRules::Think
GameThink(s, c) ==
  IF c.periodic /\ s.state # "TEAM_WIN" /\ c.caps # NoTeam THEN CheckCapsPerRound(s, c)
  ELSE BaseThink(IF "fragLimit" \in c.facts /\ CountActivePlayers(s)
                 THEN GoToIntermission(s) ELSE s, c)

-----------------------------------------------------------------------------
(* Actions                                                                 *)

InitRules ==
  [state |-> "PREGAME", over |-> FALSE, reset |-> TRUE, prevWait |-> FALSE,
   waiting |-> FALSE, waitEnds |-> "off", waitTimer |-> "none",
   staleTimer |-> "none", staleTime |-> "running", hud |-> "round", prevTimer |-> "none",
   restart |-> "off", ready |-> FALSE, teamReady |-> {}, trans |-> "off",
   score |-> [t \in Teams |-> 0], rounds |-> 0, keepScores |-> FALSE,
   timeLeft |-> "early", lastRound |-> FALSE, switch |-> FALSE,
   cvars |-> {"waitcancel"},          \* its default is 1
   team |-> [t \in Teams |-> "empty"],
   world |-> "clean", fullWin |-> FALSE, counted |-> 0, nested |-> FALSE]

Init == rules = InitRules /\ inputs = 0 /\ requests = 0

Choices ==
  [periodic: BOOLEAN, facts: SUBSET Facts, wave: SUBSET Teams,
   caps: IF "flagCaps" \in Facts THEN Teams \cup {NoTeam} ELSE {NoTeam}]

\* One frame: the entities removed in the frame before are gone.
Think(c) ==
  /\ ~rules.over
  /\ c.caps # NoTeam => inputs < MaxInputs
  /\ rules' = GameThink(Sweep(rules), c)
  /\ inputs' = IF c.caps = NoTeam THEN inputs ELSE inputs + 1
  /\ UNCHANGED requests

Input == inputs < MaxInputs /\ inputs' = inputs + 1 /\ UNCHANGED requests
MapMay == <<rules.state, rules.waiting>> \in MapWhen

\* game_round_win, CTeamplayRoundWin::RoundWin: a team wins, or nobody does.
MapRoundWin(t, full) ==
  Input /\ MapMay /\ rules' = SetWinningTeam(rules, t, full, full /\ SwitchOnWin)
MapStalemate(full) ==
  /\ Input /\ MapMay /\ (SameFrameStalemate \/ rules.staleTimer # "dying")
  /\ rules' = SetStalemate(rules, full, SwitchOnWin)

\* CTeamControlPointMaster::CheckWinConditions, when a point is captured.
PointsMayBeCaptured == rules.state \in {"RND_RUNNING", "STALEMATE"} /\ ~rules.waiting
PointsWin(t, facts) ==
  LET full == MasterFullWin(facts)
  IN  /\ Input /\ Master # "none" /\ PointsMayBeCaptured
      /\ rules' = SetWinningTeam(rules, t, full, full /\ SwitchOnWin)

\* game_intermission
MapIntermission == Input /\ MapMay /\ ~rules.over /\ rules' = GoToIntermission(rules)

Set(r) == rules' = r /\ UNCHANGED <<inputs, requests>>
ElapseWait == ~rules.over /\ rules.waitEnds = "pending" /\ Set([rules EXCEPT !.waitEnds = "passed"])
ElapseRestart == ~rules.over /\ rules.restart = "pending" /\ Set([rules EXCEPT !.restart = "passed"])
ElapseTransition ==
  /\ rules.state \in {"STARTGAME", "PREROUND", "TEAM_WIN"} /\ rules.trans = "pending"
  /\ Set([rules EXCEPT !.trans = "passed"])
ElapseStalemate ==
  /\ rules.state = "STALEMATE" /\ rules.staleTimer = "live" /\ rules.staleTime = "running"
  /\ Set([rules EXCEPT !.staleTime = "up"])
ElapseMapTime ==
  /\ TimeLimit /\ ~rules.over /\ rules.timeLeft # "over"
  /\ Set([rules EXCEPT !.timeLeft = CASE @ = "early" -> "late"
                                    [] @ = "late" -> "ending"
                                    [] OTHER -> "over"])

\* mp_switchteams is a command; the others are variables a check reads and clears.
Request(v) ==
  /\ requests < MaxRequests /\ requests' = requests + 1 /\ UNCHANGED inputs
  /\ ~rules.over /\ v \notin rules.cvars
  /\ rules' = IF v = "switchteams"
              THEN [rules EXCEPT !.switch = TRUE, !.keepScores = TRUE,
                                 !.cvars = @ \cup {"restartgame"}]
              ELSE [rules EXCEPT !.cvars = @ \cup {v}]

\* CheckChatForReadySignal
ReadySignal(t) ==
  rules.ready /\ ~rules.over /\ Set([rules EXCEPT !.teamReady = @ \cup {t}])

\* Players of a team join (and wait to spawn), all die, or leave.
TeamBecomes(t, p) ==
  /\ ~rules.over
  /\ <<rules.team[t], p>> \in {<<"empty", "dead">>, <<"alive", "dead">>,
                               <<"dead", "empty">>, <<"alive", "empty">>}
  /\ Set([rules EXCEPT !.team[t] = p])

\* The intermission is over: a new level, and new rules on it.
ChangeLevel ==
  /\ rules.over /\ rules' = [InitRules EXCEPT !.cvars = rules.cvars]
  /\ UNCHANGED <<inputs, requests>>

Next ==
  \/ \E c \in Choices : Think(c)
  \/ \E t \in Teams, full \in BOOLEAN : MapRoundWin(t, full)
  \/ \E full \in BOOLEAN : MapStalemate(full)
  \/ \E t \in Teams, facts \in SUBSET (Facts \cap {"roundsLeft"}) : PointsWin(t, facts)
  \/ MapIntermission
  \/ ElapseWait \/ ElapseRestart \/ ElapseTransition \/ ElapseStalemate \/ ElapseMapTime
  \/ \E v \in AdminCvars : Request(v)
  \/ \E t \in Teams : ReadySignal(t)
  \/ \E t \in Teams, p \in Presence : TeamBecomes(t, p)
  \/ ChangeLevel

Spec == Init /\ [][Next]_vars

-----------------------------------------------------------------------------
(* Properties                                                              *)

TypeOK ==
  /\ rules \in RulesType
  /\ inputs \in 0..MaxInputs /\ requests \in 0..MaxRequests

\* A stalemate has a timer of its own, and nothing else has: the timer that
\* State_Enter_STALEMATE makes is there for as long as the state, and never a
\* timer that is already marked for removal.  Without one a stalemate that both
\* teams survive never ends (State_Think_STALEMATE tests the handle).
StalemateTimerTracksState ==
  ~rules.over => (rules.state = "STALEMATE" <=> rules.staleTimer = "live")

\* CTeamplayRoundBasedRules::Think asserts that a timer for the waiting period
\* exists only in one.
WaitingTimerTracksWaiting == rules.waitTimer = "live" => rules.waiting

\* Once nobody waits and no stalemate is on, the map's round timer is back in
\* the HUD, whatever was shown in its place (HideActiveTimer / RestoreActiveTimer).
RoundTimerShown ==
  ~rules.over /\ ~rules.waiting /\ rules.state # "STALEMATE" => rules.hud = "round"

\* HideActiveTimer: "We can't handle this, because we won't be able to restore
\* multiple timers".  Its assertion fails in one case only, of a waiting period in
\* a stalemate; no other order of waiting periods, stalemates, restarts and
\* cancellations hides a timer while another is hidden.  (Once the game is over
\* nothing thinks until the level changes.)
OneTimerHidden == ~rules.over => ~rules.nested

\* mp_maxrounds counts rounds: the round in progress is counted once at most,
\* however many of the ways to win it coincide.
RoundCountedOnce == rules.counted <= 1

\* The game never plays more than mp_maxrounds full rounds.
MaxRoundsRespected == MaxRounds > 0 => rules.rounds <= MaxRounds

\* A waiting period that runs out or is restarted away leaves the map as it was
\* at the start: what players did while waiting is cleaned up, even when the
\* restart was of the kind that keeps the map (mp_restartround).
WaitingLeavesNoTrace ==
  [][rules.waiting /\ ~rules'.waiting /\ ~rules'.over /\ "waitcancel" \notin rules.cvars
     => rules'.world = "clean"]_vars

\* After a win that asked for a full reset the next round starts on a clean map,
\* whatever was asked for before the win or is asked for after it, but for
\* mp_restartround taken up after it, which asks for the map to be kept.
FullWinCleansMap ==
  [][rules.state = "TEAM_WIN" /\ rules'.state = "PREROUND" /\ rules.fullWin
     => rules'.world = "clean"]_vars

=============================================================================

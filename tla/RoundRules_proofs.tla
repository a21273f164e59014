-------------------------- MODULE RoundRules_proofs --------------------------
(* Proofs about RoundRules.                                                *)
EXTENDS RoundRules, TLAPS

(* The shape of an argument: each handler gets a lemma that says what it    *)
(* returns (a state of the rules) and what it does to the few members the   *)
(* invariants read; Keeps(s, t) says that it leaves all of those alone.     *)

\* A waiting timer that is not being removed belongs to a waiting period.
W(s) == s.waitTimer = "live" => s.waiting

\* A stalemate timer that is not being removed belongs to a stalemate, and a
\* stalemate has one; L holds between leaving a state and entering the next.
T(s) ==
  /\ s.state = "GAME_OVER" => s.over
  /\ s.state = "STALEMATE" => StalemateEnabled
  /\ ~s.over /\ s.staleTimer = "live" => s.state = "STALEMATE"
  /\ ~SameFrameStalemate /\ ~s.over /\ s.state = "STALEMATE" => s.staleTimer = "live"
L(s) == ~s.over => s.staleTimer # "live"

\* The round in progress has been counted only if it has been won.
C(s) == s.counted \in {0, 1} /\ (s.state \notin {"TEAM_WIN", "GAME_OVER"} => s.counted = 0)

Keeps(s, t) ==
  /\ t \in RulesType /\ W(t)
  /\ t.state = s.state /\ t.over = s.over /\ t.staleTimer = s.staleTimer /\ t.counted = s.counted

\* What leaves those members alone keeps T, L and C.
LEMMA KeepsTC ==
  ASSUME NEW s \in RulesType, NEW t, Keeps(s, t)
  PROVE  (T(s) => T(t)) /\ (L(s) => L(t)) /\ (C(s) => C(t))
  BY DEF Keeps, T, L, C

\* HideActiveTimer touches the HUD's timer only.
LEMMA Hide ==
  ASSUME NEW s \in RulesType, W(s)
  PROVE  Keeps(s, HideActiveTimer(s))
  <1>1. HideActiveTimer(s) \in RulesType
    BY ZenonT(60) DEF HideActiveTimer, RulesType, HudTimers
  <1>2. Keeps(s, HideActiveTimer(s))
    BY ZenonT(60), <1>1 DEF HideActiveTimer, RulesType, W, Keeps
  <1> QED BY <1>2

\* RestoreActiveTimer puts the remembered timer back, and touches nothing else.
LEMMA Restore ==
  ASSUME NEW s \in RulesType, W(s)
  PROVE  Keeps(s, RestoreActiveTimer(s))
  <1>1. CASE s.prevTimer = "none" BY <1>1 DEF RestoreActiveTimer, Keeps
  <1>2. CASE s.prevTimer # "none"
    <2> DEFINE t == [s EXCEPT !.hud = s.prevTimer, !.prevTimer = "none"]
    <2>1. t \in RulesType BY ZenonT(60) DEF RulesType, HudTimers
    <2>2. Keeps(s, t) BY ZenonT(60), <2>1 DEF RulesType, W, Keeps
    <2> QED BY <1>2, <2>2 DEF RestoreActiveTimer
  <1> QED BY <1>1, <1>2

\* The deletion list takes dying timers away, never a live one.
LEMMA Sweeping ==
  ASSUME NEW s \in RulesType, W(s)
  PROVE  /\ Sweep(s) \in RulesType /\ W(Sweep(s))
         /\ Sweep(s).state = s.state /\ Sweep(s).over = s.over /\ Sweep(s).counted = s.counted
         /\ Sweep(s).staleTimer = IF s.staleTimer = "dying" THEN "none" ELSE s.staleTimer
  <1> DEFINE wt == IF s.waitTimer = "dying" THEN "none" ELSE s.waitTimer
             st == IF s.staleTimer = "dying" THEN "none" ELSE s.staleTimer
             hd == IF s.hud \in Gone(s) THEN "none" ELSE s.hud
             pv == IF s.prevTimer \in Gone(s) THEN "none" ELSE s.prevTimer
  <1>1. wt \in Entity /\ st \in Entity /\ hd \in HudTimers /\ pv \in HudTimers
    BY DEF Entity, HudTimers, RulesType
  <1>2. Sweep(s) = [s EXCEPT !.waitTimer = wt, !.staleTimer = st, !.hud = hd, !.prevTimer = pv]
    BY Zenon DEF Sweep
  <1>3. (wt = "live" => s.waiting) /\ st = IF s.staleTimer = "dying" THEN "none" ELSE s.staleTimer
    BY DEF W
  <1> HIDE DEF wt, st, hd, pv
  <1>4. Sweep(s) \in RulesType
    BY ZenonT(60), <1>1, <1>2 DEF RulesType
  <1>5. /\ Sweep(s).state = s.state /\ Sweep(s).over = s.over /\ Sweep(s).counted = s.counted
        /\ Sweep(s).staleTimer = st /\ Sweep(s).waitTimer = wt /\ Sweep(s).waiting = s.waiting
    BY ZenonT(60), <1>2 DEF RulesType
  <1> QED BY <1>3, <1>4, <1>5 DEF W

\* RespawnPlayers changes nothing that the invariants read.
LEMMA Respawning ==
  ASSUME NEW s \in RulesType, W(s), NEW which
  PROVE  Keeps(s, Respawn(s, which))
  <1> DEFINE team == [t \in Teams |-> IF t \in which /\ s.team[t] = "dead"
                                      THEN "alive" ELSE s.team[t]]
  <1>1. team \in [Teams -> Presence] BY DEF Presence, RulesType
  <1>2. Respawn(s, which) = [s EXCEPT !.team = team] BY DEF Respawn
  <1> HIDE DEF team
  <1>3. Respawn(s, which) \in RulesType BY ZenonT(60), <1>1, <1>2 DEF RulesType
  <1>4. Keeps(s, Respawn(s, which))
    BY ZenonT(60), <1>2, <1>3 DEF RulesType, W, Keeps
  <1> QED BY <1>4

\* SetInWaitingForPlayers creates and removes the waiting timer with the waiting.
LEMMA SetWaiting ==
  ASSUME NEW s \in RulesType, W(s), NEW b \in BOOLEAN
  PROVE  Keeps(s, SetInWaitingForPlayers(s, b))
  <1> DEFINE off == [s EXCEPT !.waiting = FALSE, !.waitEnds = "off", !.waitTimer = Remove(s.waitTimer)]
             on  == [s EXCEPT !.waiting = TRUE, !.waitEnds = "pending"]
  <1>1. Keeps(s, off)
    <2>1. Remove(s.waitTimer) \in Entity /\ Remove(s.waitTimer) # "live"
      BY DEF Remove, Entity
    <2>2. off \in RulesType BY ZenonT(60), <2>1 DEF RulesType, Deadline
    <2> QED BY ZenonT(60), <2>1, <2>2 DEF RulesType, W, Keeps
  <1>2. Keeps(s, on)
    <2>1. on \in RulesType BY ZenonT(60) DEF RulesType, Deadline
    <2> QED BY ZenonT(60), <2>1 DEF RulesType, W, Keeps
  <1>3. Keeps(s, RestoreActiveTimer(off))
    <2>1. Keeps(off, RestoreActiveTimer(off)) BY <1>1, Restore DEF Keeps
    <2> QED BY <1>1, <2>1 DEF Keeps
  <1>4. CASE s.waiting = b BY <1>4 DEF SetInWaitingForPlayers, Keeps
  <1>5. CASE s.waiting # b /\ b
    BY <1>2, <1>5 DEF SetInWaitingForPlayers
  <1>6. CASE s.waiting # b /\ ~b
    BY <1>3, <1>6 DEF SetInWaitingForPlayers
  <1> QED BY <1>4, <1>5, <1>6

\* ResetScores does not touch whether this round has been counted.
LEMMA Scores ==
  ASSUME NEW s \in RulesType, W(s)
  PROVE  Keeps(s, ResetScores(s))
  <1> DEFINE score == IF s.keepScores THEN s.score ELSE [t \in Teams |-> 0]
             rounds == IF s.keepScores THEN s.rounds ELSE 0
  <1>1. score \in [Teams -> Nat] /\ rounds \in Nat BY DEF RulesType
  <1>2. ResetScores(s) = [s EXCEPT !.score = score, !.rounds = rounds, !.keepScores = FALSE]
    BY Zenon DEF ResetScores
  <1> HIDE DEF score, rounds
  <1>3. ResetScores(s) \in RulesType BY ZenonT(60), <1>1, <1>2 DEF RulesType
  <1> QED BY ZenonT(60), <1>2, <1>3 DEF RulesType, W, Keeps

\* ResetMapTime changes nothing that the invariants read.
LEMMA MapTimeReset ==
  ASSUME NEW s \in RulesType, W(s)
  PROVE  Keeps(s, ResetMapTime(s))
  <1>1. ResetMapTime(s) \in RulesType BY ZenonT(60) DEF ResetMapTime, RulesType, MapTime
  <1> QED BY ZenonT(60), <1>1 DEF ResetMapTime, RulesType, W, Keeps

\* Neither does switching the teams.
LEMMA Switching ==
  ASSUME NEW s \in RulesType, W(s)
  PROVE  Keeps(s, HandleSwitchTeams(s))
  <1> DEFINE team == [t \in Teams |-> s.team[Swapped(t)]]
             score == [t \in Teams |-> s.score[Swapped(t)]]
  <1>1. \A t \in Teams : Swapped(t) \in Teams BY ConstantsAssumption DEF Swapped
  <1>2. team \in [Teams -> Presence] BY <1>1 DEF RulesType
  <1>3. score \in [Teams -> Nat] BY <1>1 DEF RulesType
  <1>4. HandleSwitchTeams(s) = [s EXCEPT !.team = team, !.score = score, !.switch = FALSE]
    BY DEF HandleSwitchTeams
  <1> HIDE DEF team, score
  <1>5. HandleSwitchTeams(s) \in RulesType BY ZenonT(60), <1>2, <1>3, <1>4 DEF RulesType
  <1> QED BY ZenonT(60), <1>4, <1>5 DEF RulesType, W, Keeps

\* CleanUpMap deletes the stalemate timer with the map's entities.
LEMMA CleaningUp ==
  ASSUME NEW s \in RulesType
  PROVE  /\ CleanUpMap(s) \in RulesType /\ W(CleanUpMap(s))
         /\ CleanUpMap(s).state = s.state /\ CleanUpMap(s).over = s.over
         /\ CleanUpMap(s).staleTimer = "none"
  <1>1. CleanUpMap(s) \in RulesType
    BY ZenonT(60) DEF CleanUpMap, RulesType, Entity, HudTimers
  <1> QED BY ZenonT(60), <1>1 DEF CleanUpMap, RulesType, W

\* RoundRespawn starts a round that is not counted.
LEMMA RoundRespawning ==
  ASSUME NEW s \in RulesType, W(s)
  PROVE  /\ RoundRespawn(s) \in RulesType /\ W(RoundRespawn(s))
         /\ RoundRespawn(s).state = s.state /\ RoundRespawn(s).over = s.over
         /\ RoundRespawn(s).staleTimer \in {"none", s.staleTimer}
         /\ RoundRespawn(s).counted = 0
  <1> DEFINE a == IF s.reset \/ s.prevWait THEN CleanUpMap(s) ELSE s
             b == IF s.switch THEN HandleSwitchTeams(a) ELSE a
             r == RespawnPlayers(b)
  <1>1. /\ a \in RulesType /\ W(a) /\ a.state = s.state /\ a.over = s.over
        /\ a.staleTimer \in {"none", s.staleTimer}
    BY CleaningUp
  <1>2. Keeps(a, b)
    <2>1. Keeps(a, a) BY <1>1 DEF Keeps
    <2>2. Keeps(a, HandleSwitchTeams(a)) BY <1>1, Switching
    <2> QED BY <2>1, <2>2
  <1>3. Keeps(b, r)
    BY <1>2, Respawning DEF Keeps, RespawnPlayers
  <1>4. RoundRespawn(s) = [r EXCEPT !.counted = 0] BY DEF RoundRespawn
  <1>5. /\ r \in RulesType /\ W(r) /\ r.state = s.state /\ r.over = s.over
        /\ r.staleTimer \in {"none", s.staleTimer}
    BY <1>1, <1>2, <1>3 DEF Keeps
  <1> HIDE DEF r
  <1>6. RoundRespawn(s) \in RulesType
    BY ZenonT(60), <1>4, <1>5, 0 \in Nat DEF RulesType
  <1>7. /\ RoundRespawn(s).state = r.state /\ RoundRespawn(s).over = r.over
        /\ RoundRespawn(s).staleTimer = r.staleTimer /\ RoundRespawn(s).counted = 0
        /\ W(RoundRespawn(s))
    BY ZenonT(60), <1>4, <1>5 DEF RulesType, W
  <1> QED BY <1>5, <1>6, <1>7

\* GoToIntermission ends the game, and no more.
LEMMA Ending ==
  ASSUME NEW s \in RulesType, W(s)
  PROVE  /\ GoToIntermission(s) \in RulesType /\ W(GoToIntermission(s))
         /\ GoToIntermission(s).state = "GAME_OVER" /\ GoToIntermission(s).over
         /\ GoToIntermission(s).counted = s.counted
  <1>1. GoToIntermission(s) \in RulesType
    BY ZenonT(60) DEF GoToIntermission, RulesType, RoundStates
  <1> QED BY ZenonT(60), <1>1 DEF GoToIntermission, RulesType, W

-----------------------------------------------------------------------------
(* Leaving and entering a round state                                      *)

\* After State_Leave no stalemate timer is live.
LEMMA Leaving ==
  ASSUME NEW s \in RulesType, W(s), T(s)
  PROVE  /\ State_Leave(s) \in RulesType /\ W(State_Leave(s)) /\ L(State_Leave(s))
         /\ State_Leave(s).state = s.state /\ State_Leave(s).over = s.over
         /\ State_Leave(s).counted = s.counted
         /\ s.state # "STALEMATE" => State_Leave(s) = s
  <1>1. CASE s.state # "STALEMATE" BY <1>1 DEF State_Leave, T, L
  <1>2. CASE s.state = "STALEMATE"
    <2> DEFINE a == [s EXCEPT !.staleTimer = Remove(s.staleTimer)]
    <2>1. Remove(s.staleTimer) \in Entity /\ Remove(s.staleTimer) # "live"
      BY DEF Remove, Entity
    <2>2. a \in RulesType BY ZenonT(60), <2>1 DEF RulesType
    <2>3. /\ a.state = s.state /\ a.over = s.over /\ a.counted = s.counted
          /\ a.staleTimer # "live" /\ W(a)
      BY ZenonT(60), <2>1, <2>2 DEF RulesType, W
    <2> HIDE DEF a
    <2>4. Keeps(a, RestoreActiveTimer(a)) BY <2>2, <2>3, Restore
    <2>5. State_Leave(s) = RestoreActiveTimer(a)
      BY <1>2 DEF State_Leave, State_Leave_STALEMATE, a
    <2> QED BY <1>2, <2>3, <2>4, <2>5 DEF Keeps, L
  <1> QED BY <1>1, <1>2

\* Entering each state establishes T and C for it.
LEMMA EnterPregame ==
  ASSUME NEW s \in RulesType, W(s), L(s)
  PROVE  /\ State_Enter_PREGAME(s) \in RulesType /\ W(State_Enter_PREGAME(s))
         /\ T(State_Enter_PREGAME(s)) /\ (s.counted = 0 => C(State_Enter_PREGAME(s)))
  <1>1. State_Enter_PREGAME(s) \in RulesType
    BY ZenonT(60) DEF State_Enter_PREGAME, RulesType, RoundStates
  <1>2. LET r == State_Enter_PREGAME(s)
        IN  /\ r.state = "PREGAME" /\ r.over = s.over /\ r.staleTimer = s.staleTimer
            /\ r.counted = s.counted /\ W(r)
    BY ZenonT(60), <1>1 DEF State_Enter_PREGAME, RulesType, W
  <1> QED BY <1>1, <1>2 DEF T, L, C

\* State_Enter_STARTGAME.
LEMMA EnterStartgame ==
  ASSUME NEW s \in RulesType, W(s), L(s)
  PROVE  /\ State_Enter_STARTGAME(s) \in RulesType /\ W(State_Enter_STARTGAME(s))
         /\ T(State_Enter_STARTGAME(s)) /\ (s.counted = 0 => C(State_Enter_STARTGAME(s)))
  <1>1. State_Enter_STARTGAME(s) \in RulesType
    BY ZenonT(60) DEF State_Enter_STARTGAME, RulesType, RoundStates, Deadline
  <1>2. LET r == State_Enter_STARTGAME(s)
        IN  /\ r.state = "STARTGAME" /\ r.over = s.over /\ r.staleTimer = s.staleTimer
            /\ r.counted = s.counted /\ W(r)
    BY ZenonT(60), <1>1 DEF State_Enter_STARTGAME, RulesType, W
  <1> QED BY <1>1, <1>2 DEF T, L, C

\* State_Enter_PREROUND, where the round begins that has not been counted.
LEMMA EnterPreround ==
  ASSUME NEW s \in RulesType, W(s), L(s)
  PROVE  /\ State_Enter_PREROUND(s) \in RulesType /\ W(State_Enter_PREROUND(s))
         /\ T(State_Enter_PREROUND(s)) /\ C(State_Enter_PREROUND(s))
         /\ State_Enter_PREROUND(s).state = "PREROUND" /\ State_Enter_PREROUND(s).over = s.over
  <1> DEFINE a == [s EXCEPT !.state = "PREROUND", !.trans = "pending"]
  <1>1. a \in RulesType BY ZenonT(60) DEF RulesType, RoundStates, Deadline
  <1>2. a.state = "PREROUND" /\ a.over = s.over /\ a.staleTimer = s.staleTimer /\ W(a)
    BY ZenonT(60), <1>1 DEF RulesType, W
  <1> HIDE DEF a
  <1>3. State_Enter_PREROUND(s) = RoundRespawn(a) BY DEF State_Enter_PREROUND, a
  <1>4. /\ RoundRespawn(a) \in RulesType /\ W(RoundRespawn(a))
        /\ RoundRespawn(a).state = a.state /\ RoundRespawn(a).over = a.over
        /\ RoundRespawn(a).staleTimer \in {"none", a.staleTimer}
        /\ RoundRespawn(a).counted = 0
    BY <1>1, <1>2, RoundRespawning
  <1> QED BY <1>2, <1>3, <1>4 DEF T, L, C

\* State_Enter_RND_RUNNING.
LEMMA EnterRunning ==
  ASSUME NEW s \in RulesType, W(s), L(s)
  PROVE  /\ State_Enter_RND_RUNNING(s) \in RulesType /\ W(State_Enter_RND_RUNNING(s))
         /\ T(State_Enter_RND_RUNNING(s)) /\ (s.counted = 0 => C(State_Enter_RND_RUNNING(s)))
  <1> DEFINE w == IF s.waiting THEN "waited" ELSE "played"
  <1>1. w \in {"clean", "waited", "played"} OBVIOUS
  <1>2. State_Enter_RND_RUNNING(s) = [s EXCEPT !.state = "RND_RUNNING", !.prevWait = FALSE, !.world = w]
    BY DEF State_Enter_RND_RUNNING
  <1> HIDE DEF w
  <1>3. State_Enter_RND_RUNNING(s) \in RulesType
    BY ZenonT(60), <1>1, <1>2 DEF RulesType, RoundStates
  <1>4. LET r == State_Enter_RND_RUNNING(s)
        IN  /\ r.state = "RND_RUNNING" /\ r.over = s.over /\ r.staleTimer = s.staleTimer
            /\ r.counted = s.counted /\ W(r)
    BY ZenonT(60), <1>2, <1>3 DEF RulesType, W
  <1> QED BY <1>3, <1>4 DEF T, L, C

\* State_Enter_STALEMATE, which makes a timer unless one is dying in this frame.
LEMMA EnterStalemate ==
  ASSUME NEW s \in RulesType, W(s), L(s), StalemateEnabled,
         ~SameFrameStalemate /\ ~s.over => s.staleTimer # "dying"
  PROVE  /\ State_Enter_STALEMATE(s) \in RulesType /\ W(State_Enter_STALEMATE(s))
         /\ T(State_Enter_STALEMATE(s)) /\ State_Enter_STALEMATE(s).counted = s.counted
         /\ State_Enter_STALEMATE(s).state = "STALEMATE"
  <1> DEFINE a == [s EXCEPT !.state = "STALEMATE"]
             b == HideActiveTimer(RespawnPlayers(a))
             st == IF b.staleTimer = "none" THEN "live" ELSE b.staleTimer
  <1>1. a \in RulesType BY ZenonT(60) DEF RulesType, RoundStates
  <1>2. a.state = "STALEMATE" /\ a.over = s.over /\ a.staleTimer = s.staleTimer
        /\ a.counted = s.counted /\ W(a)
    BY ZenonT(60), <1>1 DEF RulesType, W
  <1> HIDE DEF a
  <1>3. Keeps(a, RespawnPlayers(a)) BY <1>1, <1>2, Respawning DEF RespawnPlayers
  <1>4. Keeps(RespawnPlayers(a), b) BY <1>3, Hide DEF Keeps
  <1>5. Keeps(a, b) BY <1>3, <1>4 DEF Keeps
  <1> HIDE DEF b
  <1>6. st \in Entity /\ (~SameFrameStalemate /\ ~s.over => st = "live")
    BY <1>2, <1>5 DEF Keeps, L, RulesType, Entity
  <1>7. State_Enter_STALEMATE(s) = [b EXCEPT !.staleTimer = st, !.staleTime = "running", !.hud = "stale"]
    BY DEF State_Enter_STALEMATE, a, b
  <1> HIDE DEF st
  <1>8. State_Enter_STALEMATE(s) \in RulesType
    BY ZenonT(60), <1>5, <1>6, <1>7 DEF RulesType, HudTimers, Keeps
  <1>9. LET r == State_Enter_STALEMATE(s)
        IN  /\ r.state = b.state /\ r.over = b.over /\ r.staleTimer = st
            /\ r.counted = b.counted /\ W(r)
    BY ZenonT(60), <1>5, <1>7, <1>8 DEF RulesType, W, Keeps
  <1> QED BY <1>2, <1>5, <1>6, <1>8, <1>9 DEF T, Keeps

\* State_Enter_TEAM_WIN.
LEMMA EnterTeamWin ==
  ASSUME NEW s \in RulesType, W(s), L(s)
  PROVE  /\ State_Enter_TEAM_WIN(s) \in RulesType /\ W(State_Enter_TEAM_WIN(s))
         /\ T(State_Enter_TEAM_WIN(s))
         /\ s.counted = 0 => C(State_Enter_TEAM_WIN(s))
  <1> DEFINE n == IF s.reset THEN 1 ELSE 0
             rounds == s.rounds + n
             counted == s.counted + n
  <1>1. rounds \in Nat /\ counted \in Nat /\ (s.counted = 0 => counted \in {0, 1})
    BY DEF RulesType
  <1>2. State_Enter_TEAM_WIN(s) = [s EXCEPT !.state = "TEAM_WIN", !.trans = "pending",
                                            !.rounds = rounds, !.counted = counted]
    BY DEF State_Enter_TEAM_WIN
  <1> HIDE DEF n, rounds, counted
  <1>3. State_Enter_TEAM_WIN(s) \in RulesType
    BY ZenonT(60), <1>1, <1>2 DEF RulesType, RoundStates, Deadline
  <1>4. LET r == State_Enter_TEAM_WIN(s)
        IN  /\ r.state = "TEAM_WIN" /\ r.over = s.over /\ r.staleTimer = s.staleTimer
            /\ r.counted = counted /\ W(r)
    BY ZenonT(60), <1>2, <1>3 DEF RulesType, W
  <1> QED BY <1>1, <1>3, <1>4 DEF T, L, C

\* State_Enter_RESTART, through which every new round comes.
LEMMA EnterRestart ==
  ASSUME NEW s \in RulesType, W(s), L(s)
  PROVE  /\ State_Enter_RESTART(s) \in RulesType /\ W(State_Enter_RESTART(s))
         /\ T(State_Enter_RESTART(s)) /\ C(State_Enter_RESTART(s))
         /\ State_Enter_RESTART(s).state = "PREROUND" /\ State_Enter_RESTART(s).over = s.over
  <1> DEFINE a == [s EXCEPT !.prevWait = s.waiting]
             b == SetInWaitingForPlayers(a, FALSE)
             d == ResetScores(b)
             e == ResetMapTime(d)
  <1>1. a \in RulesType BY ZenonT(60) DEF RulesType
  <1>2. Keeps(s, a) BY ZenonT(60), <1>1 DEF RulesType, W, Keeps
  <1>3. Keeps(a, b) BY <1>2, SetWaiting DEF Keeps
  <1>4. Keeps(b, d) BY <1>3, Scores DEF Keeps
  <1>5. Keeps(d, e) BY <1>4, MapTimeReset DEF Keeps
  <1>6. e \in RulesType /\ W(e) /\ L(e) /\ e.over = s.over
    BY <1>2, <1>3, <1>4, <1>5 DEF Keeps, L
  <1>7. State_Enter_RESTART(s) = State_Enter_PREROUND(e) BY DEF State_Enter_RESTART
  <1> HIDE DEF e
  <1> QED BY <1>6, <1>7, EnterPreround

-----------------------------------------------------------------------------
(* Winners and stalemates                                                  *)

\* SetWinningTeam counts the round, at most once if it was not counted.
LEMMA Winning ==
  ASSUME NEW s \in RulesType, W(s), T(s), NEW t, NEW full \in BOOLEAN, NEW switch \in BOOLEAN
  PROVE  /\ SetWinningTeam(s, t, full, switch) \in RulesType
         /\ W(SetWinningTeam(s, t, full, switch)) /\ T(SetWinningTeam(s, t, full, switch))
         /\ s.counted = 0 => C(SetWinningTeam(s, t, full, switch))
  <1> DEFINE reward == full \/ (TimeLimit /\ s.timeLeft = "over")
             score == [u \in Teams |-> IF u = t /\ reward THEN s.score[u] + 1 ELSE s.score[u]]
             a == [s EXCEPT !.reset = full, !.fullWin = full, !.switch = switch, !.score = score]
  <1>1. score \in [Teams -> Nat] BY DEF RulesType
  <1>2. SetWinningTeam(s, t, full, switch) = State_Enter_TEAM_WIN(State_Leave(a))
    BY DEF SetWinningTeam
  <1> HIDE DEF score
  <1>3. a \in RulesType BY ZenonT(60), <1>1 DEF RulesType
  <1>4. Keeps(s, a) BY ZenonT(60), <1>3 DEF RulesType, W, Keeps
  <1> HIDE DEF a
  <1>5. T(a) /\ W(a) BY <1>4, KeepsTC DEF Keeps
  <1>6. /\ State_Leave(a) \in RulesType /\ W(State_Leave(a)) /\ L(State_Leave(a))
        /\ State_Leave(a).counted = s.counted
    BY <1>3, <1>4, <1>5, Leaving DEF Keeps
  <1> QED BY <1>2, <1>6, EnterTeamWin

\* SetStalemate counts no round.
LEMMA Stalemating ==
  ASSUME NEW s \in RulesType, W(s), T(s), NEW full \in BOOLEAN, NEW switch \in BOOLEAN,
         ~SameFrameStalemate /\ ~s.over => s.staleTimer # "dying"
  PROVE  /\ SetStalemate(s, full, switch) \in RulesType
         /\ W(SetStalemate(s, full, switch)) /\ T(SetStalemate(s, full, switch))
         /\ s.counted = 0 => C(SetStalemate(s, full, switch))
  <1> DEFINE a == [s EXCEPT !.reset = full]
  <1>1. CASE ~StalemateEnabled BY <1>1, Winning DEF SetStalemate
  <1>2. CASE StalemateEnabled /\ s.state = "STALEMATE" BY <1>2 DEF SetStalemate, C
  <1>3. CASE StalemateEnabled /\ s.state # "STALEMATE"
    <2>1. a \in RulesType BY ZenonT(60) DEF RulesType
    <2>2. Keeps(s, a) BY ZenonT(60), <2>1 DEF RulesType, W, Keeps
    <2>3. SetStalemate(s, full, switch) = State_Enter_STALEMATE(State_Leave(a))
      BY <1>3 DEF SetStalemate
    <2> HIDE DEF a
    <2>4. State_Leave(a) = a /\ L(a) /\ W(a)
      BY <1>3, <2>1, <2>2, KeepsTC, Leaving DEF Keeps, T, L
    <2>5. ~SameFrameStalemate /\ ~a.over => a.staleTimer # "dying" BY <2>2 DEF Keeps
    <2>6. /\ State_Enter_STALEMATE(a) \in RulesType /\ W(State_Enter_STALEMATE(a))
          /\ T(State_Enter_STALEMATE(a)) /\ State_Enter_STALEMATE(a).counted = a.counted
      BY <1>3, <2>1, <2>4, <2>5, EnterStalemate
    <2> QED BY <2>2, <2>3, <2>4, <2>6 DEF Keeps, C
  <1> QED BY <1>1, <1>2, <1>3

-----------------------------------------------------------------------------
(* The thinks.  OneWin is what the counting of rounds needs: no stalemates  *)
(* with a control point master, whose InputSetWinnerAndForceCaps declares a *)
(* winner twice, and a map that declares no winner once the round is won.   *)

OneWin ==
  /\ Master = "none" \/ ~StalemateEnabled
  /\ \A m \in MapWhen : m[1] \notin {"TEAM_WIN", "GAME_OVER"}

\* What a handler called from a think keeps true.
Good(s) == s \in RulesType /\ W(s) /\ T(s) /\ (OneWin => C(s))

\* Good is kept by whatever leaves its members alone.
LEMMA KeepsGood == ASSUME NEW s, Good(s), NEW t, Keeps(s, t) PROVE Good(t)
  BY KeepsTC DEF Good, Keeps

\* The game may end at any time.
LEMMA EndingGood == ASSUME NEW s, Good(s) PROVE Good(GoToIntermission(s))
  BY Ending DEF Good, T, C

\* CheckCapsPerRound wins a round, which must not have been won before.
LEMMA CapsGood ==
  ASSUME NEW s, Good(s), NEW c \in Choices, s.counted = 0 \/ ~OneWin
  PROVE  Good(CheckCapsPerRound(s, c))
  <1>1. CASE c.caps = NoTeam BY <1>1 DEF CheckCapsPerRound
  <1>2. CASE c.caps # NoTeam BY <1>2, Winning DEF CheckCapsPerRound, Good
  <1> QED BY <1>1, <1>2

\* The thinks of the states, one by one.
LEMMA ThinkPregame ==
  ASSUME NEW s, Good(s), ~s.over, s.state = "PREGAME", s.staleTimer # "dying", NEW c \in Choices
  PROVE  Good(State_Think_PREGAME(s, c))
  <1> DEFINE w == CheckRespawnWaves(s, c)
  <1>1. Keeps(s, w) BY Respawning DEF Good, CheckRespawnWaves
  <1>2. Good(w) BY <1>1, KeepsGood
  <1>3. L(w) BY <1>1 DEF Good, T, L, Keeps
  <1> HIDE DEF w
  <1>4. Good(State_Enter_STARTGAME(w))
    BY <1>1, <1>2, <1>3, EnterStartgame DEF Good, C, Keeps
  <1> QED BY <1>2, <1>4 DEF State_Think_PREGAME, w

\* State_Think_STARTGAME.
LEMMA ThinkStartgame ==
  ASSUME NEW s, Good(s), ~s.over, s.state = "STARTGAME", NEW c \in Choices
  PROVE  Good(State_Think_STARTGAME(s))
  <1> DEFINE a == IF WaitForPlayers THEN SetInWaitingForPlayers(s, TRUE) ELSE s
  <1>1. Keeps(s, a)
    <2>1. Keeps(s, s) BY DEF Good, Keeps
    <2>2. Keeps(s, SetInWaitingForPlayers(s, TRUE)) BY SetWaiting DEF Good
    <2> QED BY <2>1, <2>2
  <1>2. a \in RulesType /\ W(a) /\ L(a) BY <1>1 DEF Good, Keeps, T, L
  <1>3. Good(State_Enter_PREROUND(a)) BY <1>2, EnterPreround DEF Good
  <1> QED BY <1>3 DEF State_Think_STARTGAME

\* State_Think_PREROUND.
LEMMA ThinkPreround ==
  ASSUME NEW s, Good(s), ~s.over, s.state = "PREROUND", NEW c \in Choices
  PROVE  Good(State_Think_PREROUND(s, c))
  <1> DEFINE a == IF s.trans = "passed" THEN State_Enter_RND_RUNNING(s) ELSE s
  <1>1. Good(State_Enter_RND_RUNNING(s))
    <2>1. L(s) /\ (OneWin => s.counted = 0) BY DEF Good, T, L, C
    <2> QED BY <2>1, EnterRunning DEF Good
  <1>2. Good(a) BY <1>1
  <1>3. Keeps(a, CheckRespawnWaves(a, c)) BY <1>2, Respawning DEF Good, CheckRespawnWaves
  <1>4. Good(CheckRespawnWaves(a, c)) BY <1>2, <1>3, KeepsGood
  <1> QED BY <1>4 DEF State_Think_PREROUND

\* State_Think_TEAM_WIN.
LEMMA ThinkTeamWin ==
  ASSUME NEW s, Good(s), ~s.over, s.state = "TEAM_WIN", NEW c \in Choices
  PROVE  Good(State_Think_TEAM_WIN(s, c))
  <1>1. L(s) BY DEF Good, T, L
  <1>2. Good(State_Enter_PREROUND(s)) BY <1>1, EnterPreround DEF Good
  <1>3. Good(GoToIntermission(s)) BY EndingGood
  <1> QED BY <1>2, <1>3 DEF State_Think_TEAM_WIN

\* A restart from a running round.
LEMMA Restarting ==
  ASSUME NEW s, Good(s), ~s.over, s.state = "RND_RUNNING"
  PROVE  Good(TimeToRestart(s)) /\ (TimeToRestart(s) = s \/ TimeToRestart(s).state = "PREROUND")
  <1>1. CASE s.restart # "passed" BY <1>1 DEF TimeToRestart
  <1>2. CASE s.restart = "passed"
    <2> DEFINE a == State_Enter_RESTART(s)
               b == [a EXCEPT !.restart = "off"]
    <2>1. L(s) BY DEF Good, T, L
    <2>2. Good(a) /\ a.state = "PREROUND" BY <2>1, EnterRestart DEF Good
    <2> HIDE DEF a
    <2>3. b \in RulesType BY ZenonT(60), <2>2 DEF Good, RulesType, Deadline
    <2>4. Keeps(a, b) BY ZenonT(60), <2>2, <2>3 DEF Good, RulesType, W, Keeps
    <2>5. Good(b) /\ b.state = "PREROUND" BY <2>2, <2>4, KeepsGood DEF Keeps
    <2> QED BY <1>2, <2>5 DEF TimeToRestart, a
  <1> QED BY <1>1, <1>2

\* A restart asked for because both teams are ready.
LEMMA ReadyRestarting ==
  ASSUME NEW s, Good(s) PROVE Keeps(s, ReadyRestart(s))
  <1> DEFINE a == [s EXCEPT !.restart = "pending", !.ready = FALSE]
  <1>1. a \in RulesType BY ZenonT(60) DEF Good, RulesType, Deadline
  <1>2. Keeps(s, a) BY ZenonT(60), <1>1 DEF Good, RulesType, W, Keeps
  <1>3. Keeps(s, s) BY DEF Good, Keeps
  <1> QED BY <1>2, <1>3 DEF ReadyRestart

\* The time limit ends a round by a win, a stalemate or the game.
LEMMA AtTimeLimit ==
  ASSUME NEW s, Good(s), ~s.over, s.state = "RND_RUNNING" => s.staleTimer # "dying",
         NEW c \in Choices
  PROVE  Good(TimeLimitComing(s, c))
  <1>1. CASE s.state # "RND_RUNNING" BY <1>1 DEF TimeLimitComing
  <1>2. CASE s.state = "RND_RUNNING"
    <2> DEFINE a == [s EXCEPT !.lastRound = TRUE]
    <2>1. OneWin => s.counted = 0 BY <1>2 DEF Good, C
    <2>2. Good(GoToIntermission(s)) BY EndingGood
    <2>3. Good(CheckCapsPerRound(s, c)) BY <2>1, CapsGood
    <2>4. a \in RulesType BY ZenonT(60) DEF Good, RulesType
    <2>5. Keeps(s, a) BY ZenonT(60), <2>4 DEF Good, RulesType, W, Keeps
    <2>6. Good(a) /\ ~a.over /\ a.staleTimer # "dying" /\ (OneWin => a.counted = 0)
      BY <1>2, <2>1, <2>5, KeepsGood DEF Keeps
    <2> HIDE DEF a
    <2>7. Good(SetStalemate(a, FALSE, FALSE)) BY <2>6, Stalemating DEF Good
    <2> QED BY <2>2, <2>3, <2>7 DEF TimeLimitComing, a
  <1> QED BY <1>1, <1>2

\* State_Think_RND_RUNNING.
LEMMA ThinkRunning ==
  ASSUME NEW s, Good(s), ~s.over, s.state = "RND_RUNNING", s.staleTimer # "dying", NEW c \in Choices
  PROVE  Good(State_Think_RND_RUNNING(s, c))
  <1> DEFINE w == CheckRespawnWaves(s, c)
             x == TimeToRestart(w)
             y == ReadyRestart(x)
  <1>1. Good(State_Enter_PREGAME(s))
    <2>1. L(s) /\ (OneWin => s.counted = 0) BY DEF Good, T, L, C
    <2> QED BY <2>1, EnterPregame DEF Good
  <1>2. Keeps(s, w) BY Respawning DEF Good, CheckRespawnWaves
  <1>3. Good(w) /\ ~w.over /\ w.state = "RND_RUNNING" /\ w.staleTimer # "dying"
    BY <1>2, KeepsGood DEF Keeps
  <1> HIDE DEF w
  <1>4. Good(x) /\ (x = w \/ x.state = "PREROUND") BY <1>3, Restarting
  <1>5. ~x.over
    <2>1. CASE w.restart # "passed" BY <1>3, <2>1 DEF TimeToRestart
    <2>2. CASE w.restart = "passed"
      <3>1. L(w) BY <1>3 DEF Good, T, L
      <3>2. State_Enter_RESTART(w) \in RulesType /\ State_Enter_RESTART(w).over = w.over
        BY <1>3, <3>1, EnterRestart DEF Good
      <3>3. x = [State_Enter_RESTART(w) EXCEPT !.restart = "off"] BY <2>2 DEF TimeToRestart
      <3> QED BY ZenonT(60), <1>3, <3>2, <3>3 DEF RulesType
    <2> QED BY <2>1, <2>2
  <1> HIDE DEF x
  <1>6. Keeps(x, y) BY <1>4, ReadyRestarting
  <1>7. Good(y) /\ ~y.over /\ (y.state = "RND_RUNNING" => y.staleTimer # "dying")
    BY <1>3, <1>4, <1>5, <1>6, KeepsGood DEF Keeps
  <1> HIDE DEF y
  <1>8. Good(TimeLimitComing(y, c)) BY <1>7, AtTimeLimit
  <1> QED BY <1>1, <1>8 DEF State_Think_RND_RUNNING, w, x, y

\* State_Think_STALEMATE.
LEMMA ThinkStalemate ==
  ASSUME NEW s, Good(s), ~s.over, s.state = "STALEMATE", NEW c \in Choices
  PROVE  Good(State_Think_STALEMATE(s, c))
  <1> DEFINE last == CHOOSE t \in {t \in Teams : s.team[t] = "alive"} : TRUE
             full == MasterFullWin(c.facts)
  <1>1. OneWin => s.counted = 0 BY DEF Good, C
  <1>2. Good(State_Enter_PREGAME(State_Leave(s)))
    <2> DEFINE a == State_Leave(s)
    <2>1. a \in RulesType /\ W(a) /\ L(a) /\ a.counted = s.counted BY Leaving DEF Good
    <2> HIDE DEF a
    <2>2. Good(State_Enter_PREGAME(a)) BY <1>1, <2>1, EnterPregame DEF Good
    <2> QED BY <2>2 DEF a
  <1>3. \A t, f \in BOOLEAN : Good(SetWinningTeam(s, t, f, FALSE))
    BY <1>1, Winning DEF Good
  <1>4. s.reset \in BOOLEAN /\ full \in BOOLEAN BY DEF Good, RulesType, MasterFullWin
  <1>5. Good(SetWinningTeam(s, last, s.reset, FALSE)) /\ Good(SetWinningTeam(s, NoTeam, Master # "rounds", FALSE))
    <2>1. \A t : Good(SetWinningTeam(s, t, s.reset, FALSE)) BY <1>1, <1>4, Winning DEF Good
    <2>2. Good(SetWinningTeam(s, NoTeam, Master # "rounds", FALSE)) BY <1>1, Winning DEF Good
    <2> QED BY <2>1, <2>2
  <1>6. Master # "none" => Good(SetWinnerAndForceCaps(s, last, c))
    <2> DEFINE switch == full /\ SwitchOnWin
               a == SetWinningTeam(s, last, full, switch)
    <2>0. switch \in BOOLEAN BY <1>4, ConstantsAssumption
    <2> HIDE DEF full, last, switch
    <2>1. a \in RulesType /\ W(a) /\ T(a) BY <1>4, <2>0, Winning DEF Good
    <2> HIDE DEF a
    <2>2. LET r == SetWinningTeam(a, last, full, switch) IN r \in RulesType /\ W(r) /\ T(r)
      BY <1>4, <2>0, <2>1, Winning
    <2>3. Master # "none" => ~OneWin BY DEF Good, T, OneWin
    <2> QED BY <2>2, <2>3 DEF Good, SetWinnerAndForceCaps, a, full, switch
  <1> HIDE DEF last
  <1> QED BY <1>2, <1>5, <1>6 DEF State_Think_STALEMATE, last

\* State_Think, whatever the state.
LEMMA Thinking ==
  ASSUME NEW s, Good(s), ~s.over, s.staleTimer # "dying", NEW c \in Choices
  PROVE  Good(State_Think(s, c))
  <1>1. CASE s.state = "PREGAME" BY <1>1, ThinkPregame DEF State_Think
  <1>2. CASE s.state = "STARTGAME" BY <1>2, ThinkStartgame DEF State_Think
  <1>3. CASE s.state = "PREROUND" BY <1>3, ThinkPreround DEF State_Think
  <1>4. CASE s.state = "RND_RUNNING" BY <1>4, ThinkRunning DEF State_Think
  <1>5. CASE s.state = "TEAM_WIN" BY <1>5, ThinkTeamWin DEF State_Think
  <1>6. CASE s.state = "STALEMATE" BY <1>6, ThinkStalemate DEF State_Think
  <1>7. CASE s.state \notin {"PREGAME", "STARTGAME", "PREROUND", "RND_RUNNING", "TEAM_WIN", "STALEMATE"}
    BY <1>7 DEF State_Think
  <1> QED BY <1>1, <1>2, <1>3, <1>4, <1>5, <1>6, <1>7

-----------------------------------------------------------------------------
(* The periodic checks                                                     *)

\* mp_restartgame changes nothing that the invariants read.
LEMMA RestartRequested == ASSUME NEW s, Good(s) PROVE Keeps(s, CheckRestartRound(s))
  <1> DEFINE cv == s.cvars \ {"readyrestart"}
             a == [s EXCEPT !.ready = TRUE, !.teamReady = {}, !.restart = "off", !.cvars = cv]
             r == IF "readyrestart" \notin s.cvars THEN s ELSE a
             full == "restartgame" \in s.cvars
             cw == r.cvars \ {"restartround", "restartgame"}
             won == r.fullWin /\ full
             b == [r EXCEPT !.reset = full, !.fullWin = won, !.restart = "pending",
                            !.cvars = cw, !.ready = FALSE]
  <1>1. cv \in SUBSET AllCvars /\ {} \in SUBSET Teams BY DEF Good, RulesType
  <1>2. a \in RulesType
    <2> HIDE DEF cv
    <2> QED BY ZenonT(60), <1>1 DEF Good, RulesType, Deadline
  <1>3. Keeps(s, a) BY ZenonT(60), <1>2 DEF Good, RulesType, W, Keeps
  <1>4. Keeps(s, s) BY DEF Good, Keeps
  <1> HIDE DEF a
  <1>5. Keeps(s, r) BY <1>3, <1>4
  <1> HIDE DEF r
  <1>6. cw \in SUBSET AllCvars /\ full \in BOOLEAN /\ won \in BOOLEAN
    BY <1>5 DEF Keeps, RulesType
  <1>7. b \in RulesType
    <2> HIDE DEF cw, full, won
    <2> QED BY ZenonT(60), <1>5, <1>6 DEF Keeps, RulesType, Deadline
  <1>8. Keeps(r, b) BY ZenonT(60), <1>5, <1>7 DEF RulesType, W, Keeps
  <1>9. Keeps(s, b) BY <1>5, <1>8 DEF Keeps
  <1>10. CheckRestartRound(s) = r \/ CheckRestartRound(s) = b
    BY Zenon DEF CheckRestartRound, r, a
  <1> QED BY <1>5, <1>9, <1>10

\* Neither do mp_waitingforplayers_restart and _cancel, but for the waiting itself.
LEMMA WaitingAsked == ASSUME NEW s, Good(s) PROVE Keeps(s, WaitCancel(WaitRestart(s)))
  <1> DEFINE x == SetInWaitingForPlayers(s, TRUE)
             cv == x.cvars \ {"waitrestart"}
             a == [x EXCEPT !.waitEnds = "pending", !.cvars = cv]
             r == WaitRestart(s)
             y == SetInWaitingForPlayers(r, FALSE)
             cw == y.cvars \ {"waitcancel"}
             b == [y EXCEPT !.cvars = cw]
  <1>1. Keeps(s, s) BY DEF Good, Keeps
  <1>2. Keeps(s, x) BY SetWaiting DEF Good
  <1> HIDE DEF x
  <1>3. cv \in SUBSET AllCvars BY <1>2 DEF Keeps, RulesType
  <1>4. Keeps(x, a)
    <2> HIDE DEF cv
    <2>1. a \in RulesType BY ZenonT(60), <1>2, <1>3 DEF Keeps, RulesType, Deadline
    <2> QED BY ZenonT(60), <1>2, <2>1 DEF Keeps, RulesType, W
  <1>5. Keeps(s, r)
    <2>1. Keeps(s, a) BY <1>2, <1>4 DEF Keeps
    <2>2. r = s \/ r = a BY DEF WaitRestart, x
    <2> QED BY <1>1, <2>1, <2>2
  <1> HIDE DEF r
  <1>6. Keeps(r, y) BY <1>5, SetWaiting DEF Keeps
  <1> HIDE DEF y
  <1>7. cw \in SUBSET AllCvars BY <1>6 DEF Keeps, RulesType
  <1>8. Keeps(y, b)
    <2> HIDE DEF cw
    <2>1. b \in RulesType BY ZenonT(60), <1>6, <1>7 DEF Keeps, RulesType
    <2> QED BY ZenonT(60), <1>6, <2>1 DEF Keeps, RulesType, W
  <1>9. Keeps(s, b) BY <1>5, <1>6, <1>8 DEF Keeps
  <1>10. WaitCancel(r) = r \/ WaitCancel(r) = b BY DEF WaitCancel, y
  <1> QED BY <1>5, <1>9, <1>10 DEF r

\* CheckWaitingForPlayers begins and ends waiting with its timer.
LEMMA WaitingChecked == ASSUME NEW s, Good(s) PROVE Keeps(s, CheckWaitingForPlayers(s))
  <1> DEFINE w == WaitCancel(WaitRestart(s))
             a == [w EXCEPT !.restart = "pending"]
             h == HideActiveTimer(w)
             b == [h EXCEPT !.waitTimer = "live", !.hud = "wait"]
  <1>1. Keeps(s, w) BY WaitingAsked
  <1> HIDE DEF w
  <1>2. Keeps(w, a)
    <2>1. a \in RulesType BY ZenonT(60), <1>1 DEF Keeps, RulesType, Deadline
    <2> QED BY ZenonT(60), <1>1, <2>1 DEF Keeps, RulesType, W
  <1>3. w.waiting => Keeps(w, b)
    <2>1. Keeps(w, h) BY <1>1, Hide DEF Keeps
    <2>2. h.waiting = w.waiting BY ZenonT(60), <1>1 DEF Keeps, RulesType, HideActiveTimer
    <2> HIDE DEF h
    <2>3. b \in RulesType BY ZenonT(60), <2>1 DEF Keeps, RulesType, Entity, HudTimers
    <2>4. /\ b.state = h.state /\ b.over = h.over /\ b.staleTimer = h.staleTimer
          /\ b.counted = h.counted /\ b.waiting = h.waiting
      BY ZenonT(60), <2>1 DEF Keeps, RulesType
    <2> HIDE DEF b
    <2> QED BY <2>1, <2>2, <2>3, <2>4 DEF Keeps, W
  <1>4. Keeps(s, a) /\ (w.waiting => Keeps(s, b)) BY <1>1, <1>2, <1>3 DEF Keeps
  <1>5. CheckWaitingForPlayers(s) = w \/ CheckWaitingForPlayers(s) = a \/ (w.waiting /\ CheckWaitingForPlayers(s) = b)
    BY DEF CheckWaitingForPlayers, w
  <1> QED BY <1>1, <1>4, <1>5

\* What the rules check in every think.
LEMMA PeriodicGood == ASSUME NEW s, Good(s) PROVE Good(Periodic(s))
  <1> DEFINE r == CheckRestartRound(s)
  <1>1. Good(r) BY RestartRequested, KeepsGood
  <1>2. Good(CheckWaitingForPlayers(r)) BY <1>1, WaitingChecked, KeepsGood
  <1>3. Good(GoToIntermission(s)) BY EndingGood
  <1> QED BY <1>2, <1>3 DEF Periodic

\* CTeamplayRoundBasedRules::Think.
LEMMA BaseThinkGood ==
  ASSUME NEW s, Good(s), ~s.over => s.staleTimer # "dying", NEW c \in Choices
  PROVE  Good(BaseThink(s, c))
  <1>1. CASE s.over BY <1>1 DEF BaseThink
  <1>2. CASE ~s.over
    <2>1. Good(State_Think(s, c)) BY <1>2, Thinking
    <2>2. Good(Periodic(State_Think(s, c))) BY <2>1, PeriodicGood
    <2> QED BY <1>2, <2>1, <2>2 DEF BaseThink
  <1> QED BY <1>1, <1>2

\* CTFGameRules::Think, which may give the win to the capturing teams first.
LEMMA GameThinkGood ==
  ASSUME NEW s, Good(s), ~s.over, s.staleTimer # "dying", NEW c \in Choices
  PROVE  Good(GameThink(s, c))
  <1> DEFINE a == IF "fragLimit" \in c.facts /\ CountActivePlayers(s)
                  THEN GoToIntermission(s) ELSE s
  <1>1. s.state # "TEAM_WIN" => Good(CheckCapsPerRound(s, c))
    <2>1. s.state # "TEAM_WIN" /\ OneWin => s.counted = 0 BY DEF Good, T, C
    <2> QED BY <2>1, CapsGood
  <1>2. Good(a) /\ (~a.over => a.staleTimer # "dying") BY Ending, EndingGood DEF Good
  <1> HIDE DEF a
  <1>3. Good(BaseThink(a, c)) BY <1>2, BaseThinkGood
  <1> QED BY <1>1, <1>3 DEF GameThink, a

-----------------------------------------------------------------------------
(* The actions                                                             *)

\* The inductive invariant.
Inv == Good(rules) /\ inputs \in 0..MaxInputs /\ requests \in 0..MaxRequests

\* The rules of a new map.
LEMMA FreshRules == InitRules \in RulesType /\ Good(InitRules)
  <1> DEFINE z == [t \in Teams |-> 0]
             e == [t \in Teams |-> "empty"]
             cv == {"waitcancel"}
  <1>1. z \in [Teams -> Nat] /\ e \in [Teams -> Presence] BY DEF Presence
  <1>2. cv \in SUBSET AllCvars /\ {} \in SUBSET Teams BY DEF AllCvars
  <1>3. InitRules = [state |-> "PREGAME", over |-> FALSE, reset |-> TRUE, prevWait |-> FALSE,
             waiting |-> FALSE, waitEnds |-> "off", waitTimer |-> "none",
             staleTimer |-> "none", staleTime |-> "running", hud |-> "round", prevTimer |-> "none",
             restart |-> "off", ready |-> FALSE, teamReady |-> {}, trans |-> "off",
             score |-> z, rounds |-> 0, keepScores |-> FALSE,
             timeLeft |-> "early", lastRound |-> FALSE, switch |-> FALSE,
             cvars |-> cv, team |-> e, world |-> "clean", fullWin |-> FALSE,
             counted |-> 0, nested |-> FALSE]
    BY DEF InitRules
  <1> HIDE DEF z, e, cv
  <1>4. InitRules \in RulesType
    BY <1>1, <1>2, <1>3 DEF RulesType, RoundStates, Deadline, Entity, HudTimers, MapTime
  <1>5. /\ InitRules.state = "PREGAME" /\ ~InitRules.over /\ InitRules.staleTimer = "none"
        /\ InitRules.waitTimer = "none" /\ InitRules.counted = 0
    BY <1>3
  <1> QED BY <1>4, <1>5 DEF Good, W, T, C

\* Init and each action keep the invariant.
LEMMA InvInit == Init => Inv
  BY FreshRules, ConstantsAssumption DEF Init, Inv

\* A step that leaves the counters and what the invariants read alone.
LEMMA Quiet ==
  ASSUME Inv, NEW r, Set(r), Keeps(rules, r)
  PROVE  Inv'
  <1>1. Good(r) BY KeepsGood DEF Inv
  <1> QED BY <1>1 DEF Inv, Set, Good, W, T, C, OneWin

\* A frame's think.
LEMMA InvThink ==
  ASSUME Inv, NEW c \in Choices, Think(c)
  PROVE  Inv'
  <1> DEFINE s == Sweep(rules)
  <1>1. Good(s) /\ ~s.over /\ s.staleTimer # "dying"
    <2>1. /\ s \in RulesType /\ W(s) /\ s.state = rules.state /\ s.over = rules.over
          /\ s.counted = rules.counted
          /\ s.staleTimer = IF rules.staleTimer = "dying" THEN "none" ELSE rules.staleTimer
      BY Sweeping DEF Inv, Good
    <2> HIDE DEF s
    <2> QED BY <2>1 DEF Inv, Think, Good, T, C
  <1> HIDE DEF s
  <1>2. Good(GameThink(s, c)) BY <1>1, GameThinkGood
  <1>3. rules' = GameThink(s, c) BY DEF Think, s
  <1>4. Good(rules') BY <1>2, <1>3
  <1>5. inputs' \in 0..MaxInputs /\ requests' = requests BY ConstantsAssumption DEF Inv, Think
  <1> QED BY <1>4, <1>5 DEF Inv, Good, W, T, C, OneWin

\* An input keeps the invariant if it keeps Good.
LEMMA InvInputs ==
  ASSUME Inv, Input, Good(rules')
  PROVE  Inv'
  BY ConstantsAssumption DEF Inv, Input, Good, W, T, C, OneWin

\* Time passes for the timers and the map.
LEMMA InvElapse ==
  ASSUME Inv, ElapseWait \/ ElapseRestart \/ ElapseTransition \/ ElapseStalemate \/ ElapseMapTime
  PROVE  Inv'
  <1> rules \in RulesType /\ W(rules) BY DEF Inv, Good
  <1>1. CASE ElapseWait
    <2> DEFINE r == [rules EXCEPT !.waitEnds = "passed"]
    <2>1. r \in RulesType BY ZenonT(60) DEF RulesType, Deadline
    <2>2. Keeps(rules, r) BY ZenonT(60), <2>1 DEF RulesType, W, Keeps
    <2> QED BY <1>1, <2>2, Quiet DEF ElapseWait
  <1>2. CASE ElapseRestart
    <2> DEFINE r == [rules EXCEPT !.restart = "passed"]
    <2>1. r \in RulesType BY ZenonT(60) DEF RulesType, Deadline
    <2>2. Keeps(rules, r) BY ZenonT(60), <2>1 DEF RulesType, W, Keeps
    <2> QED BY <1>2, <2>2, Quiet DEF ElapseRestart
  <1>3. CASE ElapseTransition
    <2> DEFINE r == [rules EXCEPT !.trans = "passed"]
    <2>1. r \in RulesType BY ZenonT(60) DEF RulesType, Deadline
    <2>2. Keeps(rules, r) BY ZenonT(60), <2>1 DEF RulesType, W, Keeps
    <2> QED BY <1>3, <2>2, Quiet DEF ElapseTransition
  <1>4. CASE ElapseStalemate
    <2> DEFINE r == [rules EXCEPT !.staleTime = "up"]
    <2>1. r \in RulesType BY ZenonT(60) DEF RulesType
    <2>2. Keeps(rules, r) BY ZenonT(60), <2>1 DEF RulesType, W, Keeps
    <2> QED BY <1>4, <2>2, Quiet DEF ElapseStalemate
  <1>5. CASE ElapseMapTime
    <2> DEFINE m == CASE rules.timeLeft = "early" -> "late"
                      [] rules.timeLeft = "late" -> "ending"
                      [] OTHER -> "over"
               r == [rules EXCEPT !.timeLeft = m]
    <2>1. m \in MapTime BY DEF MapTime
    <2>2. Set(r) BY <1>5 DEF ElapseMapTime
    <2> HIDE DEF m
    <2>3. r \in RulesType BY ZenonT(60), <2>1 DEF RulesType
    <2>4. Keeps(rules, r) BY ZenonT(60), <2>3 DEF RulesType, W, Keeps
    <2> QED BY <2>2, <2>4, Quiet
  <1> QED BY <1>1, <1>2, <1>3, <1>4, <1>5

\* The operator's commands.
LEMMA InvOperator ==
  ASSUME Inv, NEW v \in AdminCvars, Request(v)
  PROVE  Inv'
  <1> DEFINE cv == rules.cvars \cup {"restartgame"}
             cw == rules.cvars \cup {v}
             a == [rules EXCEPT !.switch = TRUE, !.keepScores = TRUE, !.cvars = cv]
             b == [rules EXCEPT !.cvars = cw]
  <1> rules \in RulesType /\ W(rules) BY DEF Inv, Good
  <1>1. cv \in SUBSET AllCvars /\ cw \in SUBSET AllCvars
    BY ConstantsAssumption DEF RulesType, AllCvars
  <1>2. rules' = a \/ rules' = b BY DEF Request
  <1> HIDE DEF cv, cw
  <1>3. a \in RulesType /\ b \in RulesType BY ZenonT(60), <1>1 DEF RulesType
  <1>4. Keeps(rules, a) /\ Keeps(rules, b) BY ZenonT(60), <1>3 DEF RulesType, W, Keeps
  <1>5. Good(rules') BY <1>2, <1>4, KeepsGood DEF Inv
  <1>6. inputs' = inputs /\ requests' \in 0..MaxRequests
    BY ConstantsAssumption DEF Inv, Request
  <1> QED BY <1>5, <1>6 DEF Inv, Good, W, T, C, OneWin

\* Players join, leave and get ready.
LEMMA InvPlayers ==
  ASSUME Inv, NEW t \in Teams
  PROVE  (ReadySignal(t) => Inv') /\ (\A p \in Presence : TeamBecomes(t, p) => Inv')
  <1> rules \in RulesType /\ W(rules) BY DEF Inv, Good
  <1>1. ASSUME ReadySignal(t) PROVE Inv'
    <2> DEFINE ts == rules.teamReady \cup {t}
               r == [rules EXCEPT !.teamReady = ts]
    <2>1. ts \in SUBSET Teams BY DEF RulesType
    <2>2. Set(r) BY <1>1 DEF ReadySignal
    <2> HIDE DEF ts
    <2>3. r \in RulesType BY ZenonT(60), <2>1 DEF RulesType
    <2>4. Keeps(rules, r) BY ZenonT(60), <2>3 DEF RulesType, W, Keeps
    <2> QED BY <2>2, <2>4, Quiet
  <1>2. ASSUME NEW p \in Presence, TeamBecomes(t, p) PROVE Inv'
    <2> DEFINE tm == [rules.team EXCEPT ![t] = p]
               r == [rules EXCEPT !.team = tm]
    <2>1. tm \in [Teams -> Presence] BY DEF RulesType
    <2>2. Set(r) BY <1>2 DEF TeamBecomes
    <2> HIDE DEF tm
    <2>3. r \in RulesType BY ZenonT(60), <2>1 DEF RulesType
    <2>4. Keeps(rules, r) BY ZenonT(60), <2>3 DEF RulesType, W, Keeps
    <2> QED BY <2>2, <2>4, Quiet
  <1> QED BY <1>1, <1>2

\* What the map does.
LEMMA InvMap ==
  ASSUME Inv
  PROVE  /\ \A t \in Teams, full \in BOOLEAN : MapRoundWin(t, full) => Inv'
         /\ \A full \in BOOLEAN : MapStalemate(full) => Inv'
         /\ \A t \in Teams, facts \in SUBSET (Facts \cap {"roundsLeft"}) : PointsWin(t, facts) => Inv'
         /\ MapIntermission => Inv'
  <1> SwitchOnWin \in BOOLEAN BY ConstantsAssumption
  <1>1. MapMay /\ OneWin => rules.counted = 0
    BY DEF MapMay, OneWin, Inv, Good, C, RulesType
  <1>2. ASSUME NEW t \in Teams, NEW full \in BOOLEAN, MapRoundWin(t, full) PROVE Inv'
    <2>1. (full /\ SwitchOnWin) \in BOOLEAN OBVIOUS
    <2>2. Good(SetWinningTeam(rules, t, full, full /\ SwitchOnWin))
      BY <1>1, <1>2, <2>1, Winning DEF Inv, Good, MapRoundWin
    <2> QED BY <1>2, <2>2, InvInputs DEF MapRoundWin
  <1>3. ASSUME NEW full \in BOOLEAN, MapStalemate(full) PROVE Inv'
    <2>1. Good(SetStalemate(rules, full, SwitchOnWin))
      BY <1>1, <1>3, Stalemating DEF Inv, Good, MapStalemate
    <2> QED BY <1>3, <2>1, InvInputs DEF MapStalemate
  <1>4. ASSUME NEW t \in Teams, NEW facts \in SUBSET (Facts \cap {"roundsLeft"}), PointsWin(t, facts)
        PROVE Inv'
    <2> DEFINE full == MasterFullWin(facts)
    <2>1. full \in BOOLEAN /\ (full /\ SwitchOnWin) \in BOOLEAN BY DEF MasterFullWin
    <2>2. OneWin => rules.counted = 0
      BY <1>4 DEF PointsWin, PointsMayBeCaptured, Inv, Good, C
    <2>3. rules' = SetWinningTeam(rules, t, full, full /\ SwitchOnWin) BY <1>4 DEF PointsWin
    <2> HIDE DEF full
    <2>4. Good(SetWinningTeam(rules, t, full, full /\ SwitchOnWin))
      BY <2>1, <2>2, Winning DEF Inv, Good
    <2> QED BY <1>4, <2>3, <2>4, InvInputs DEF PointsWin
  <1>5. ASSUME MapIntermission PROVE Inv'
    <2>1. Good(GoToIntermission(rules)) BY EndingGood DEF Inv
    <2> QED BY <1>5, <2>1, InvInputs DEF MapIntermission
  <1> QED BY <1>2, <1>3, <1>4, <1>5

\* The next map.
LEMMA InvChangeLevel == ASSUME Inv, ChangeLevel PROVE Inv'
  <1> DEFINE cv == rules.cvars
             r == [InitRules EXCEPT !.cvars = cv]
  <1>1. cv \in SUBSET AllCvars BY DEF Inv, Good, RulesType
  <1>2. rules' = r BY DEF ChangeLevel
  <1> HIDE DEF cv
  <1>3. r \in RulesType BY ZenonT(60), <1>1, FreshRules DEF RulesType
  <1>4. W(InitRules) BY FreshRules DEF Good
  <1>5. Keeps(InitRules, r) BY ZenonT(60), <1>3, <1>4, FreshRules DEF RulesType, W, Keeps
  <1>6. Good(rules') BY <1>2, <1>5, FreshRules, KeepsGood
  <1> QED BY <1>6 DEF Inv, ChangeLevel, Good, W, T, C, OneWin

\* The invariant is inductive.
LEMMA InvStep == Inv /\ [Next]_vars => Inv'
  <1> SUFFICES ASSUME Inv, [Next]_vars PROVE Inv' OBVIOUS
  <1>1. CASE UNCHANGED vars BY <1>1 DEF Inv, vars, Good, W, T, C, OneWin
  <1>2. CASE \E c \in Choices : Think(c) BY <1>2, InvThink
  <1>3. CASE \E t \in Teams, full \in BOOLEAN : MapRoundWin(t, full) BY <1>3, InvMap
  <1>4. CASE \E full \in BOOLEAN : MapStalemate(full) BY <1>4, InvMap
  <1>5. CASE \E t \in Teams, facts \in SUBSET (Facts \cap {"roundsLeft"}) : PointsWin(t, facts)
    BY <1>5, InvMap
  <1>6. CASE MapIntermission BY <1>6, InvMap
  <1>7. CASE ElapseWait \/ ElapseRestart \/ ElapseTransition \/ ElapseStalemate \/ ElapseMapTime
    BY <1>7, InvElapse
  <1>8. CASE \E v \in AdminCvars : Request(v) BY <1>8, InvOperator
  <1>9. CASE \E t \in Teams : ReadySignal(t) BY <1>9, InvPlayers
  <1>10. CASE \E t \in Teams, p \in Presence : TeamBecomes(t, p) BY <1>10, InvPlayers
  <1>11. CASE ChangeLevel BY <1>11, InvChangeLevel
  <1> QED BY <1>1, <1>2, <1>3, <1>4, <1>5, <1>6, <1>7, <1>8, <1>9, <1>10, <1>11 DEF Next

\* In every behaviour the inductive invariant Inv holds: the waiting and the
\* stalemate timer follow the state, and a round in progress is not counted.
THEOREM Invariance == Spec => []Inv
  BY InvInit, InvStep, PTL DEF Spec

-----------------------------------------------------------------------------
(* The theorems                                                            *)

\* Every handler, from every state the rules can be in, leaves each member of
\* the rules object within its type, for any teams, limits and map.
THEOREM TypeCorrect == Spec => []TypeOK
  <1>1. Inv => TypeOK BY DEF Inv, Good, TypeOK
  <1> QED BY <1>1, Invariance, PTL

\* The assertion of CTeamplayRoundBasedRules::Think: however the waiting period
\* ends (its deadline, mp_waitingforplayers_cancel, a restart, a map reset), no
\* timer of it outlives it.
THEOREM WaitingTimerCorrect == Spec => []WaitingTimerTracksWaiting
  <1>1. Inv => WaitingTimerTracksWaiting BY DEF Inv, Good, W, WaitingTimerTracksWaiting
  <1> QED BY <1>1, Invariance, PTL

\* A map that never asks for a stalemate in the frame in which one ended has a
\* timer in every stalemate and none outside.
THEOREM StalemateTimerCorrect ==
  ~SameFrameStalemate => (Spec => []StalemateTimerTracksState)
  <1> SUFFICES ASSUME ~SameFrameStalemate PROVE Spec => []StalemateTimerTracksState
    OBVIOUS
  <1>1. Inv => StalemateTimerTracksState BY DEF Inv, Good, T, StalemateTimerTracksState
  <1> QED BY <1>1, Invariance, PTL

\* Without stalemates or without a control point master, and on a map that declares
\* no winner once a round is won, no coincidence of points, flags, time limit,
\* stalemate, wins by the map and restarts makes mp_maxrounds count a round twice.
THEOREM RoundsCountedCorrectly ==
  OneWin => (Spec => []RoundCountedOnce)
  <1> SUFFICES ASSUME OneWin PROVE Spec => []RoundCountedOnce
    OBVIOUS
  <1>1. Inv => RoundCountedOnce BY DEF Inv, Good, C, RoundCountedOnce
  <1> QED BY <1>1, Invariance, PTL

=============================================================================

------------------------- MODULE RoundRulesPlay_proofs -------------------------
(* More about RoundRules: the timers in the HUD, the limit of rounds, and   *)
(* when the map is cleaned.                                                 *)
EXTENDS RoundRules_proofs

(* The conditions on which the theorems hold.                              *)

\* One timer hides another at a time: there are no stalemates; or no one is waited
\* for; or a stalemate cannot begin in a waiting period nor the period in a stalemate.
OneHides ==
  \/ ~StalemateEnabled
  \/ /\ "waitrestart" \notin AdminCvars
     /\ \/ ~WaitForPlayers
        \/ /\ ~(TimeLimit /\ StalemateOnTimeLimit)
           /\ \A state \in RoundStates : <<state, TRUE>> \notin MapWhen

-----------------------------------------------------------------------------
(* The invariant                                                           *)

\* The timers in the HUD when no stalemate is on, and in one.
Waits(s) ==
  IF s.waitTimer = "live" THEN s.hud = "wait" /\ s.prevTimer = "round"
  ELSE s.hud = "round" /\ s.prevTimer = "none"
Stale(s) == ~s.waiting /\ s.prevTimer = "round" /\ s.hud \in {"none", "stale"}

Hud(s) ==
  /\ ~StalemateEnabled => Waits(s)
  /\ ~s.over => IF s.state = "STALEMATE" THEN Stale(s) ELSE Waits(s)

\* Nothing is hidden without a waiting timer, but in a stalemate; and nothing
\* has been hidden beside it, but in both.
Bare(s) == s.waitTimer # "live" => s.prevTimer = "none"
Hidden(s) == ~s.over => ~s.nested /\ (s.state # "STALEMATE" => Bare(s))
Spare(s) == ~s.over => ~s.nested /\ Bare(s)

\* Stalemates apart, what is asked for cannot begin a waiting period.
Asked(s) ==
  OneHides /\ StalemateEnabled => "waitrestart" \notin s.cvars /\ (WaitForPlayers \/ ~s.waiting)

\* A round that is played is not beyond the limit.
RoundsLeft(s) == MaxRounds > 0 => s.rounds < MaxRounds
Limit(s) ==
  /\ MaxRounds > 0 => s.rounds <= MaxRounds
  /\ s.state \notin {"TEAM_WIN", "GAME_OVER"} => RoundsLeft(s)

\* After a full win the map will be reset, unless mp_restartround was taken up.
Full(s) == s.state = "TEAM_WIN" /\ s.fullWin => s.reset

\* In a frame that found a waiting period on: it is, or the map has been cleaned.
Traced(s) == "waitcancel" \notin s.cvars /\ (s.waiting \/ s.world = "clean")

More(s, waited) ==
  /\ OneHides => Hud(s)
  /\ Hidden(s) /\ Asked(s) /\ Full(s)
  /\ OneWin => Limit(s)
  /\ waited => Traced(s)

\* What holds between leaving a state and entering the next.
Between(s, waited) ==
  /\ OneHides /\ (~StalemateEnabled \/ ~s.over) => Waits(s)
  /\ Spare(s) /\ Asked(s)
  /\ waited => Traced(s)

\* A state other than a stalemate is left with nothing to undo.
LEMMA Leaves ==
  ASSUME NEW s, NEW waited, More(s, waited), s.state # "STALEMATE"
  PROVE  Between(s, waited)
  BY DEF More, Between, Hud, Hidden, Spare

\* To enter any state but a stalemate or a win, a round that may be played is enough.
LEMMA Lands ==
  ASSUME NEW s, NEW waited, Between(s, waited), s.state \notin {"STALEMATE", "TEAM_WIN"},
         OneWin => RoundsLeft(s), s.rounds \in Nat
  PROVE  More(s, waited)
  BY ConstantsAssumption DEF More, Between, Hud, Hidden, Spare, Limit, RoundsLeft, Full

\* Alike in all that the invariant reads, but for requests that were taken note of.
SameHud(s, t) ==
  /\ t.waiting = s.waiting /\ t.waitTimer = s.waitTimer
  /\ t.hud = s.hud /\ t.prevTimer = s.prevTimer /\ t.nested = s.nested
SameRound(s, t) ==
  /\ t.rounds = s.rounds /\ t.fullWin = s.fullWin /\ t.world = s.world
  /\ t.reset = s.reset /\ t.prevWait = s.prevWait /\ t.cvars \subseteq s.cvars
Alike(s, t) == Keeps(s, t) /\ SameHud(s, t) /\ SameRound(s, t)

\* What is alike is as good.
LEMMA AlikeMore ==
  ASSUME NEW s, NEW t, Alike(s, t), NEW waited
  PROVE  /\ More(s, waited) => More(t, waited)
         /\ Between(s, waited) => Between(t, waited)
         /\ RoundsLeft(s) => RoundsLeft(t)
  <1>1. Waits(s) => Waits(t) BY DEF Alike, SameHud, Waits
  <1>2. Stale(s) => Stale(t) BY DEF Alike, SameHud, Stale
  <1>3. t.state = s.state /\ t.over = s.over BY DEF Alike, Keeps
  <1>4. Hud(s) => Hud(t) BY <1>1, <1>2, <1>3 DEF Hud
  <1>5. (Asked(s) => Asked(t)) /\ (Hidden(s) => Hidden(t)) /\ (Spare(s) => Spare(t))
    BY <1>3 DEF Alike, SameHud, SameRound, Asked, Hidden, Spare, Bare
  <1>6. (RoundsLeft(s) => RoundsLeft(t)) /\ (Limit(s) => Limit(t))
    BY <1>3 DEF Alike, SameRound, RoundsLeft, Limit
  <1>7. Full(s) => Full(t) BY <1>3 DEF Alike, SameRound, Full
  <1>8. Traced(s) => Traced(t) BY DEF Alike, SameHud, SameRound, Traced
  <1> QED BY <1>1, <1>3, <1>4, <1>5, <1>6, <1>7, <1>8 DEF More, Between

LEMMA AlikeTwice ==
  ASSUME NEW s, NEW t, NEW u, Alike(s, t), Alike(t, u)
  PROVE  Alike(s, u)
  BY DEF Alike, Keeps, SameHud, SameRound

LEMMA AlikeSelf == ASSUME NEW s \in RulesType, W(s) PROVE Alike(s, s)
  BY DEF Alike, Keeps, SameHud, SameRound

-----------------------------------------------------------------------------
(* The handlers                                                            *)

\* HideActiveTimer remembers the timer in the HUD.
LEMMA HideDoes ==
  ASSUME NEW s \in RulesType
  PROVE  LET t == HideActiveTimer(s)
         IN  /\ SameRound(s, t) /\ t.waiting = s.waiting /\ t.waitTimer = s.waitTimer
             /\ t.prevTimer = s.hud /\ t.hud = "none"
             /\ ~s.nested /\ ((s.waiting /\ s.state = "STALEMATE") \/ s.prevTimer = "none")
                => ~t.nested
  <1> DEFINE n == s.nested \/ (s.prevTimer # "none" /\ ~(s.waiting /\ s.state = "STALEMATE"))
             t == HideActiveTimer(s)
  <1>1. t = [s EXCEPT !.nested = n, !.prevTimer = s.hud, !.hud = "none"]
    BY Zenon DEF HideActiveTimer
  <1>2. ~s.nested /\ ((s.waiting /\ s.state = "STALEMATE") \/ s.prevTimer = "none") => ~n
    OBVIOUS
  <1> HIDE DEF n
  <1>3. SameRound(s, t) BY ZenonT(60), <1>1 DEF RulesType, SameRound
  <1>4. /\ t.waiting = s.waiting /\ t.waitTimer = s.waitTimer
        /\ t.prevTimer = s.hud /\ t.hud = "none" /\ t.nested = n
    BY ZenonT(60), <1>1 DEF RulesType
  <1> QED BY <1>2, <1>3, <1>4

\* RestoreActiveTimer brings it back.
LEMMA RestoreDoes ==
  ASSUME NEW s \in RulesType
  PROVE  LET t == RestoreActiveTimer(s)
         IN  /\ SameRound(s, t) /\ t.waiting = s.waiting /\ t.waitTimer = s.waitTimer
             /\ t.nested = s.nested /\ t.prevTimer = "none"
             /\ t.hud = IF s.prevTimer = "none" THEN s.hud ELSE s.prevTimer
  <1>1. CASE s.prevTimer = "none" BY <1>1 DEF RestoreActiveTimer, SameRound
  <1>2. CASE s.prevTimer # "none"
    <2> DEFINE t == [s EXCEPT !.hud = s.prevTimer, !.prevTimer = "none"]
    <2>1. /\ SameRound(s, t) /\ t.waiting = s.waiting /\ t.waitTimer = s.waitTimer
          /\ t.nested = s.nested /\ t.prevTimer = "none" /\ t.hud = s.prevTimer
      BY ZenonT(60) DEF RulesType, SameRound
    <2>2. RestoreActiveTimer(s) = t BY <1>2 DEF RestoreActiveTimer
    <2> HIDE DEF t
    <2> QED BY <1>2, <2>1, <2>2
  <1> QED BY <1>1, <1>2

\* The deletion list takes a dying timer out of the HUD, a live one stays.
LEMMA SweepDoes ==
  ASSUME NEW s \in RulesType, W(s), NEW waited, More(s, waited), ~s.over
  PROVE  More(Sweep(s), waited) /\ SameRound(s, Sweep(s)) /\ Sweep(s).waiting = s.waiting
  <1> DEFINE wt == IF s.waitTimer = "dying" THEN "none" ELSE s.waitTimer
             st == IF s.staleTimer = "dying" THEN "none" ELSE s.staleTimer
             hd == IF s.hud \in Gone(s) THEN "none" ELSE s.hud
             pv == IF s.prevTimer \in Gone(s) THEN "none" ELSE s.prevTimer
             t == Sweep(s)
  <1>1. t = [s EXCEPT !.waitTimer = wt, !.staleTimer = st, !.hud = hd, !.prevTimer = pv]
    BY Zenon DEF Sweep
  <1>2. s.waitTimer = "live" /\ s.hud = "wait" => hd = "wait" BY DEF Gone
  <1>3. s.hud \notin {"wait", "stale"} => hd = s.hud BY DEF Gone
  <1>4. s.prevTimer = "round" \/ s.prevTimer = "none" => pv = s.prevTimer BY DEF Gone
  <1>5. hd = s.hud \/ hd = "none" OBVIOUS
  <1>6. wt = "live" <=> s.waitTimer = "live" OBVIOUS
  <1> HIDE DEF wt, st, hd, pv
  <1>7. /\ t.waitTimer = wt /\ t.hud = hd /\ t.prevTimer = pv /\ t.waiting = s.waiting
        /\ t.nested = s.nested /\ t.state = s.state /\ t.over = s.over
    BY ZenonT(60), <1>1 DEF RulesType
  <1>8. SameRound(s, t) BY ZenonT(60), <1>1 DEF RulesType, SameRound
  <1> HIDE DEF t
  <1>9. (Waits(s) => Waits(t)) /\ (Stale(s) => Stale(t))
    BY <1>2, <1>3, <1>4, <1>5, <1>6, <1>7 DEF Waits, Stale
  <1>10. Hidden(s) => Hidden(t) BY <1>4, <1>6, <1>7 DEF Hidden, Bare
  <1>11. More(t, waited)
    BY <1>7, <1>8, <1>9, <1>10
    DEF More, Hud, Asked, Limit, RoundsLeft, Full, Traced, SameRound
  <1> QED BY <1>7, <1>8, <1>11 DEF t

\* Respawning players, the map's time and the teams' names are not looked at.
LEMMA RespawnAlike ==
  ASSUME NEW s \in RulesType, W(s), NEW which
  PROVE  Alike(s, Respawn(s, which))
  <1>1. Keeps(s, Respawn(s, which)) BY Respawning
  <1>2. SameHud(s, Respawn(s, which)) BY ZenonT(60) DEF Respawn, RulesType, SameHud
  <1>3. SameRound(s, Respawn(s, which)) BY ZenonT(60) DEF Respawn, RulesType, SameRound
  <1> QED BY <1>1, <1>2, <1>3 DEF Alike

\* Neither is the time of the map.
LEMMA MapTimeAlike ==
  ASSUME NEW s \in RulesType, W(s)
  PROVE  Alike(s, ResetMapTime(s))
  <1>1. Keeps(s, ResetMapTime(s)) BY MapTimeReset
  <1>2. SameHud(s, ResetMapTime(s)) BY ZenonT(60) DEF ResetMapTime, RulesType, SameHud
  <1>3. SameRound(s, ResetMapTime(s)) BY ZenonT(60) DEF ResetMapTime, RulesType, SameRound
  <1> QED BY <1>1, <1>2, <1>3 DEF Alike

\* Nor which team is which.
LEMMA SwitchAlike ==
  ASSUME NEW s \in RulesType, W(s)
  PROVE  Alike(s, HandleSwitchTeams(s))
  <1>1. Keeps(s, HandleSwitchTeams(s)) BY Switching
  <1>2. SameHud(s, HandleSwitchTeams(s)) BY ZenonT(60) DEF HandleSwitchTeams, RulesType, SameHud
  <1>3. SameRound(s, HandleSwitchTeams(s)) BY ZenonT(60) DEF HandleSwitchTeams, RulesType, SameRound
  <1> QED BY <1>1, <1>2, <1>3 DEF Alike

\* SetInWaitingForPlayers: the period begins without its timer, and takes the timer
\* with it when it ends.
LEMMA SetWaitingDoes ==
  ASSUME NEW s \in RulesType, W(s), NEW b \in BOOLEAN
  PROVE  LET t == SetInWaitingForPlayers(s, b)
         IN  /\ SameRound(s, t) /\ t.waiting = b /\ (Waits(s) => Waits(t))
             /\ t.nested = s.nested /\ (Bare(s) => Bare(t))
             /\ s.waiting = b => t = s
  <1> DEFINE off == [s EXCEPT !.waiting = FALSE, !.waitEnds = "off", !.waitTimer = Remove(s.waitTimer)]
             on  == [s EXCEPT !.waiting = TRUE, !.waitEnds = "pending"]
             back == RestoreActiveTimer(off)
  <1>1. CASE s.waiting = b BY <1>1 DEF SetInWaitingForPlayers, SameRound
  <1>2. CASE s.waiting # b /\ b
    <2>1. SetInWaitingForPlayers(s, b) = on BY <1>2 DEF SetInWaitingForPlayers
    <2>2. SameRound(s, on) BY ZenonT(60) DEF RulesType, SameRound
    <2>3. /\ on.waiting /\ on.waitTimer = s.waitTimer /\ on.hud = s.hud
          /\ on.prevTimer = s.prevTimer /\ on.nested = s.nested
      BY ZenonT(60) DEF RulesType
    <2> HIDE DEF on
    <2> QED BY <1>2, <2>1, <2>2, <2>3 DEF Waits, Bare
  <1>3. CASE s.waiting # b /\ ~b
    <2>1. SetInWaitingForPlayers(s, b) = back BY <1>3 DEF SetInWaitingForPlayers
    <2>2. SameRound(s, off) BY ZenonT(60) DEF RulesType, SameRound
    <2>3. /\ off.waiting = FALSE /\ off.waitTimer = Remove(s.waitTimer) /\ off.hud = s.hud
          /\ off.prevTimer = s.prevTimer /\ off.nested = s.nested
      BY ZenonT(60) DEF RulesType
    <2>4. off \in RulesType
      <3>1. Remove(s.waitTimer) \in Entity BY DEF Remove, Entity
      <3> QED BY ZenonT(60), <3>1 DEF RulesType, Deadline
    <2> HIDE DEF off
    <2>5. /\ SameRound(off, back) /\ back.waiting = off.waiting /\ back.waitTimer = off.waitTimer
          /\ back.nested = off.nested /\ back.prevTimer = "none"
          /\ back.hud = IF off.prevTimer = "none" THEN off.hud ELSE off.prevTimer
      BY <2>4, RestoreDoes
    <2> HIDE DEF back
    <2>6. Remove(s.waitTimer) # "live" BY DEF Remove
    <2>7. SameRound(s, back) BY <2>2, <2>5 DEF SameRound
    <2>8. back.waiting = b BY <1>3, <2>3, <2>5
    <2>9. Waits(s) => Waits(back) BY <2>3, <2>5, <2>6 DEF Waits
    <2>10. back.nested = s.nested /\ Bare(back) BY <2>3, <2>5 DEF Bare
    <2> QED BY <1>3, <2>1, <2>7, <2>8, <2>9, <2>10
  <1> QED BY <1>1, <1>2, <1>3

\* ResetScores forgets the rounds or keeps them.
LEMMA ScoresDo ==
  ASSUME NEW s \in RulesType, W(s), NEW waited
  PROVE  LET t == ResetScores(s)
         IN  /\ Between(s, waited) => Between(t, waited)
             /\ OneWin /\ RoundsLeft(s) => RoundsLeft(t)
             /\ t.reset = s.reset /\ t.prevWait = s.prevWait /\ t.cvars = s.cvars
  <1> DEFINE score == IF s.keepScores THEN s.score ELSE [t \in Teams |-> 0]
             rounds == IF s.keepScores THEN s.rounds ELSE 0
             t == ResetScores(s)
  <1>1. rounds = s.rounds \/ rounds = 0 OBVIOUS
  <1>2. t = [s EXCEPT !.score = score, !.rounds = rounds, !.keepScores = FALSE]
    BY Zenon DEF ResetScores
  <1> HIDE DEF score, rounds
  <1>3. SameHud(s, t) BY ZenonT(60), <1>2 DEF RulesType, SameHud
  <1>4. /\ t.rounds = rounds /\ t.over = s.over /\ t.cvars = s.cvars /\ t.world = s.world
        /\ t.reset = s.reset /\ t.prevWait = s.prevWait
    BY ZenonT(60), <1>2 DEF RulesType
  <1> HIDE DEF t
  <1>5. Between(s, waited) => Between(t, waited)
    BY <1>3, <1>4 DEF Between, Waits, Spare, Bare, Asked, Traced, SameHud
  <1>6. RoundsLeft(s) => RoundsLeft(t) BY <1>1, <1>4, ConstantsAssumption DEF RoundsLeft
  <1> QED BY <1>4, <1>5, <1>6 DEF t

\* CleanUpMap leaves the map's own timer in the HUD and none behind it.
LEMMA CleanDoes ==
  ASSUME NEW s \in RulesType, NEW waited
  PROVE  LET t == CleanUpMap(s)
         IN  /\ Between(s, waited) => Between(t, waited)
             /\ "waitcancel" \notin s.cvars => Traced(t)
             /\ t.rounds = s.rounds /\ t.world = "clean"
  <1> DEFINE t == CleanUpMap(s)
  <1>1. /\ t.waitTimer = "none" /\ t.hud = "round" /\ t.prevTimer = "none" /\ t.world = "clean"
        /\ t.nested = s.nested /\ t.waiting = s.waiting /\ t.over = s.over
    BY ZenonT(60) DEF CleanUpMap, RulesType
  <1>2. t.cvars = s.cvars /\ t.rounds = s.rounds BY ZenonT(60) DEF CleanUpMap, RulesType
  <1> HIDE DEF t
  <1>3. Waits(s) => Waits(t) BY <1>1 DEF Waits
  <1>4. "waitcancel" \notin s.cvars => Traced(t) BY <1>1, <1>2 DEF Traced
  <1>5. Traced(s) => Traced(t) BY <1>1, <1>2 DEF Traced
  <1>6. Between(s, waited) => Between(t, waited)
    BY <1>1, <1>2, <1>3, <1>5 DEF Between, Spare, Bare, Asked
  <1> QED BY <1>1, <1>2, <1>4, <1>6 DEF t

\* RoundRespawn cleans the map if it must.
LEMMA RespawnDoes ==
  ASSUME NEW s \in RulesType, W(s), NEW waited, Between(s, waited)
  PROVE  LET t == RoundRespawn(s)
         IN  /\ Between(t, waited) /\ t.rounds = s.rounds
             /\ s.reset \/ s.prevWait => t.world = "clean"
             /\ "waitcancel" \notin s.cvars /\ s.prevWait => Traced(t)
  <1> DEFINE a == IF s.reset \/ s.prevWait THEN CleanUpMap(s) ELSE s
             b == IF s.switch THEN HandleSwitchTeams(a) ELSE a
             r == RespawnPlayers(b)
             t == RoundRespawn(s)
  <1>1. /\ a \in RulesType /\ W(a) /\ Between(a, waited) /\ a.rounds = s.rounds
        /\ s.reset \/ s.prevWait => a.world = "clean"
        /\ "waitcancel" \notin s.cvars /\ s.prevWait => Traced(a)
    BY CleaningUp, CleanDoes
  <1> HIDE DEF a
  <1>2. Alike(a, b) BY <1>1, AlikeSelf, SwitchAlike
  <1> HIDE DEF b
  <1>3. Alike(b, r) BY <1>2, RespawnAlike DEF Alike, Keeps, RespawnPlayers
  <1>4. Alike(a, r) BY <1>2, <1>3, AlikeTwice
  <1>5. RoundRespawn(s) = [r EXCEPT !.counted = 0] BY DEF RoundRespawn, a, b
  <1> HIDE DEF r
  <1>6. r \in RulesType BY <1>4 DEF Alike, Keeps
  <1>7. SameHud(r, t) BY ZenonT(60), <1>5, <1>6 DEF RulesType, SameHud
  <1>8. SameRound(r, t) BY ZenonT(60), <1>5, <1>6 DEF RulesType, SameRound
  <1>9. t.over = r.over BY ZenonT(60), <1>5, <1>6 DEF RulesType
  <1> HIDE DEF t
  <1>10. Between(r, waited) BY <1>1, <1>4, AlikeMore
  <1>11. Between(t, waited)
    BY <1>7, <1>8, <1>9, <1>10 DEF Between, Waits, Spare, Bare, Asked, Traced, SameHud, SameRound
  <1>12. t.rounds = s.rounds /\ t.world = a.world
    BY <1>1, <1>4, <1>8 DEF Alike, SameRound
  <1>13. Traced(a) => Traced(t)
    BY <1>4, <1>7, <1>8 DEF Alike, Traced, SameHud, SameRound
  <1> QED BY <1>1, <1>11, <1>12, <1>13 DEF t

\* GoToIntermission leaves the timers and the map as they are.
LEMMA EndDoes ==
  ASSUME NEW s \in RulesType, NEW waited, More(s, waited)
  PROVE  More(GoToIntermission(s), waited) /\ GoToIntermission(s).world = s.world
  <1> DEFINE t == GoToIntermission(s)
  <1>1. SameHud(s, t) BY ZenonT(60) DEF GoToIntermission, RulesType, SameHud
  <1>2. SameRound(s, t) BY ZenonT(60) DEF GoToIntermission, RulesType, SameRound
  <1>3. t.over = TRUE /\ t.state = "GAME_OVER"
    BY ZenonT(60) DEF GoToIntermission, RulesType
  <1> HIDE DEF t
  <1>4. (Waits(s) => Waits(t)) /\ (Stale(s) => Stale(t))
    BY <1>1 DEF Waits, Stale, SameHud
  <1>5. Hud(s) => Hud(t) BY <1>3, <1>4 DEF Hud
  <1>6. Limit(s) => Limit(t) BY <1>2, <1>3 DEF Limit, SameRound
  <1>7. Asked(s) => Asked(t) BY <1>1, <1>2 DEF Asked, SameHud, SameRound
  <1>8. Traced(s) => Traced(t) BY <1>1, <1>2 DEF Traced, SameHud, SameRound
  <1>9. Full(t) /\ Hidden(t) BY <1>3 DEF Full, Hidden
  <1> QED BY <1>2, <1>5, <1>6, <1>7, <1>8, <1>9 DEF More, SameRound, t

\* Leaving a stalemate gives the HUD back to the timer that was hidden.
LEMMA LeaveDoes ==
  ASSUME NEW s \in RulesType, W(s), T(s), NEW waited, More(s, waited)
  PROVE  LET t == State_Leave(s)
         IN  /\ Between(t, waited)
             /\ t.rounds = s.rounds /\ t.reset = s.reset /\ t.fullWin = s.fullWin
             /\ t.waiting = s.waiting
  <1>1. CASE s.state # "STALEMATE" BY <1>1, Leaves DEF State_Leave
  <1>2. CASE s.state = "STALEMATE"
    <2> DEFINE a == [s EXCEPT !.staleTimer = Remove(s.staleTimer)]
               t == RestoreActiveTimer(a)
    <2>1. a \in RulesType
      <3>1. Remove(s.staleTimer) \in Entity BY DEF Remove, Entity
      <3> QED BY ZenonT(60), <3>1 DEF RulesType
    <2>2. SameHud(s, a) BY ZenonT(60) DEF RulesType, SameHud
    <2>3. SameRound(s, a) BY ZenonT(60) DEF RulesType, SameRound
    <2>4. a.over = s.over BY ZenonT(60) DEF RulesType
    <2>5. State_Leave(s) = t BY <1>2 DEF State_Leave, State_Leave_STALEMATE
    <2>6. W(a) BY <2>2, ZenonT(60) DEF W, SameHud
    <2> HIDE DEF a
    <2>7. /\ SameRound(a, t) /\ t.waiting = a.waiting /\ t.waitTimer = a.waitTimer
          /\ t.nested = a.nested /\ t.prevTimer = "none"
          /\ t.hud = IF a.prevTimer = "none" THEN a.hud ELSE a.prevTimer
      BY <2>1, RestoreDoes
    <2>8. t.over = a.over BY <2>1, <2>6, Restore DEF Keeps
    <2> HIDE DEF t
    <2>9. Stale(s) => Waits(t) BY <2>2, <2>7, ZenonT(60) DEF Stale, Waits, SameHud, W
    <2>10. OneHides /\ (~StalemateEnabled \/ ~t.over) => Waits(t)
      BY <1>2, <2>4, <2>8, <2>9 DEF More, Hud, T
    <2>11. Asked(t) /\ (waited => Traced(t))
      BY <2>2, <2>3, <2>7 DEF More, Asked, Traced, SameHud, SameRound
    <2>12. Spare(t) BY <2>2, <2>4, <2>7, <2>8 DEF More, Hidden, Spare, Bare, SameHud
    <2>13. Between(t, waited) BY <2>10, <2>11, <2>12 DEF Between
    <2> QED BY <2>2, <2>3, <2>5, <2>7, <2>13 DEF SameHud, SameRound
  <1> QED BY <1>1, <1>2

\* Entering the states of a round.
LEMMA PregameDoes ==
  ASSUME NEW s \in RulesType, NEW waited, Between(s, waited), OneWin => RoundsLeft(s)
  PROVE  More(State_Enter_PREGAME(s), waited)
  <1> DEFINE t == State_Enter_PREGAME(s)
  <1>1. SameHud(s, t) BY ZenonT(60) DEF State_Enter_PREGAME, RulesType, SameHud
  <1>2. SameRound(s, t) BY ZenonT(60) DEF State_Enter_PREGAME, RulesType, SameRound
  <1>3. t.over = s.over /\ t.state = "PREGAME"
    BY ZenonT(60) DEF State_Enter_PREGAME, RulesType
  <1>4. s.rounds \in Nat BY ZenonT(60) DEF RulesType
  <1> HIDE DEF t
  <1>5. Between(t, waited)
    BY <1>1, <1>2, <1>3 DEF Between, Waits, Spare, Bare, Asked, Traced, SameHud, SameRound
  <1>6. (OneWin => RoundsLeft(t)) /\ t.rounds \in Nat
    BY <1>2, <1>4 DEF RoundsLeft, SameRound
  <1>7. More(t, waited) BY <1>3, <1>5, <1>6, Lands
  <1> QED BY <1>7 DEF t

\* State_Enter_STARTGAME sets a deadline and nothing else.
LEMMA StartgameDoes ==
  ASSUME NEW s \in RulesType, NEW waited, Between(s, waited), OneWin => RoundsLeft(s)
  PROVE  More(State_Enter_STARTGAME(s), waited)
  <1> DEFINE t == State_Enter_STARTGAME(s)
  <1>1. SameHud(s, t) BY ZenonT(60) DEF State_Enter_STARTGAME, RulesType, SameHud
  <1>2. SameRound(s, t) BY ZenonT(60) DEF State_Enter_STARTGAME, RulesType, SameRound
  <1>3. t.over = s.over /\ t.state = "STARTGAME"
    BY ZenonT(60) DEF State_Enter_STARTGAME, RulesType
  <1>4. s.rounds \in Nat BY ZenonT(60) DEF RulesType
  <1> HIDE DEF t
  <1>5. Between(t, waited)
    BY <1>1, <1>2, <1>3 DEF Between, Waits, Spare, Bare, Asked, Traced, SameHud, SameRound
  <1>6. (OneWin => RoundsLeft(t)) /\ t.rounds \in Nat
    BY <1>2, <1>4 DEF RoundsLeft, SameRound
  <1>7. More(t, waited) BY <1>3, <1>5, <1>6, Lands
  <1> QED BY <1>7 DEF t

\* State_Enter_PREROUND respawns the round, and cleans the map if it must.
LEMMA PreroundDoes ==
  ASSUME NEW s \in RulesType, W(s), L(s), NEW waited, Between(s, waited), OneWin => RoundsLeft(s)
  PROVE  LET t == State_Enter_PREROUND(s)
         IN  /\ More(t, waited)
             /\ s.reset \/ s.prevWait => t.world = "clean"
             /\ "waitcancel" \notin s.cvars /\ s.prevWait => Traced(t)
  <1> DEFINE a == [s EXCEPT !.state = "PREROUND", !.trans = "pending"]
             t == State_Enter_PREROUND(s)
  <1>1. SameHud(s, a) BY ZenonT(60) DEF RulesType, SameHud
  <1>2. SameRound(s, a) BY ZenonT(60) DEF RulesType, SameRound
  <1>3. a.over = s.over BY ZenonT(60) DEF RulesType
  <1>4. a \in RulesType BY ZenonT(60) DEF RulesType, RoundStates, Deadline
  <1>5. t = RoundRespawn(a) BY DEF State_Enter_PREROUND
  <1>6. t \in RulesType /\ t.state = "PREROUND" BY EnterPreround
  <1> HIDE DEF a, t
  <1>7. W(a) BY <1>1 DEF W, SameHud
  <1>8. Between(a, waited)
    BY <1>1, <1>2, <1>3 DEF Between, Waits, Spare, Bare, Asked, Traced, SameHud, SameRound
  <1>9. /\ Between(t, waited) /\ t.rounds = a.rounds
        /\ a.reset \/ a.prevWait => t.world = "clean"
        /\ "waitcancel" \notin a.cvars /\ a.prevWait => Traced(t)
    BY <1>4, <1>5, <1>7, <1>8, RespawnDoes
  <1>10. t.rounds \in Nat BY ZenonT(60), <1>6 DEF RulesType
  <1>11. OneWin => RoundsLeft(t) BY <1>2, <1>9 DEF RoundsLeft, SameRound
  <1>12. More(t, waited) BY <1>6, <1>9, <1>10, <1>11, Lands
  <1>13. a.reset = s.reset /\ a.prevWait = s.prevWait /\ a.cvars \subseteq s.cvars
    BY <1>2 DEF SameRound
  <1>14. s.reset \/ s.prevWait => t.world = "clean" BY <1>9, <1>13
  <1>15. "waitcancel" \notin s.cvars /\ s.prevWait => Traced(t) BY <1>9, <1>13
  <1> QED BY <1>12, <1>14, <1>15 DEF t

\* State_Enter_RND_RUNNING marks the map as used, by those who wait if anyone does.
LEMMA RunningDoes ==
  ASSUME NEW s \in RulesType, NEW waited, Between(s, waited), OneWin => RoundsLeft(s),
         waited => s.waiting
  PROVE  More(State_Enter_RND_RUNNING(s), waited)
  <1> DEFINE t == State_Enter_RND_RUNNING(s)
  <1>1. SameHud(s, t) BY ZenonT(60) DEF State_Enter_RND_RUNNING, RulesType, SameHud
  <1>2. t.over = s.over /\ t.state = "RND_RUNNING" /\ t.rounds = s.rounds /\ t.cvars = s.cvars
    BY ZenonT(60) DEF State_Enter_RND_RUNNING, RulesType
  <1>3. s.rounds \in Nat BY ZenonT(60) DEF RulesType
  <1> HIDE DEF t
  <1>4. waited => Traced(t) BY <1>1, <1>2 DEF Between, Traced, SameHud
  <1>5. Between(t, waited)
    BY <1>1, <1>2, <1>4 DEF Between, Waits, Spare, Bare, Asked, SameHud
  <1>6. (OneWin => RoundsLeft(t)) /\ t.rounds \in Nat BY <1>2, <1>3 DEF RoundsLeft
  <1>7. More(t, waited) BY <1>2, <1>5, <1>6, Lands
  <1> QED BY <1>7 DEF t

\* A stalemate hides the map's timer behind its own.
LEMMA StalemateDoes ==
  ASSUME NEW s \in RulesType, W(s), NEW waited, Between(s, waited), OneWin => RoundsLeft(s),
         StalemateEnabled, OneHides => ~s.waiting
  PROVE  More(State_Enter_STALEMATE(s), waited) /\ State_Enter_STALEMATE(s).state = "STALEMATE"
  <1> DEFINE a == [s EXCEPT !.state = "STALEMATE"]
             p == RespawnPlayers(a)
             b == HideActiveTimer(p)
             st == IF b.staleTimer = "none" THEN "live" ELSE b.staleTimer
             t == State_Enter_STALEMATE(s)
  <1>1. a \in RulesType BY ZenonT(60) DEF RulesType, RoundStates
  <1>2. SameHud(s, a) BY ZenonT(60) DEF RulesType, SameHud
  <1>3. SameRound(s, a) BY ZenonT(60) DEF RulesType, SameRound
  <1>4. a.over = s.over /\ a.state = "STALEMATE" BY ZenonT(60) DEF RulesType
  <1>5. W(a) BY <1>2 DEF W, SameHud
  <1>6. t = [b EXCEPT !.staleTimer = st, !.staleTime = "running", !.hud = "stale"]
    BY DEF State_Enter_STALEMATE
  <1> HIDE DEF a
  <1>7. Alike(a, p) BY <1>1, <1>5, RespawnAlike DEF RespawnPlayers
  <1> HIDE DEF p
  <1>8. p \in RulesType /\ W(p) BY <1>7 DEF Alike, Keeps
  <1>9. /\ SameRound(p, b) /\ b.waiting = p.waiting /\ b.waitTimer = p.waitTimer
        /\ b.prevTimer = p.hud
        /\ ~p.nested /\ ((p.waiting /\ p.state = "STALEMATE") \/ p.prevTimer = "none") => ~b.nested
    BY <1>8, HideDoes
  <1>10. Keeps(p, b) BY <1>8, Hide
  <1> HIDE DEF b
  <1>11. b \in RulesType /\ b.over = s.over /\ b.state = "STALEMATE"
    BY <1>4, <1>7, <1>10 DEF Alike, Keeps
  <1> HIDE DEF st
  <1>12. SameRound(b, t) BY ZenonT(60), <1>6, <1>11 DEF RulesType, SameRound
  <1>13. /\ t.over = b.over /\ t.state = b.state /\ t.waiting = b.waiting
         /\ t.hud = "stale" /\ t.prevTimer = b.prevTimer /\ t.nested = b.nested
    BY ZenonT(60), <1>6, <1>11 DEF RulesType
  <1> HIDE DEF t
  <1>14. p.waiting = s.waiting /\ p.waitTimer = s.waitTimer /\ p.hud = s.hud
         /\ p.prevTimer = s.prevTimer /\ p.nested = s.nested
    BY <1>2, <1>7 DEF Alike, SameHud
  <1>15. OneHides /\ Waits(s) => Stale(t)
    BY <1>9, <1>13, <1>14 DEF Waits, Stale, W
  <1>16. SameRound(s, t) BY <1>3, <1>7, <1>9, <1>12 DEF Alike, SameRound
  <1>17. OneHides => Hud(t) BY <1>11, <1>13, <1>15 DEF Between, Hud
  <1>18. OneWin => Limit(t)
    <2>1. t.rounds = s.rounds /\ s.rounds \in Nat
      <3>1. s.rounds \in Nat BY ZenonT(60) DEF RulesType
      <3> QED BY <1>16, <3>1 DEF SameRound
    <2> QED BY <2>1, ConstantsAssumption DEF Limit, RoundsLeft
  <1>19. Asked(t) /\ (waited => Traced(t))
    BY <1>9, <1>13, <1>14, <1>16 DEF Between, Asked, Traced, SameRound
  <1>20. Full(t) BY <1>11, <1>13 DEF Full
  <1>21. Hidden(t)
    <2>1. ~s.nested /\ Bare(s) => ~b.nested
      BY <1>4, <1>7, <1>9, <1>14 DEF Bare, W, Alike, Keeps
    <2> QED BY <1>11, <1>13, <2>1 DEF Between, Spare, Hidden
  <1>22. More(t, waited) BY <1>17, <1>18, <1>19, <1>20, <1>21 DEF More
  <1> QED BY <1>11, <1>13, <1>22 DEF t

\* A win is counted once, by a round that was within the limit.
LEMMA TeamWinDoes ==
  ASSUME NEW s \in RulesType, NEW waited, Between(s, waited), OneWin => RoundsLeft(s),
         s.fullWin => s.reset
  PROVE  LET t == State_Enter_TEAM_WIN(s)
         IN  More(t, waited) /\ t.state = "TEAM_WIN" /\ t.over = s.over
  <1> DEFINE n == IF s.reset THEN 1 ELSE 0
             rounds == s.rounds + n
             counted == s.counted + n
             t == State_Enter_TEAM_WIN(s)
  <1>1. s.rounds \in Nat BY ZenonT(60) DEF RulesType
  <1>2. rounds \in Nat /\ rounds <= s.rounds + 1 BY <1>1
  <1>3. t = [s EXCEPT !.state = "TEAM_WIN", !.trans = "pending",
                      !.rounds = rounds, !.counted = counted]
    BY DEF State_Enter_TEAM_WIN
  <1> HIDE DEF n, rounds, counted
  <1>4. SameHud(s, t) BY ZenonT(60), <1>3 DEF RulesType, SameHud
  <1>5. /\ t.state = "TEAM_WIN" /\ t.over = s.over /\ t.rounds = rounds /\ t.cvars = s.cvars
        /\ t.world = s.world /\ t.fullWin = s.fullWin /\ t.reset = s.reset
    BY ZenonT(60), <1>3 DEF RulesType
  <1> HIDE DEF t
  <1>6. OneHides => Hud(t) BY <1>4, <1>5 DEF Between, Hud, Waits, SameHud
  <1>7. OneWin => Limit(t)
    BY <1>1, <1>2, <1>5, ConstantsAssumption DEF Limit, RoundsLeft
  <1>8. Asked(t) /\ (waited => Traced(t))
    BY <1>4, <1>5 DEF Between, Asked, Traced, SameHud
  <1>9. Full(t) /\ Hidden(t)
    BY <1>4, <1>5 DEF Full, Hidden, Between, Spare, Bare, SameHud
  <1> QED BY <1>5, <1>6, <1>7, <1>8, <1>9 DEF More, t

\* A restart ends the waiting period and cleans the map that it was spent on.
LEMMA RestartDoes ==
  ASSUME NEW s \in RulesType, W(s), L(s), NEW waited, Between(s, waited), OneWin => RoundsLeft(s)
  PROVE  More(State_Enter_RESTART(s), waited)
  <1> DEFINE ended == waited /\ s.waiting # TRUE
             a == [s EXCEPT !.prevWait = s.waiting]
             b == SetInWaitingForPlayers(a, FALSE)
             d == ResetScores(b)
             e == ResetMapTime(d)
             t == State_Enter_RESTART(s)
  <1>1. t = State_Enter_PREROUND(e) BY DEF State_Enter_RESTART
  <1>2. a \in RulesType BY ZenonT(60) DEF RulesType
  <1>3. SameHud(s, a) BY ZenonT(60) DEF RulesType, SameHud
  <1>4. /\ a.over = s.over /\ a.rounds = s.rounds /\ a.cvars = s.cvars /\ a.world = s.world
        /\ a.prevWait = s.waiting
    BY ZenonT(60) DEF RulesType
  <1>5. Keeps(s, a) BY ZenonT(60), <1>2 DEF RulesType, W, Keeps
  <1> HIDE DEF a
  <1>6. Keeps(a, b) BY <1>5, SetWaiting DEF Keeps
  <1>7. /\ SameRound(a, b) /\ ~b.waiting /\ (Waits(a) => Waits(b))
        /\ b.nested = a.nested /\ (Bare(a) => Bare(b))
        /\ a.waiting = FALSE => b = a
    BY <1>5, SetWaitingDoes DEF Keeps
  <1> HIDE DEF b
  <1>8. Keeps(b, d) BY <1>6, Scores DEF Keeps
  <1>9. Between(b, ended)
    <2>1. Waits(s) => Waits(b) BY <1>3, <1>7 DEF Waits, SameHud
    <2>2. b.over = s.over BY <1>5, <1>6 DEF Keeps
    <2>3. Asked(b) /\ Spare(b)
      BY <1>3, <1>4, <1>7, <2>2 DEF Between, Asked, Spare, Bare, SameRound, SameHud
    <2>4. ended => Traced(b) BY <1>4, <1>7 DEF Between, Traced, SameRound
    <2> QED BY <2>1, <2>2, <2>3, <2>4 DEF Between
  <1>10. b.rounds = s.rounds /\ b.prevWait = s.waiting /\ b.cvars \subseteq s.cvars
    BY <1>4, <1>7 DEF SameRound
  <1>11. OneWin => RoundsLeft(b) BY <1>10 DEF RoundsLeft
  <1>12. /\ Between(d, ended) /\ (OneWin => RoundsLeft(d))
         /\ d.prevWait = b.prevWait /\ d.cvars = b.cvars
    BY <1>6, <1>9, <1>11, ScoresDo DEF Keeps
  <1> HIDE DEF d
  <1>13. Alike(d, e) BY <1>8, MapTimeAlike DEF Keeps
  <1> HIDE DEF e
  <1>14. e \in RulesType /\ W(e) /\ L(e)
    BY <1>5, <1>6, <1>8, <1>13 DEF Alike, Keeps, L
  <1>15. Between(e, ended) /\ (OneWin => RoundsLeft(e)) BY <1>12, <1>13, AlikeMore
  <1>16. e.prevWait = s.waiting /\ e.cvars \subseteq s.cvars
    BY <1>10, <1>12, <1>13 DEF Alike, SameRound
  <1>17. More(t, ended) /\ ("waitcancel" \notin e.cvars /\ e.prevWait => Traced(t))
    BY <1>1, <1>14, <1>15, PreroundDoes
  <1> HIDE DEF t
  <1>18. waited => Traced(t)
    BY <1>16, <1>17 DEF More, Between, Traced
  <1>19. More(t, waited) BY <1>17, <1>18 DEF More
  <1> QED BY <1>19 DEF t

-----------------------------------------------------------------------------
(* Winners and stalemates                                                  *)

\* SetWinningTeam: a stalemate gives the HUD back, the round is counted if it was a
\* full win, and then the map will be reset.
LEMMA WinDoes ==
  ASSUME NEW s \in RulesType, W(s), T(s), NEW waited, More(s, waited),
         OneWin => RoundsLeft(s), NEW t, NEW full \in BOOLEAN, NEW switch \in BOOLEAN
  PROVE  /\ More(SetWinningTeam(s, t, full, switch), waited)
         /\ SetWinningTeam(s, t, full, switch).state = "TEAM_WIN"
         /\ SetWinningTeam(s, t, full, switch).over = s.over
  <1> DEFINE reward == full \/ (TimeLimit /\ s.timeLeft = "over")
             score == [u \in Teams |-> IF u = t /\ reward THEN s.score[u] + 1 ELSE s.score[u]]
             a == [s EXCEPT !.reset = full, !.fullWin = full, !.switch = switch, !.score = score]
             b == State_Leave(a)
  <1>1. SetWinningTeam(s, t, full, switch) = State_Enter_TEAM_WIN(b) BY DEF SetWinningTeam
  <1>2. score \in [Teams -> Nat] BY DEF RulesType
  <1> HIDE DEF score
  <1>3. a \in RulesType BY ZenonT(60), <1>2 DEF RulesType
  <1>4. Keeps(s, a) BY ZenonT(60), <1>3 DEF RulesType, W, Keeps
  <1>5. SameHud(s, a) BY ZenonT(60) DEF RulesType, SameHud
  <1>6. /\ a.rounds = s.rounds /\ a.cvars = s.cvars /\ a.world = s.world
        /\ a.fullWin = full /\ a.reset = full
    BY ZenonT(60) DEF RulesType
  <1> HIDE DEF a
  <1>7. W(a) /\ T(a) /\ a.over = s.over BY <1>4, KeepsTC DEF Keeps
  <1>8. More(a, waited)
    <2>1. (Waits(s) => Waits(a)) /\ (Stale(s) => Stale(a)) BY <1>5 DEF Waits, Stale, SameHud
    <2>2. Hud(s) => Hud(a) BY <1>4, <2>1 DEF Hud, Keeps
    <2>3. Limit(s) => Limit(a) BY <1>4, <1>6 DEF Limit, RoundsLeft, Keeps
    <2>4. Asked(a) /\ (waited => Traced(a)) BY <1>5, <1>6 DEF More, Asked, Traced, SameHud
    <2>5. Hidden(a) BY <1>4, <1>5 DEF More, Hidden, Bare, SameHud, Keeps
    <2> QED BY <1>6, <2>2, <2>3, <2>4, <2>5 DEF More, Full
  <1>9. /\ Between(b, waited) /\ b.rounds = a.rounds /\ b.reset = a.reset /\ b.fullWin = a.fullWin
    BY <1>3, <1>7, <1>8, LeaveDoes
  <1>10. b \in RulesType /\ b.over = s.over BY <1>3, <1>7, Leaving
  <1> HIDE DEF b
  <1>11. (OneWin => RoundsLeft(b)) /\ (b.fullWin => b.reset) BY <1>6, <1>9 DEF RoundsLeft
  <1> QED BY <1>1, <1>9, <1>10, <1>11, TeamWinDoes

\* SetStalemate hides the round timer, which must be the one shown: nobody waits.
LEMMA SetStalemateDoes ==
  ASSUME NEW s \in RulesType, W(s), T(s), NEW waited, More(s, waited),
         OneWin => RoundsLeft(s), StalemateEnabled /\ OneHides => ~s.waiting,
         NEW full \in BOOLEAN, NEW switch \in BOOLEAN
  PROVE  /\ More(SetStalemate(s, full, switch), waited)
         /\ SetStalemate(s, full, switch).state \in {"TEAM_WIN", "STALEMATE"}
  <1> DEFINE a == [s EXCEPT !.reset = full]
  <1>1. CASE ~StalemateEnabled BY <1>1, WinDoes DEF SetStalemate
  <1>2. CASE StalemateEnabled /\ s.state = "STALEMATE" BY <1>2 DEF SetStalemate
  <1>3. CASE StalemateEnabled /\ s.state # "STALEMATE"
    <2>1. a \in RulesType BY ZenonT(60) DEF RulesType
    <2>2. Keeps(s, a) BY ZenonT(60), <2>1 DEF RulesType, W, Keeps
    <2>3. SameHud(s, a) BY ZenonT(60) DEF RulesType, SameHud
    <2>4. a.rounds = s.rounds /\ a.cvars = s.cvars /\ a.world = s.world
      BY ZenonT(60) DEF RulesType
    <2>5. SetStalemate(s, full, switch) = State_Enter_STALEMATE(State_Leave(a))
      BY <1>3 DEF SetStalemate
    <2> HIDE DEF a
    <2>6. State_Leave(a) = a BY <1>3, <2>2 DEF State_Leave, Keeps
    <2>7. Between(s, waited) BY <1>3, Leaves
    <2>8. Between(a, waited)
      BY <2>2, <2>3, <2>4, <2>7 DEF Between, Keeps, Waits, Spare, Bare, Asked, Traced, SameHud
    <2>9. (OneWin => RoundsLeft(a)) /\ (OneHides => ~a.waiting)
      BY <1>3, <2>3, <2>4 DEF RoundsLeft, SameHud
    <2>10. W(a) BY <2>2 DEF Keeps
    <2> QED BY <1>3, <2>1, <2>5, <2>6, <2>8, <2>9, <2>10, StalemateDoes
  <1> QED BY <1>1, <1>2, <1>3

-----------------------------------------------------------------------------
(* The thinks of the states                                                *)

\* What a state that may be left to another has.
LEMMA InPlay ==
  ASSUME NEW s, Good(s), ~s.over, NEW waited, More(s, waited),
         s.state \notin {"TEAM_WIN", "STALEMATE"}
  PROVE  s \in RulesType /\ W(s) /\ L(s) /\ Between(s, waited) /\ (OneWin => RoundsLeft(s))
  <1>1. s \in RulesType /\ W(s) /\ L(s) /\ s.state # "GAME_OVER" BY DEF Good, T, L
  <1>2. Between(s, waited) BY Leaves
  <1> QED BY <1>1, <1>2 DEF More, Limit

\* The thinks of PREGAME, STARTGAME and PREROUND.
LEMMA PregameMore ==
  ASSUME NEW s, Good(s), ~s.over, NEW waited, More(s, waited), s.state = "PREGAME", NEW c
  PROVE  More(State_Think_PREGAME(s, c), waited)
  <1> DEFINE w == CheckRespawnWaves(s, c)
  <1>1. Alike(s, w) BY RespawnAlike DEF Good, CheckRespawnWaves
  <1> HIDE DEF w
  <1>2. w \in RulesType BY <1>1 DEF Alike, Keeps
  <1>3. Between(w, waited) /\ (OneWin => RoundsLeft(w)) /\ More(w, waited)
    BY <1>1, InPlay, AlikeMore
  <1>4. More(State_Enter_STARTGAME(w), waited) BY <1>2, <1>3, StartgameDoes
  <1> QED BY <1>3, <1>4 DEF State_Think_PREGAME, w

LEMMA StartgameMore ==
  ASSUME NEW s, Good(s), ~s.over, NEW waited, More(s, waited), s.state = "STARTGAME"
  PROVE  More(State_Think_STARTGAME(s), waited)
  <1> DEFINE w == SetInWaitingForPlayers(s, TRUE)
             a == IF WaitForPlayers THEN w ELSE s
  <1>1. s \in RulesType /\ W(s) /\ L(s) /\ Between(s, waited) /\ (OneWin => RoundsLeft(s))
    BY InPlay
  <1>2. /\ SameRound(s, w) /\ w.waiting /\ (Waits(s) => Waits(w))
        /\ w.nested = s.nested /\ (Bare(s) => Bare(w))
    BY <1>1, SetWaitingDoes
  <1>3. Keeps(s, w) BY <1>1, SetWaiting
  <1> HIDE DEF w
  <1>4. WaitForPlayers => Between(w, waited)
    BY <1>1, <1>2, <1>3 DEF Between, Spare, Keeps, Asked, Traced, SameRound
  <1>5. w \in RulesType /\ W(w) /\ L(w) /\ (OneWin => RoundsLeft(w))
    BY <1>1, <1>2, <1>3 DEF Keeps, L, RoundsLeft, SameRound
  <1>6. a \in RulesType /\ W(a) /\ L(a) /\ Between(a, waited) /\ (OneWin => RoundsLeft(a))
    BY <1>1, <1>4, <1>5
  <1> HIDE DEF a
  <1>7. More(State_Enter_PREROUND(a), waited) BY <1>6, PreroundDoes
  <1> QED BY <1>7 DEF State_Think_STARTGAME, a, w

LEMMA PreroundMore ==
  ASSUME NEW s, Good(s), ~s.over, NEW waited, More(s, waited), waited => s.waiting,
         s.state = "PREROUND", NEW c \in Choices
  PROVE  More(State_Think_PREROUND(s, c), waited)
  <1> DEFINE a == IF s.trans = "passed" THEN State_Enter_RND_RUNNING(s) ELSE s
  <1>1. s \in RulesType /\ W(s) /\ L(s) /\ Between(s, waited) /\ (OneWin => RoundsLeft(s))
    BY InPlay
  <1>2. More(a, waited) BY <1>1, RunningDoes
  <1>3. a \in RulesType /\ W(a) BY <1>1, EnterRunning
  <1> HIDE DEF a
  <1>4. Alike(a, CheckRespawnWaves(a, c)) BY <1>3, RespawnAlike DEF CheckRespawnWaves
  <1>5. More(CheckRespawnWaves(a, c), waited) BY <1>2, <1>4, AlikeMore
  <1> QED BY <1>5 DEF State_Think_PREROUND, a

\* The next round begins only below the limit, and on a clean map after a full win.
LEMMA TeamWinMore ==
  ASSUME NEW s, Good(s), ~s.over, NEW waited, More(s, waited), s.state = "TEAM_WIN", NEW c
  PROVE  LET t == State_Think_TEAM_WIN(s, c)
         IN  /\ More(t, waited)
             /\ s.fullWin /\ t.state = "PREROUND" => t.world = "clean"
  <1> DEFINE t == State_Enter_PREROUND(s)
             o == GoToIntermission(s)
  <1>1. s \in RulesType /\ W(s) /\ L(s) BY DEF Good, T, L
  <1>2. Between(s, waited) BY Leaves
  <1>3. s.fullWin => s.reset BY DEF More, Full
  <1>4. ~MaxRoundsReached(s) => RoundsLeft(s)
    <2>1. s.rounds \in Nat BY <1>1, ZenonT(60) DEF RulesType
    <2> QED BY <2>1, ConstantsAssumption DEF MaxRoundsReached, RoundsLeft
  <1>5. ~MaxRoundsReached(s) => More(t, waited) /\ (s.reset => t.world = "clean")
    BY <1>1, <1>2, <1>4, PreroundDoes
  <1>6. More(o, waited) /\ o.state = "GAME_OVER" BY <1>1, EndDoes, Ending
  <1> HIDE DEF t, o
  <1>7. \/ State_Think_TEAM_WIN(s, c) = s
        \/ State_Think_TEAM_WIN(s, c) = o
        \/ ~MaxRoundsReached(s) /\ State_Think_TEAM_WIN(s, c) = t
    BY DEF State_Think_TEAM_WIN, t, o
  <1> QED BY <1>3, <1>5, <1>6, <1>7

\* What State_Think_RND_RUNNING does, call by call: a restart that is due, the ready
\* restart, the captures and the time limit.
LEMMA RestartingMore ==
  ASSUME NEW s, Good(s), ~s.over, NEW waited, More(s, waited), s.state = "RND_RUNNING"
  PROVE  More(TimeToRestart(s), waited)
  <1> DEFINE a == State_Enter_RESTART(s)
             b == [a EXCEPT !.restart = "off"]
  <1>1. s \in RulesType /\ W(s) /\ L(s) /\ Between(s, waited) /\ (OneWin => RoundsLeft(s))
    BY InPlay
  <1>2. More(a, waited) BY <1>1, RestartDoes
  <1>3. a \in RulesType /\ W(a) BY <1>1, EnterRestart
  <1> HIDE DEF a
  <1>4. b \in RulesType BY ZenonT(60), <1>3 DEF RulesType, Deadline
  <1>5. Keeps(a, b) BY ZenonT(60), <1>3, <1>4 DEF RulesType, W, Keeps
  <1>6. SameHud(a, b) BY ZenonT(60), <1>3 DEF RulesType, SameHud
  <1>7. SameRound(a, b) BY ZenonT(60), <1>3 DEF RulesType, SameRound
  <1>8. More(b, waited) BY <1>2, <1>5, <1>6, <1>7, AlikeMore DEF Alike
  <1> QED BY <1>8 DEF TimeToRestart, a

LEMMA ReadyAlike ==
  ASSUME NEW s, Good(s) PROVE Alike(s, ReadyRestart(s))
  <1> DEFINE a == [s EXCEPT !.restart = "pending", !.ready = FALSE]
  <1> s \in RulesType /\ W(s) BY DEF Good
  <1>1. a \in RulesType BY ZenonT(60) DEF RulesType, Deadline
  <1>2. Keeps(s, a) BY ZenonT(60), <1>1 DEF RulesType, W, Keeps
  <1>3. SameHud(s, a) BY ZenonT(60) DEF RulesType, SameHud
  <1>4. SameRound(s, a) BY ZenonT(60) DEF RulesType, SameRound
  <1>5. Alike(s, s) BY AlikeSelf
  <1> HIDE DEF a
  <1>6. ReadyRestart(s) = s \/ ReadyRestart(s) = a BY DEF ReadyRestart, a
  <1> QED BY <1>2, <1>3, <1>4, <1>5, <1>6 DEF Alike

LEMMA CapsMore ==
  ASSUME NEW s, Good(s), ~s.over, NEW waited, More(s, waited), s.state # "TEAM_WIN", NEW c
  PROVE  More(CheckCapsPerRound(s, c), waited)
  <1>1. s \in RulesType /\ W(s) /\ T(s) /\ (OneWin => RoundsLeft(s))
    BY DEF Good, T, More, Limit
  <1>2. More(SetWinningTeam(s, c.caps, TRUE, FALSE), waited) BY <1>1, WinDoes
  <1> QED BY <1>2 DEF CheckCapsPerRound

LEMMA TimeLimitMore ==
  ASSUME NEW s, Good(s), ~s.over, NEW waited, More(s, waited), NEW c
  PROVE  More(TimeLimitComing(s, c), waited)
  <1> DEFINE a == [s EXCEPT !.lastRound = TRUE]
             r == TimeLimitComing(s, c)
             u == SetStalemate(a, FALSE, FALSE)
  <1>1. s \in RulesType /\ W(s) /\ T(s) BY DEF Good
  <1>2. Alike(s, a)
    <2>1. a \in RulesType BY ZenonT(60), <1>1 DEF RulesType
    <2>2. Keeps(s, a) BY ZenonT(60), <1>1, <2>1 DEF RulesType, W, Keeps
    <2>3. SameHud(s, a) BY ZenonT(60), <1>1 DEF RulesType, SameHud
    <2>4. SameRound(s, a) BY ZenonT(60), <1>1 DEF RulesType, SameRound
    <2> QED BY <2>2, <2>3, <2>4 DEF Alike
  <1> HIDE DEF a
  <1>3. a \in RulesType /\ W(a) /\ T(a) /\ ~a.over
    BY <1>1, <1>2, KeepsTC DEF Alike, Keeps
  <1>4. ASSUME s.state = "RND_RUNNING", StalemateOnTimeLimit, TimeLimit
        PROVE  More(u, waited)
    <2>1. More(a, waited) BY <1>2, AlikeMore
    <2>2. OneWin => RoundsLeft(a)
      BY <1>2, <1>4, <2>1 DEF Alike, Keeps, More, Limit
    <2>3. StalemateEnabled /\ OneHides => ~a.waiting
      BY <1>4, <2>1 DEF OneHides, More, Asked
    <2> QED BY <1>3, <2>1, <2>2, <2>3, SetStalemateDoes
  <1>5. More(GoToIntermission(s), waited) BY <1>1, EndDoes
  <1>6. s.state = "RND_RUNNING" => More(CheckCapsPerRound(s, c), waited) BY CapsMore
  <1> HIDE DEF u
  <1>7. \/ r = s
        \/ r = GoToIntermission(s)
        \/ s.state = "RND_RUNNING" /\ r = CheckCapsPerRound(s, c)
        \/ s.state = "RND_RUNNING" /\ StalemateOnTimeLimit /\ TimeLimit /\ r = u
    BY DEF TimeLimitComing, u, a
  <1> HIDE DEF r
  <1>8. More(r, waited) BY <1>4, <1>5, <1>6, <1>7
  <1> QED BY <1>8 DEF r

LEMMA RunningMore ==
  ASSUME NEW s, Good(s), ~s.over, s.staleTimer # "dying", NEW waited, More(s, waited),
         s.state = "RND_RUNNING", NEW c \in Choices
  PROVE  More(State_Think_RND_RUNNING(s, c), waited)
  <1> DEFINE w == CheckRespawnWaves(s, c)
             x == TimeToRestart(w)
             y == ReadyRestart(x)
  <1>1. Alike(s, w) BY RespawnAlike DEF Good, CheckRespawnWaves
  <1>2. Good(w) /\ More(w, waited) /\ ~w.over /\ w.state = "RND_RUNNING"
    BY <1>1, KeepsGood, AlikeMore DEF Alike, Keeps
  <1> HIDE DEF w
  <1>3. Good(x) /\ More(x, waited) BY <1>2, Restarting, RestartingMore
  <1>4. ~x.over
    <2>1. CASE w.restart # "passed" BY <1>2, <2>1 DEF TimeToRestart
    <2>2. CASE w.restart = "passed"
      <3>1. L(w) BY <1>2 DEF Good, T, L
      <3>2. State_Enter_RESTART(w) \in RulesType /\ State_Enter_RESTART(w).over = w.over
        BY <1>2, <3>1, EnterRestart DEF Good
      <3>3. x = [State_Enter_RESTART(w) EXCEPT !.restart = "off"] BY <2>2 DEF TimeToRestart
      <3> QED BY ZenonT(60), <1>2, <3>2, <3>3 DEF RulesType
    <2> QED BY <2>1, <2>2
  <1> HIDE DEF x
  <1>5. Alike(x, y) BY <1>3, ReadyAlike
  <1>6. Good(y) /\ More(y, waited) /\ ~y.over
    BY <1>3, <1>4, <1>5, KeepsGood, AlikeMore DEF Alike, Keeps
  <1> HIDE DEF y
  <1>7. More(TimeLimitComing(y, c), waited) BY <1>6, TimeLimitMore
  <1>8. More(State_Enter_PREGAME(s), waited) BY InPlay, PregameDoes
  <1> QED BY <1>7, <1>8 DEF State_Think_RND_RUNNING, w, x, y

\* A stalemate is decided, or its players leave.
LEMMA StalemateMore ==
  ASSUME NEW s, Good(s), ~s.over, NEW waited, More(s, waited), s.state = "STALEMATE",
         NEW c \in Choices
  PROVE  More(State_Think_STALEMATE(s, c), waited)
  <1> DEFINE last == CHOOSE t \in {t \in Teams : s.team[t] = "alive"} : TRUE
             full == MasterFullWin(c.facts)
             a == State_Leave(s)
             r == State_Think_STALEMATE(s, c)
  <1>1. /\ s \in RulesType /\ W(s) /\ T(s) /\ (OneWin => RoundsLeft(s))
        /\ (Master # "none" => ~OneWin)
    BY DEF Good, T, More, Limit, OneWin
  <1>2. s.reset \in BOOLEAN /\ full \in BOOLEAN BY <1>1 DEF RulesType, MasterFullWin
  <1>3. More(State_Enter_PREGAME(a), waited)
    <2>1. a \in RulesType BY <1>1, Leaving
    <2>2. Between(a, waited) /\ a.rounds = s.rounds BY <1>1, LeaveDoes
    <2> HIDE DEF a
    <2>3. OneWin => RoundsLeft(a) BY <1>1, <2>2 DEF RoundsLeft
    <2> QED BY <2>1, <2>2, <2>3, PregameDoes
  <1> HIDE DEF last, full
  <1>4. More(SetWinningTeam(s, last, s.reset, FALSE), waited) BY <1>1, <1>2, WinDoes
  <1>5. More(SetWinningTeam(s, NoTeam, Master # "rounds", FALSE), waited) BY <1>1, WinDoes
  <1>6. Master # "none" => More(SetWinnerAndForceCaps(s, last, c), waited)
    <2> DEFINE switch == full /\ SwitchOnWin
               b == SetWinningTeam(s, last, full, switch)
    <2>0. switch \in BOOLEAN BY <1>2, ConstantsAssumption
    <2> HIDE DEF switch
    <2>1. More(b, waited) /\ b.over = s.over BY <1>1, <1>2, <2>0, WinDoes
    <2>2. b \in RulesType /\ W(b) /\ T(b) BY <1>1, <1>2, <2>0, Winning
    <2> HIDE DEF b
    <2>3. Master # "none" => More(SetWinningTeam(b, last, full, switch), waited)
      BY <1>1, <1>2, <2>0, <2>1, <2>2, WinDoes
    <2> QED BY <2>3 DEF SetWinnerAndForceCaps, b, full, switch
  <1>7. \/ r = State_Enter_PREGAME(a)
        \/ Master # "none" /\ r = SetWinnerAndForceCaps(s, last, c)
        \/ r = SetWinningTeam(s, last, s.reset, FALSE)
        \/ r = SetWinningTeam(s, NoTeam, Master # "rounds", FALSE)
        \/ r = s
    BY DEF State_Think_STALEMATE, last
  <1> HIDE DEF r
  <1>8. More(r, waited) BY <1>3, <1>4, <1>5, <1>6, <1>7
  <1> QED BY <1>8 DEF r

\* The think of whatever state there is.
LEMMA ThinkMore ==
  ASSUME NEW s, Good(s), ~s.over, s.staleTimer # "dying", NEW waited, More(s, waited),
         waited => s.waiting, NEW c \in Choices
  PROVE  More(State_Think(s, c), waited)
  <1>1. CASE s.state = "PREGAME" BY <1>1, PregameMore DEF State_Think
  <1>2. CASE s.state = "STARTGAME" BY <1>2, StartgameMore DEF State_Think
  <1>3. CASE s.state = "PREROUND" BY <1>3, PreroundMore DEF State_Think
  <1>4. CASE s.state = "RND_RUNNING" BY <1>4, RunningMore DEF State_Think
  <1>5. CASE s.state = "TEAM_WIN" BY <1>5, TeamWinMore DEF State_Think
  <1>6. CASE s.state = "STALEMATE" BY <1>6, StalemateMore DEF State_Think
  <1>7. CASE s.state \notin {"PREGAME", "STARTGAME", "PREROUND", "RND_RUNNING", "TEAM_WIN", "STALEMATE"}
    BY <1>7 DEF State_Think
  <1> QED BY <1>1, <1>2, <1>3, <1>4, <1>5, <1>6, <1>7

-----------------------------------------------------------------------------
(* The periodic checks.  They leave the map alone.                         *)

\* CheckRestartRound: only mp_restartround forgets a full win.
LEMMA RestartAsked ==
  ASSUME NEW s, Good(s), NEW waited, More(s, waited)
  PROVE  More(CheckRestartRound(s), waited) /\ CheckRestartRound(s).world = s.world
  <1> DEFINE cv == s.cvars \ {"readyrestart"}
             a == [s EXCEPT !.ready = TRUE, !.teamReady = {}, !.restart = "off", !.cvars = cv]
             r == IF "readyrestart" \notin s.cvars THEN s ELSE a
             full == "restartgame" \in s.cvars
             cw == r.cvars \ {"restartround", "restartgame"}
             won == r.fullWin /\ full
             b == [r EXCEPT !.reset = full, !.fullWin = won, !.restart = "pending",
                            !.cvars = cw, !.ready = FALSE]
  <1> s \in RulesType /\ W(s) BY DEF Good
  <1>1. cv \in SUBSET AllCvars /\ {} \in SUBSET Teams BY DEF RulesType
  <1>2. Alike(s, a)
    <2> HIDE DEF cv
    <2>1. a \in RulesType BY ZenonT(60), <1>1 DEF RulesType, Deadline
    <2>2. Keeps(s, a) BY ZenonT(60), <2>1 DEF RulesType, W, Keeps
    <2>3. SameHud(s, a) BY ZenonT(60) DEF RulesType, SameHud
    <2>4. /\ a.rounds = s.rounds /\ a.fullWin = s.fullWin /\ a.world = s.world
          /\ a.reset = s.reset /\ a.prevWait = s.prevWait /\ a.cvars = cv
      BY ZenonT(60) DEF RulesType
    <2>5. cv \subseteq s.cvars BY DEF cv
    <2> QED BY <2>2, <2>3, <2>4, <2>5 DEF Alike, SameRound
  <1>3. Alike(s, s) BY AlikeSelf
  <1>4. r.cvars \cap {"restartround", "restartgame"} = s.cvars \cap {"restartround", "restartgame"}
    <2> HIDE DEF cv
    <2>1. a.cvars = cv BY ZenonT(60) DEF RulesType
    <2> QED BY <2>1 DEF cv
  <1>5. CheckRestartRound(s) = IF r.cvars \cap {"restartround", "restartgame"} = {} THEN r ELSE b
    BY Zenon DEF CheckRestartRound
  <1> HIDE DEF a
  <1>6. Alike(s, r) BY <1>2, <1>3
  <1> HIDE DEF r
  <1>7. More(r, waited) /\ r \in RulesType /\ r.world = s.world
    BY <1>6, AlikeMore DEF Alike, Keeps, SameRound
  <1>8. won => full OBVIOUS
  <1> HIDE DEF full, cw, won
  <1>9. SameHud(r, b) BY ZenonT(60), <1>7 DEF RulesType, SameHud
  <1>10. /\ b.state = r.state /\ b.over = r.over /\ b.rounds = r.rounds /\ b.fullWin = won
         /\ b.world = r.world /\ b.reset = full /\ b.cvars = cw
    BY ZenonT(60), <1>7 DEF RulesType
  <1>11. cw \subseteq r.cvars BY DEF cw
  <1> HIDE DEF b
  <1>12. More(b, waited)
    <2>1. (Waits(r) => Waits(b)) /\ (Stale(r) => Stale(b)) BY <1>9 DEF Waits, Stale, SameHud
    <2>2. Hud(r) => Hud(b) BY <1>10, <2>1 DEF Hud
    <2>3. Limit(r) => Limit(b) BY <1>10 DEF Limit, RoundsLeft
    <2>4. Asked(b) /\ (waited => Traced(b))
      BY <1>7, <1>9, <1>10, <1>11 DEF More, Asked, Traced, SameHud
    <2>5. Full(b) BY <1>8, <1>10 DEF Full
    <2>6. Hidden(r) => Hidden(b) BY <1>9, <1>10 DEF Hidden, Bare, SameHud
    <2> QED BY <1>7, <2>2, <2>3, <2>4, <2>5, <2>6 DEF More
  <1> QED BY <1>5, <1>7, <1>10, <1>12

\* Waiting begins only where no stalemate can hide its timer, and ends with it.
LEMMA WaitAsked ==
  ASSUME NEW s, Good(s), NEW waited, More(s, waited), NEW b \in BOOLEAN,
         b => ~(OneHides /\ StalemateEnabled), waited => b,
         NEW t \in RulesType, Keeps(SetInWaitingForPlayers(s, b), t),
         SameHud(SetInWaitingForPlayers(s, b), t), SameRound(SetInWaitingForPlayers(s, b), t)
  PROVE  More(t, waited) /\ t.world = s.world
  <1> DEFINE x == SetInWaitingForPlayers(s, b)
  <1> s \in RulesType /\ W(s) BY DEF Good
  <1>1. /\ SameRound(s, x) /\ x.waiting = b /\ (Waits(s) => Waits(x)) /\ (s.waiting = b => x = s)
        /\ x.nested = s.nested /\ (Bare(s) => Bare(x))
    BY SetWaitingDoes
  <1>2. Keeps(s, x) BY SetWaiting
  <1> HIDE DEF x
  <1>3. Stale(s) /\ ~b => Stale(x)
    <2>1. s.waiting \in BOOLEAN BY ZenonT(60) DEF RulesType
    <2> QED BY <1>1, <2>1 DEF Stale
  <1>4. OneHides => Hud(x)
    <2>1. CASE ~StalemateEnabled
      <3>1. s.state # "STALEMATE" BY <2>1 DEF Good, T
      <3> QED BY <1>1, <1>2, <2>1, <3>1 DEF More, Hud, Keeps
    <2>2. CASE StalemateEnabled
      BY <1>1, <1>2, <1>3, <2>2 DEF More, Hud, Keeps
    <2> QED BY <2>1, <2>2
  <1>5. Asked(x) /\ Hidden(x) BY <1>1, <1>2 DEF More, Asked, Hidden, SameRound, Keeps
  <1>6. waited => Traced(x) BY <1>1 DEF More, Traced, SameRound
  <1>7. (OneWin => Limit(x)) /\ Full(x)
    BY <1>1, <1>2 DEF More, Limit, RoundsLeft, Full, Keeps, SameRound
  <1>8. More(x, waited) BY <1>4, <1>5, <1>6, <1>7 DEF More
  <1>9. Alike(x, t) BY DEF Alike, x
  <1>10. More(t, waited) BY <1>8, <1>9, AlikeMore
  <1> QED BY <1>1, <1>9, <1>10 DEF Alike, SameRound

\* mp_waitingforplayers_restart begins a waiting period without its timer.
LEMMA WaitRestarting ==
  ASSUME NEW s, Good(s), NEW waited, More(s, waited)
  PROVE  /\ More(WaitRestart(s), waited) /\ Keeps(s, WaitRestart(s))
         /\ WaitRestart(s).world = s.world
  <1> DEFINE x == SetInWaitingForPlayers(s, TRUE)
             cv == x.cvars \ {"waitrestart"}
             a == [x EXCEPT !.waitEnds = "pending", !.cvars = cv]
  <1>1. CASE "waitrestart" \notin s.cvars BY <1>1 DEF WaitRestart, Good, Keeps
  <1>2. CASE "waitrestart" \in s.cvars
    <2>1. WaitRestart(s) = a BY <1>2 DEF WaitRestart
    <2>2. Keeps(s, x) BY SetWaiting DEF Good
    <2> HIDE DEF x
    <2>3. x \in RulesType /\ cv \in SUBSET AllCvars BY <2>2 DEF Keeps, RulesType
    <2>4. cv \subseteq x.cvars OBVIOUS
    <2> HIDE DEF cv
    <2>5. a \in RulesType BY ZenonT(60), <2>3 DEF RulesType, Deadline
    <2>6. Keeps(x, a) BY ZenonT(60), <2>2, <2>3, <2>5 DEF RulesType, W, Keeps
    <2>7. SameHud(x, a) BY ZenonT(60), <2>3 DEF RulesType, SameHud
    <2>8. SameRound(x, a)
      <3>1. /\ a.rounds = x.rounds /\ a.fullWin = x.fullWin /\ a.world = x.world
            /\ a.reset = x.reset /\ a.prevWait = x.prevWait /\ a.cvars = cv
        BY ZenonT(60), <2>3 DEF RulesType
      <3> QED BY <2>4, <3>1 DEF SameRound
    <2> HIDE DEF a
    <2>9. ~(OneHides /\ StalemateEnabled) BY <1>2 DEF More, Asked
    <2>10. More(a, waited) /\ a.world = s.world BY <2>5, <2>6, <2>7, <2>8, <2>9, WaitAsked DEF x
    <2>11. Keeps(s, a) BY <2>2, <2>6 DEF Keeps
    <2> QED BY <2>1, <2>10, <2>11
  <1> QED BY <1>1, <1>2

\* mp_waitingforplayers_cancel ends it, and gives the HUD back.
LEMMA WaitCancelling ==
  ASSUME NEW s, Good(s), NEW waited, More(s, waited)
  PROVE  /\ More(WaitCancel(s), waited) /\ Keeps(s, WaitCancel(s))
         /\ WaitCancel(s).world = s.world
  <1> DEFINE x == SetInWaitingForPlayers(s, FALSE)
             cv == x.cvars \ {"waitcancel"}
             a == [x EXCEPT !.cvars = cv]
  <1>1. CASE "waitcancel" \notin s.cvars BY <1>1 DEF WaitCancel, Good, Keeps
  <1>2. CASE "waitcancel" \in s.cvars
    <2>1. WaitCancel(s) = a BY <1>2 DEF WaitCancel
    <2>2. Keeps(s, x) BY SetWaiting DEF Good
    <2> HIDE DEF x
    <2>3. x \in RulesType /\ cv \in SUBSET AllCvars BY <2>2 DEF Keeps, RulesType
    <2>4. cv \subseteq x.cvars OBVIOUS
    <2> HIDE DEF cv
    <2>5. a \in RulesType BY ZenonT(60), <2>3 DEF RulesType
    <2>6. Keeps(x, a) BY ZenonT(60), <2>2, <2>3, <2>5 DEF RulesType, W, Keeps
    <2>7. SameHud(x, a) BY ZenonT(60), <2>3 DEF RulesType, SameHud
    <2>8. SameRound(x, a)
      <3>1. /\ a.rounds = x.rounds /\ a.fullWin = x.fullWin /\ a.world = x.world
            /\ a.reset = x.reset /\ a.prevWait = x.prevWait /\ a.cvars = cv
        BY ZenonT(60), <2>3 DEF RulesType
      <3> QED BY <2>4, <3>1 DEF SameRound
    <2> HIDE DEF a
    <2>9. waited => FALSE BY <1>2 DEF More, Traced
    <2>10. \A b \in BOOLEAN : x = SetInWaitingForPlayers(s, b) /\ (b => ~(OneHides /\ StalemateEnabled)) /\ (waited => b)
                            => More(a, waited) /\ a.world = s.world
      BY <2>5, <2>6, <2>7, <2>8, WaitAsked
    <2>11. More(a, waited) /\ a.world = s.world BY <2>9, <2>10 DEF x
    <2>12. Keeps(s, a) BY <2>2, <2>6 DEF Keeps
    <2> QED BY <2>1, <2>11, <2>12
  <1> QED BY <1>1, <1>2

\* The timer of the waiting period hides the map's, and no other.
LEMMA WaitingMore ==
  ASSUME NEW s, Good(s), NEW waited, More(s, waited)
  PROVE  More(CheckWaitingForPlayers(s), waited) /\ CheckWaitingForPlayers(s).world = s.world
  <1> DEFINE v == WaitRestart(s)
             w == WaitCancel(v)
             a == [w EXCEPT !.restart = "pending"]
             h == HideActiveTimer(w)
             b == [h EXCEPT !.waitTimer = "live", !.hud = "wait"]
             r == CheckWaitingForPlayers(s)
  <1>1. Good(v) /\ More(v, waited) /\ v.world = s.world BY WaitRestarting, KeepsGood
  <1>2. r = w \/ r = a \/ (w.waiting /\ w.waitTimer = "none" /\ r = b)
    BY DEF CheckWaitingForPlayers
  <1> HIDE DEF v
  <1>3. Good(w) /\ More(w, waited) /\ w.world = s.world BY <1>1, WaitCancelling, KeepsGood
  <1> HIDE DEF w
  <1> w \in RulesType /\ W(w) BY <1>3 DEF Good
  <1>4. Alike(w, a)
    <2>1. a \in RulesType BY ZenonT(60) DEF RulesType, Deadline
    <2>2. Keeps(w, a) BY ZenonT(60), <2>1 DEF RulesType, W, Keeps
    <2>3. SameHud(w, a) BY ZenonT(60) DEF RulesType, SameHud
    <2>4. SameRound(w, a) BY ZenonT(60) DEF RulesType, SameRound
    <2> QED BY <2>2, <2>3, <2>4 DEF Alike
  <1> HIDE DEF a
  <1>5. More(a, waited) /\ a.world = s.world BY <1>3, <1>4, AlikeMore DEF Alike, SameRound
  <1>6. ASSUME w.waiting, w.waitTimer = "none"
        PROVE  More(b, waited) /\ b.world = s.world
    <2>1. /\ SameRound(w, h) /\ h.waiting = w.waiting /\ h.prevTimer = w.hud
          /\ ~w.nested /\ ((w.waiting /\ w.state = "STALEMATE") \/ w.prevTimer = "none") => ~h.nested
      BY HideDoes
    <2>2. Keeps(w, h) BY Hide
    <2> HIDE DEF h
    <2>3. h \in RulesType BY <2>2 DEF Keeps
    <2>4. SameRound(h, b) BY ZenonT(60), <2>3 DEF RulesType, SameRound
    <2>5. /\ b.state = h.state /\ b.over = h.over /\ b.waiting = h.waiting
          /\ b.waitTimer = "live" /\ b.hud = "wait" /\ b.prevTimer = h.prevTimer
          /\ b.nested = h.nested
      BY ZenonT(60), <2>3 DEF RulesType
    <2> HIDE DEF b
    <2>6. b.state = w.state /\ b.over = w.over BY <2>2, <2>5 DEF Keeps
    <2>7. Waits(w) => Waits(b) BY <1>6, <2>1, <2>5 DEF Waits
    <2>8. ~Stale(w) BY <1>6 DEF Stale
    <2>9. OneHides => Hud(b) BY <1>3, <2>6, <2>7, <2>8 DEF More, Hud
    <2>10. SameRound(w, b) BY <2>1, <2>4 DEF SameRound
    <2>11. Asked(b) BY <1>3, <2>1, <2>5, <2>10 DEF More, Asked, SameRound
    <2>12. waited => Traced(b) BY <1>3, <2>1, <2>5, <2>10 DEF More, Traced, SameRound
    <2>13. (OneWin => Limit(b)) /\ Full(b)
      BY <1>3, <2>6, <2>10 DEF More, Limit, RoundsLeft, Full, SameRound
    <2>14. Hidden(b) BY <1>3, <1>6, <2>1, <2>5, <2>6 DEF More, Hidden, Bare
    <2> QED BY <1>3, <2>9, <2>10, <2>11, <2>12, <2>13, <2>14 DEF More, SameRound
  <1> HIDE DEF b
  <1>7. More(r, waited) /\ r.world = s.world BY <1>2, <1>3, <1>5, <1>6
  <1> QED BY <1>7

\* What the rules check in every think ends the game or leaves the state alone.
LEMMA PeriodicMore ==
  ASSUME NEW s, Good(s), NEW waited, More(s, waited)
  PROVE  /\ More(Periodic(s), waited) /\ Periodic(s).world = s.world
         /\ Periodic(s).state \in {s.state, "GAME_OVER"}
  <1> DEFINE r == CheckRestartRound(s)
             w == CheckWaitingForPlayers(r)
             o == GoToIntermission(s)
  <1>1. Good(r) /\ r.state = s.state BY RestartRequested, KeepsGood DEF Keeps
  <1>2. More(r, waited) /\ r.world = s.world BY RestartAsked
  <1> HIDE DEF r
  <1>3. More(w, waited) /\ w.world = s.world BY <1>1, <1>2, WaitingMore
  <1>4. w.state = s.state BY <1>1, WaitingChecked DEF Keeps
  <1>5. More(o, waited) /\ o.world = s.world /\ o.state = "GAME_OVER"
    BY EndDoes, Ending DEF Good
  <1> HIDE DEF w, o
  <1>6. Periodic(s) = o \/ Periodic(s) = w BY DEF Periodic, w, o, r
  <1> QED BY <1>3, <1>4, <1>5, <1>6

\* The periodic checks follow the think of the state.
LEMMA BaseThinkMore ==
  ASSUME NEW s, Good(s), ~s.over => s.staleTimer # "dying", NEW waited, More(s, waited),
         waited => s.waiting, NEW c \in Choices
  PROVE  /\ More(BaseThink(s, c), waited)
         /\ /\ ~s.over /\ s.state = "TEAM_WIN" /\ s.fullWin
            /\ BaseThink(s, c).state = "PREROUND"
            => BaseThink(s, c).world = "clean"
  <1>1. CASE s.over BY <1>1 DEF BaseThink
  <1>2. CASE ~s.over
    <2> DEFINE t == State_Think(s, c)
               p == Periodic(t)
    <2>1. Good(t) /\ More(t, waited) BY <1>2, Thinking, ThinkMore
    <2>2. s.state = "TEAM_WIN" /\ s.fullWin /\ t.state = "PREROUND" => t.world = "clean"
      BY <1>2, TeamWinMore DEF State_Think
    <2>3. BaseThink(s, c) = t \/ BaseThink(s, c) = p BY <1>2 DEF BaseThink
    <2> HIDE DEF t
    <2>4. More(p, waited) /\ p.world = t.world /\ p.state \in {t.state, "GAME_OVER"}
      BY <2>1, PeriodicMore
    <2> HIDE DEF p
    <2> QED BY <2>1, <2>2, <2>3, <2>4
  <1> QED BY <1>1, <1>2

\* The flags or the frag limit come before either.
LEMMA GameThinkMore ==
  ASSUME NEW s, Good(s), ~s.over, s.staleTimer # "dying", NEW waited, More(s, waited),
         waited => s.waiting, NEW c \in Choices
  PROVE  /\ More(GameThink(s, c), waited)
         /\ s.state = "TEAM_WIN" /\ s.fullWin /\ GameThink(s, c).state = "PREROUND"
            => GameThink(s, c).world = "clean"
  <1> DEFINE o == GoToIntermission(s)
             a == IF "fragLimit" \in c.facts /\ CountActivePlayers(s) THEN o ELSE s
             b == BaseThink(a, c)
             d == CheckCapsPerRound(s, c)
             r == GameThink(s, c)
  <1>1. s.state # "TEAM_WIN" => More(d, waited) BY CapsMore
  <1>2. /\ Good(o) /\ More(o, waited) /\ o.over /\ (waited => o.waiting)
    <2>1. o.waiting = s.waiting BY ZenonT(60) DEF Good, GoToIntermission, RulesType
    <2>2. Good(o) BY EndingGood
    <2>3. More(o, waited) /\ o.over BY EndDoes, Ending DEF Good
    <2> QED BY <2>1, <2>2, <2>3
  <1>3. o.state = "GAME_OVER" BY Ending DEF Good
  <1>4. r = b \/ (s.state # "TEAM_WIN" /\ r = d) BY DEF GameThink
  <1>5. Good(a) /\ More(a, waited) /\ (waited => a.waiting) /\ (~a.over => a.staleTimer # "dying")
    BY <1>2
  <1>6. b.state = "PREROUND" => a = s
    <2>1. a = o => b = o BY <1>2 DEF BaseThink
    <2>2. a = o \/ a = s OBVIOUS
    <2> HIDE DEF a, b, o
    <2> QED BY <1>3, <2>1, <2>2
  <1> HIDE DEF a, o, d
  <1>7. /\ More(b, waited)
        /\ s.state = "TEAM_WIN" /\ s.fullWin /\ b.state = "PREROUND" => b.world = "clean"
    BY <1>5, <1>6, BaseThinkMore
  <1> HIDE DEF b, r
  <1>8. /\ More(r, waited)
        /\ s.state = "TEAM_WIN" /\ s.fullWin /\ r.state = "PREROUND" => r.world = "clean"
    BY <1>1, <1>4, <1>7
  <1> QED BY <1>8 DEF r

-----------------------------------------------------------------------------
(* The actions                                                             *)

WaitedOn == rules.waiting /\ "waitcancel" \notin rules.cvars

\* What a step does.
Stepped ==
  /\ More(rules', FALSE)
  /\ WaitedOn => rules'.waiting \/ rules'.world = "clean"
  /\ rules.state = "TEAM_WIN" /\ rules.fullWin /\ rules'.state = "PREROUND"
     => rules'.world = "clean"

\* Whether someone waits is carried along by a frame, and forgotten after it.
LEMMA Traces ==
  /\ More(rules, FALSE) => More(rules, WaitedOn)
  /\ More(rules', WaitedOn) => More(rules', FALSE) /\ (WaitedOn => rules'.waiting \/ rules'.world = "clean")
  BY DEF More, Traced, WaitedOn

\* A frame, which begins with the deletion list.
LEMMA StepThink ==
  ASSUME Inv, More(rules, FALSE), NEW c \in Choices, Think(c)
  PROVE  Stepped
  <1> DEFINE s == Sweep(rules)
  <1>1. Good(s) /\ ~s.over /\ s.staleTimer # "dying" /\ s.state = rules.state
    <2>1. /\ s \in RulesType /\ W(s) /\ s.state = rules.state /\ s.over = rules.over
          /\ s.counted = rules.counted
          /\ s.staleTimer = IF rules.staleTimer = "dying" THEN "none" ELSE rules.staleTimer
      BY Sweeping DEF Inv, Good
    <2> HIDE DEF s
    <2> QED BY <2>1 DEF Inv, Think, Good, T, C
  <1>2. More(s, WaitedOn) /\ SameRound(rules, s) /\ s.waiting = rules.waiting
    BY Traces, SweepDoes DEF Inv, Good, Think
  <1>3. rules' = GameThink(s, c) BY DEF Think
  <1> HIDE DEF s
  <1>4. WaitedOn => s.waiting BY <1>2 DEF WaitedOn
  <1>5. /\ More(rules', WaitedOn)
        /\ s.state = "TEAM_WIN" /\ s.fullWin /\ rules'.state = "PREROUND"
           => rules'.world = "clean"
    BY <1>1, <1>2, <1>3, <1>4, GameThinkMore
  <1> QED BY <1>1, <1>2, <1>5, Traces DEF Stepped, SameRound

\* A step that leaves alone what the invariant reads.
LEMMA StepQuiet ==
  ASSUME Inv, More(rules, FALSE), NEW r \in RulesType, rules' = r,
         W(r) => Keeps(rules, r), SameHud(rules, r), SameRound(rules, r)
  PROVE  Stepped
  <1>1. W(r) BY DEF Inv, Good, W, SameHud
  <1>2. Alike(rules, r) BY <1>1 DEF Alike
  <1>3. More(rules', FALSE) BY <1>2, AlikeMore
  <1> QED BY <1>2, <1>3 DEF Stepped, WaitedOn, Alike, Keeps, SameHud

\* Deadlines that pass, and players who come and go, leave all of this alone.
LEMMA StepElapse ==
  ASSUME Inv, More(rules, FALSE),
         ElapseWait \/ ElapseRestart \/ ElapseTransition \/ ElapseStalemate \/ ElapseMapTime
  PROVE  Stepped
  <1> rules \in RulesType BY DEF Inv, Good
  <1>1. CASE ElapseWait
    <2> DEFINE r == [rules EXCEPT !.waitEnds = "passed"]
    <2>1. r \in RulesType BY ZenonT(60) DEF RulesType, Deadline
    <2>2. W(r) => Keeps(rules, r) BY ZenonT(60), <2>1 DEF RulesType, Keeps
    <2>3. SameHud(rules, r) BY ZenonT(60) DEF RulesType, SameHud
    <2>4. SameRound(rules, r) BY ZenonT(60) DEF RulesType, SameRound
    <2>5. rules' = r BY <1>1 DEF ElapseWait, Set
    <2> HIDE DEF r
    <2> QED BY <2>1, <2>2, <2>3, <2>4, <2>5, StepQuiet
  <1>2. CASE ElapseRestart
    <2> DEFINE r == [rules EXCEPT !.restart = "passed"]
    <2>1. r \in RulesType BY ZenonT(60) DEF RulesType, Deadline
    <2>2. W(r) => Keeps(rules, r) BY ZenonT(60), <2>1 DEF RulesType, Keeps
    <2>3. SameHud(rules, r) BY ZenonT(60) DEF RulesType, SameHud
    <2>4. SameRound(rules, r) BY ZenonT(60) DEF RulesType, SameRound
    <2>5. rules' = r BY <1>2 DEF ElapseRestart, Set
    <2> HIDE DEF r
    <2> QED BY <2>1, <2>2, <2>3, <2>4, <2>5, StepQuiet
  <1>3. CASE ElapseTransition
    <2> DEFINE r == [rules EXCEPT !.trans = "passed"]
    <2>1. r \in RulesType BY ZenonT(60) DEF RulesType, Deadline
    <2>2. W(r) => Keeps(rules, r) BY ZenonT(60), <2>1 DEF RulesType, Keeps
    <2>3. SameHud(rules, r) BY ZenonT(60) DEF RulesType, SameHud
    <2>4. SameRound(rules, r) BY ZenonT(60) DEF RulesType, SameRound
    <2>5. rules' = r BY <1>3 DEF ElapseTransition, Set
    <2> HIDE DEF r
    <2> QED BY <2>1, <2>2, <2>3, <2>4, <2>5, StepQuiet
  <1>4. CASE ElapseStalemate
    <2> DEFINE r == [rules EXCEPT !.staleTime = "up"]
    <2>1. r \in RulesType BY ZenonT(60) DEF RulesType
    <2>2. W(r) => Keeps(rules, r) BY ZenonT(60), <2>1 DEF RulesType, Keeps
    <2>3. SameHud(rules, r) BY ZenonT(60) DEF RulesType, SameHud
    <2>4. SameRound(rules, r) BY ZenonT(60) DEF RulesType, SameRound
    <2>5. rules' = r BY <1>4 DEF ElapseStalemate, Set
    <2> HIDE DEF r
    <2> QED BY <2>1, <2>2, <2>3, <2>4, <2>5, StepQuiet
  <1>5. CASE ElapseMapTime
    <2> DEFINE m == CASE rules.timeLeft = "early" -> "late"
                      [] rules.timeLeft = "late" -> "ending"
                      [] OTHER -> "over"
               r == [rules EXCEPT !.timeLeft = m]
    <2>1. m \in MapTime BY DEF MapTime
    <2>2. rules' = r BY <1>5 DEF ElapseMapTime, Set
    <2> HIDE DEF m
    <2>3. r \in RulesType BY ZenonT(60), <2>1 DEF RulesType
    <2>4. W(r) => Keeps(rules, r) BY ZenonT(60), <2>3 DEF RulesType, Keeps
    <2>5. SameHud(rules, r) BY ZenonT(60) DEF RulesType, SameHud
    <2>6. SameRound(rules, r) BY ZenonT(60) DEF RulesType, SameRound
    <2> HIDE DEF r
    <2> QED BY <2>2, <2>3, <2>4, <2>5, <2>6, StepQuiet
  <1> QED BY <1>1, <1>2, <1>3, <1>4, <1>5

LEMMA StepPlayers ==
  ASSUME Inv, More(rules, FALSE), NEW t \in Teams
  PROVE  (ReadySignal(t) => Stepped) /\ (\A p \in Presence : TeamBecomes(t, p) => Stepped)
  <1> rules \in RulesType BY DEF Inv, Good
  <1>1. ASSUME ReadySignal(t) PROVE Stepped
    <2> DEFINE ts == rules.teamReady \cup {t}
               r == [rules EXCEPT !.teamReady = ts]
    <2>1. ts \in SUBSET Teams BY DEF RulesType
    <2>2. rules' = r BY <1>1 DEF ReadySignal, Set
    <2> HIDE DEF ts
    <2>3. r \in RulesType BY ZenonT(60), <2>1 DEF RulesType
    <2>4. W(r) => Keeps(rules, r) BY ZenonT(60), <2>3 DEF RulesType, Keeps
    <2>5. SameHud(rules, r) BY ZenonT(60) DEF RulesType, SameHud
    <2>6. SameRound(rules, r) BY ZenonT(60) DEF RulesType, SameRound
    <2> HIDE DEF r
    <2> QED BY <2>2, <2>3, <2>4, <2>5, <2>6, StepQuiet
  <1>2. ASSUME NEW p \in Presence, TeamBecomes(t, p) PROVE Stepped
    <2> DEFINE tm == [rules.team EXCEPT ![t] = p]
               r == [rules EXCEPT !.team = tm]
    <2>1. tm \in [Teams -> Presence] BY DEF RulesType
    <2>2. rules' = r BY <1>2 DEF TeamBecomes, Set
    <2> HIDE DEF tm
    <2>3. r \in RulesType BY ZenonT(60), <2>1 DEF RulesType
    <2>4. W(r) => Keeps(rules, r) BY ZenonT(60), <2>3 DEF RulesType, Keeps
    <2>5. SameHud(rules, r) BY ZenonT(60) DEF RulesType, SameHud
    <2>6. SameRound(rules, r) BY ZenonT(60) DEF RulesType, SameRound
    <2> HIDE DEF r
    <2> QED BY <2>2, <2>3, <2>4, <2>5, <2>6, StepQuiet
  <1> QED BY <1>1, <1>2

\* The operator's commands: only a variable in AdminCvars, or restartgame, is set.
LEMMA StepOperator ==
  ASSUME Inv, More(rules, FALSE), NEW v \in AdminCvars, Request(v)
  PROVE  Stepped
  <1> DEFINE cv == rules.cvars \cup {"restartgame"}
             cw == rules.cvars \cup {v}
             a == [rules EXCEPT !.switch = TRUE, !.keepScores = TRUE, !.cvars = cv]
             b == [rules EXCEPT !.cvars = cw]
             t == rules'
  <1> rules \in RulesType /\ W(rules) BY DEF Inv, Good
  <1>1. t = a \/ t = b BY DEF Request
  <1>2. Asked(rules) /\ OneHides /\ StalemateEnabled
        => "waitrestart" \notin cv /\ "waitrestart" \notin cw
    BY DEF Asked, OneHides
  <1> HIDE DEF cv, cw
  <1>3. a.cvars = cv /\ b.cvars = cw BY ZenonT(60) DEF RulesType
  <1>4. SameHud(rules, a) /\ SameHud(rules, b) BY ZenonT(60) DEF RulesType, SameHud
  <1>5. /\ a.state = rules.state /\ a.over = rules.over /\ a.rounds = rules.rounds
        /\ a.fullWin = rules.fullWin /\ a.reset = rules.reset /\ a.world = rules.world
    BY ZenonT(60) DEF RulesType
  <1>6. /\ b.state = rules.state /\ b.over = rules.over /\ b.rounds = rules.rounds
        /\ b.fullWin = rules.fullWin /\ b.reset = rules.reset /\ b.world = rules.world
    BY ZenonT(60) DEF RulesType
  <1> HIDE DEF a, b
  <1>7. /\ SameHud(rules, t) /\ t.cvars \in {cv, cw}
        /\ t.state = rules.state /\ t.over = rules.over /\ t.rounds = rules.rounds
        /\ t.fullWin = rules.fullWin /\ t.reset = rules.reset /\ t.world = rules.world
    BY <1>1, <1>3, <1>4, <1>5, <1>6
  <1> HIDE DEF t
  <1>8. (Waits(rules) => Waits(t)) /\ (Stale(rules) => Stale(t))
    BY <1>7 DEF SameHud, Waits, Stale
  <1>9. Hud(rules) => Hud(t) BY <1>7, <1>8 DEF Hud
  <1>10. Asked(rules) => Asked(t) BY <1>2, <1>7 DEF Asked, SameHud
  <1>11. /\ Hidden(rules) => Hidden(t)
         /\ Limit(rules) => Limit(t)
         /\ Full(rules) => Full(t)
    BY <1>7 DEF Hidden, Bare, SameHud, Limit, RoundsLeft, Full
  <1>12. More(t, FALSE) BY <1>9, <1>10, <1>11 DEF More
  <1>13. WaitedOn => t.waiting BY <1>7 DEF WaitedOn, SameHud
  <1>14. ~(rules.state = "TEAM_WIN" /\ t.state = "PREROUND") BY <1>7
  <1> QED BY <1>12, <1>13, <1>14 DEF Stepped, t

\* What holds when the map, or the points, may declare a winner.
LEMMA MayWin ==
  ASSUME Inv, More(rules, FALSE), MapMay \/ PointsMayBeCaptured
  PROVE  OneWin => RoundsLeft(rules)
  <1>1. rules.waiting \in BOOLEAN BY DEF Inv, Good, RulesType
  <1>2. OneWin => rules.state \notin {"TEAM_WIN", "GAME_OVER"}
    BY <1>1 DEF OneWin, MapMay, PointsMayBeCaptured
  <1> QED BY <1>2 DEF More, Limit

\* A winner declared from outside.
LEMMA StepWin ==
  ASSUME Inv, More(rules, FALSE), MapMay \/ PointsMayBeCaptured,
         NEW t, NEW full \in BOOLEAN, NEW switch \in BOOLEAN,
         rules' = SetWinningTeam(rules, t, full, switch)
  PROVE  Stepped
  <1>1. rules \in RulesType /\ W(rules) /\ T(rules) BY DEF Inv, Good
  <1>2. More(rules, WaitedOn) BY Traces
  <1>3. More(rules', WaitedOn) /\ rules'.state = "TEAM_WIN"
    BY <1>1, <1>2, MayWin, WinDoes
  <1> QED BY <1>3, Traces DEF Stepped

\* What the map does.
LEMMA StepMap ==
  ASSUME Inv, More(rules, FALSE)
  PROVE  /\ \A t \in Teams, full \in BOOLEAN : MapRoundWin(t, full) => Stepped
         /\ \A full \in BOOLEAN : MapStalemate(full) => Stepped
         /\ \A t \in Teams, facts \in SUBSET (Facts \cap {"roundsLeft"}) : PointsWin(t, facts) => Stepped
         /\ MapIntermission => Stepped
  <1> SwitchOnWin \in BOOLEAN BY ConstantsAssumption
  <1>0. rules \in RulesType /\ W(rules) /\ T(rules) BY DEF Inv, Good
  <1>1. More(rules, WaitedOn) BY Traces
  <1>2. ASSUME NEW t \in Teams, NEW full \in BOOLEAN, MapRoundWin(t, full) PROVE Stepped
    <2>1. (full /\ SwitchOnWin) \in BOOLEAN OBVIOUS
    <2>2. MapMay /\ rules' = SetWinningTeam(rules, t, full, full /\ SwitchOnWin)
      BY <1>2 DEF MapRoundWin
    <2> QED BY <2>1, <2>2, StepWin
  <1>3. ASSUME NEW full \in BOOLEAN, MapStalemate(full) PROVE Stepped
    <2>1. MapMay /\ rules' = SetStalemate(rules, full, SwitchOnWin) BY <1>3 DEF MapStalemate
    <2>2. StalemateEnabled /\ OneHides => ~rules.waiting
      BY <1>0, <2>1 DEF OneHides, More, Asked, MapMay, RulesType
    <2>3. More(rules', WaitedOn) /\ rules'.state \in {"TEAM_WIN", "STALEMATE"}
      BY <1>0, <1>1, <2>1, <2>2, MayWin, SetStalemateDoes
    <2> QED BY <2>3, Traces DEF Stepped
  <1>4. ASSUME NEW t \in Teams, NEW facts \in SUBSET (Facts \cap {"roundsLeft"}), PointsWin(t, facts)
        PROVE Stepped
    <2> DEFINE full == MasterFullWin(facts)
    <2>1. full \in BOOLEAN /\ (full /\ SwitchOnWin) \in BOOLEAN BY DEF MasterFullWin
    <2>2. PointsMayBeCaptured /\ rules' = SetWinningTeam(rules, t, full, full /\ SwitchOnWin)
      BY <1>4 DEF PointsWin
    <2> HIDE DEF full
    <2> QED BY <2>1, <2>2, StepWin
  <1>5. ASSUME MapIntermission PROVE Stepped
    <2>1. rules' = GoToIntermission(rules) BY <1>5 DEF MapIntermission
    <2>2. More(rules', WaitedOn) BY <1>0, <1>1, <2>1, EndDoes
    <2>3. rules'.state = "GAME_OVER" BY ZenonT(60), <1>0, <2>1 DEF GoToIntermission, RulesType
    <2> QED BY <2>2, <2>3, Traces DEF Stepped
  <1> QED BY <1>2, <1>3, <1>4, <1>5

\* The rules of a new map.
LEMMA FreshMore ==
  ASSUME NEW cv, OneHides /\ StalemateEnabled => "waitrestart" \notin cv
  PROVE  LET r == [InitRules EXCEPT !.cvars = cv]
         IN  More(r, FALSE) /\ ~r.waiting /\ r.world = "clean"
  <1> DEFINE r == [InitRules EXCEPT !.cvars = cv]
  <1>1. /\ r.state = "PREGAME" /\ r.over = FALSE /\ r.waiting = FALSE /\ r.waitTimer = "none"
        /\ r.hud = "round" /\ r.prevTimer = "none" /\ r.nested = FALSE
        /\ r.rounds = 0 /\ r.world = "clean" /\ r.cvars = cv
    BY DEF InitRules
  <1> HIDE DEF r
  <1>2. Waits(r) BY <1>1 DEF Waits
  <1>3. Hud(r) BY <1>1, <1>2 DEF Hud
  <1>4. WaitForPlayers \/ ~r.waiting BY <1>1
  <1>5. Asked(r) /\ Hidden(r) /\ Full(r) BY <1>1 DEF Asked, Hidden, Bare, Full
  <1>6. RoundsLeft(r) BY <1>1, ConstantsAssumption DEF RoundsLeft
  <1>7. Limit(r) BY <1>6, <1>1, ConstantsAssumption DEF Limit, RoundsLeft
  <1> QED BY <1>1, <1>3, <1>5, <1>7 DEF More, r

\* A change of level keeps the variables of the operator, and nothing else.
LEMMA StepChangeLevel == ASSUME Inv, More(rules, FALSE), ChangeLevel PROVE Stepped
  <1> DEFINE cv == rules.cvars
  <1>1. OneHides /\ StalemateEnabled => "waitrestart" \notin cv
    BY DEF More, Asked
  <1>2. rules' = [InitRules EXCEPT !.cvars = cv] BY DEF ChangeLevel
  <1> HIDE DEF cv
  <1>3. More(rules', FALSE) /\ ~rules'.waiting /\ rules'.world = "clean"
    BY <1>1, <1>2, FreshMore
  <1> QED BY <1>3 DEF Stepped

LEMMA InitMore == Init => More(rules, FALSE)
  <1> SUFFICES ASSUME Init PROVE More(rules, FALSE) OBVIOUS
  <1> DEFINE cv == {"waitcancel"}
  <1>1. InitRules.cvars = cv BY DEF InitRules
  <1>2. InitRules = [InitRules EXCEPT !.cvars = cv] BY <1>1, FreshRules DEF RulesType
  <1>3. "waitrestart" \notin cv OBVIOUS
  <1> HIDE DEF cv
  <1>4. More([InitRules EXCEPT !.cvars = cv], FALSE) BY <1>3, FreshMore
  <1> QED BY <1>2, <1>4 DEF Init

\* Every step does what Stepped says.
LEMMA StepMore == Inv /\ More(rules, FALSE) /\ [Next]_vars => Stepped
  <1> SUFFICES ASSUME Inv, More(rules, FALSE), [Next]_vars PROVE Stepped OBVIOUS
  <1>1. CASE UNCHANGED vars
    <2>1. rules' = rules BY <1>1 DEF vars
    <2> QED BY <2>1 DEF Stepped, WaitedOn
  <1>2. CASE \E c \in Choices : Think(c) BY <1>2, StepThink
  <1>3. CASE \E t \in Teams, full \in BOOLEAN : MapRoundWin(t, full) BY <1>3, StepMap
  <1>4. CASE \E full \in BOOLEAN : MapStalemate(full) BY <1>4, StepMap
  <1>5. CASE \E t \in Teams, facts \in SUBSET (Facts \cap {"roundsLeft"}) : PointsWin(t, facts)
    BY <1>5, StepMap
  <1>6. CASE MapIntermission BY <1>6, StepMap
  <1>7. CASE ElapseWait \/ ElapseRestart \/ ElapseTransition \/ ElapseStalemate \/ ElapseMapTime
    BY <1>7, StepElapse
  <1>8. CASE \E v \in AdminCvars : Request(v) BY <1>8, StepOperator
  <1>9. CASE \E t \in Teams : ReadySignal(t) BY <1>9, StepPlayers
  <1>10. CASE \E t \in Teams, p \in Presence : TeamBecomes(t, p) BY <1>10, StepPlayers
  <1>11. CASE ChangeLevel BY <1>11, StepChangeLevel
  <1> QED BY <1>1, <1>2, <1>3, <1>4, <1>5, <1>6, <1>7, <1>8, <1>9, <1>10, <1>11 DEF Next

-----------------------------------------------------------------------------
(* The theorems                                                            *)

PlayInv == Inv /\ More(rules, FALSE)

\* The second inductive invariant: the timers in the HUD, the rounds left and the
\* map's state, each where its condition on the map and the operator holds.
THEOREM PlayInvariance == Spec => []PlayInv
  <1>1. Init => PlayInv BY InvInit, InitMore DEF PlayInv
  <1>2. PlayInv /\ [Next]_vars => PlayInv' 
    BY InvStep, StepMore DEF PlayInv, Stepped
  <1> QED BY <1>1, <1>2, PTL DEF Spec

\* Where one timer hides another at a time, HideActiveTimer and RestoreActiveTimer
\* pair up through every order of waiting periods, restarts, stalemates, wins and
\* cleaned maps: the map's own timer is back in the HUD once neither is on.
THEOREM RoundTimerIsShown == OneHides => (Spec => []RoundTimerShown)
  <1> SUFFICES ASSUME OneHides PROVE Spec => []RoundTimerShown OBVIOUS
  <1>1. PlayInv => RoundTimerShown
    BY DEF PlayInv, Inv, Good, W, More, Hud, Waits, RoundTimerShown
  <1> QED BY <1>1, PlayInvariance, PTL

\* For every map and operator: HideActiveTimer is called while it remembers a timer
\* (its assertion fails) only for a waiting period in a stalemate, or the reverse.
\* Every other hiding is undone before the next.
THEOREM OneTimerIsHidden == Spec => []OneTimerHidden
  <1>1. PlayInv => OneTimerHidden BY DEF PlayInv, More, Hidden, OneTimerHidden
  <1> QED BY <1>1, PlayInvariance, PTL

\* Where a round is won once, no order of wins, mini-rounds, restarts that keep the
\* scores and changes of level lets the game begin a round beyond mp_maxrounds.
THEOREM MaxRoundsAreRespected == OneWin => (Spec => []MaxRoundsRespected)
  <1> SUFFICES ASSUME OneWin PROVE Spec => []MaxRoundsRespected OBVIOUS
  <1>1. PlayInv => MaxRoundsRespected BY DEF PlayInv, More, Limit, MaxRoundsRespected
  <1> QED BY <1>1, PlayInvariance, PTL

\* For every map and operator: a waiting period that was on and was not cancelled
\* ends with the map cleaned, whatever else its frame did.
THEOREM WaitingIsCleanedUp == Spec => WaitingLeavesNoTrace
  <1>1. PlayInv /\ [Next]_vars
        => [rules.waiting /\ ~rules'.waiting /\ ~rules'.over /\ "waitcancel" \notin rules.cvars
            => rules'.world = "clean"]_vars
    BY StepMore DEF PlayInv, Stepped, WaitedOn
  <1> QED BY <1>1, PlayInvariance, PTL DEF Spec, WaitingLeavesNoTrace

\* For every map and operator: a win that asked for a full reset gets it before the
\* next round, unless mp_restartround was taken up in the time between.
THEOREM FullWinsCleanTheMap == Spec => FullWinCleansMap
  <1>1. PlayInv /\ [Next]_vars
        => [rules.state = "TEAM_WIN" /\ rules'.state = "PREROUND" /\ rules.fullWin
            => rules'.world = "clean"]_vars
    BY StepMore DEF PlayInv, Stepped
  <1> QED BY <1>1, PlayInvariance, PTL DEF Spec, FullWinCleansMap

=============================================================================

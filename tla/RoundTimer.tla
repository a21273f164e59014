----------------------------- MODULE RoundTimer -----------------------------
(***************************************************************************)
(* The round timers of a map: CTeamRoundTimer (teamplay_round_timer.cpp),  *)
(* and what CTeamplayRoundBasedRules does with them when players are       *)
(* waited for and in a stalemate (teamplayroundbased_gamerules.cpp), when  *)
(* a timer of the rules' own is shown in place of the map's.               *)
(*                                                                         *)
(* Time is counted in ticks, TicksPerSecond of them to a second.  A tick   *)
(* is the interval between two thinks of a timer, and in a frame the       *)
(* thinks that are due come before the inputs of the map.  m_flTimerEndTime *)
(* of a running timer and m_flTimeRemaining of a paused one are one field, *)
(* "left", which falls below 0 when a timer runs on.                       *)
(***************************************************************************)
EXTENDS Integers, FiniteSets

CONSTANTS
  MapTimers,     \* the map's timers, numbered in the order of the entity list
  Temp,          \* the timer of the rules; the last in that list
  Setup,         \* m_nSetupTimeLength of a timer, in ticks; 0 for none
  Initial,       \* m_nTimerInitialLength
  MaxLength,     \* m_nTimerMaxLength in the map; 0 for no maximum
  StartPaused,   \* the timers with m_bStartPaused
  ResetTime,     \* the timers with m_bResetTimeOnRoundStart
  StartDisabled, \* the timers that the map disables at the start
  StartShown,    \* the timers that the map shows at the start
  TempTime,      \* mp_waitingforplayers_time, mp_stalemate_timelimit
  Warnings,      \* times at which a warning is given ...
  SetupWarnings, \* ... and those of them that are given in setup
  TicksPerSecond,
  Times,         \* the arguments of the map's inputs, in ticks; time may be taken away
  Scripted,      \* the timers whose clock the map's inputs change
  Debt,          \* bound: how far below 0 a running timer is followed
  MaxEvents      \* bound: inputs, wins, later rounds, stalemates and requests

Timers == MapTimers \cup {Temp}
NoTimer == 0

ASSUME ConstantsAssumption ==
  /\ IsFiniteSet(MapTimers) /\ MapTimers # {} /\ MapTimers \subseteq Nat \ {0}
  /\ Temp \in Nat /\ \A t \in MapTimers : t < Temp
  /\ Setup \in [MapTimers -> Nat] /\ Initial \in [MapTimers -> Nat]
  /\ MaxLength \in [MapTimers -> Nat] /\ StartPaused \subseteq MapTimers
  /\ ResetTime \subseteq MapTimers /\ StartDisabled \subseteq MapTimers
  /\ StartShown \subseteq MapTimers /\ TempTime \in Nat
  /\ Warnings \subseteq Nat \ {0} /\ SetupWarnings \subseteq Warnings
  /\ TicksPerSecond \in Nat \ {0} /\ Times \subseteq Int /\ Scripted \subseteq MapTimers
  /\ Debt \in Nat /\ MaxEvents \in Nat

VARIABLES
  round,   \* the timers and the members of the rules that they use
  events   \* events so far (bounded by MaxEvents)

vars == <<round, events>>

End == 0 \* m_bFireFinished, among the messages that are armed
TimerType ==
  [alive: BOOLEAN, disabled: BOOLEAN, shown: BOOLEAN,   \* m_bShowInHUD
   paused: BOOLEAN, winPaused: BOOLEAN,                 \* m_bPauseDueToWin
   state: {"setup", "normal"}, left: Int, max: Int,
   after: Nat,                                          \* m_nTimeToUseAfterSetupFinished
   armed: SUBSET (Warnings \cup {End}),                 \* m_bFire...
   due: 0..TicksPerSecond,                              \* ticks to the next think
   owed: BOOLEAN] \* history: time was put on and not taken away again, and its end is
                  \* not announced yet

RoundType ==
  [timers: [Timers -> TimerType], hud: Timers \cup {NoTimer},
   hidden: MapTimers \cup {NoTimer},                    \* m_hPreviousActiveTimer
   phase: {"pregame", "playing", "won", "stalemate"},
   waiting: BOOLEAN, inSetup: BOOLEAN, overtime: BOOLEAN,
   contested: BOOLEAN]                                  \* not TimerMayExpire

FirstOf(S) == IF S = {} THEN NoTimer ELSE CHOOSE t \in S : \A u \in S : t <= u
LastOf(S) == IF S = {} THEN NoTimer ELSE CHOOSE t \in S : \A u \in S : u <= t

\* A number of ticks as a whole number of seconds, as the code truncates it.
Seconds(n) == IF n >= 0 THEN TicksPerSecond * (n \div TicksPerSecond)
              ELSE -(TicksPerSecond * ((-n) \div TicksPerSecond))

-----------------------------------------------------------------------------
(* The clock of a timer r                                                  *)

GetTimeRemaining(r) == IF r.left < 0 THEN 0 ELSE r.left

CalculateOutputMessages(r) ==
  LET time == GetTimeRemaining(r)
  IN  [r EXCEPT !.armed = {w \in Warnings : w <= time} \cup (IF time > 0 THEN {End} ELSE {})]

SetTimeRemaining(r, n) ==
  LET time == IF r.max > 0 /\ n > r.max THEN r.max ELSE n
  IN  IF r.disabled THEN r
      ELSE CalculateOutputMessages([r EXCEPT !.left = time, !.owed = time > 0])

PauseTimer(r) == IF r.disabled THEN r ELSE [r EXCEPT !.paused = TRUE, !.winPaused = FALSE]

ResumeTimer(r) == IF r.disabled THEN r ELSE [r EXCEPT !.paused = FALSE]

\* What AddTimerSeconds adds of n: no more than the maximum leaves room for.
Room(r, n) ==
  IF r.max > 0 /\ GetTimeRemaining(r) + n > r.max
  THEN Seconds(r.max - GetTimeRemaining(r)) ELSE n

Added(r, n) ==
  [r EXCEPT !.left = @ + n,
            !.owed = IF n < 0 THEN @ /\ r.left + n > 0 ELSE @ \/ r.left + n > 0]

\* Faulty: the maximum is not looked at.
AddTimerSeconds_NoMaximum(r, n, stalemate) ==
  IF r.disabled \/ stalemate THEN r ELSE CalculateOutputMessages(Added(r, n))

\* Faulty: the messages are those of before.
AddTimerSeconds_OldMessages(r, n, stalemate) ==
  IF r.disabled \/ stalemate THEN r ELSE Added(r, Room(r, n))

AddTimerSeconds(r, n, stalemate) ==
  IF r.disabled \/ stalemate THEN r ELSE CalculateOutputMessages(Added(r, Room(r, n)))

InputSetMaxTime(r, n) ==
  IF n > 0 /\ GetTimeRemaining(r) > n THEN SetTimeRemaining([r EXCEPT !.max = n], n)
  ELSE [r EXCEPT !.max = n]

\* A timer as Spawn leaves it.
Spawned(t) ==
  LET time == IF Setup[t] > 0 THEN Setup[t] ELSE Initial[t]
      r    == [alive |-> TRUE, disabled |-> FALSE, shown |-> t \in StartShown,
               paused |-> TRUE, winPaused |-> FALSE,
               state |-> IF Setup[t] > 0 THEN "setup" ELSE "normal",
               left |-> 0, max |-> MaxLength[t], after |-> Initial[t],
               armed |-> {}, due |-> 1, owed |-> FALSE]
  IN  [SetTimeRemaining(r, time) EXCEPT !.disabled = t \in StartDisabled]

\* The timer of the rules has none of the map's settings: the time it shows, and
\* after a round's start no time, no setup, and it starts paused.
SpawnedTemp ==
  SetTimeRemaining(
    [alive |-> TRUE, disabled |-> FALSE, shown |-> TRUE, paused |-> FALSE, winPaused |-> FALSE,
     state |-> "normal", left |-> 0, max |-> 0, after |-> 0, armed |-> {}, due |-> 1,
     owed |-> FALSE], TempTime)

-----------------------------------------------------------------------------
(* The timer in the HUD.  s is the state of the round.                     *)

Wanting(s) == {t \in Timers : s.timers[t].alive /\ ~s.timers[t].disabled /\ s.timers[t].shown}

\* Faulty: the other timers stay on.
SetActiveTimer_OthersStay(s, t) ==
  [s EXCEPT !.hud = IF t # NoTimer THEN t ELSE FirstOf(Wanting(s))]

\* Every enabled timer but the chosen one is turned off; without one to choose
\* the first that is found is chosen.
SetActiveTimer(s, t) ==
  LET chosen == IF t # NoTimer THEN t ELSE FirstOf(Wanting(s))
  IN  [s EXCEPT !.hud = chosen,
                !.timers = [u \in Timers |->
                  IF u \in Wanting(s) \ {t, chosen} THEN [s.timers[u] EXCEPT !.shown = FALSE]
                  ELSE s.timers[u]]]

InputEnable(s, t) ==
  LET on == [s EXCEPT !.timers[t] = ResumeTimer([@ EXCEPT !.disabled = FALSE])]
  IN  IF s.timers[t].shown THEN SetActiveTimer(on, t) ELSE on

InputDisable(s, t) ==
  LET off == [s EXCEPT !.timers[t] = [PauseTimer(@) EXCEPT !.disabled = TRUE]]
  IN  IF s.timers[t].shown THEN SetActiveTimer(off, NoTimer) ELSE off

\* A timer that is no longer to be shown still counts as one that is while
\* SetActiveTimer looks for another.
InputShowInHUD(s, t, show) ==
  LET active == IF show THEN SetActiveTimer(s, t)
                ELSE IF s.timers[t].shown THEN SetActiveTimer(s, NoTimer) ELSE s
  IN  [active EXCEPT !.timers[t].shown = show]

\* The last timer that is shown is remembered and all are hidden.  The HUD is
\* given to another timer at once.
HideActiveTimer(s) ==
  LET shown == {t \in Timers : s.timers[t].alive /\ s.timers[t].shown}
  IN  [s EXCEPT !.hidden = LastOf(shown \ {Temp}),
                !.timers = [t \in Timers |-> [s.timers[t] EXCEPT !.shown = @ /\ t \notin shown]]]

\* UTIL_Remove of the rules' timer, and RestoreActiveTimer.
RestoreActiveTimer(s) ==
  LET gone == [s EXCEPT !.timers[Temp].alive = FALSE, !.timers[Temp].shown = FALSE]
  IN  IF s.hidden = NoTimer THEN gone
      ELSE [InputShowInHUD(gone, s.hidden, TRUE) EXCEPT !.hidden = NoTimer]

\* A timer of the rules' own is made and takes over the HUD.  As a timer without
\* setup it declares the setup over.
BringUpTimer(s) ==
  SetActiveTimer([HideActiveTimer(s) EXCEPT !.timers[Temp] = SpawnedTemp, !.inSetup = FALSE], Temp)

-----------------------------------------------------------------------------
(* Thinks                                                                  *)

\* The longest warning that is due is given.
Warn(r, W) ==
  [r EXCEPT !.armed = @ \ {LastOf({w \in W \cap r.armed : GetTimeRemaining(r) <= w})}, !.due = 1]

\* OnFinished, OnSetupFinished
Announce(r) == [r EXCEPT !.armed = @ \ {End}, !.owed = FALSE, !.due = 1]

\* The time is up and is not announced yet.
Out(r) == GetTimeRemaining(r) = 0 /\ End \in r.armed

RoundTimerSetupThink(s, t) ==
  LET r    == s.timers[t]
      over == [SetTimeRemaining(Announce(r), r.after) EXCEPT !.state = "normal"]
  IN  IF r.disabled \/ r.paused THEN [s EXCEPT !.timers[t].due = 1]
      ELSE IF Out(r) THEN [s EXCEPT !.overtime = FALSE, !.timers[t] = over, !.inSetup = FALSE]
      ELSE [s EXCEPT !.overtime = FALSE,
                     !.timers[t] = IF \E w \in SetupWarnings \cap r.armed : GetTimeRemaining(r) <= w
                                   THEN Warn(r, SetupWarnings) ELSE [r EXCEPT !.due = 1]]

\* "we don't want the timer to keep going (negative time)"; the next think is a
\* second away.
Overtime(s, t) ==
  [s EXCEPT !.timers[t] = [@ EXCEPT !.left = 0, !.due = TicksPerSecond],
            !.overtime = @ \/ s.timers[t].shown]

RoundTimerThink(s0, t) ==
  LET r == [s0.timers[t] EXCEPT !.winPaused = FALSE]
      s == [s0 EXCEPT !.overtime = @ /\ ~(GetTimeRemaining(r) > 0 /\ r.shown),
                      !.timers[t] = r]
  IN  IF r.disabled \/ r.paused THEN [s0 EXCEPT !.timers[t].due = 1]
      ELSE IF s0.phase = "won"
           THEN [s0 EXCEPT !.timers[t] = [PauseTimer(@) EXCEPT !.winPaused = TRUE, !.due = 1]]
      ELSE IF Out(r) THEN IF s.contested THEN Overtime(s, t)
                          ELSE [s EXCEPT !.timers[t] = Announce(@)]
      ELSE IF \E w \in Warnings \cap r.armed : GetTimeRemaining(r) <= w
           THEN [s EXCEPT !.timers[t] = Warn(@, Warnings)]
      ELSE [s EXCEPT !.timers[t].due = 1]

-----------------------------------------------------------------------------
(* Rounds                                                                  *)

\* A timer starts the round: with its setup time, if it has one, and after that with
\* the time "after".
Started(s, t, after) ==
  LET r      == [s.timers[t] EXCEPT !.after = after, !.due = 1]
      loaded == IF t \in MapTimers /\ Setup[t] > 0
                THEN [SetTimeRemaining(r, Setup[t]) EXCEPT !.state = "setup"]
                ELSE [SetTimeRemaining(r, after) EXCEPT !.state = "normal"]
  IN  IF t \in MapTimers \ StartPaused /\ ~s.waiting THEN ResumeTimer(loaded) ELSE loaded

Keeps(r, t) == r.state = "normal" /\ t \notin ResetTime

\* Faulty: what the clock holds is kept, which is negative when it ran on.
RoundSpawned_RawTime(s, t) ==
  Started(s, t, IF Keeps(s.timers[t], t) THEN Seconds(s.timers[t].left)
                ELSE IF t \in MapTimers THEN Initial[t] ELSE 0)

\* InputRoundSpawn.  What is left of the last round is kept in whole seconds.
RoundSpawned(s, t) ==
  Started(s, t, IF Keeps(s.timers[t], t) THEN Seconds(GetTimeRemaining(s.timers[t]))
                ELSE IF t \in MapTimers THEN Initial[t] ELSE 0)

\* Every timer gets the input RoundSpawn; the last one says whether it is setup.
RoundSpawn(s) ==
  LET live  == {t \in Timers : s.timers[t].alive}
      after == [t \in Timers |-> IF t \in live THEN RoundSpawned(s, t) ELSE s.timers[t]]
  IN  [s EXCEPT !.timers = after, !.phase = "playing",
                !.inSetup = after[LastOf(live)].state = "setup"]

\* Spawn and then Activate of all the timers of the map, in their order: each that
\* is to be shown turns the enabled others off, so a disabled one prevails.
Prevailing == IF StartShown \cap StartDisabled # {} THEN StartShown \cap StartDisabled
              ELSE StartShown \cap {FirstOf(StartShown)}
MapSpawned(s) ==
  [s EXCEPT !.timers = [t \in Timers |->
                          IF t \in MapTimers THEN [Spawned(t) EXCEPT !.shown = t \in Prevailing]
                          ELSE [s.timers[t] EXCEPT !.alive = FALSE, !.shown = FALSE]],
            !.hud = LastOf(Prevailing), !.hidden = NoTimer,
            !.inSetup = Setup[LastOf(MapTimers)] > 0]

\* RoundRespawn: the map is made anew or kept.
RoundRespawn(s, clean) == RoundSpawn(IF clean THEN MapSpawned(s) ELSE s)

EndWaiting(s) == IF s.waiting THEN RestoreActiveTimer([s EXCEPT !.waiting = FALSE]) ELSE s

-----------------------------------------------------------------------------
(* Actions                                                                 *)

InitRound ==
  MapSpawned([timers |-> [t \in Timers |-> [SpawnedTemp EXCEPT !.alive = FALSE, !.shown = FALSE]],
              hud |-> NoTimer, hidden |-> NoTimer, phase |-> "pregame", waiting |-> FALSE,
              inSetup |-> FALSE, overtime |-> FALSE, contested |-> FALSE])

Init == round = InitRound /\ events = 0

Alive(t) == round.timers[t].alive
Due(t) == Alive(t) /\ round.timers[t].due = 0
NoneDue == \A t \in Timers : ~Due(t)

\* A running timer is followed down to -Debt.
Ticked(r) ==
  [r EXCEPT !.due = IF @ > 0 THEN @ - 1 ELSE 0,
            !.left = IF ~r.paused /\ @ > -Debt THEN @ - 1 ELSE @]
Tick ==
  /\ NoneDue
  /\ round' = [round EXCEPT !.timers = [t \in Timers |->
                 IF Alive(t) THEN Ticked(round.timers[t]) ELSE round.timers[t]]]
  /\ UNCHANGED events

\* The timers that are due think in the order of the list, which matters only to
\* m_bInOvertime.
Think(t) ==
  /\ t = FirstOf({u \in Timers : Due(u)})
  /\ round' = IF round.timers[t].state = "setup" THEN RoundTimerSetupThink(round, t)
              ELSE RoundTimerThink(round, t)
  /\ UNCHANGED events

\* A point is being captured, or no longer is (CTFGameRules::TimerMayExpire).
Contest ==
  /\ NoneDue /\ (round.contested \/ (round.phase \in {"playing", "stalemate"} /\ ~round.waiting))
  /\ round' = [round EXCEPT !.contested = ~@]
  /\ UNCHANGED events

Silent(s) == NoneDue /\ round' = s /\ UNCHANGED events
Event(s) == NoneDue /\ events < MaxEvents /\ events' = events + 1 /\ round' = s
Input(t, r) == Event([round EXCEPT !.timers[t] = r])

\* Inputs of the map to a timer of its own.
Pause(t) == Input(t, PauseTimer(round.timers[t]))
Resume(t) == Input(t, ResumeTimer(round.timers[t]))
SetTime(t, n) == Input(t, SetTimeRemaining(round.timers[t], n))
SetMaxTime(t, n) == Input(t, InputSetMaxTime(round.timers[t], n))
AddTime(t, n) == Input(t, AddTimerSeconds(round.timers[t], n, round.phase = "stalemate"))
Restart(t) == Input(t, SetTimeRemaining(round.timers[t], Initial[t]))
Enable(t) == Event(InputEnable(round, t))
Disable(t) == Event(InputDisable(round, t))
ShowInHUD(t, show) == Event(InputShowInHUD(round, t, show))

\* The first round starts, and players may be waited for.
StartGame(wait) ==
  /\ round.phase = "pregame"
  /\ Silent(RoundRespawn([round EXCEPT !.waiting = wait], TRUE))

\* A round is won; a stalemate's timer goes with it.
WinRound ==
  /\ round.phase \in {"playing", "stalemate"}
  /\ Event([IF round.phase = "stalemate" THEN RestoreActiveTimer(round) ELSE round
              EXCEPT !.phase = "won"])

NextRound(clean) == round.phase = "won" /\ Event(RoundRespawn(round, clean))

\* State_Enter_RESTART: a waiting period ends with it and the map is cleaned.
RestartRound(clean) ==
  /\ round.phase = "playing" /\ (round.waiting => clean)
  /\ Event(RoundRespawn(EndWaiting(round), clean))

\* The rules have one timer of their own at a time.
WaitForPlayers ==
  /\ round.phase \in {"playing", "won"}
  /\ Event(IF round.waiting /\ Alive(Temp)
           THEN [round EXCEPT !.timers[Temp] = SetTimeRemaining(@, TempTime)]
           ELSE [round EXCEPT !.waiting = TRUE])

ShowWaitingTimer ==
  /\ round.waiting /\ ~Alive(Temp)
  /\ Silent(BringUpTimer(round))

\* mp_waitingforplayers_cancel: the hidden timer runs unless it starts paused.
CancelWaiting ==
  LET t == round.hidden
  IN  /\ round.phase \in {"playing", "won"} /\ round.waiting
      /\ Event(EndWaiting(IF t = NoTimer \/ t \in StartPaused THEN round
                          ELSE [round EXCEPT !.timers[t] = ResumeTimer(@)]))

EnterStalemate ==
  /\ round.phase = "playing" /\ ~round.waiting /\ ~Alive(Temp)
  /\ Event([BringUpTimer(round) EXCEPT !.phase = "stalemate"])

ClockInput(t) ==
  \/ Pause(t) \/ Resume(t) \/ Restart(t)
  \/ \E n \in Times : SetTime(t, n) \/ SetMaxTime(t, n) \/ AddTime(t, n)
TimerInput(t) == Enable(t) \/ Disable(t) \/ \E show \in BOOLEAN : ShowInHUD(t, show)

Next ==
  \/ Tick \/ Contest \/ WinRound \/ WaitForPlayers \/ ShowWaitingTimer \/ CancelWaiting
  \/ EnterStalemate
  \/ \E t \in Timers : Think(t)
  \/ \E t \in Scripted : ClockInput(t)
  \/ \E t \in MapTimers : TimerInput(t)
  \/ \E b \in BOOLEAN : StartGame(b) \/ NextRound(b) \/ RestartRound(b)

\* Time passes and thinks run; and a timer that looks again and again finds no point
\* being captured at some of these times.
Fairness ==
  /\ WF_vars(Tick)
  /\ \A t \in Timers :
       WF_vars(Think(t)) /\ ([]<>Due(t) => []<>(Due(t) /\ ~round.contested))

Spec == Init /\ [][Next]_vars /\ Fairness

-----------------------------------------------------------------------------
(* Properties                                                              *)

TypeOK == round \in RoundType /\ events \in 0..MaxEvents

\* "Ensure all other timers are off": of the timers that are enabled at most one
\* wants to be in the HUD, whatever is enabled, shown, hidden and made in its place.
OneTimerShown == \A t, u \in Wanting(round) : t = u

\* A timer never gains time beyond its maximum.
NeverAboveMaximum ==
  [][\A t \in Timers :
       LET r == round.timers[t] IN LET q == round'.timers[t] IN
       q.alive /\ q.max > 0 /\ q.left > r.left /\ q.max = r.max => q.left <= q.max]_vars

\* When time was put on a timer and it is running, then its end is announced, if it
\* is not paused: added time, overtime, setup and warnings never make it miss it.  Only
\* an input that takes all the time away does, by which the end is no longer owed: it
\* finds no time left, and disarms OnFinished (CalculateOutputMessages).
Counting(r) == r.alive /\ ~r.disabled /\ ~r.paused /\ r.owed
EndAnnounced == \A t \in Timers : Counting(round.timers[t]) ~> ~Counting(round.timers[t])

=============================================================================

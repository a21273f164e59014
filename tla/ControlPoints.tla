--------------------------- MODULE ControlPoints ---------------------------
(***************************************************************************)
(* The control points of a map that is played in mini-rounds: which round  *)
(* is played, who wins it, and what a win leaves to play.                  *)
(* CTeamControlPointMaster (team_control_point_master.cpp) with its rounds *)
(* (team_control_point_round.cpp), the owners of the points                *)
(* (team_control_point.cpp), and the members of the game rules that pass   *)
(* from one round to the next (teamplayroundbased_gamerules.cpp,           *)
(* tf_gamerules.cpp).                                                      *)
(*                                                                         *)
(* How a point is captured is the business of CaptureArea, and the states  *)
(* of a round are that of RoundRules; here a round is before its start,    *)
(* running or won.                                                         *)
(***************************************************************************)
EXTENDS Naturals, FiniteSets, Sequences

CONSTANTS
  Teams,       \* the game teams, numbered as in the code
  NoTeam,      \* TEAM_UNASSIGNED, a smaller number
  Points,      \* numbered as SetPointIndex does
  Default,     \* m_iDefaultOwner of a point
  Areas,       \* <<team, point>>: an area of the point lets the team capture
  Rounds,      \* the mini-rounds, numbered as in the master's list
  PointsOf,    \* the points of a mini-round
  Priority,    \* of a mini-round; the list is sorted by it, highest first
  InvalidCapWinner, \* the team that cannot win a mini-round by capturing, or NoTeam
  MaxInputs    \* bound: inputs of the map and requests of the operator

NoRound == 0

ASSUME ConstantsAssumption ==
  /\ Teams \subseteq Nat \ {0} /\ IsFiniteSet(Teams) /\ NoTeam \in Nat
  /\ \A t \in Teams : NoTeam < t
  /\ Points \subseteq Nat /\ Points # {} /\ IsFiniteSet(Points)
  /\ Default \in [Points -> Teams \cup {NoTeam}] /\ Areas \subseteq Teams \X Points
  /\ Rounds \subseteq Nat \ {0} /\ Rounds # {} /\ IsFiniteSet(Rounds)
  /\ PointsOf \in [Rounds -> (SUBSET Points) \ {{}}] /\ Priority \in [Rounds -> Nat]
  /\ \A r, q \in Rounds : r < q => Priority[r] >= Priority[q]
  /\ InvalidCapWinner \in [Rounds -> Teams \cup {NoTeam}]
  /\ MaxInputs \in Nat

VARIABLES
  match,   \* the points, the master and the members of the rules
  inputs   \* inputs so far (bounded by MaxInputs)

vars == <<match, inputs>>

Owners == Teams \cup {NoTeam}
MatchType ==
  [owner: [Points -> Owners],
   current: Rounds \cup {NoRound},          \* m_iCurrentRoundIndex
   fresh: BOOLEAN,                          \* m_bFirstRoundAfterRestart
   inMini: SUBSET Points,                   \* m_bInMiniRound of the objective resource
   next: Rounds \cup {NoRound},             \* m_iszRoundToPlayNext
   first: Rounds \cup {NoRound},            \* m_iszFirstRoundPlayed
   previous: {<<>>} \cup Rounds \X {NoRound} \cup Rounds \X Rounds, \* m_iszPreviousRounds
   phase: {"pregame", "preround", "running", "won"}, winner: Owners,
   reset: BOOLEAN, prevWait: BOOLEAN,       \* m_bForceMapReset, m_bPrevRoundWas...
   waiting: BOOLEAN, restart: BOOLEAN,      \* m_flRestartRoundTime is set
   kept: BOOLEAN]  \* history: the operator had the map of a full win kept

First(S) == CHOOSE x \in S : \A y \in S : x <= y
Last(S) == CHOOSE x \in S : \A y \in S : y <= x

-----------------------------------------------------------------------------
(* A mini-round                                                            *)

\* CTeamControlPointRound::TeamOwnsAllPoints
TeamOwnsAllPoints(owner, r) ==
  IF \E t \in Teams : \A p \in PointsOf[r] : owner[p] = t
  THEN CHOOSE t \in Teams : \A p \in PointsOf[r] : owner[p] = t ELSE NoTeam

\* CTeamControlPointRound::CheckWinConditions, IsPlayable
Won(owner, r) ==
  TeamOwnsAllPoints(owner, r) \in Teams /\ TeamOwnsAllPoints(owner, r) # InvalidCapWinner[r]
IsPlayable(owner, r) == ~Won(owner, r)
Playable(owner) == {r \in Rounds : IsPlayable(owner, r)}

\* The map can be played as it was made.
ASSUME PlayableAssumption == Playable(Default) # {}

\* CTeamControlPointMaster::GetBaseControlPoint of a team when no round is chosen: an
\* end of the chain of points that the team owns in the map, or no point.
GetBaseControlPoint(t) ==
  IF Default[Last(Points)] = t THEN {Last(Points)}
  ELSE IF Default[First(Points)] = t THEN {First(Points)} ELSE {}
IsBaseControlPoint(p) == \E t \in Teams : p \in GetBaseControlPoint(t)

\* The point c[2], given to the team c[1]
Switched(owner, c) == [owner EXCEPT ![c[2]] = c[1]]

\* <<team, point>>: giving the point to the team makes the round playable.
Switches(owner, r) ==
  {c \in Areas : /\ c[2] \in PointsOf[r] /\ ~IsBaseControlPoint(c[2])
                 /\ TeamOwnsAllPoints(Switched(owner, c), r) # c[1]}

\* The owners it may lead to: the first team that can be given a point gets the first
\* of these in the list of the round, whose order is the map's.
MakePlayable(owner, r) ==
  {Switched(owner, c) :
     c \in {c \in Switches(owner, r) : \A d \in Switches(owner, r) : c[1] <= d[1]}}

-----------------------------------------------------------------------------
(* Winning                                                                 *)

\* CTeamplayRoundBasedRules::SetWinningTeam
SetWinningTeam(s, t, full) ==
  [s EXCEPT !.phase = "won", !.winner = t, !.reset = full, !.kept = FALSE]

MasterWin(s, t) == SetWinningTeam(s, t, Playable(s.owner) = {})

\* CTeamControlPointMaster::CheckWinConditions.  It does not look at the state of the
\* round.
CheckWinConditions(s) ==
  IF s.current # NoRound /\ Won(s.owner, s.current)
  THEN MasterWin(s, TeamOwnsAllPoints(s.owner, s.current)) ELSE s

\* Faulty: a change that the players did not make is not looked at.
InternalSetOwner_NoCheck(s, p, t, capture) ==
  LET owned == [s EXCEPT !.owner[p] = t]
  IN  IF capture THEN CheckWinConditions(owned) ELSE owned

\* CTeamControlPoint::InternalSetOwner, when players capture the point or not.
InternalSetOwner(s, p, t, capture) == CheckWinConditions([s EXCEPT !.owner[p] = t])

\* InputSetWinnerAndForceCaps: the points of the round are forced one after the other,
\* and the last may win the round, before InternalSetWinner does; of the two wins the
\* second one stands.
ForceCaps(s, t) ==
  MasterWin([s EXCEPT !.owner = [p \in Points |-> IF p \in s.inMini THEN t ELSE @[p]]], t)

-----------------------------------------------------------------------------
(* CalcNumRoundsRemaining: what a team that owns the points S has after the *)
(* next mini-round, if it keeps winning                                    *)

Simulated(owner, t, S) == [p \in Points |-> IF p \in S THEN t ELSE owner[p]]

\* Faulty: whether a round is playable is asked of the owners the points have now.
PlayNext_Today(owner, t, S) ==
  LET playable == Playable(owner)
  IN  IF playable = {} THEN S ELSE S \cup PointsOf[First(playable)]

PlayNext(owner, t, S) ==
  LET playable == Playable(Simulated(owner, t, S))
  IN  IF playable = {} THEN S ELSE S \cup PointsOf[First(playable)]

\* The points that the winner owns after n rounds; it loops until they are all the points.
OwnedAfter[n \in 0..Cardinality(Points)] ==
  IF n = 0 THEN {p \in Points : match.owner[p] = match.winner}
  ELSE PlayNext(match.owner, match.winner, OwnedAfter[n - 1])

-----------------------------------------------------------------------------
(* Choosing the mini-round to play                                         *)

Previous(s) == {s.previous[i] : i \in DOMAIN s.previous} \ {NoRound}
LastPlayed(s) == IF s.previous = <<>> THEN NoRound ELSE s.previous[1]

\* The most important rounds that are playable; of more than one not the last played
\* and, at the start of a game, not the one that the last game started with.
Candidates(s) ==
  LET playable == Playable(s.owner)
      top      == {r \in playable : \A q \in playable : Priority[q] <= Priority[r]}
      notLast  == IF Cardinality(top) > 1 THEN top \ {LastPlayed(s)} ELSE top
  IN  IF s.fresh /\ Cardinality(notLast) > 1 THEN notLast \ {s.first} ELSE notLast

\* One that was not among the last two, if there is one.
Picks(s) ==
  IF Candidates(s) \ Previous(s) # {} THEN Candidates(s) \ Previous(s) ELSE Candidates(s)

\* Faulty: the oldest round is not dropped from the list of those that were played.
RegisterRoundBeingPlayed_KeepsAll(s, r) ==
  [s EXCEPT !.current = r, !.previous = <<r>> \o @,
            !.first = IF s.fresh THEN r ELSE @, !.fresh = FALSE]

\* RegisterRoundBeingPlayed, AddPlayedRound
RegisterRoundBeingPlayed(s, r) ==
  [s EXCEPT !.current = r, !.previous = <<r, LastPlayed(s)>>,
            !.first = IF s.fresh THEN r ELSE @, !.fresh = FALSE]

\* Whether a round that is asked for can be played, if need be with a point that
\* changes hands.
CanPlay(s, r) == r # NoRound /\ (IsPlayable(s.owner, r) \/ Switches(s.owner, r) # {})

SelectSpecificRound(s) ==
  {RegisterRoundBeingPlayed([s EXCEPT !.owner = o, !.next = NoRound], s.next) :
     o \in IF IsPlayable(s.owner, s.next) THEN {s.owner} ELSE MakePlayable(s.owner, s.next)}

\* GetControlPointRoundToPlay: the states it may lead to.
GetControlPointRoundToPlay(s) ==
  LET asked == [s EXCEPT !.next = NoRound]
  IN  IF CanPlay(s, s.next) THEN SelectSpecificRound(s)
      ELSE IF Playable(s.owner) = {} THEN {asked}
      ELSE {RegisterRoundBeingPlayed(asked, r) : r \in Picks(asked)}

\* InputRoundActivate of the master
InputRoundActivate(s) ==
  LET chosen == IF s.current = NoRound THEN GetControlPointRoundToPlay(s) ELSE {s}
  IN  {[c EXCEPT !.inMini = IF c.current = NoRound THEN Points ELSE PointsOf[c.current]] :
         c \in chosen}

-----------------------------------------------------------------------------
(* From round to round                                                     *)

\* The points and the master are made again.
CleanUpMap(s) ==
  [s EXCEPT !.owner = Default, !.current = NoRound, !.fresh = TRUE, !.previous = <<>>,
            !.kept = FALSE]

\* Faulty: it asks whether players are waited for now.
RoundRespawn_WhileWaiting(s) ==
  InputRoundActivate([IF s.reset \/ s.waiting THEN CleanUpMap(s) ELSE s
                        EXCEPT !.phase = "preround"])

\* State_Enter_PREROUND, RoundRespawn
RoundRespawn(s) ==
  InputRoundActivate([IF s.reset \/ s.prevWait THEN CleanUpMap(s) ELSE s
                        EXCEPT !.phase = "preround"])

\* PreviousRoundEnd, FireRoundEndOutput
PreviousRoundEnd(s) == [s EXCEPT !.current = NoRound]

State_Enter_RESTART(s) ==
  RoundRespawn([s EXCEPT !.prevWait = s.waiting, !.waiting = FALSE, !.restart = FALSE])

\* GetRoundToUseAfterRestart
RoundToUseAfterRestart(s) ==
  IF \E r \in Rounds : Priority[r] > Priority[s.current] THEN NoRound ELSE s.current

-----------------------------------------------------------------------------
(* Actions                                                                 *)

InitMatch ==
  [owner |-> Default, current |-> NoRound, fresh |-> TRUE, inMini |-> {}, next |-> NoRound,
   first |-> NoRound, previous |-> <<>>, phase |-> "pregame", winner |-> NoTeam,
   reset |-> TRUE, prevWait |-> FALSE, waiting |-> FALSE, restart |-> FALSE, kept |-> FALSE]

Init == match = InitMatch /\ inputs = 0

PointsMayBeCaptured == match.phase = "running" /\ ~match.waiting
PointCanBeCapped(p) == match.current # NoRound => p \in PointsOf[match.current]

Set(s) == match' = s /\ UNCHANGED inputs

\* The game starts, and players may be waited for first.
StartGame(wait) ==
  /\ match.phase = "pregame"
  /\ \E s \in RoundRespawn([match EXCEPT !.waiting = wait]) : Set(s)

\* State_Enter_RND_RUNNING
RoundRunning ==
  match.phase = "preround" /\ Set([match EXCEPT !.phase = "running", !.prevWait = FALSE])

Capture(p, t) ==
  /\ PointsMayBeCaptured /\ PointCanBeCapped(p) /\ <<t, p>> \in Areas /\ match.owner[p] # t
  /\ Set(InternalSetOwner(match, p, t, TRUE))

CPMThink == PointsMayBeCaptured /\ Set(CheckWinConditions(match))

\* State_Think_TEAM_WIN
NextRound ==
  match.phase = "won" /\ \E s \in RoundRespawn(PreviousRoundEnd(match)) : Set(s)

\* State_Think_RND_RUNNING
Restart ==
  /\ match.phase = "running" /\ match.restart
  /\ \E s \in State_Enter_RESTART(match) : Set(s)

\* CheckWaitingForPlayers: the time is up.
WaitingEnds ==
  /\ match.phase # "pregame" /\ match.waiting /\ ~match.restart
  /\ Set([match EXCEPT !.restart = TRUE,
                       !.next = IF match.current = NoRound THEN @
                                ELSE RoundToUseAfterRestart(match)])

Input(s) ==
  match.phase # "pregame" /\ inputs < MaxInputs /\ inputs' = inputs + 1 /\ match' = s

\* The input SetOwner of a point, SetWinner and SetWinnerAndForceCaps of the master, and
\* game_round_win, which asks for a partial win only of a map that has more to play.
InputSetOwner(p, t) == PointsMayBeCaptured /\ Input(InternalSetOwner(match, p, t, FALSE))
InputSetWinner(t) == Input(MasterWin(match, t))
InputSetWinnerAndForceCaps(t) == Input(ForceCaps(match, t))
MapRoundWin(t, full) ==
  (full \/ Playable(match.owner) # {}) /\ Input(SetWinningTeam(match, t, full))

\* CheckRestartRound: mp_restartgame asks for a clean map and mp_restartround for the
\* map as it is, also when a win has just asked for a clean one.
AskRestart(game) ==
  Input([match EXCEPT !.reset = game, !.restart = TRUE,
                      !.kept = @ \/ (match.phase = "won" /\ match.reset /\ ~game)])

\* mp_waitingforplayers_restart, mp_waitingforplayers_cancel
WaitForPlayers == ~match.waiting /\ Input([match EXCEPT !.waiting = TRUE])
CancelWaiting == match.waiting /\ Input([match EXCEPT !.waiting = FALSE])

Next ==
  \/ RoundRunning \/ CPMThink \/ NextRound \/ Restart
  \/ WaitingEnds \/ WaitForPlayers \/ CancelWaiting
  \/ \E b \in BOOLEAN : StartGame(b) \/ AskRestart(b) \/ \E t \in Teams : MapRoundWin(t, b)
  \/ \E t \in Teams : InputSetWinner(t) \/ InputSetWinnerAndForceCaps(t)
  \/ \E p \in Points : (\E t \in Teams : Capture(p, t)) \/ \E t \in Owners : InputSetOwner(p, t)

Spec == Init /\ [][Next]_vars

-----------------------------------------------------------------------------
(* Properties                                                              *)

TypeOK == match \in MatchType /\ inputs \in 0..MaxInputs

\* A round that is played has a mini-round that can still be won: the think of the
\* master "should never trigger a win", and no team waits for a win that cannot come.
\* A round without a mini-round, which no team wins by capturing, is one before which the
\* operator had the map of a full win kept.
WinnableRound ==
  match.phase \in {"preround", "running"} =>
    IF match.current = NoRound THEN match.kept ELSE IsPlayable(match.owner, match.current)

\* The winner of a mini-round is told how many are left: the simulation gets to the end.
RoundsRemainingFinite ==
  match.phase = "won" /\ ~match.reset /\ ~match.kept /\ match.winner \in Teams =>
    OwnedAfter[Cardinality(Points)] = Points

\* A point was switched for the round that was asked for, and that request is done with.
SwitchedForRequest ==
  /\ match.next \in Rounds /\ match'.current = match.next /\ match'.next = NoRound
  /\ match'.owner \in MakePlayable(match.owner, match.next)

\* What was won is kept: the next mini-round starts from the owners that the last one
\* left, but for one point at most.  A waiting period that is over asks for the round it
\* was spent in, its cancelling does not take that back, and if the players have won the
\* round since then a point is taken from them, once, for the round to be playable.
PartialWinKept ==
  [][match.phase = "won" /\ match'.phase = "preround" /\ ~match.reset /\ ~match.prevWait =>
       match'.owner = match.owner \/ SwitchedForRequest]_vars

=============================================================================

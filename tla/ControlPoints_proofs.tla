------------------------ MODULE ControlPoints_proofs ------------------------
(***************************************************************************)
(* Proofs about ControlPoints: the round that is played can be won, and    *)
(* what a mini-round left is what the next one starts from, for any map    *)
(* of mini-rounds that can be played as it was made, and for any requests  *)
(* of the operator.                                                        *)
(***************************************************************************)
EXTENDS ControlPoints, FiniteSetTheorems, WellFoundedInduction, TLAPS

\* What a state of the match is good for.
Winnable(s) ==
  s.phase \in {"preround", "running"} =>
    IF s.current = NoRound THEN s.kept ELSE IsPlayable(s.owner, s.current)
Continues(s) == s.phase = "won" /\ ~s.reset => s.kept \/ Playable(s.owner) # {}
Fresh(s) == s.phase = "pregame" => s.reset /\ s.current = NoRound

\* The inductive invariant.  A win must leave a round to play for the next round to be
\* one that can be won, unless the operator has the map kept as it is.
Good(s) == s \in MatchType /\ Winnable(s) /\ Continues(s) /\ Fresh(s)

-----------------------------------------------------------------------------
(* Mini-rounds                                                             *)

\* The code's numbers for no round and no team are not those of one.
LEMMA None == NoRound \notin Rounds /\ NoTeam \notin Teams
BY ConstantsAssumption DEF NoRound

\* The team that owns the points of a round is one.
LEMMA OwnsType ==
  ASSUME NEW owner, NEW r
  PROVE  TeamOwnsAllPoints(owner, r) \in Owners
BY DEF TeamOwnsAllPoints, Owners

\* A point that changes hands leaves the round playable, whoever owns the others.
LEMMA MadePlayable ==
  ASSUME NEW owner \in [Points -> Owners], NEW r \in Rounds, NEW o \in MakePlayable(owner, r)
  PROVE  o \in [Points -> Owners] /\ IsPlayable(o, r)
<1>1. PICK c \in Switches(owner, r) : o = Switched(owner, c)
  BY Zenon DEF MakePlayable
<1> DEFINE t == c[1]
           p == c[2]
<1>2. c \in Teams \X Points /\ p \in PointsOf[r]
      /\ TeamOwnsAllPoints(Switched(owner, c), r) # t
  BY ConstantsAssumption DEF Switches
<1>3. /\ o = [owner EXCEPT ![p] = t] /\ t \in Teams /\ p \in Points /\ p \in PointsOf[r]
      /\ TeamOwnsAllPoints(o, r) # t
  BY <1>1, <1>2 DEF Switched
<1> HIDE DEF t, p
<1>4. o \in [Points -> Owners] /\ o[p] = t
  BY <1>3 DEF Owners
<1>5. \A u \in Teams : (\A q \in PointsOf[r] : o[q] = u) => u = t
  BY <1>3, <1>4
<1>6. TeamOwnsAllPoints(o, r) = NoTeam
  BY <1>3, <1>5 DEF TeamOwnsAllPoints
<1> QED BY <1>4, <1>6, None DEF IsPlayable, Won

\* The round that is chosen is one of those that can be played.
LEMMA PicksPlayable ==
  ASSUME NEW s
  PROVE  Picks(s) \subseteq Playable(s.owner)
BY DEF Picks, Candidates

-----------------------------------------------------------------------------
(* Choosing a round                                                        *)

\* The round last played, if there is one.
LEMMA LastPlayedType ==
  ASSUME NEW s \in MatchType
  PROVE  LastPlayed(s) \in Rounds \cup {NoRound}
<1>1. s.previous \in {<<>>} \cup Rounds \X {NoRound} \cup Rounds \X Rounds
  BY DEF MatchType
<1> QED BY <1>1 DEF LastPlayed

\* A round is registered.
LEMMA Registered ==
  ASSUME NEW s \in MatchType, NEW r \in Rounds
  PROVE  LET q == RegisterRoundBeingPlayed(s, r) IN
         /\ q \in MatchType /\ q.current = r /\ q.owner = s.owner /\ q.next = s.next
         /\ q.phase = s.phase /\ q.reset = s.reset /\ q.kept = s.kept
<1> DEFINE previous == <<r, LastPlayed(s)>>
           first == IF s.fresh THEN r ELSE s.first
           q == [s EXCEPT !.current = r, !.previous = previous, !.first = first, !.fresh = FALSE]
<1>1. previous \in Rounds \X {NoRound} \cup Rounds \X Rounds
  BY LastPlayedType
<1>2. first \in Rounds \cup {NoRound}
  BY DEF MatchType
<1>3. RegisterRoundBeingPlayed(s, r) = q
  BY DEF RegisterRoundBeingPlayed
<1> HIDE DEF previous, first
<1>4. q \in MatchType
  BY <1>1, <1>2, ZenonT(60) DEF MatchType
<1>5. /\ q.current = r /\ q.owner = s.owner /\ q.next = s.next
      /\ q.phase = s.phase /\ q.reset = s.reset /\ q.kept = s.kept
  BY ZenonT(60) DEF MatchType
<1> QED BY <1>3, <1>4, <1>5

\* The members that choosing a round leaves alone.
SameRules(s, q) == q.phase = s.phase /\ q.reset = s.reset /\ q.kept = s.kept

\* No point changes hands, or one does for the round that was asked for.
Handed(s, q) ==
  \/ q.owner = s.owner
  \/ /\ s.next \in Rounds /\ q.current = s.next /\ q.next = NoRound
     /\ q.owner \in MakePlayable(s.owner, s.next)

\* What a round that starts is like: if there was a round that can be played or made
\* playable, one is played that can be won.
Starts(s, q) ==
  /\ q \in MatchType /\ SameRules(s, q) /\ Handed(s, q)
  /\ q.current # NoRound => IsPlayable(q.owner, q.current)
  /\ q.current = NoRound => Playable(s.owner) = {}

\* A round is chosen that can be played, and no point changes hands unless a round was
\* asked for.
LEMMA ChooseRound ==
  ASSUME NEW s \in MatchType, s.current = NoRound, NEW q \in GetControlPointRoundToPlay(s)
  PROVE  Starts(s, q)
<1>1. s.owner \in [Points -> Owners] /\ s.next \in Rounds \cup {NoRound}
  BY DEF MatchType
<1>2. CASE CanPlay(s, s.next)
  <2>1. s.next # NoRound /\ s.next \in Rounds
    BY <1>1, <1>2 DEF CanPlay
  <2>2. q \in SelectSpecificRound(s)
    BY <1>2 DEF GetControlPointRoundToPlay
  <2> DEFINE from == IF IsPlayable(s.owner, s.next) THEN {s.owner}
                     ELSE MakePlayable(s.owner, s.next)
             asked(o) == [s EXCEPT !.owner = o, !.next = NoRound]
  <2>3. PICK o \in from : q = RegisterRoundBeingPlayed(asked(o), s.next)
    BY <2>2, Zenon DEF SelectSpecificRound
  <2>4. o \in [Points -> Owners] /\ IsPlayable(o, s.next)
    BY <1>1, <2>1, <2>3, MadePlayable
  <2>6. o = s.owner \/ o \in MakePlayable(s.owner, s.next)
    BY <2>3
  <2>5. /\ asked(o) \in MatchType /\ asked(o).owner = o /\ asked(o).next = NoRound
        /\ SameRules(s, asked(o))
    BY <2>4, ZenonT(60) DEF MatchType, SameRules
  <2> HIDE DEF asked, from
  <2>7. /\ q \in MatchType /\ q.current = s.next /\ q.owner = o /\ q.next = NoRound
        /\ SameRules(s, q)
    BY <2>1, <2>3, <2>5, Registered DEF SameRules
  <2> QED BY <2>1, <2>4, <2>6, <2>7, None DEF Starts, Handed
<1>3. CASE ~CanPlay(s, s.next)
  <2> DEFINE asked == [s EXCEPT !.next = NoRound]
  <2>1. /\ asked \in MatchType /\ asked.owner = s.owner /\ asked.next = NoRound
        /\ SameRules(s, asked)
    BY ZenonT(60) DEF MatchType, SameRules
  <2>2. q \in IF Playable(s.owner) = {} THEN {asked}
             ELSE {RegisterRoundBeingPlayed(asked, r) : r \in Picks(asked)}
    BY <1>3, Zenon DEF GetControlPointRoundToPlay
  <2>3. asked.current = s.current
    BY ZenonT(60) DEF MatchType
  <2> HIDE DEF asked
  <2>4. CASE Playable(s.owner) = {}
    <3>1. q = asked
      BY <2>2, <2>4
    <3> QED BY <2>1, <2>3, <2>4, <3>1 DEF Starts, Handed
  <2>5. CASE Playable(s.owner) # {}
    <3>1. PICK r \in Picks(asked) : q = RegisterRoundBeingPlayed(asked, r)
      BY <2>2, <2>5
    <3>2. r \in Rounds /\ IsPlayable(s.owner, r)
      BY <2>1, <3>1, PicksPlayable DEF Playable
    <3>3. q \in MatchType /\ q.current = r /\ q.owner = s.owner /\ SameRules(s, q)
      BY <2>1, <3>1, <3>2, Registered DEF SameRules
    <3> QED BY <3>2, <3>3, None DEF Starts, Handed
  <2> QED BY <2>4, <2>5
<1> QED BY <1>2, <1>3

\* The master is told that the round starts.
LEMMA Activated ==
  ASSUME NEW s \in MatchType, NEW q \in InputRoundActivate(s),
         s.current # NoRound => IsPlayable(s.owner, s.current)
  PROVE  Starts(s, q)
<1> DEFINE chosen == IF s.current = NoRound THEN GetControlPointRoundToPlay(s) ELSE {s}
           inMini(c) == IF c.current = NoRound THEN Points ELSE PointsOf[c.current]
           active(c) == [c EXCEPT !.inMini = inMini(c)]
<1>1. PICK c \in chosen : q = active(c)
  BY Zenon DEF InputRoundActivate
<1>2. Starts(s, c)
  <2>1. CASE s.current = NoRound
    BY <1>1, <2>1, ChooseRound
  <2>2. CASE s.current # NoRound
    BY <1>1, <2>2 DEF Starts, Handed, SameRules
  <2> QED BY <2>1, <2>2
<1>3. inMini(c) \in SUBSET Points
  <2>1. c.current \in Rounds \cup {NoRound}
    BY <1>2 DEF Starts, MatchType
  <2> QED BY <2>1, ConstantsAssumption
<1> HIDE DEF inMini
<1>4. /\ active(c) \in MatchType /\ active(c).current = c.current /\ active(c).owner = c.owner
      /\ active(c).next = c.next /\ SameRules(c, active(c))
  BY <1>2, <1>3, ZenonT(60) DEF MatchType, SameRules, Starts
<1> HIDE DEF active
<1> QED BY <1>1, <1>2, <1>4 DEF Starts, Handed, SameRules

\* A round starts, with the map made again or as the last round left it.
LEMMA Respawned ==
  ASSUME NEW s \in MatchType, NEW q \in RoundRespawn(s),
         s.current # NoRound => IsPlayable(s.owner, s.current),
         ~(s.reset \/ s.prevWait) /\ s.current = NoRound => s.kept \/ Playable(s.owner) # {}
  PROVE  /\ Good(q) /\ q.phase = "preround"
         /\ ~(s.reset \/ s.prevWait) => Handed(s, q)
<1> DEFINE m == IF s.reset \/ s.prevWait THEN CleanUpMap(s) ELSE s
           p == [m EXCEPT !.phase = "preround"]
<1>1. Default \in [Points -> Owners]
  BY ConstantsAssumption DEF Owners
<1>2. /\ CleanUpMap(s) \in MatchType /\ CleanUpMap(s).owner = Default
      /\ CleanUpMap(s).current = NoRound
  BY <1>1, ZenonT(60) DEF MatchType, CleanUpMap
<1>3. /\ m \in MatchType
      /\ m.current # NoRound => IsPlayable(m.owner, m.current)
      /\ m.current = NoRound => m.kept \/ Playable(m.owner) # {}
      /\ ~(s.reset \/ s.prevWait) => m = s
  BY <1>2, PlayableAssumption
<1>4. q \in InputRoundActivate(p)
  BY DEF RoundRespawn
<1> HIDE DEF m
<1>5. /\ p \in MatchType /\ p.phase = "preround" /\ p.current = m.current
      /\ p.owner = m.owner /\ p.next = m.next /\ p.kept = m.kept
  BY <1>3, ZenonT(60) DEF MatchType
<1> HIDE DEF p
<1>6. Starts(p, q)
  BY <1>3, <1>4, <1>5, Activated
<1>7. CASE m.current = NoRound
  <2>1. q \in MatchType /\ q.phase = "preround" /\ Winnable(q)
    BY <1>3, <1>5, <1>6, <1>7 DEF Starts, SameRules, Winnable
  <2> QED BY <1>3, <1>5, <1>6, <2>1 DEF Good, Continues, Fresh, Starts, Handed
<1>8. CASE m.current # NoRound
  <2>1. p.current # NoRound /\ q.current = p.current
    <3>1. \A c : [p EXCEPT !.inMini = c].current = p.current
      BY <1>5, ZenonT(60) DEF MatchType
    <3>2. p.current # NoRound
      BY <1>5, <1>8
    <3>3. \E c : q = [p EXCEPT !.inMini = c]
      BY <1>4, <3>2, Zenon DEF InputRoundActivate
    <3> QED BY <3>1, <3>2, <3>3
  <2>2. q \in MatchType /\ q.phase = "preround" /\ Winnable(q)
    BY <1>5, <1>6, <2>1 DEF Starts, SameRules, Winnable
  <2> QED BY <1>3, <1>5, <1>6, <2>2 DEF Good, Continues, Fresh, Starts, Handed
<1> QED BY <1>7, <1>8

-----------------------------------------------------------------------------
(* Winning                                                                 *)

\* A win in the course of the game leaves a round to play, or the map is made again.
LEMMA WinGood ==
  ASSUME NEW s \in MatchType, NEW t \in Owners, NEW full \in BOOLEAN,
         ~full => Playable(s.owner) # {}
  PROVE  Good(SetWinningTeam(s, t, full))
<1> DEFINE q == SetWinningTeam(s, t, full)
<1>1. q \in MatchType /\ q.phase = "won" /\ q.reset = full /\ q.owner = s.owner
  BY ZenonT(60) DEF MatchType, SetWinningTeam
<1> HIDE DEF q
<1>2. Good(q)
  BY <1>1 DEF Good, Winnable, Continues, Fresh
<1> QED BY <1>2 DEF q

\* So it is when the master declares it.
LEMMA MasterWinGood ==
  ASSUME NEW s \in MatchType, NEW t \in Owners
  PROVE  Good(MasterWin(s, t))
<1> DEFINE full == Playable(s.owner) = {}
<1>1. full \in BOOLEAN /\ (~full => Playable(s.owner) # {})
  OBVIOUS
<1>2. MasterWin(s, t) = SetWinningTeam(s, t, full)
  BY DEF MasterWin
<1> HIDE DEF full
<1> QED BY <1>1, <1>2, WinGood

\* A point gets an owner: the round is won, or it can still be won.
LEMMA OwnedGood ==
  ASSUME NEW s, Good(s), s.phase = "running", NEW p \in Points, NEW t \in Owners,
         NEW b \in BOOLEAN
  PROVE  Good(InternalSetOwner(s, p, t, b))
<1> DEFINE owner == [s.owner EXCEPT ![p] = t]
           q == [s EXCEPT !.owner = owner]
<1>0. s \in MatchType /\ s.owner \in [Points -> Owners]
  BY DEF Good, MatchType
<1>1. owner \in [Points -> Owners]
  BY <1>0
<1>2. InternalSetOwner(s, p, t, b) = CheckWinConditions(q)
  BY DEF InternalSetOwner
<1> HIDE DEF owner
<1>3. /\ q \in MatchType /\ q.owner = owner /\ q.current = s.current
      /\ q.kept = s.kept /\ q.phase = "running"
  BY <1>0, <1>1, ZenonT(60) DEF MatchType
<1> HIDE DEF q
<1>4. CASE q.current # NoRound /\ Won(q.owner, q.current)
  <2>1. CheckWinConditions(q) = MasterWin(q, TeamOwnsAllPoints(q.owner, q.current))
    BY <1>4 DEF CheckWinConditions
  <2> QED BY <1>2, <1>3, <2>1, OwnsType, MasterWinGood
<1>5. CASE ~(q.current # NoRound /\ Won(q.owner, q.current))
  <2>1. CheckWinConditions(q) = q
    BY <1>5 DEF CheckWinConditions
  <2>2. Winnable(q)
    BY <1>3, <1>5 DEF Good, Winnable, IsPlayable
  <2> QED BY <1>2, <1>3, <2>1, <2>2 DEF Good, Continues, Fresh
<1> QED BY <1>4, <1>5

-----------------------------------------------------------------------------
(* The actions                                                             *)

\* Before the game the map is to be made, and nothing is asked for.
LEMMA InitGood == Init => Good(match) /\ inputs \in 0..MaxInputs
<1> SUFFICES ASSUME Init PROVE Good(match) /\ inputs \in 0..MaxInputs
  OBVIOUS
<1>1. Default \in [Points -> Owners] /\ 0 \in 0..MaxInputs
  BY ConstantsAssumption DEF Owners
<1>2. match \in MatchType
  BY <1>1, ZenonT(60) DEF Init, InitMatch, MatchType, Owners
<1>3. match.phase = "pregame" /\ match.reset /\ match.current = NoRound /\ inputs = 0
  BY DEF Init, InitMatch
<1> QED BY <1>1, <1>2, <1>3 DEF Good, Winnable, Continues, Fresh

\* A state that differs from one that is good in what the operator asks for.
LEMMA RequestGood ==
  ASSUME NEW s, Good(s), NEW q \in MatchType, q.owner = s.owner, q.current = s.current,
         q.phase = s.phase, q.phase # "pregame", s.kept => q.kept,
         q.phase = "won" => q.reset \/ q.kept \/ ~s.reset
  PROVE  Good(q)
BY DEF Good, Winnable, Continues, Fresh

\* The actions of the game.
LEMMA PlayGood ==
  ASSUME Good(match), \/ RoundRunning \/ CPMThink \/ NextRound \/ Restart \/ WaitingEnds
                      \/ \E b \in BOOLEAN : StartGame(b)
  PROVE  Good(match')
<1>1. match \in MatchType
  BY DEF Good
<1>2. CASE RoundRunning
  <2> DEFINE q == [match EXCEPT !.phase = "running", !.prevWait = FALSE]
  <2>1. match' = q /\ match.phase = "preround"
    BY <1>2 DEF RoundRunning, Set
  <2>2. /\ q \in MatchType /\ q.phase = "running" /\ q.owner = match.owner
        /\ q.current = match.current /\ q.kept = match.kept
    BY <1>1, ZenonT(60) DEF MatchType
  <2> HIDE DEF q
  <2>3. Good(q)
    BY <2>1, <2>2 DEF Good, Winnable, Continues, Fresh
  <2> QED BY <2>1, <2>3
<1>3. CASE CPMThink
  <2>1. match.phase = "running" /\ match' = CheckWinConditions(match)
    BY <1>3 DEF CPMThink, PointsMayBeCaptured, Set
  <2>2. match.current = NoRound \/ ~Won(match.owner, match.current)
    BY <2>1 DEF Good, Winnable, IsPlayable
  <2> QED BY <2>1, <2>2 DEF CheckWinConditions
<1>4. CASE NextRound
  <2> DEFINE p == PreviousRoundEnd(match)
  <2>1. match' \in RoundRespawn(p) /\ match.phase = "won"
    BY <1>4 DEF NextRound, Set
  <2>2. /\ p \in MatchType /\ p.current = NoRound /\ p.owner = match.owner
        /\ p.reset = match.reset /\ p.kept = match.kept
    BY <1>1, ZenonT(60) DEF MatchType, PreviousRoundEnd
  <2> HIDE DEF p
  <2>3. ~(p.reset \/ p.prevWait) => p.kept \/ Playable(p.owner) # {}
    BY <2>1, <2>2 DEF Good, Continues
  <2> QED BY <2>1, <2>2, <2>3, Respawned
<1>5. CASE Restart
  <2> DEFINE prevWait == match.waiting
             p == [match EXCEPT !.prevWait = prevWait, !.waiting = FALSE, !.restart = FALSE]
  <2>1. match' \in RoundRespawn(p) /\ match.phase = "running"
    BY <1>5 DEF Restart, State_Enter_RESTART, Set
  <2>2. prevWait \in BOOLEAN
    BY <1>1 DEF MatchType
  <2> HIDE DEF prevWait
  <2>3. /\ p \in MatchType /\ p.current = match.current /\ p.owner = match.owner
        /\ p.kept = match.kept
    BY <1>1, <2>2, ZenonT(60) DEF MatchType
  <2> HIDE DEF p
  <2>4. /\ p.current # NoRound => IsPlayable(p.owner, p.current)
        /\ p.current = NoRound => p.kept
    BY <2>1, <2>3 DEF Good, Winnable
  <2> QED BY <2>1, <2>3, <2>4, Respawned
<1>6. CASE WaitingEnds
  <2> DEFINE next == IF match.current = NoRound THEN match.next ELSE RoundToUseAfterRestart(match)
             q == [match EXCEPT !.restart = TRUE, !.next = next]
  <2>1. match' = q /\ match.phase # "pregame" /\ match.waiting
    BY <1>6 DEF WaitingEnds, Set
  <2>2. next \in Rounds \cup {NoRound}
    BY <1>1 DEF MatchType, RoundToUseAfterRestart
  <2> HIDE DEF next
  <2>3. /\ q \in MatchType /\ q.owner = match.owner /\ q.current = match.current
        /\ q.phase = match.phase /\ q.reset = match.reset /\ q.kept = match.kept
    BY <1>1, <2>2, ZenonT(60) DEF MatchType
  <2> HIDE DEF q
  <2> QED BY <1>1, <2>1, <2>3, RequestGood DEF MatchType
<1>7. ASSUME NEW b \in BOOLEAN, StartGame(b) PROVE Good(match')
  <2> DEFINE p == [match EXCEPT !.waiting = b]
  <2>1. match' \in RoundRespawn(p) /\ match.phase = "pregame"
    BY <1>7 DEF StartGame, Set
  <2>2. p \in MatchType /\ p.reset = match.reset /\ p.phase = match.phase
    BY <1>1, ZenonT(60) DEF MatchType
  <2>3. p.current = match.current /\ p.owner = match.owner
    BY <1>1, ZenonT(60) DEF MatchType
  <2> HIDE DEF p
  <2>4. p.reset
    BY <2>1, <2>2 DEF Good, Fresh
  <2>5. match.current = NoRound
    BY <2>1 DEF Good, Fresh
  <2> QED BY <2>1, <2>2, <2>3, <2>4, <2>5, Respawned
<1> QED BY <1>2, <1>3, <1>4, <1>5, <1>6, <1>7

\* The points change hands and rounds are won.
LEMMA InputsGood ==
  ASSUME Good(match),
         \/ \E p \in Points : \/ \E t \in Teams : Capture(p, t)
                              \/ \E t \in Owners : InputSetOwner(p, t)
         \/ \E t \in Teams : InputSetWinner(t) \/ InputSetWinnerAndForceCaps(t)
         \/ \E t \in Teams : \E full \in BOOLEAN : MapRoundWin(t, full)
  PROVE  Good(match')
<1>1. match \in MatchType /\ Teams \subseteq Owners
  BY DEF Good, Owners
<1>3. ASSUME NEW p \in Points, NEW t \in Teams, Capture(p, t) PROVE Good(match')
  <2>1. match.phase = "running" /\ match' = InternalSetOwner(match, p, t, TRUE)
    BY <1>3 DEF Capture, PointsMayBeCaptured, Set
  <2> QED BY <1>1, <2>1, OwnedGood
<1>4. ASSUME NEW p \in Points, NEW t \in Owners, InputSetOwner(p, t) PROVE Good(match')
  <2>1. match.phase = "running" /\ match' = InternalSetOwner(match, p, t, FALSE)
    BY <1>4 DEF InputSetOwner, PointsMayBeCaptured, Input
  <2> QED BY <1>1, <2>1, OwnedGood
<1>5. ASSUME NEW t \in Teams, InputSetWinner(t) PROVE Good(match')
  <2>1. match.phase # "pregame" /\ match' = MasterWin(match, t)
    BY <1>5 DEF InputSetWinner, Input
  <2> QED BY <1>1, <2>1, MasterWinGood
<1>6. ASSUME NEW t \in Teams, InputSetWinnerAndForceCaps(t) PROVE Good(match')
  <2> DEFINE owner == [p \in Points |-> IF p \in match.inMini THEN t ELSE match.owner[p]]
             q == [match EXCEPT !.owner = owner]
  <2>1. owner \in [Points -> Owners]
    BY <1>1 DEF MatchType
  <2>2. match.phase # "pregame" /\ match' = MasterWin(q, t)
    BY <1>6 DEF InputSetWinnerAndForceCaps, ForceCaps, Input
  <2> HIDE DEF owner
  <2>3. q \in MatchType
    BY <1>1, <2>1, ZenonT(60) DEF MatchType
  <2> HIDE DEF q
  <2> QED BY <1>1, <2>2, <2>3, MasterWinGood
<1>7. ASSUME NEW t \in Teams, NEW full \in BOOLEAN, MapRoundWin(t, full) PROVE Good(match')
  <2>1. /\ match.phase # "pregame" /\ match' = SetWinningTeam(match, t, full)
        /\ full \/ Playable(match.owner) # {}
    BY <1>7 DEF MapRoundWin, Input
  <2> QED BY <1>1, <2>1, WinGood
<1> QED BY <1>3, <1>4, <1>5, <1>6, <1>7

\* What the operator asks for.
LEMMA OperatorGood ==
  ASSUME Good(match), WaitForPlayers \/ CancelWaiting \/ \E game \in BOOLEAN : AskRestart(game)
  PROVE  Good(match')
<1>1. match \in MatchType /\ match.phase # "pregame"
  BY DEF Good, WaitForPlayers, CancelWaiting, AskRestart, Input
<1>2. ASSUME NEW b \in BOOLEAN, match' = [match EXCEPT !.waiting = b] PROVE Good(match')
  <2> DEFINE q == [match EXCEPT !.waiting = b]
  <2>1. /\ q \in MatchType /\ q.owner = match.owner /\ q.current = match.current
        /\ q.phase = match.phase /\ q.reset = match.reset /\ q.kept = match.kept
    BY <1>1, ZenonT(60) DEF MatchType
  <2> HIDE DEF q
  <2>2. Good(q)
    BY <1>1, <2>1, RequestGood DEF MatchType
  <2> QED BY <1>2, <2>2 DEF q
<1>3. WaitForPlayers \/ CancelWaiting => Good(match')
  BY <1>2 DEF WaitForPlayers, CancelWaiting, Input
<1>4. ASSUME NEW game \in BOOLEAN, AskRestart(game) PROVE Good(match')
  <2> DEFINE kept == match.kept \/ (match.phase = "won" /\ match.reset /\ ~game)
             q == [match EXCEPT !.reset = game, !.restart = TRUE, !.kept = kept]
  <2>1. match' = q
    BY <1>4 DEF AskRestart, Input
  <2>2. kept \in BOOLEAN
    BY <1>1 DEF MatchType
  <2>3. (match.kept => kept) /\ (match.phase = "won" => game \/ kept \/ ~match.reset)
    OBVIOUS
  <2> HIDE DEF kept
  <2>4. /\ q \in MatchType /\ q.owner = match.owner /\ q.current = match.current
        /\ q.phase = match.phase /\ q.reset = game /\ q.kept = kept
    BY <1>1, <2>2, ZenonT(60) DEF MatchType
  <2> HIDE DEF q
  <2> QED BY <1>1, <2>1, <2>3, <2>4, RequestGood
<1> QED BY <1>3, <1>4

\* Every step keeps the invariant.
LEMMA NextGood == Good(match) /\ [Next]_vars => Good(match')
<1> SUFFICES ASSUME Good(match), [Next]_vars PROVE Good(match')
  OBVIOUS
<1>1. CASE UNCHANGED vars
  BY <1>1 DEF vars
<1>2. CASE Next
  BY <1>2, PlayGood, InputsGood, OperatorGood, Zenon DEF Next
<1> QED BY <1>1, <1>2

\* A new owner wins the round for a team or leaves it as it is.
LEMMA OwnerPhase ==
  ASSUME NEW s \in MatchType, s.phase = "won", NEW p \in Points, NEW t, NEW b
  PROVE  InternalSetOwner(s, p, t, b).phase = "won"
<1> DEFINE owner == [s.owner EXCEPT ![p] = t]
           q == [s EXCEPT !.owner = owner]
           winner == TeamOwnsAllPoints(owner, s.current)
           full == Playable(owner) = {}
           won == [q EXCEPT !.phase = "won", !.winner = winner, !.reset = full, !.kept = FALSE]
<1>1. InternalSetOwner(s, p, t, b) = CheckWinConditions(q)
  BY DEF InternalSetOwner
<1> HIDE DEF owner
<1>2. q.phase = "won" /\ q.owner = owner /\ q.current = s.current
  BY ZenonT(60) DEF MatchType
<1>3. DOMAIN q = DOMAIN s /\ "phase" \in DOMAIN s
  BY ZenonT(60) DEF MatchType
<1> HIDE DEF q
<1>4. CheckWinConditions(q) = q \/ CheckWinConditions(q) = won
  BY <1>2, ZenonT(30) DEF CheckWinConditions, MasterWin, SetWinningTeam
<1> HIDE DEF winner, full
<1>5. won.phase = "won"
  BY <1>3, ZenonT(30)
<1> QED BY <1>1, <1>2, <1>4, <1>5

\* From a round that is won only NextRound leads to the start of another.
LEMMA OnlyNextRound ==
  ASSUME match \in MatchType, match.phase = "won", match'.phase = "preround", Next
  PROVE  NextRound
<1>1. ~RoundRunning /\ ~CPMThink /\ ~Restart /\ \A b \in BOOLEAN : ~StartGame(b)
  BY DEF RoundRunning, CPMThink, Restart, StartGame, PointsMayBeCaptured
<1>2. ~WaitingEnds
  <2> SUFFICES ASSUME WaitingEnds PROVE FALSE
    OBVIOUS
  <2>1. PICK next : match' = [match EXCEPT !.restart = TRUE, !.next = next]
    BY ZenonT(30) DEF WaitingEnds, Set
  <2>2. [match EXCEPT !.restart = TRUE, !.next = next].phase = match.phase
    BY ZenonT(30) DEF MatchType
  <2> QED BY <2>1, <2>2
<1>3. ~WaitForPlayers /\ ~CancelWaiting
  <2>1. \A b : [match EXCEPT !.waiting = b].phase = match.phase
    BY ZenonT(30) DEF MatchType
  <2> QED BY <2>1 DEF WaitForPlayers, CancelWaiting, Input
<1>4. \A game \in BOOLEAN : ~AskRestart(game)
  <2> SUFFICES ASSUME NEW game \in BOOLEAN, AskRestart(game) PROVE FALSE
    OBVIOUS
  <2>1. PICK kept : match' = [match EXCEPT !.reset = game, !.restart = TRUE, !.kept = kept]
    BY ZenonT(30) DEF AskRestart, Input
  <2>2. [match EXCEPT !.reset = game, !.restart = TRUE, !.kept = kept].phase = match.phase
    BY ZenonT(30) DEF MatchType
  <2> QED BY <2>1, <2>2
<1>5. ASSUME NEW s \in MatchType, NEW t, NEW full PROVE SetWinningTeam(s, t, full).phase = "won"
  BY ZenonT(30) DEF SetWinningTeam, MatchType
<1>6. \A t \in Teams : \A b \in BOOLEAN : ~MapRoundWin(t, b)
  BY <1>5 DEF MapRoundWin, Input
<1>7. \A t \in Teams : ~InputSetWinner(t)
  BY <1>5 DEF InputSetWinner, Input, MasterWin
<1>8. \A t \in Teams : ~InputSetWinnerAndForceCaps(t)
  <2> SUFFICES ASSUME NEW t \in Teams, InputSetWinnerAndForceCaps(t) PROVE FALSE
    OBVIOUS
  <2> DEFINE owner == [p \in Points |-> IF p \in match.inMini THEN t ELSE match.owner[p]]
             q == [match EXCEPT !.owner = owner]
  <2>1. owner \in [Points -> Owners]
    BY DEF MatchType, Owners
  <2>2. match' = MasterWin(q, t)
    BY DEF InputSetWinnerAndForceCaps, ForceCaps, Input
  <2> HIDE DEF owner
  <2>3. q \in MatchType
    BY <2>1, ZenonT(60) DEF MatchType
  <2> HIDE DEF q
  <2> QED BY <1>5, <2>2, <2>3 DEF MasterWin
<1>9. \A p \in Points : /\ \A t \in Teams : ~Capture(p, t)
                       /\ \A t \in Owners : ~InputSetOwner(p, t)
  BY OwnerPhase DEF Capture, InputSetOwner, Input, PointsMayBeCaptured
<1> QED
  BY <1>1, <1>2, <1>3, <1>4, <1>6, <1>7, <1>8, <1>9, Zenon DEF Next

\* The inputs are counted.
LEMMA InputsCounted == inputs \in 0..MaxInputs /\ [Next]_vars => inputs' \in 0..MaxInputs
<1> SUFFICES ASSUME inputs \in 0..MaxInputs, [Next]_vars PROVE inputs' \in 0..MaxInputs
  OBVIOUS
<1>1. ASSUME NEW s, Set(s) PROVE inputs' \in 0..MaxInputs
  BY <1>1 DEF Set
<1>2. ASSUME NEW s, Input(s) PROVE inputs' \in 0..MaxInputs
  BY <1>2, ConstantsAssumption DEF Input
<1>3. CASE UNCHANGED vars
  BY <1>3 DEF vars
<1>4. CASE Next
  BY <1>1, <1>2, <1>4, ZenonT(60) DEF Next, RoundRunning, CPMThink, NextRound, Restart, WaitingEnds,
     WaitForPlayers, CancelWaiting, StartGame, AskRestart, MapRoundWin, InputSetWinner,
     InputSetWinnerAndForceCaps, Capture, InputSetOwner
<1> QED BY <1>3, <1>4

-----------------------------------------------------------------------------
(* The rounds that remain                                                  *)

\* Two conditions on a map.  Some mini-round joins any part of the points to the rest;
\* and no team is barred from winning a mini-round by capturing its points.
Joined ==
  \A S \in SUBSET Points : S # {} /\ S # Points =>
    \E r \in Rounds : PointsOf[r] \cap S # {} /\ ~ (PointsOf[r] \subseteq S)
NoneBarred == \A r \in Rounds : InvalidCapWinner[r] \notin Teams

\* Induction over the numbers, for a set of them.
LEMMA Induction ==
  ASSUME NEW S, 0 \in S, \A n \in Nat : n \in S => n + 1 \in S
  PROVE  Nat \subseteq S
<1> DEFINE T == {0..n : n \in Nat \ S}
<1> SUFFICES ASSUME T # {} PROVE FALSE
  OBVIOUS
<1>1. T \subseteq FiniteSubsetsOf(Nat)
  <2>1. \A n \in Nat : IsFiniteSet(0..n)
    BY FS_Interval
  <2> QED BY <2>1 DEF FiniteSubsetsOf
<1>2. PICK m \in T : \A y \in T : ~ (<<y, m>> \in StrictSubsetOrdering(Nat))
  BY <1>1, FS_StrictSubsetOrderingWellFounded, WFMin, Zenon
<1>3. PICK n \in Nat \ S : m = 0..n
  OBVIOUS
<1>4. n - 1 \in Nat \ S
  BY <1>3
<1>5. 0..(n-1) \in T
  BY <1>4
<1>6. 0..(n-1) \subseteq 0..n /\ n \in 0..n /\ n \notin 0..(n-1) /\ 0..n \subseteq Nat
  BY <1>4
<1>7. <<0..(n-1), 0..n>> \in StrictSubsetOrdering(Nat)
  BY <1>6 DEF StrictSubsetOrdering
<1> QED BY <1>2, <1>3, <1>5, <1>7

\* A list of rounds that is not empty has a first one.
LEMMA FirstIn ==
  ASSUME NEW S, S \subseteq Nat, S # {}
  PROVE  First(S) \in S
<1> SUFFICES ASSUME \A x \in S : \E y \in S : ~ (x <= y) PROVE FALSE
  BY DEF First
<1> DEFINE N == {n \in Nat : \A x \in S : n <= x}
<1>1. 0 \in N
  OBVIOUS
<1>2. ASSUME NEW n \in Nat, n \in N PROVE n + 1 \in N
  <2>1. n \notin S
    BY <1>2
  <2>2. \A x \in S : n <= x /\ x # n /\ x \in Nat
    BY <1>2, <2>1
  <2> QED BY <2>2
<1>3. Nat \subseteq N
  <2> HIDE DEF N
  <2> QED BY <1>1, <1>2, Induction
<1>4. PICK x \in S : x + 1 \in N
  BY <1>3
<1> QED BY <1>4

\* A set of points has a number of elements, and only all of them are as many as there are.
LEMMA Count ==
  /\ Cardinality(Points) \in Nat
  /\ \A S \in SUBSET Points : /\ IsFiniteSet(S) /\ Cardinality(S) \in Nat
                              /\ Cardinality(S) <= Cardinality(Points)
                              /\ Cardinality(S) = Cardinality(Points) => S = Points
<1>1. IsFiniteSet(Points)
  BY ConstantsAssumption
<1>2. Cardinality(Points) \in Nat
  BY <1>1, FS_CardinalityType
<1>3. ASSUME NEW S \in SUBSET Points
      PROVE  /\ IsFiniteSet(S) /\ Cardinality(S) <= Cardinality(Points)
             /\ Cardinality(Points) = Cardinality(S) => Points = S
  BY <1>1, FS_Subset
<1>4. \A S \in SUBSET Points : Cardinality(S) \in Nat
  BY <1>3, FS_CardinalityType
<1> QED BY <1>2, <1>3, <1>4

\* A larger set of points has more elements.
LEMMA More ==
  ASSUME NEW S \in SUBSET Points, NEW T \in SUBSET Points, S \subseteq T, S # T
  PROVE  Cardinality(S) + 1 <= Cardinality(T)
<1>1. IsFiniteSet(T)
  BY Count
<1>2. /\ Cardinality(S) <= Cardinality(T)
      /\ Cardinality(T) = Cardinality(S) => T = S
  BY <1>1, FS_Subset
<1> QED BY <1>2, Count

\* The points after no round, and after one more.
LEMMA OwnedStep ==
  /\ OwnedAfter[0] = {p \in Points : match.owner[p] = match.winner}
  /\ \A n \in Nat : n + 1 <= Cardinality(Points) =>
       OwnedAfter[n + 1] = PlayNext(match.owner, match.winner, OwnedAfter[n])
<1> DEFINE Start == {p \in Points : match.owner[p] = match.winner}
           Step(S) == PlayNext(match.owner, match.winner, S)
           Rec(f, n) == f = [k \in 0..n |-> IF k = 0 THEN Start ELSE Step(f[k - 1])]
           S == {n \in Nat : \E f : Rec(f, n)}
<1>0. OwnedAfter = CHOOSE f : Rec(f, Cardinality(Points))
  BY DEF OwnedAfter
<1> HIDE DEF Start, Step
<1>1. 0 \in S
  <2> DEFINE f == [k \in 0..0 |-> Start]
  <2>1. \A k \in 0..0 : k = 0
    OBVIOUS
  <2>2. f = [k \in 0..0 |-> IF k = 0 THEN Start ELSE Step(f[k - 1])]
    BY <2>1
  <2>3. Rec(f, 0)
    BY <2>2
  <2> QED BY <2>3
<1>2. ASSUME NEW n \in Nat, n \in S PROVE n + 1 \in S
  <2>1. PICK f : Rec(f, n)
    BY <1>2
  <2> DEFINE g == [k \in 0..(n + 1) |-> IF k <= n THEN f[k] ELSE Step(f[n])]
             h == [k \in 0..(n + 1) |-> IF k = 0 THEN Start ELSE Step(g[k - 1])]
  <2>2. \A k \in 0..n : g[k] = f[k]
    OBVIOUS
  <2>3. ASSUME NEW k \in 0..(n + 1) PROVE g[k] = IF k = 0 THEN Start ELSE Step(g[k - 1])
    <3>1. CASE k = 0
      BY <3>1, <2>1
    <3>2. CASE k \in 1..n
      <4>1. g[k] = f[k] /\ g[k - 1] = f[k - 1] /\ k # 0 /\ k \in 0..n
        BY <3>2, <2>2
      <4> HIDE DEF g
      <4>2. f[k] = Step(f[k - 1])
        BY <2>1, <4>1
      <4> QED BY <4>1, <4>2
    <3>3. CASE k = n + 1
      <4>1. g[k - 1] = f[n] /\ k # 0 /\ ~ (k <= n)
        BY <3>3, <2>2
      <4> QED BY <3>3, <4>1
    <3> QED BY <3>1, <3>2, <3>3
  <2>4. \A k \in 0..(n + 1) : g[k] = h[k]
    <3> HIDE DEF g
    <3> QED BY <2>3
  <2>5. g = h
    <3>1. g = [k \in 0..(n + 1) |-> g[k]] /\ h = [k \in 0..(n + 1) |-> h[k]]
      OBVIOUS
    <3> HIDE DEF g, h
    <3>2. [k \in 0..(n + 1) |-> g[k]] = [k \in 0..(n + 1) |-> h[k]]
      BY <2>4
    <3> QED BY <3>1, <3>2
  <2> HIDE DEF g
  <2> QED BY <2>5
<1>3. Cardinality(Points) \in S
  <2> HIDE DEF S
  <2> QED BY <1>1, <1>2, Induction, Count
<1>4. Rec(OwnedAfter, Cardinality(Points))
  BY <1>0, <1>3
<1>5. \A k \in 0..Cardinality(Points) :
        OwnedAfter[k] = IF k = 0 THEN Start ELSE Step(OwnedAfter[k - 1])
  BY <1>4
<1> HIDE DEF Rec
<1>6. OwnedAfter[0] = Start
  BY <1>5, Count
<1>7. ASSUME NEW n \in Nat, n + 1 <= Cardinality(Points)
      PROVE  OwnedAfter[n + 1] = Step(OwnedAfter[n])
  <2>1. n + 1 \in 0..Cardinality(Points) /\ n + 1 # 0 /\ (n + 1) - 1 = n
    BY <1>7, Count
  <2> QED BY <1>5, <2>1
<1> QED BY <1>6, <1>7 DEF Start, Step

\* On a map that is joined and bars nobody, a simulated round that leaves points to win
\* wins some of them.
LEMMA PlayNextGrows ==
  ASSUME Joined, NoneBarred,
         NEW owner \in [Points -> Owners], NEW t \in Teams, Playable(owner) # {},
         NEW S \in SUBSET Points, {p \in Points : owner[p] = t} \subseteq S, S # Points
  PROVE  PlayNext(owner, t, S) \in SUBSET Points /\ S \subseteq PlayNext(owner, t, S)
         /\ PlayNext(owner, t, S) # S
<1> DEFINE o == Simulated(owner, t, S)
           r == First(Playable(o))
<1>1. /\ \A p \in S : o[p] = t
      /\ \A p \in Points \ S : o[p] # t
  BY DEF Simulated
<1>2. Playable(o) # {}
  <2>1. CASE S = {}
    <3>1. o = [p \in Points |-> owner[p]]
      BY <2>1 DEF Simulated
    <3> QED BY <3>1
  <2>2. CASE S # {}
    <3>1. PICK q \in Rounds : PointsOf[q] \cap S # {} /\ ~ (PointsOf[q] \subseteq S)
      BY <2>2 DEF Joined
    <3>2. PICK a \in PointsOf[q] : a \in S
      BY <3>1
    <3>3. PICK b \in PointsOf[q] : b \in Points \ S
      BY <3>1, ConstantsAssumption
    <3> HIDE DEF o
    <3>4. o[a] = t /\ o[b] # t
      BY <1>1, <3>2, <3>3
    <3>5. ~ \E u \in Teams : \A p \in PointsOf[q] : o[p] = u
      BY <3>2, <3>3, <3>4
    <3>6. TeamOwnsAllPoints(o, q) = NoTeam
      BY <3>5 DEF TeamOwnsAllPoints
    <3> QED BY <3>1, <3>6, None DEF Playable, IsPlayable, Won
  <2> QED BY <2>1, <2>2
<1>3. r \in Rounds /\ IsPlayable(o, r)
  <2>1. Playable(o) \subseteq Nat
    BY ConstantsAssumption DEF Playable
  <2>2. r \in Playable(o)
    BY <1>2, <2>1, FirstIn
  <2> HIDE DEF r, o
  <2> QED BY <2>2 DEF Playable
<1>4. PlayNext(owner, t, S) = S \cup PointsOf[r]
  BY <1>2 DEF PlayNext
<1> HIDE DEF r, o
<1>5. PointsOf[r] \in SUBSET Points /\ PointsOf[r] # {}
  BY <1>3, ConstantsAssumption
<1>6. ~ (PointsOf[r] \subseteq S)
  <2> SUFFICES ASSUME PointsOf[r] \subseteq S PROVE FALSE
    OBVIOUS
  <2>1. \A p \in PointsOf[r] : o[p] = t
    BY <1>1
  <2>2. TeamOwnsAllPoints(o, r) \in Teams
    BY <2>1 DEF TeamOwnsAllPoints
  <2>3. InvalidCapWinner[r] \notin Teams
    BY <1>3 DEF NoneBarred
  <2> QED BY <1>3, <2>2, <2>3 DEF IsPlayable, Won
<1> QED BY <1>4, <1>5, <1>6

\* After n rounds the winner owns n points at least, or all of them.
LEMMA OwnedGrows ==
  ASSUME Joined, NoneBarred, match.owner \in [Points -> Owners], match.winner \in Teams,
         Playable(match.owner) # {}
  PROVE  OwnedAfter[Cardinality(Points)] = Points
<1> DEFINE Start == {p \in Points : match.owner[p] = match.winner}
           G(n) == /\ OwnedAfter[n] \in SUBSET Points /\ Start \subseteq OwnedAfter[n]
                   /\ OwnedAfter[n] = Points \/ n <= Cardinality(OwnedAfter[n])
           S == {n \in Nat : n <= Cardinality(Points) => G(n)}
<1>1. 0 \in S
  BY OwnedStep, Count
<1>2. ASSUME NEW n \in Nat, n \in S PROVE n + 1 \in S
  <2> SUFFICES ASSUME n + 1 <= Cardinality(Points) PROVE G(n + 1)
    OBVIOUS
  <2> DEFINE A == OwnedAfter[n]
             B == OwnedAfter[n + 1]
  <2>1. G(n)
    BY <1>2, Count
  <2>2. B = PlayNext(match.owner, match.winner, A)
    BY OwnedStep
  <2>3. CASE A = Points
    <3>1. \A T \in SUBSET Points : Points \cup T = Points
      OBVIOUS
    <3>2. B = Points
      <4> DEFINE playable == Playable(Simulated(match.owner, match.winner, A))
      <4>1. CASE playable = {}
        BY <2>2, <2>3, <4>1 DEF PlayNext
      <4>2. CASE playable # {}
        <5>1. playable \subseteq Nat /\ playable \subseteq Rounds
          BY ConstantsAssumption DEF Playable
        <5>2. First(playable) \in Rounds
          <6> HIDE DEF playable
          <6> QED BY <4>2, <5>1, FirstIn
        <5>3. PointsOf[First(playable)] \in SUBSET Points
          <6> HIDE DEF playable
          <6> QED BY <5>2, ConstantsAssumption
        <5>4. B = A \cup PointsOf[First(playable)]
          BY <2>2, <4>2 DEF PlayNext
        <5> HIDE DEF playable
        <5> QED BY <2>3, <3>1, <5>3, <5>4
      <4> QED BY <4>1, <4>2
    <3> QED BY <3>2
  <2>4. CASE A # Points
    <3>1. A \in SUBSET Points /\ Start \subseteq A /\ n <= Cardinality(A)
      BY <2>1, <2>4
    <3> HIDE DEF A
    <3>2. B \in SUBSET Points /\ A \subseteq B /\ B # A
      BY <2>2, <2>4, <3>1, PlayNextGrows
    <3> HIDE DEF B
    <3>3. Cardinality(A) + 1 <= Cardinality(B)
      BY <3>1, <3>2, More
    <3>4. Cardinality(A) \in Nat /\ Cardinality(B) \in Nat
      BY <3>1, <3>2, Count
    <3>5. n + 1 <= Cardinality(B)
      BY <3>1, <3>3, <3>4
    <3> QED BY <3>1, <3>2, <3>5 DEF B
  <2> QED BY <2>3, <2>4
<1>3. Cardinality(Points) \in S
  <2> HIDE DEF S
  <2> QED BY <1>1, <1>2, Induction, Count
<1>4. G(Cardinality(Points))
  BY <1>3, Count
<1>5. /\ OwnedAfter[Cardinality(Points)] \in SUBSET Points
      /\ \/ OwnedAfter[Cardinality(Points)] = Points
         \/ Cardinality(Points) <= Cardinality(OwnedAfter[Cardinality(Points)])
  BY <1>4
<1>6. ASSUME NEW T \in SUBSET Points, Cardinality(Points) <= Cardinality(T) PROVE T = Points
  BY <1>6, Count
<1> QED BY <1>5, <1>6

-----------------------------------------------------------------------------
(* Theorems                                                                *)

\* The points, the master and the rules are always in states that the code knows.
THEOREM TypeCorrect == Spec => []TypeOK
<1>1. Init => Good(match) /\ inputs \in 0..MaxInputs
  BY InitGood
<1>2. Good(match) /\ inputs \in 0..MaxInputs /\ [Next]_vars
        => Good(match)' /\ (inputs \in 0..MaxInputs)'
  BY NextGood, InputsCounted
<1>3. Good(match) /\ inputs \in 0..MaxInputs => TypeOK
  BY DEF Good, TypeOK
<1> QED BY <1>1, <1>2, <1>3, PTL DEF Spec

\* The mini-round that is played can still be won, whatever points change hands, rounds
\* are won and restarts are asked for; there is none only where the operator had the map
\* of a full win kept.
THEOREM WinnableRoundAlways == Spec => []WinnableRound
<1>1. Init => Good(match)
  BY InitGood
<1>2. Good(match) /\ [Next]_vars => Good(match)'
  BY NextGood
<1>3. Good(match) => WinnableRound
  BY DEF Good, Winnable, WinnableRound
<1> QED BY <1>1, <1>2, <1>3, PTL DEF Spec

\* A mini-round starts from the owners that the last one left, or one point of them is
\* switched for the round that a waiting period asked for.
THEOREM PartialWinAlwaysKept == Spec => PartialWinKept
<1>1. Init => Good(match)
  BY InitGood
<1>2. Good(match) /\ [Next]_vars => Good(match)'
  BY NextGood
<1> DEFINE Kept == match.phase = "won" /\ match'.phase = "preround" /\ ~match.reset
                     /\ ~match.prevWait => match'.owner = match.owner \/ SwitchedForRequest
<1>3. Good(match) /\ [Next]_vars => [Kept]_vars
  <2> SUFFICES ASSUME Good(match), Next, match.phase = "won", match'.phase = "preround",
                      ~match.reset, ~match.prevWait
               PROVE  match'.owner = match.owner \/ SwitchedForRequest
    OBVIOUS
  <2> DEFINE p == PreviousRoundEnd(match)
  <2>1. match \in MatchType
    BY DEF Good
  <2>2. match' \in RoundRespawn(p)
    BY <2>1, OnlyNextRound DEF NextRound, Set
  <2>3. /\ p \in MatchType /\ p.current = NoRound /\ p.owner = match.owner
        /\ p.reset = match.reset /\ p.prevWait = match.prevWait /\ p.next = match.next
        /\ p.kept = match.kept
    BY <2>1, ZenonT(60) DEF MatchType, PreviousRoundEnd
  <2> HIDE DEF p
  <2>4. p.kept \/ Playable(p.owner) # {}
    BY <2>3 DEF Good, Continues
  <2>5. Handed(p, match')
    BY <2>2, <2>3, <2>4, Respawned
  <2> QED BY <2>3, <2>5 DEF Handed, SwitchedForRequest
<1> QED BY <1>1, <1>2, <1>3, PTL DEF Spec, PartialWinKept

\* The winner of a mini-round can be told how many are left, on a map that is joined and
\* bars no team: a win that is not the last leaves a mini-round to play, and each that is
\* simulated gives the winner a point it did not own.
THEOREM RoundsRemainingAreFinite ==
  Joined /\ NoneBarred => (Spec => []RoundsRemainingFinite)
<1> SUFFICES ASSUME Joined, NoneBarred PROVE Spec => []RoundsRemainingFinite
  OBVIOUS
<1>1. Init => Good(match)
  BY InitGood
<1>2. Good(match) /\ [Next]_vars => Good(match)'
  BY NextGood
<1>3. Good(match) => RoundsRemainingFinite
  <2> SUFFICES ASSUME Good(match), match.phase = "won", ~match.reset, ~match.kept,
                      match.winner \in Teams
               PROVE  OwnedAfter[Cardinality(Points)] = Points
    BY DEF RoundsRemainingFinite
  <2>1. match.owner \in [Points -> Owners]
    BY ZenonT(30) DEF Good, MatchType
  <2>2. Playable(match.owner) # {}
    BY DEF Good, Continues
  <2> QED BY <2>1, <2>2, OwnedGrows
<1> QED BY <1>1, <1>2, <1>3, PTL DEF Spec

=============================================================================

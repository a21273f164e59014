---------------------------- MODULE CaptureArea ----------------------------
(***************************************************************************)
(* A capture area and the control point it belongs to: CTriggerAreaCapture *)
(* (trigger_area_capture.cpp), CTeamControlPoint (team_control_point.cpp)  *)
(* and what the clients are shown of them, CBaseTeamObjectiveResource      *)
(* (team_objectiveresource.cpp).                                           *)
(*                                                                         *)
(* The owner of the point is held three times (area, point, resource) and  *)
(* the capturing team and the number of players twice.  The area thinks    *)
(* every AREA_THINK_TIME, and once more whenever a player walks in; in     *)
(* between, players come, go, die and become invulnerable, other points    *)
(* change hands and the round ends.                                        *)
(*                                                                         *)
(* Time is counted in ThinkTicks ticks to an AREA_THINK_TIME.              *)
(***************************************************************************)
EXTENDS Naturals, FiniteSets

CONSTANTS
  Teams,       \* the game teams, numbered as in the code
  NoTeam,      \* TEAM_UNASSIGNED, a smaller number
  Players,
  TeamOf,      \* of a player
  Value,       \* GetCaptureValueForPlayer: more than 1 for a scout
  MaxValue,
  Required,    \* iNumRequiredToCap of a team
  CapTime,     \* m_flCapTime
  CapStyle,    \* mp_capstyle: 1 if more players capture faster
  BlockStyle,  \* mp_blockstyle: 1 if a block only pauses the capture
  Rate,        \* progress in a tick with n players, 1 + 1/2 + ... + 1/n
  Decay,       \* progress lost in a tick when nobody captures
  ThinkTicks,
  MayCapture,  \* the sets of teams that TeamMayCapturePoint may come to allow
  MapAllows,   \* the sets of teams that the map may allow (SetTeamCanCap)
  MapGives,    \* the owners that the map or the master may give the point
  Conditions,  \* what may become of each player, see players
  Killers      \* the players who kill others

MaxCount == Cardinality(Players) * MaxValue
Nobody == "nobody"

ASSUME ConstantsAssumption ==
  /\ IsFiniteSet(Players) /\ Players # {} /\ IsFiniteSet(Teams) /\ Nobody \notin Players
  /\ Teams \subseteq Nat \ {0} /\ NoTeam \in Nat /\ \A t \in Teams : NoTeam < t
  /\ TeamOf \in [Players -> Teams] /\ Value \in [Players -> 1..MaxValue]
  /\ Required \in [Teams -> Nat \ {0}] /\ CapTime \in Nat \ {0} /\ Decay \in Nat
  /\ CapStyle \in {0, 1} /\ BlockStyle \in {0, 1}
  /\ MaxValue \in Nat \ {0} /\ Rate \in [1..MaxCount -> Nat] /\ ThinkTicks \in Nat \ {0}
  /\ MayCapture \subseteq SUBSET Teams /\ MapAllows \subseteq SUBSET Teams
  /\ MapGives \subseteq Teams \cup {NoTeam}
  /\ Conditions \in [Players -> SUBSET {"cap", "block", "hidden", "dead"}]
  /\ Killers \subseteq Players

VARIABLES
  area,     \* the area, its point and the point's entry in the objective resource
  players,  \* is a player in the area, and may he capture ("cap"), only block
            \* ("block": invulnerable), neither ("hidden": a spy), or is he dead
  round,    \* "open": PointsMayBeCaptured and PointCanBeCapped; "over": not the
            \* former; "elsewhere": a mini-round without this point is played
  may,      \* the teams that TeamMayCapturePoint allows to capture it
  due       \* ticks until the next think

vars == <<area, players, round, may, due>>

Owners == Teams \cup {NoTeam}
AreaType ==
  [capturing: BOOLEAN, capTeam: Owners, owner: Owners, left: Nat,
   lag: 0..ThinkTicks,              \* since m_flLastReductionTime
   blocked: BOOLEAN, canCap: SUBSET Teams,
   touching: [Teams -> Nat], counted: [Teams -> Nat], \* iNumTouching, iBlockedTouching
   blockers: SUBSET Players,
   credits: [Players -> Nat], killers: SUBSET Players, \* history, since the last capture:
                                    \* credits for blocks, who got one for a kill
   pointOwner: Owners, cpCapping: Owners, cpOwner: Owners, cpNum: [Teams -> Nat]]

TotalTime(t) == IF CapStyle = 1 THEN CapTime * 2 * Required[t] ELSE CapTime

-----------------------------------------------------------------------------
(* Who is in the area                                                      *)

With(ps, t, cond) == {p \in Players : TeamOf[p] = t /\ ps[p].in /\ ps[p].cond = cond}
Cappers(ps, t) == IF t \in may THEN With(ps, t, "cap") ELSE {}
Blockables(ps, t) == IF t \in may THEN With(ps, t, "block") ELSE {}

\* A scout counts several times.
Units == 1..MaxValue
Weight(S) == Cardinality({v \in S \X Units : v[2] <= Value[v[1]]})

TeamsCapping(n) == {t \in Teams : n[t] > 0}
TeamInZone(n) == IF Cardinality(TeamsCapping(n)) = 1
                 THEN CHOOSE t \in TeamsCapping(n) : TRUE ELSE NoTeam

\* Faulty: invulnerable players are not counted.
TeamsInZone_NoBlockers(ps, n) == Cardinality(TeamsCapping(n))

\* Players who may not capture but block count for their team unless two teams
\* are there already.
TeamsInZone(ps, n) ==
  Cardinality(TeamsCapping(n)) +
    IF Cardinality(TeamsCapping(n)) > 1 THEN 0
    ELSE Cardinality({t \in Teams : Blockables(ps, t) # {} /\ TeamInZone(n) # t})

First(S) == CHOOSE t \in S : \A u \in S : t <= u

-----------------------------------------------------------------------------
(* A capture starts, ends and is broken off                                *)

\* Faulty: the time left is that of the capture before.
StartCapture_OldTime(a, t) ==
  [a EXCEPT !.capturing = TRUE, !.capTeam = t, !.blocked = FALSE, !.lag = 0, !.cpCapping = t]

StartCapture(a, t) ==
  [a EXCEPT !.capturing = TRUE, !.capTeam = t, !.left = TotalTime(t),
            !.blocked = FALSE, !.lag = 0, !.cpCapping = t]

\* Faulty: the clients are not told.
BreakCapture_StillShown(a) ==
  IF a.capturing THEN [a EXCEPT !.capturing = FALSE, !.left = 0] ELSE a

BreakCapture(a) ==
  IF a.capturing THEN [a EXCEPT !.capturing = FALSE, !.left = 0, !.cpCapping = NoTeam]
  ELSE a

\* CTeamControlPoint::ForceOwner and SetOwner, and SetOwningTeam of the resource,
\* which also clears the team shown as capturing.
SetPointOwner(a, t) == [a EXCEPT !.pointOwner = t, !.cpOwner = t, !.cpCapping = NoTeam]

\* Faulty: the point keeps its owner.
EndCapture_AreaOnly(a) ==
  [a EXCEPT !.capturing = FALSE, !.owner = a.capTeam, !.left = 0, !.blockers = {},
            !.credits = [p \in Players |-> 0], !.killers = {},
            !.cpOwner = a.capTeam, !.cpCapping = NoTeam]

EndCapture(a) ==
  SetPointOwner([a EXCEPT !.capturing = FALSE, !.owner = a.capTeam, !.left = 0,
                          !.blockers = {}, !.credits = [p \in Players |-> 0],
                          !.killers = {}],
                a.capTeam)

\* CTriggerAreaCapture::ForceOwner
ForceOwner(a, t) == SetPointOwner([BreakCapture(a) EXCEPT !.owner = t], t)

-----------------------------------------------------------------------------
(* CaptureThink                                                            *)

\* Faulty: the clients are not told that a block hides the players.
CountPlayers_BlockUnshown(a, ps) ==
  LET n     == [t \in Teams |-> Weight(Cappers(ps, t))]
      shown == IF BlockStyle = 1 /\ a.capturing /\ TeamsInZone(ps, n) > 1
               THEN [t \in Teams |-> 0] ELSE n
  IN  [a EXCEPT !.touching = shown, !.counted = n,
                !.cpNum = IF n # a.touching THEN n ELSE @]

\* Counts the players of each team.  A blocked capture that is only paused
\* shows none, so that the clients stop it too.
CountPlayers(a, ps) ==
  LET n     == [t \in Teams |-> Weight(Cappers(ps, t))]
      shown == IF BlockStyle = 1 /\ a.capturing /\ TeamsInZone(ps, n) > 1
               THEN [t \in Teams |-> 0] ELSE n
  IN  [a EXCEPT !.touching = shown, !.counted = n,
                !.cpNum = IF n # a.touching \/ shown # n THEN shown ELSE @]

\* Faulty: every block is credited.
CreditBlock_Repeated(a, p) ==
  IF p = Nobody THEN a ELSE [a EXCEPT !.credits = [a.credits EXCEPT ![p] = @ + 1]]

\* A player who stands in the way of a capture that is half done gets points, once in an
\* attempt.
CreditBlock(a, p) ==
  IF p = Nobody \/ p \in a.blockers THEN a
  ELSE [a EXCEPT !.blockers = @ \cup {p}, !.credits = [a.credits EXCEPT ![p] = @ + 1]]

\* The player credited: the first to have come of the first team but the
\* capturing one (their order is not modelled, so any).
CreditFor(a, ps) ==
  LET teams == {t \in Teams \ {a.capTeam} : Cappers(ps, t) # {}}
  IN  IF ~a.capturing \/ 2 * a.left > TotalTime(a.capTeam) \/ teams = {} THEN {Nobody}
      ELSE Cappers(ps, First(teams))

\* Faulty: the time of the block counts later.
Blocked_KeepsLag(a, credited) ==
  LET b == CreditBlock([a EXCEPT !.blocked = TRUE], credited)
  IN  IF BlockStyle = 0 THEN BreakCapture(b) ELSE b

Blocked(a, credited) ==
  LET b == CreditBlock([a EXCEPT !.blocked = TRUE, !.lag = 0], credited)
  IN  IF BlockStyle = 0 THEN BreakCapture(b) ELSE b

\* Faulty: on a neutral point the capture of another team is not turned back.
TimeLeft_StandsStill(a, zone, overtime) ==
  LET n       == IF CapStyle = 1 /\ zone # NoTeam /\ a.touching[zone] > 0
                 THEN a.touching[zone] ELSE 1
      change  == a.lag * Rate[n]
      decayed == a.lag * Decay * (IF overtime THEN 6 ELSE 1)
  IN  IF zone = a.capTeam THEN (IF a.left > change THEN a.left - change ELSE 0)
      ELSE IF a.owner = NoTeam /\ zone # NoTeam THEN a.left
      ELSE IF a.capTeam \in may THEN a.left + decayed
      ELSE TotalTime(a.capTeam)

\* What the time since the last think does to the time left.
TimeLeft(a, zone, overtime) ==
  LET n       == IF CapStyle = 1 /\ zone # NoTeam /\ a.touching[zone] > 0
                 THEN a.touching[zone] ELSE 1
      change  == a.lag * Rate[n]
      decayed == a.lag * Decay * (IF overtime THEN 6 ELSE 1)
  IN  IF zone = a.capTeam THEN (IF a.left > change THEN a.left - change ELSE 0)
      ELSE IF a.owner = NoTeam /\ zone # NoTeam THEN a.left + change
      ELSE IF a.capTeam \in may THEN a.left + decayed
      ELSE TotalTime(a.capTeam)

\* Faulty: an abandoned capture is never given up.
Progress_NoBreak(a, zone, overtime) ==
  LET b == [a EXCEPT !.left = TimeLeft(a, zone, overtime), !.blocked = FALSE, !.lag = 0]
  IN  IF b.left = 0 THEN EndCapture(b)
      ELSE IF b.left > TotalTime(b.capTeam) THEN [b EXCEPT !.left = TotalTime(b.capTeam)]
      ELSE b

Progress(a, zone, overtime) ==
  LET b == [a EXCEPT !.left = TimeLeft(a, zone, overtime), !.blocked = FALSE, !.lag = 0]
  IN  IF b.left = 0 THEN EndCapture(b)
      ELSE IF b.left >= TotalTime(b.capTeam) THEN BreakCapture(b)
      ELSE b

MayStart(a) ==
  {t \in a.canCap \ {a.owner} :
     a.touching[t] > 0 /\ (CapStyle = 0 => a.touching[t] >= Required[t])}

CaptureThink(a, ps, credited, overtime) ==
  CASE round = "elsewhere" -> a
    [] round = "over" ->
         IF a.capturing THEN LET b == BreakCapture(a) IN [b EXCEPT !.cpNum = b.touching] ELSE a
    [] round = "open" ->
         LET n        == [t \in Teams |-> Weight(Cappers(ps, t))]
             inZone   == TeamsInZone(ps, n)
             b        == CountPlayers(a, ps)
         IN  IF a.capturing THEN
               IF inZone > 1 THEN Blocked(b, credited)
               ELSE Progress(b, TeamInZone(n), overtime)
             ELSE IF inZone > 0 /\ MayStart(b) # {} THEN StartCapture(b, First(MayStart(b)))
             ELSE b

\* AreaTouch, in every frame for every player alive in the area.
AreaTouch(a, ps) ==
  IF round = "open" /\ \E p \in Players : ps[p].in /\ ps[p].cond # "dead"
  THEN [a EXCEPT !.owner = a.pointOwner] ELSE a

-----------------------------------------------------------------------------
(* Actions                                                                 *)

FreshArea(owner) ==
  [capturing |-> FALSE, capTeam |-> NoTeam, owner |-> owner, left |-> 0, lag |-> 0,
   blocked |-> FALSE, canCap |-> Teams, touching |-> [t \in Teams |-> 0],
   counted |-> [t \in Teams |-> 0],
   blockers |-> {}, credits |-> [p \in Players |-> 0], killers |-> {},
   pointOwner |-> owner, cpCapping |-> NoTeam, cpOwner |-> owner, cpNum |-> [t \in Teams |-> 0]]

Outside == [p \in Players |-> [in |-> FALSE, cond |-> "cap"]]

Init ==
  /\ \E owner \in Owners : area = FreshArea(owner)
  /\ players = Outside /\ round = "open" /\ may \in MayCapture /\ due = ThinkTicks

Tick ==
  /\ due > 0 /\ due' = due - 1
  /\ area' = AreaTouch([area EXCEPT !.lag = IF area.capturing /\ round = "open"
                                            THEN area.lag + 1 ELSE 0], players)
  /\ UNCHANGED <<players, round, may>>

Think ==
  /\ due = 0 /\ due' = ThinkTicks
  /\ \E credited \in CreditFor(area, players), overtime \in BOOLEAN :
       area' = CaptureThink(area, players, credited, overtime)
  /\ UNCHANGED <<players, round, may>>

\* StartTouch, and the first AreaTouch with it.
StartTouch(p) ==
  /\ ~players[p].in /\ players[p].cond # "dead" /\ due' = ThinkTicks
  /\ players' = [players EXCEPT ![p].in = TRUE]
  /\ \E credited \in CreditFor(area, players'), overtime \in BOOLEAN :
       area' = AreaTouch(CaptureThink(area, players', credited, overtime), players')
  /\ UNCHANGED <<round, may>>

\* EndTouch only tells the clients; the next think finds the player gone.
EndTouch(p) ==
  /\ players[p].in /\ players' = [players EXCEPT ![p].in = FALSE]
  /\ UNCHANGED <<area, round, may, due>>

\* Disguise, cloak, invulnerability; the dead respawn elsewhere.
Becomes(p, cond) ==
  /\ cond # "dead" /\ players[p].cond # cond
  /\ players' = [players EXCEPT ![p] = [in |-> players[p].in /\ players[p].cond # "dead",
                                        cond |-> cond]]
  /\ UNCHANGED <<area, round, may, due>>

\* CheckIfDeathCausesBlock: the killer of the last that the think has counted for the
\* capturing team gets points too, however often he does it.
CheckIfDeathCausesBlock(a, victim, killer) ==
  LET t    == TeamOf[victim]
      last == IF CapStyle = 1 THEN a.counted[t] <= 1 ELSE a.counted[t] <= Required[t]
  IN  IF /\ killer # Nobody /\ players[victim].in /\ t # TeamOf[killer]
         /\ a.capturing /\ t = a.capTeam /\ last
      THEN [a EXCEPT !.killers = @ \cup {killer}] ELSE a

\* A player dies, at the hands of another or not.
Dies(p, killer) ==
  /\ "dead" \in Conditions[p] /\ players[p].cond # "dead"
  /\ players' = [players EXCEPT ![p].cond = "dead"]
  /\ area' = CheckIfDeathCausesBlock(area, p, killer)
  /\ UNCHANGED <<round, may, due>>

\* Other points change hands.
OthersChange(teams) ==
  /\ round = "open" /\ may # teams /\ may' = teams
  /\ UNCHANGED <<area, players, round, due>>

\* The inputs SetTeamCanCap of the map, which set one team at a time.
SetTeamCanCap(teams) ==
  /\ area.canCap # teams /\ area' = [area EXCEPT !.canCap = teams]
  /\ UNCHANGED <<players, round, may, due>>

\* CTeamControlPoint::InputSetOwner: the map gives the point an owner.  The area is not
\* told; it may go on with a capture, which the clients are not shown any more.
InputSetOwner(t) ==
  /\ round # "over" /\ area' = SetPointOwner(area, t)
  /\ UNCHANGED <<players, round, may, due>>

\* The round is won, or the control point master forces the points
\* (InputSetWinnerAndForceCaps) and with that wins it.
RoundEnds(forced) ==
  /\ round = "open" /\ round' = "over"
  /\ area' = IF forced = NoTeam THEN area ELSE SetPointOwner(area, forced)
  /\ UNCHANGED <<players, may, due>>

\* A new round.  Either the map was cleaned, and area and point are new, or this
\* is a mini-round, in which the master may have to change an owner to make it
\* playable (MakePlayable); the resource is reset either way
\* (ResetControlPoints).  Players respawn, so the area thinks, and counts nobody,
\* before one can reach it.  The round has been over for longer than AREA_THINK_TIME.
NewRound(cleaned, owner, here) ==
  /\ round \in {"over", "elsewhere"} /\ ~area.capturing
  /\ round' = (IF here THEN "open" ELSE "elsewhere")
  /\ players' = Outside /\ due' = ThinkTicks /\ UNCHANGED may
  /\ LET a == IF cleaned THEN FreshArea(owner)
              ELSE IF owner = NoTeam THEN area ELSE ForceOwner(area, owner)
         b == [a EXCEPT !.cpCapping = NoTeam, !.cpNum = [t \in Teams |-> 0]]
     IN  area' = IF here THEN CountPlayers(b, Outside) ELSE b

Next ==
  \/ Tick \/ Think
  \/ \E p \in Players : StartTouch(p) \/ EndTouch(p)
  \/ \E p \in Players : \E cond \in Conditions[p] : Becomes(p, cond)
  \/ \E p \in Players, killer \in Killers \cup {Nobody} : Dies(p, killer)
  \/ \E teams \in MayCapture : OthersChange(teams)
  \/ \E teams \in MapAllows : SetTeamCanCap(teams)
  \/ \E t \in MapGives : InputSetOwner(t)
  \/ \E forced \in MapGives \cup {NoTeam} : RoundEnds(forced)
  \/ \E cleaned, here \in BOOLEAN, owner \in Owners : NewRound(cleaned, owner, here)

Spec == Init /\ [][Next]_vars

\* Time passes, and the area thinks when it is due to.
Fairness == []<>(due = 0) /\ []<>(due # 0)
FairSpec == Spec /\ Fairness

-----------------------------------------------------------------------------
(* Properties                                                              *)

TypeOK ==
  /\ area \in AreaType
  /\ players \in [Players -> [in: BOOLEAN, cond: {"cap", "block", "hidden", "dead"}]]
  /\ round \in {"open", "over", "elsewhere"} /\ may \in SUBSET Teams /\ due \in 0..ThinkTicks

\* The map or the master gives the point an owner.
Given == \E t \in MapGives : InputSetOwner(t) \/ RoundEnds(t)

ShownAsIs(a) == a.cpCapping = IF a.capturing THEN a.capTeam ELSE NoTeam

\* The objective resource never shows a capture that there is not, on which
\* CTFGameRules::TimerMayExpire would hold the round timer for good; and it loses sight
\* of one only where the point is given an owner while it is captured.
CappingTeamShown ==
  [][/\ area'.cpCapping \in {NoTeam} \cup (IF area'.capturing THEN {area'.capTeam} ELSE {})
     /\ ShownAsIs(area) => ShownAsIs(area') \/ Given]_vars

OneOwner(a) == a.owner = a.pointOwner

\* Point and resource agree on the owner; the area falls behind them only where the
\* point is given an owner without it.
OwnersAgree ==
  [][/\ area'.pointOwner = area'.cpOwner
     /\ OneOwner(area) => OneOwner(area') \/ Given]_vars

\* The clients, who extrapolate the progress, are shown the players that the
\* area counts (StartTouch: "the objective resource still thinks he's not").
NumPlayersShown == round = "open" => area.cpNum = area.touching

\* A capture under way has some time left, and no more than the whole of it.
ProgressInRange == area.capturing => area.left \in 1..TotalTime(area.capTeam)

\* A player gets the points for standing in the way of a capture once in an attempt,
\* though he came and went and the capture was broken off and started again.  The points
\* for a kill (killers) are not meant to be counted so.
CreditedOnce == \A p \in Players : area.credits[p] <= 1

Completes == /\ area.capturing /\ ~area'.capturing /\ round' = "open"
             /\ area'.pointOwner = area.capTeam /\ area.pointOwner # area.capTeam

\* A point changes hands only while a player who may capture it stands on it and
\* no enemy does who may capture or block.
CaptureUncontested ==
  [][Completes =>
       /\ Cappers(players', area.capTeam) # {}
       /\ \A t \in Teams \ {area.capTeam} :
            Cappers(players', t) = {} /\ Blockables(players', t) = {}]_vars

\* "If there are any teams in the zone that aren't the owner, try to start
\* capping": the team that owns the point never starts a capture of it.
OwnerNeverCaptures ==
  [][~area.capturing /\ area'.capturing => area'.capTeam # area.pointOwner]_vars

Alone(p) ==
  /\ round = "open" /\ TeamOf[p] \in may \cap area.canCap
  /\ \A q \in Players : players[q] = [in |-> q = p, cond |-> "cap"]

\* A player left alone on a point that his team may capture ends up with it, whatever
\* capture he found under way, and again whenever the map takes it from him.
LoneCapperWins == \A p \in Players : <>[]Alone(p) => []<>(area.pointOwner = TeamOf[p])

\* A capture that everybody has left decays and is broken off.
AbandonedCaptureEnds ==
  <>[](round = "open" /\ \A p \in Players : ~players[p].in) => <>[]~area.capturing

=============================================================================

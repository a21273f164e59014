----------------------------- MODULE CaptureFlag -----------------------------
(***************************************************************************)
(* The flags of a map and the players that carry them: CCaptureFlag        *)
(* (entity_capture_flag.cpp), the item of a player (tf_item.cpp,           *)
(* tf_player.cpp), the zones in which flags are captured                   *)
(* (func_capture_zone.cpp), and what the end and the start of a round do   *)
(* to them (tf_gamerules.cpp).                                             *)
(*                                                                         *)
(* A tick is TF_FLAG_THINK_TIME: every enabled flag thinks once in it.     *)
(* Of the players only those that a flag does not refuse touch it: none    *)
(* that is about to teleport or invulnerable, in a respawn room, or while  *)
(* players are waited for.                                                 *)
(***************************************************************************)
EXTENDS Integers, FiniteSets

CONSTANTS
  Players, NoPlayer,
  Team,          \* of a player
  Flags, NoFlag,
  Kind,          \* m_nGameType of a flag: "ctf" or "attack_defend"
  FlagTeam,      \* the team of a flag
  StartDisabled, \* the flags that are disabled at the start
  ReturnTicks,   \* TF_CTF_RESET_TIME, TF_AD_RESET_TIME
  OwnerTicks,    \* TF_FLAG_OWNER_PICKUP_TIME
  BusyInputs     \* the map may disable and enable a flag that is carried, or was captured
                 \* since it thought last

Teams == {Team[p] : p \in Players}

\* Does my team own this flag?
MayTake(t, f) == IF Kind[f] = "ctf" THEN t # FlagTeam[f] ELSE t = FlagTeam[f]

\* The code does not look whether a player that touches a flag carries another one:
\* there is one flag that the players of a team may take.
ASSUME ConstantsAssumption ==
  /\ NoPlayer \notin Players /\ NoFlag \notin Flags
  /\ Team \in [Players -> Nat] /\ FlagTeam \in [Flags -> Nat]
  /\ Kind \in [Flags -> {"ctf", "attack_defend"}] /\ StartDisabled \subseteq Flags
  /\ \A t \in Teams : \A f, g \in Flags : MayTake(t, f) /\ MayTake(t, g) => f = g
  /\ ReturnTicks \in Nat /\ OwnerTicks \in Nat /\ BusyInputs \in BOOLEAN

VARIABLE match   \* the flags and the players

Unset == -1
FlagType ==
  [status: {"home", "stolen", "dropped"}, disabled: BOOLEAN,
   touch: BOOLEAN,                       \* FlagTouch is the touch function
   think: {"off", "set", "due"},
   captured: BOOLEAN, prev: Players \cup {NoPlayer}, \* m_bCaptured, m_hPrevOwner
   allow: BOOLEAN, owner: 0..OwnerTicks, \* m_bAllowOwnerPickup, ticks to m_flOwnerPickupTime
   return: {Unset} \cup 0..ReturnTicks]  \* ticks to m_flResetTime, if it is set

MatchType ==
  [flags: [Flags -> FlagType], item: [Players -> Flags \cup {NoFlag}],
   alive: [Players -> BOOLEAN], won: BOOLEAN]

-----------------------------------------------------------------------------
(* A flag r                                                                *)

SetDisabled(r, disabled) ==
  [r EXCEPT !.disabled = disabled, !.touch = ~disabled,
            !.think = IF disabled THEN "off" ELSE "due"]

Spawn(f) ==
  SetDisabled([status |-> "home", disabled |-> FALSE, touch |-> FALSE, think |-> "off",
               captured |-> FALSE, prev |-> NoPlayer, allow |-> TRUE, owner |-> 0,
               return |-> Unset], f \in StartDisabled)

Reset(r) == [r EXCEPT !.status = "home", !.return = Unset, !.allow = TRUE, !.prev = NoPlayer]

\* Faulty: the time of the return is not set.
Dropped_NoReturn(r, thrown) ==
  [r EXCEPT !.status = "dropped", !.touch = TRUE, !.allow = @ /\ ~thrown,
            !.owner = IF thrown THEN OwnerTicks ELSE @]

\* The part of Drop that is about the flag.
Dropped(r, thrown) ==
  [r EXCEPT !.status = "dropped", !.touch = TRUE, !.return = ReturnTicks,
            !.allow = @ /\ ~thrown, !.owner = IF thrown THEN OwnerTicks ELSE @]

Think(r, won) ==
  IF won THEN [r EXCEPT !.think = "set"]
  ELSE LET seen == [r EXCEPT !.think = "set", !.captured = FALSE, !.touch = @ \/ r.captured,
                             !.allow = @ \/ (r.status = "dropped" /\ r.owner = 0)]
       IN  IF r.status = "dropped" /\ r.return = 0 THEN Reset(seen) ELSE seen

-----------------------------------------------------------------------------
(* Flags and players.  s is the state of the match.                        *)

\* FlagTouch, by a player that lives.
MayPickUp(s, p, f) ==
  LET r == s.flags[f]
  IN  /\ r.touch /\ ~r.disabled /\ s.alive[p] /\ MayTake(Team[p], f) /\ ~s.won
      /\ ~(r.prev = p /\ ~r.allow)

\* Faulty: the flag can still be touched.
PickUp_Touchable(s, p, f) ==
  [s EXCEPT !.item[p] = f,
            !.flags[f] = [@ EXCEPT !.status = "stolen", !.return = Unset, !.prev = p,
                                   !.allow = TRUE]]

PickUp(s, p, f) ==
  [s EXCEPT !.item[p] = f,
            !.flags[f] = [@ EXCEPT !.status = "stolen", !.touch = FALSE, !.return = Unset,
                                   !.prev = p, !.allow = TRUE]]

Capture(s, p, f) ==
  IF s.flags[f].disabled THEN s
  ELSE [s EXCEPT !.item[p] = NoFlag,
                 !.flags[f] = [Reset(@) EXCEPT !.captured = TRUE, !.think = "set"]]

\* The players in P drop what they carry.  A flag that is disabled stays with them.
Drop(s, P, thrown) ==
  LET flags == {f \in Flags : ~s.flags[f].disabled /\ \E p \in P : s.item[p] = f}
  IN  [s EXCEPT !.flags = [f \in Flags |-> IF f \in flags THEN Dropped(s.flags[f], thrown)
                                           ELSE s.flags[f]],
                !.item = [p \in Players |-> IF p \in P /\ s.item[p] \in flags THEN NoFlag
                                            ELSE s.item[p]]]

\* InputRoundActivate of every flag
RoundActivate(s) ==
  LET dropped == Drop(s, {p \in Players : s.item[p] # NoFlag /\ s.flags[s.item[p]].prev = p}, FALSE)
  IN  [dropped EXCEPT !.flags = [f \in Flags |-> Reset(dropped.flags[f])]]

\* CleanUpMap makes the flags anew and ForceRespawn drops what is left.
RoundRespawn(s, clean) ==
  LET cleaned == IF clean THEN [s EXCEPT !.flags = [f \in Flags |-> Spawn(f)],
                                         !.item = [p \in Players |-> NoFlag]]
                 ELSE s
  IN  [Drop(RoundActivate(cleaned), Players, TRUE)
         EXCEPT !.alive = [p \in Players |-> TRUE], !.won = FALSE]

-----------------------------------------------------------------------------
(* Actions                                                                 *)

Init ==
  match = [flags |-> [f \in Flags |-> Spawn(f)], item |-> [p \in Players |-> NoFlag],
           alive |-> [p \in Players |-> TRUE], won |-> FALSE]

\* In a frame the flags think before the game rules and the inputs of the map.
Due(f) == match.flags[f].think = "due"
NoneDue == \A f \in Flags : ~Due(f)

Earlier(n) == IF n > 0 THEN n - 1 ELSE n
Tick ==
  /\ NoneDue
  /\ match' = [match EXCEPT !.flags = [f \in Flags |->
                 [match.flags[f] EXCEPT !.think = IF @ = "set" THEN "due" ELSE @,
                                        !.owner = Earlier(@), !.return = Earlier(@)]]]

ThinkOf(f) == Due(f) /\ match' = [match EXCEPT !.flags[f] = Think(@, match.won)]

Touch(p, f) == MayPickUp(match, p, f) /\ match' = PickUp(match, p, f)

\* CCaptureZone::Touch, in a zone of the player's team.
TouchZone(p) ==
  LET f == match.item[p]
  IN  /\ f # NoFlag /\ ~match.won /\ ~match.flags[f].captured
      /\ match' = Capture(match, p, f)

\* The command dropitem, and a respawn room.
DropItem(p) == match.item[p] # NoFlag /\ match' = Drop(match, {p}, TRUE)

\* Event_Killed, and ClientDisconnected: RemoveAllItems.
Die(p) == match.alive[p] /\ match' = [Drop(match, {p}, FALSE) EXCEPT !.alive[p] = FALSE]

\* ForceRespawn
Respawn(p) == ~match.alive[p] /\ match' = [Drop(match, {p}, TRUE) EXCEPT !.alive[p] = TRUE]

\* ForceChangeTeam: an idle player becomes a spectator and keeps what he carries.
Spectate(p) == match.alive[p] /\ match' = [match EXCEPT !.alive[p] = FALSE]

\* The losing team drops its flags.
WinRound(t) ==
  ~match.won /\ match' = [Drop(match, {p \in Players : Team[p] # t}, TRUE) EXCEPT !.won = TRUE]

\* The next round, or a restart of the one that is played.
NewRound(clean) == NoneDue /\ match' = RoundRespawn(match, clean)

\* InputEnable, InputDisable
Input(f, disabled) ==
  /\ NoneDue
  /\ BusyInputs \/ (~match.flags[f].captured /\ \A p \in Players : match.item[p] # f)
  /\ match' = [match EXCEPT !.flags[f] = SetDisabled(@, disabled)]

Next ==
  \/ Tick
  \/ \E f \in Flags : ThinkOf(f)
  \/ \E p \in Players : \E f \in Flags : Touch(p, f)
  \/ \E p \in Players : TouchZone(p) \/ DropItem(p) \/ Die(p) \/ Respawn(p) \/ Spectate(p)
  \/ \E t \in Teams : WinRound(t)
  \/ \E b \in BOOLEAN : NewRound(b)
  \/ \E f \in Flags : \E b \in BOOLEAN : Input(f, b)

\* Time passes whatever happens, thinks run, and rounds go on: a flag that is due again
\* and again also thinks again and again while no round is won.
ThinkInRound(f) == ~match.won /\ ThinkOf(f)
Fairness ==
  /\ SF_match(Tick)
  /\ \A f \in Flags : WF_match(ThinkOf(f)) /\ ([]<>Due(f) => []<><<ThinkInRound(f)>>_match)

Spec == Init /\ [][Next]_match /\ Fairness

-----------------------------------------------------------------------------
(* Properties                                                              *)

TypeOK == match \in MatchType

\* A flag is stolen when one player has it, who took it last, and nobody else can take
\* it; and a flag at home or on the ground is nobody's.
FlagHeld ==
  \A f \in Flags :
    LET carriers == {p \in Players : match.item[p] = f} IN
    IF match.flags[f].status = "stolen"
    THEN carriers = {match.flags[f].prev} /\ ~match.flags[f].touch ELSE carriers = {}

\* A flag that nobody carries can be taken from its home again, if it is not taken
\* before: no drop, no capture and no end of a round leaves it where it is.
FlagComesBack ==
  \A f \in Flags :
    LET r == match.flags[f] IN
    (r.status # "stolen") ~> (r.disabled \/ r.status = "stolen" \/ (r.status = "home" /\ r.touch))

=============================================================================

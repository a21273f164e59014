------------------------- MODULE CaptureFlag_proofs -------------------------
(***************************************************************************)
(* Proofs about CaptureFlag: a flag is held by one player and nobody else  *)
(* can take it, for any players, teams and flags, when the map's inputs    *)
(* leave alone a flag that is carried or was just captured.                *)
(***************************************************************************)
EXTENDS CaptureFlag, TLAPS

Stolen(r) == r.status = "stolen"

\* A flag that is carried cannot be touched, is enabled, and is not one that was just
\* captured; and one that was captured cannot be touched before it thinks.
Apart(r) ==
  /\ Stolen(r) => ~r.touch /\ ~r.captured /\ ~r.disabled
  /\ r.captured => ~r.touch

\* A stolen flag is the item of the player that took it last, and what a player
\* carries is stolen, by him, and of those that he may take.
Paired(flags, item) ==
  /\ flags \in [Flags -> FlagType] /\ item \in [Players -> Flags \cup {NoFlag}]
  /\ \A f \in Flags : Apart(flags[f])
  /\ \A f \in Flags :
       Stolen(flags[f]) => flags[f].prev \in Players /\ item[flags[f].prev] = f
  /\ \A p \in Players : item[p] # NoFlag =>
       /\ Stolen(flags[item[p]]) /\ flags[item[p]].prev = p
       /\ MayTake(Team[p], item[p])

\* The inductive invariant.
Good(s) == s \in MatchType /\ Paired(s.flags, s.item)

-----------------------------------------------------------------------------
(* A flag                                                                  *)

\* A timer that runs out or has just been set is within its range.
LEMMA Ticks ==
  /\ 0 \in 0..OwnerTicks /\ OwnerTicks \in 0..OwnerTicks
  /\ 0 \in 0..ReturnTicks /\ ReturnTicks \in 0..ReturnTicks
BY ConstantsAssumption

\* The code's null pointers are no flag and no player.
LEMMA NoFlagIsNone == NoFlag \notin Flags /\ NoPlayer \notin Players
BY ConstantsAssumption

\* A flag that nobody holds may be disabled or enabled: its touch follows.
LEMMA SetDisabledGood ==
  ASSUME NEW r \in FlagType, NEW b \in BOOLEAN, ~Stolen(r), ~r.captured
  PROVE  /\ SetDisabled(r, b) \in FlagType /\ Apart(SetDisabled(r, b))
         /\ ~Stolen(SetDisabled(r, b))
BY ZenonT(60) DEF SetDisabled, FlagType, Stolen, Apart

\* A flag that spawns is at home, with nobody.
LEMMA SpawnGood ==
  ASSUME NEW f \in Flags
  PROVE  Spawn(f) \in FlagType /\ ~Stolen(Spawn(f)) /\ Apart(Spawn(f))
<1> DEFINE r == [status |-> "home", disabled |-> FALSE, touch |-> FALSE, think |-> "off",
                 captured |-> FALSE, prev |-> NoPlayer, allow |-> TRUE, owner |-> 0,
                 return |-> Unset]
<1>1. r \in FlagType /\ ~Stolen(r) /\ ~r.captured
  BY Ticks, ZenonT(60) DEF FlagType, Stolen
<1>2. (f \in StartDisabled) \in BOOLEAN
  OBVIOUS
<1>3. Spawn(f) = SetDisabled(r, f \in StartDisabled)
  BY DEF Spawn
<1> HIDE DEF r
<1> QED BY <1>1, <1>2, <1>3, SetDisabledGood

\* A flag that is reset is at home, with nobody.
LEMMA ResetGood ==
  ASSUME NEW r \in FlagType, Apart(r)
  PROVE  Reset(r) \in FlagType /\ ~Stolen(Reset(r)) /\ Apart(Reset(r))
BY ZenonT(60) DEF Reset, FlagType, Stolen, Apart

\* A dropped flag is with nobody, and its timers are in range.
LEMMA DroppedGood ==
  ASSUME NEW r \in FlagType, NEW b \in BOOLEAN, ~r.captured
  PROVE  Dropped(r, b) \in FlagType /\ ~Stolen(Dropped(r, b)) /\ Apart(Dropped(r, b))
<1> DEFINE owner == IF b THEN OwnerTicks ELSE r.owner
           allow == r.allow /\ ~b
<1>1. owner \in 0..OwnerTicks /\ allow \in BOOLEAN
  BY Ticks, ZenonT(30) DEF FlagType
<1>2. Dropped(r, b) = [r EXCEPT !.status = "dropped", !.touch = TRUE, !.return = ReturnTicks,
                                !.allow = allow, !.owner = owner]
  BY DEF Dropped
<1> HIDE DEF owner, allow
<1> QED BY <1>1, <1>2, Ticks, ZenonT(60) DEF FlagType, Stolen, Apart

\* A think takes a flag from nobody and gives it to nobody; a held flag stays
\* beyond touch.
LEMMA ThinkGood ==
  ASSUME NEW r \in FlagType, NEW b \in BOOLEAN, Apart(r)
  PROVE  /\ Think(r, b) \in FlagType /\ Apart(Think(r, b))
         /\ Stolen(Think(r, b)) <=> Stolen(r)
         /\ Stolen(r) => Think(r, b).prev = r.prev
<1> DEFINE touch == r.touch \/ r.captured
           allow == r.allow \/ (r.status = "dropped" /\ r.owner = 0)
           seen  == [r EXCEPT !.think = "set", !.captured = FALSE, !.touch = touch,
                              !.allow = allow]
<1>1. touch \in BOOLEAN /\ allow \in BOOLEAN /\ (Stolen(r) => ~touch /\ ~r.disabled)
  BY ZenonT(30) DEF FlagType, Apart
<1>2. [r EXCEPT !.think = "set"] \in FlagType /\ Apart([r EXCEPT !.think = "set"])
      /\ [r EXCEPT !.think = "set"].status = r.status /\ [r EXCEPT !.think = "set"].prev = r.prev
  BY ZenonT(60) DEF FlagType, Apart, Stolen
<1>3. Think(r, b) = IF b THEN [r EXCEPT !.think = "set"]
                    ELSE IF r.status = "dropped" /\ r.return = 0 THEN Reset(seen) ELSE seen
  BY DEF Think
<1>4. seen \in FlagType /\ Apart(seen) /\ seen.status = r.status /\ seen.prev = r.prev
  <2> HIDE DEF touch, allow
  <2> QED BY <1>1, ZenonT(60) DEF FlagType, Apart, Stolen
<1> HIDE DEF seen
<1> QED BY <1>2, <1>3, <1>4, ResetGood, ZenonT(30) DEF Stolen

-----------------------------------------------------------------------------
(* Flags and players                                                       *)

\* The four parts of the match make a good state.
LEMMA Fields ==
  ASSUME NEW flags, NEW item, Paired(flags, item),
         NEW alive \in [Players -> BOOLEAN], NEW won \in BOOLEAN
  PROVE  Good([flags |-> flags, item |-> item, alive |-> alive, won |-> won])
BY DEF Good, Paired, MatchType

\* A good state is made of its four parts.
LEMMA AsRecord ==
  ASSUME NEW s, Good(s)
  PROVE  /\ s = [flags |-> s.flags, item |-> s.item, alive |-> s.alive, won |-> s.won]
         /\ Paired(s.flags, s.item) /\ s.alive \in [Players -> BOOLEAN] /\ s.won \in BOOLEAN
BY ZenonT(30) DEF Good, MatchType

\* Of a good state flags and items may be exchanged together.
LEMMA FlagsAndItems ==
  ASSUME NEW s, Good(s), NEW flags, NEW item, Paired(flags, item)
  PROVE  Good([s EXCEPT !.flags = flags, !.item = item])
BY ZenonT(30) DEF Good, MatchType, Paired

\* The invariant implies the property.
LEMMA GoodHeld ==
  ASSUME Good(match)
  PROVE  FlagHeld
<1> SUFFICES ASSUME NEW f \in Flags
             PROVE  IF match.flags[f].status = "stolen"
                    THEN {p \in Players : match.item[p] = f} = {match.flags[f].prev}
                         /\ ~match.flags[f].touch
                    ELSE {p \in Players : match.item[p] = f} = {}
  BY DEF FlagHeld
<1>1. f # NoFlag
  BY ConstantsAssumption
<1>2. \A p \in Players : match.item[p] = f =>
        match.flags[f].status = "stolen" /\ match.flags[f].prev = p
  BY <1>1, ZenonT(30) DEF Good, Paired, Stolen
<1>3. match.flags[f].status = "stolen" =>
        match.flags[f].prev \in Players /\ match.item[match.flags[f].prev] = f
        /\ ~match.flags[f].touch
  BY ZenonT(30) DEF Good, Paired, Stolen, Apart
<1> QED BY <1>2, <1>3

\* One flag changes and stays whose it is.
LEMMA FlagChanges ==
  ASSUME NEW flags, NEW item, Paired(flags, item), NEW f \in Flags, NEW r \in FlagType,
         Apart(r), Stolen(r) <=> Stolen(flags[f]), Stolen(r) => r.prev = flags[f].prev
  PROVE  Paired([flags EXCEPT ![f] = r], item)
<1> DEFINE new == [flags EXCEPT ![f] = r]
<1>1. new \in [Flags -> FlagType] /\ \A g \in Flags : new[g] = IF g = f THEN r ELSE flags[g]
  BY DEF Paired
<1> HIDE DEF new
<1>2. \A g \in Flags : /\ Apart(new[g]) /\ (Stolen(new[g]) <=> Stolen(flags[g]))
                       /\ Stolen(new[g]) => new[g].prev = flags[g].prev
  BY <1>1 DEF Paired
<1> QED BY <1>1, <1>2, NoFlagIsNone, ZenonT(60) DEF Paired

\* What is dropped is nobody's, and each player in P has nothing.
LEMMA DropGood ==
  ASSUME NEW s, Good(s), NEW P \in SUBSET Players, NEW b \in BOOLEAN
  PROVE  /\ Good(Drop(s, P, b)) /\ Drop(s, P, b).alive = s.alive /\ Drop(s, P, b).won = s.won
         /\ \A p \in P : Drop(s, P, b).item[p] = NoFlag
<1> DEFINE D     == {f \in Flags : ~s.flags[f].disabled /\ \E p \in P : s.item[p] = f}
           flags == [f \in Flags |-> IF f \in D THEN Dropped(s.flags[f], b) ELSE s.flags[f]]
           item  == [p \in Players |-> IF p \in P /\ s.item[p] \in D THEN NoFlag ELSE s.item[p]]
<1>1. Paired(s.flags, s.item) /\ s.alive \in [Players -> BOOLEAN] /\ s.won \in BOOLEAN
  BY AsRecord
<1>2. Drop(s, P, b) = [flags |-> flags, item |-> item, alive |-> s.alive, won |-> s.won]
  <2> HIDE DEF flags, item
  <2>1. Drop(s, P, b) = [s EXCEPT !.flags = flags, !.item = item]
    BY DEF Drop, flags, item
  <2> QED BY <2>1, AsRecord
<1>3. \A p \in P : s.item[p] # NoFlag => s.item[p] \in D
  BY <1>1, ZenonT(30) DEF Paired, Apart
<1>4. \A f \in D : Stolen(s.flags[f]) /\ ~s.flags[f].captured /\ s.flags[f].prev \in P
  <2> SUFFICES ASSUME NEW f \in D
               PROVE  Stolen(s.flags[f]) /\ ~s.flags[f].captured /\ s.flags[f].prev \in P
    OBVIOUS
  <2>1. PICK p \in P : s.item[p] = f
    OBVIOUS
  <2>2. f \in Flags /\ p \in Players /\ s.item[p] # NoFlag
    BY <2>1, NoFlagIsNone
  <2> QED BY <2>1, <2>2, <1>1, ZenonT(30) DEF Paired, Apart
<1>5. \A f \in Flags : /\ flags[f] \in FlagType /\ Apart(flags[f])
                       /\ Stolen(flags[f]) <=> (f \notin D /\ Stolen(s.flags[f]))
                       /\ f \notin D => flags[f] = s.flags[f]
  BY <1>1, <1>4, DroppedGood, ZenonT(60) DEF Paired
<1>6. \A p \in Players : /\ item[p] \in Flags \cup {NoFlag}
                         /\ p \in P => item[p] = NoFlag
                         /\ p \notin P => item[p] = s.item[p]
  BY <1>1, <1>3, ZenonT(30) DEF Paired
<1>7. flags \in [Flags -> FlagType] /\ item \in [Players -> Flags \cup {NoFlag}]
  BY <1>5, <1>6
<1> HIDE DEF flags, item
<1>8. \A f \in Flags : Stolen(flags[f]) =>
        flags[f].prev \in Players /\ item[flags[f].prev] = f
  <2> SUFFICES ASSUME NEW f \in Flags, Stolen(flags[f])
               PROVE  flags[f].prev \in Players /\ item[flags[f].prev] = f
    OBVIOUS
  <2>1. f \notin D /\ flags[f] = s.flags[f] /\ Stolen(s.flags[f])
    BY <1>5
  <2>2. s.flags[f].prev \in Players /\ s.item[s.flags[f].prev] = f
    BY <2>1, <1>1 DEF Paired
  <2>3. s.flags[f].prev \notin P
    BY <2>1, <2>2, <1>3, NoFlagIsNone
  <2> QED BY <2>1, <2>2, <2>3, <1>6
<1>9. \A p \in Players : item[p] # NoFlag =>
        /\ Stolen(flags[item[p]]) /\ flags[item[p]].prev = p
        /\ MayTake(Team[p], item[p])
  <2> SUFFICES ASSUME NEW p \in Players, item[p] # NoFlag
               PROVE  /\ Stolen(flags[item[p]]) /\ flags[item[p]].prev = p
                      /\ MayTake(Team[p], item[p])
    OBVIOUS
  <2>1. p \notin P /\ item[p] = s.item[p] /\ s.item[p] \in Flags
    BY <1>6
  <2>2. /\ Stolen(s.flags[s.item[p]]) /\ s.flags[s.item[p]].prev = p
        /\ MayTake(Team[p], s.item[p])
    BY <2>1, <1>1 DEF Paired
  <2>3. s.item[p] \notin D
    BY <2>1, <2>2, <1>4
  <2> QED BY <2>1, <2>2, <2>3, <1>5
<1>10. Paired(flags, item)
  BY <1>5, <1>7, <1>8, <1>9 DEF Paired
<1> QED BY <1>1, <1>2, <1>6, <1>10, Fields

\* When nobody carries anything, no flag is stolen, and the flags may be sent home.
LEMMA FreeReset ==
  ASSUME NEW flags, NEW item, Paired(flags, item), \A p \in Players : item[p] = NoFlag
  PROVE  Paired([f \in Flags |-> Reset(flags[f])], item)
<1>1. \A f \in Flags : Reset(flags[f]) \in FlagType /\ Apart(Reset(flags[f]))
                       /\ ~Stolen(Reset(flags[f]))
  BY ResetGood DEF Paired
<1> QED BY <1>1 DEF Paired

\* After the map is made anew nobody holds a flag.
LEMMA FreshGood == Paired([f \in Flags |-> Spawn(f)], [p \in Players |-> NoFlag])
BY SpawnGood DEF Paired

\* When a round begins every flag is taken from its carrier and brought home.
LEMMA RoundActivateGood ==
  ASSUME NEW s, Good(s)
  PROVE  Good(RoundActivate(s)) /\ \A p \in Players : RoundActivate(s).item[p] = NoFlag
<1> DEFINE P == {p \in Players : s.item[p] # NoFlag /\ s.flags[s.item[p]].prev = p}
           d == Drop(s, P, FALSE)
           flags == [f \in Flags |-> Reset(d.flags[f])]
<1>1. Good(d) /\ \A p \in P : d.item[p] = NoFlag
  BY DropGood
<1>2. \A p \in Players \ P : s.item[p] = NoFlag
  BY DEF Good, Paired
<1>3. \A p \in Players : s.item[p] = NoFlag => d.item[p] = NoFlag
  BY DEF Drop, Good, MatchType
<1>4. \A p \in Players : d.item[p] = NoFlag
  BY <1>1, <1>2, <1>3
<1>5. RoundActivate(s) = [d EXCEPT !.flags = flags]
  BY DEF RoundActivate
<1> HIDE DEF d
<1>6. Paired(flags, d.item)
  BY <1>1, <1>4, FreeReset DEF Good
<1> HIDE DEF flags
<1>7. RoundActivate(s) = [flags |-> flags, item |-> d.item, alive |-> d.alive, won |-> d.won]
  BY <1>1, <1>5, AsRecord
<1> QED BY <1>1, <1>4, <1>6, <1>7, Fields, AsRecord

\* A round's start keeps the invariant, whether the map is cleaned or not.
LEMMA RoundRespawnGood ==
  ASSUME NEW s, Good(s), NEW clean \in BOOLEAN
  PROVE  Good(RoundRespawn(s, clean))
<1> DEFINE c == IF clean THEN [s EXCEPT !.flags = [f \in Flags |-> Spawn(f)],
                                        !.item = [p \in Players |-> NoFlag]]
                ELSE s
           d == Drop(RoundActivate(c), Players, TRUE)
<1>1. Good(c)
  <2>1. CASE clean
    <3> DEFINE flags == [f \in Flags |-> Spawn(f)]
               item  == [p \in Players |-> NoFlag]
    <3>1. Paired(flags, item)
      BY FreshGood
    <3> HIDE DEF flags, item
    <3>2. Good([s EXCEPT !.flags = flags, !.item = item])
      BY <3>1, FlagsAndItems
    <3> QED BY <2>1, <3>2 DEF flags, item
  <2>2. CASE ~clean
    BY <2>2
  <2> QED BY <2>1, <2>2
<1> HIDE DEF c
<1>2. Good(d)
  BY <1>1, RoundActivateGood, DropGood
<1>3. RoundRespawn(s, clean) = [d EXCEPT !.alive = [p \in Players |-> TRUE], !.won = FALSE]
  BY DEF RoundRespawn, c
<1> HIDE DEF d
<1>4. [p \in Players |-> TRUE] \in [Players -> BOOLEAN]
  OBVIOUS
<1>5. RoundRespawn(s, clean)
        = [flags |-> d.flags, item |-> d.item, alive |-> [p \in Players |-> TRUE], won |-> FALSE]
  BY <1>2, <1>3, AsRecord
<1>6. Paired(d.flags, d.item)
  BY <1>2 DEF Good
<1>7. Good([flags |-> d.flags, item |-> d.item, alive |-> [p \in Players |-> TRUE], won |-> FALSE])
  BY <1>4, <1>6, Fields
<1> QED BY <1>5, <1>7

\* What a player may pick up nobody has, and he has nothing else.
LEMMA PickUpGood ==
  ASSUME NEW s, Good(s), NEW p \in Players, NEW f \in Flags, MayPickUp(s, p, f)
  PROVE  Good(PickUp(s, p, f))
<1> DEFINE r     == [s.flags[f] EXCEPT !.status = "stolen", !.touch = FALSE, !.return = Unset,
                                       !.prev = p, !.allow = TRUE]
           flags == [s.flags EXCEPT ![f] = r]
           item  == [s.item EXCEPT ![p] = f]
<1>1. Paired(s.flags, s.item) /\ s.alive \in [Players -> BOOLEAN] /\ s.won \in BOOLEAN
  BY AsRecord
<1>2. s.flags[f].touch /\ ~s.flags[f].disabled /\ MayTake(Team[p], f)
  BY DEF MayPickUp
<1>3. ~Stolen(s.flags[f]) /\ ~s.flags[f].captured
  BY <1>1, <1>2 DEF Paired, Apart
<1>4. \A q \in Players : s.item[q] # f
  BY <1>1, <1>3, NoFlagIsNone DEF Paired
<1>5. s.item[p] = NoFlag
  <2> SUFFICES ASSUME s.item[p] # NoFlag PROVE FALSE
    OBVIOUS
  <2>1. s.item[p] \in Flags /\ MayTake(Team[p], s.item[p]) /\ Team[p] \in Teams
    BY <1>1 DEF Paired, Teams
  <2>2. s.item[p] = f
    BY <2>1, <1>2, ConstantsAssumption
  <2> QED BY <2>2, <1>4
<1>6. r \in FlagType /\ Apart(r) /\ Stolen(r) /\ r.prev = p
  <2>1. s.flags[f] \in FlagType
    BY <1>1 DEF Paired
  <2>2. r \in FlagType
    BY <2>1, ZenonT(60) DEF FlagType
  <2>3. /\ r.status = "stolen" /\ r.touch = FALSE /\ r.prev = p
        /\ r.captured = s.flags[f].captured /\ r.disabled = s.flags[f].disabled
    BY <2>1, ZenonT(60) DEF FlagType
  <2> HIDE DEF r
  <2> QED BY <1>2, <1>3, <2>2, <2>3, ZenonT(30) DEF Apart, Stolen
<1>7. PickUp(s, p, f) = [flags |-> flags, item |-> item, alive |-> s.alive, won |-> s.won]
  <2>1. PickUp(s, p, f) = [s EXCEPT !.flags = flags, !.item = item]
    BY DEF PickUp, Good, MatchType
  <2> HIDE DEF flags, item
  <2> QED BY <2>1, AsRecord
<1> HIDE DEF r
<1>8. /\ flags \in [Flags -> FlagType] /\ item \in [Players -> Flags \cup {NoFlag}]
      /\ \A g \in Flags : flags[g] = IF g = f THEN r ELSE s.flags[g]
      /\ \A q \in Players : item[q] = IF q = p THEN f ELSE s.item[q]
  BY <1>1, <1>6 DEF Paired
<1> HIDE DEF flags, item
<1>9. \A g \in Flags : Apart(flags[g])
  BY <1>1, <1>6, <1>8 DEF Paired
<1>10. \A g \in Flags : Stolen(flags[g]) =>
         flags[g].prev \in Players /\ item[flags[g].prev] = g
  BY <1>1, <1>5, <1>6, <1>8, NoFlagIsNone DEF Paired
<1>11. \A q \in Players : item[q] # NoFlag =>
         /\ Stolen(flags[item[q]]) /\ flags[item[q]].prev = q
         /\ MayTake(Team[q], item[q])
  BY <1>1, <1>2, <1>4, <1>6, <1>8 DEF Paired
<1>12. Paired(flags, item)
  BY <1>8, <1>9, <1>10, <1>11 DEF Paired
<1> QED BY <1>1, <1>7, <1>12, Fields

\* A capture takes the flag from its carrier and brings it home.
LEMMA CaptureGood ==
  ASSUME NEW s, Good(s), NEW p \in Players, NEW f \in Flags, s.item[p] = f
  PROVE  Good(Capture(s, p, f))
<1> DEFINE r     == [Reset(s.flags[f]) EXCEPT !.captured = TRUE, !.think = "set"]
           flags == [s.flags EXCEPT ![f] = r]
           item  == [s.item EXCEPT ![p] = NoFlag]
<1>1. Paired(s.flags, s.item) /\ s.alive \in [Players -> BOOLEAN] /\ s.won \in BOOLEAN
  BY AsRecord
<1>2. f \in Flags /\ Stolen(s.flags[f]) /\ s.flags[f].prev = p /\ s.flags[f] \in FlagType
      /\ Apart(s.flags[f])
  BY <1>1, NoFlagIsNone DEF Paired
<1>3. r \in FlagType /\ Apart(r) /\ ~Stolen(r)
  BY <1>2, ZenonT(60) DEF FlagType, Apart, Stolen, Reset
<1>4. CASE s.flags[f].disabled
  BY <1>4 DEF Capture
<1>5. CASE ~s.flags[f].disabled
  <2>1. Capture(s, p, f) = [s EXCEPT !.flags = flags, !.item = item]
    <3>1. Capture(s, p, f) = [s EXCEPT !.item[p] = NoFlag, !.flags[f] = r]
      BY <1>5, ZenonT(30) DEF Capture
    <3> HIDE DEF r
    <3> QED BY <3>1 DEF Good, MatchType
  <2> HIDE DEF r
  <2>2. /\ flags \in [Flags -> FlagType] /\ item \in [Players -> Flags \cup {NoFlag}]
        /\ \A g \in Flags : flags[g] = IF g = f THEN r ELSE s.flags[g]
        /\ \A q \in Players : item[q] = IF q = p THEN NoFlag ELSE s.item[q]
    BY <1>1, <1>2, <1>3 DEF Paired
  <2> HIDE DEF flags, item
  <2>3. \A g \in Flags : Apart(flags[g])
    BY <1>1, <1>3, <2>2 DEF Paired
  <2>4. \A g \in Flags : Stolen(flags[g]) =>
          flags[g].prev \in Players /\ item[flags[g].prev] = g
    <3> SUFFICES ASSUME NEW g \in Flags, Stolen(flags[g])
                 PROVE  flags[g].prev \in Players /\ item[flags[g].prev] = g
      OBVIOUS
    <3>1. g # f /\ flags[g] = s.flags[g]
      BY <2>2, <1>3
    <3>2. s.flags[g].prev \in Players /\ s.item[s.flags[g].prev] = g
      BY <3>1, <1>1 DEF Paired
    <3>3. s.flags[g].prev # p
      BY <3>1, <3>2
    <3> QED BY <3>1, <3>2, <3>3, <2>2
  <2>5. \A q \in Players : item[q] # NoFlag =>
          /\ Stolen(flags[item[q]]) /\ flags[item[q]].prev = q
          /\ MayTake(Team[q], item[q])
    <3> SUFFICES ASSUME NEW q \in Players, item[q] # NoFlag
                 PROVE  /\ Stolen(flags[item[q]]) /\ flags[item[q]].prev = q
                        /\ MayTake(Team[q], item[q])
      OBVIOUS
    <3>1. q # p /\ item[q] = s.item[q] /\ s.item[q] \in Flags
      BY <2>2
    <3>2. /\ Stolen(s.flags[s.item[q]]) /\ s.flags[s.item[q]].prev = q
          /\ MayTake(Team[q], s.item[q])
      BY <3>1, <1>1 DEF Paired
    <3>3. s.item[q] # f
      BY <3>1, <3>2, <1>2
    <3> QED BY <3>1, <3>2, <3>3, <2>2
  <2>6. Paired(flags, item)
    BY <2>2, <2>3, <2>4, <2>5 DEF Paired
  <2>7. Good([s EXCEPT !.flags = flags, !.item = item])
    BY <2>6, FlagsAndItems
  <2> QED BY <2>1, <2>7
<1> QED BY <1>4, <1>5

-----------------------------------------------------------------------------
(* The actions                                                             *)

\* Who is alive does not matter to the flags.
LEMMA AliveGood ==
  ASSUME NEW s, Good(s), NEW p \in Players, NEW b \in BOOLEAN
  PROVE  Good([s EXCEPT !.alive[p] = b])
<1>1. [s EXCEPT !.alive[p] = b] \in MatchType
  BY ZenonT(30) DEF Good, MatchType
<1>2. [s EXCEPT !.alive[p] = b].flags = s.flags /\ [s EXCEPT !.alive[p] = b].item = s.item
  BY ZenonT(30) DEF Good, MatchType
<1> QED BY <1>1, <1>2 DEF Good

\* One flag may change if it stays with whom it was.
LEMMA OneFlagGood ==
  ASSUME NEW s, Good(s), NEW f \in Flags, NEW r \in FlagType, Apart(r),
         Stolen(r) <=> Stolen(s.flags[f]), Stolen(r) => r.prev = s.flags[f].prev
  PROVE  Good([s EXCEPT !.flags[f] = r])
<1> DEFINE flags == [s.flags EXCEPT ![f] = r]
           new   == [s EXCEPT !.flags[f] = r]
<1>1. Paired(flags, s.item)
  BY FlagChanges DEF Good
<1>2. new.flags = flags /\ new.item = s.item
  BY ZenonT(30) DEF Good, MatchType
<1>3. flags \in [Flags -> FlagType]
  BY <1>1 DEF Paired
<1>4. new \in MatchType
  BY <1>3, ZenonT(30) DEF Good, MatchType
<1> QED BY <1>1, <1>2, <1>4 DEF Good

\* The match starts with every flag at home.
LEMMA InitGood == Init => Good(match)
<1> SUFFICES ASSUME Init PROVE Good(match)
  OBVIOUS
<1>1. [p \in Players |-> TRUE] \in [Players -> BOOLEAN]
  OBVIOUS
<1> QED BY <1>1, FreshGood, Fields DEF Init

\* Time takes no flag from anybody.
LEMMA TickGood == Good(match) /\ Tick => Good(match')
<1> SUFFICES ASSUME Good(match), Tick PROVE Good(match')
  OBVIOUS
<1> DEFINE R(f)  == [match.flags[f] EXCEPT !.think = IF @ = "set" THEN "due" ELSE @,
                                           !.owner = Earlier(@), !.return = Earlier(@)]
           flags == [f \in Flags |-> R(f)]
<1>1. \A f \in Flags : /\ R(f) \in FlagType /\ Apart(R(f)) /\ R(f).prev = match.flags[f].prev
                       /\ Stolen(R(f)) <=> Stolen(match.flags[f])
  <2> SUFFICES ASSUME NEW f \in Flags
               PROVE  /\ R(f) \in FlagType /\ Apart(R(f)) /\ R(f).prev = match.flags[f].prev
                      /\ Stolen(R(f)) <=> Stolen(match.flags[f])
    OBVIOUS
  <2> DEFINE r == match.flags[f]
             think == IF r.think = "set" THEN "due" ELSE r.think
             owner == Earlier(r.owner)
             return == Earlier(r.return)
  <2>1. r \in FlagType /\ Apart(r)
    BY DEF Good, Paired
  <2>2. r.think \in {"off", "set", "due"} /\ r.owner \in 0..OwnerTicks
        /\ r.return \in {Unset} \cup 0..ReturnTicks
    BY <2>1, ZenonT(30) DEF FlagType
  <2>3. think \in {"off", "set", "due"} /\ owner \in 0..OwnerTicks
        /\ return \in {Unset} \cup 0..ReturnTicks
    BY <2>2, ConstantsAssumption DEF Earlier, Unset
  <2>4. R(f) = [r EXCEPT !.think = think, !.owner = owner, !.return = return]
    OBVIOUS
  <2> HIDE DEF think, owner, return, R, r
  <2>5. R(f) \in FlagType
    BY <2>1, <2>3, <2>4, ZenonT(30) DEF FlagType
  <2>6. /\ R(f).status = r.status /\ R(f).touch = r.touch /\ R(f).captured = r.captured
        /\ R(f).disabled = r.disabled /\ R(f).prev = r.prev
    BY <2>1, <2>4, ZenonT(30) DEF FlagType
  <2> QED BY <2>1, <2>5, <2>6, ZenonT(30) DEF Apart, Stolen, r
<1>2. match' = [match EXCEPT !.flags = flags]
  BY DEF Tick
<1> HIDE DEF R
<1>3. Paired(flags, match.item)
  BY <1>1, NoFlagIsNone, ZenonT(60) DEF Good, Paired
<1> HIDE DEF flags
<1>4. [match EXCEPT !.flags = flags] \in MatchType
      /\ [match EXCEPT !.flags = flags].flags = flags
      /\ [match EXCEPT !.flags = flags].item = match.item
  BY <1>3, ZenonT(30) DEF Good, Paired, MatchType
<1> QED BY <1>2, <1>3, <1>4 DEF Good

\* No step leaves a flag with two carriers, or a carrier without it.
LEMMA NextGood == ~BusyInputs /\ Good(match) /\ [Next]_match => Good(match')
<1> SUFFICES ASSUME ~BusyInputs, Good(match), [Next]_match PROVE Good(match')
  OBVIOUS
<1>1. CASE Tick
  BY <1>1, TickGood
<1>2. ASSUME NEW f \in Flags, ThinkOf(f) PROVE Good(match')
  <2> DEFINE r == Think(match.flags[f], match.won)
  <2>1. match.flags[f] \in FlagType /\ Apart(match.flags[f]) /\ match.won \in BOOLEAN
    BY DEF Good, Paired, MatchType
  <2>2. match' = [match EXCEPT !.flags[f] = r]
    BY <1>2 DEF ThinkOf, Good, MatchType
  <2>3. /\ r \in FlagType /\ Apart(r) /\ (Stolen(r) <=> Stolen(match.flags[f]))
        /\ Stolen(match.flags[f]) => r.prev = match.flags[f].prev
    BY <2>1, ThinkGood
  <2> HIDE DEF r
  <2>4. Good([match EXCEPT !.flags[f] = r])
    BY <2>3, OneFlagGood
  <2> QED BY <2>2, <2>4
<1>3. ASSUME NEW p \in Players, NEW f \in Flags, Touch(p, f) PROVE Good(match')
  BY <1>3, PickUpGood DEF Touch
<1>4. ASSUME NEW p \in Players, TouchZone(p) PROVE Good(match')
  <2>1. match.item[p] \in Flags /\ match' = Capture(match, p, match.item[p])
    BY <1>4 DEF TouchZone, Good, MatchType
  <2> QED BY <2>1, CaptureGood
<1>5. ASSUME NEW p \in Players, DropItem(p) PROVE Good(match')
  BY <1>5, DropGood DEF DropItem
<1>6. ASSUME NEW p \in Players, Die(p) PROVE Good(match')
  <2>1. Good(Drop(match, {p}, FALSE))
    BY DropGood
  <2> QED BY <1>6, <2>1, AliveGood DEF Die
<1>7. ASSUME NEW p \in Players, Respawn(p) PROVE Good(match')
  <2>1. Good(Drop(match, {p}, TRUE))
    BY DropGood
  <2> QED BY <1>7, <2>1, AliveGood DEF Respawn
<1>8. ASSUME NEW p \in Players, Spectate(p) PROVE Good(match')
  BY <1>8, AliveGood DEF Spectate
<1>9. ASSUME NEW t \in Teams, WinRound(t) PROVE Good(match')
  <2> DEFINE d == Drop(match, {p \in Players : Team[p] # t}, TRUE)
  <2>1. Good(d)
    BY DropGood
  <2>2. match' = [d EXCEPT !.won = TRUE]
    BY <1>9 DEF WinRound
  <2> HIDE DEF d
  <2>3. [d EXCEPT !.won = TRUE] \in MatchType /\ [d EXCEPT !.won = TRUE].flags = d.flags
        /\ [d EXCEPT !.won = TRUE].item = d.item
    BY <2>1, ZenonT(30) DEF Good, MatchType
  <2> QED BY <2>1, <2>2, <2>3 DEF Good
<1>10. ASSUME NEW clean \in BOOLEAN, NewRound(clean) PROVE Good(match')
  BY <1>10, RoundRespawnGood DEF NewRound
<1>11. ASSUME NEW f \in Flags, NEW b \in BOOLEAN, Input(f, b) PROVE Good(match')
  <2> DEFINE r == SetDisabled(match.flags[f], b)
  <2>1. ~match.flags[f].captured /\ \A p \in Players : match.item[p] # f
    BY <1>11 DEF Input
  <2>2. match.flags[f] \in FlagType /\ ~Stolen(match.flags[f])
    BY <2>1 DEF Good, Paired
  <2>3. r \in FlagType /\ Apart(r) /\ ~Stolen(r)
    BY <2>1, <2>2, SetDisabledGood
  <2>4. match' = [match EXCEPT !.flags[f] = r]
    BY <1>11 DEF Input, Good, MatchType
  <2> HIDE DEF r
  <2>5. Good([match EXCEPT !.flags[f] = r])
    BY <2>2, <2>3, OneFlagGood
  <2> QED BY <2>4, <2>5
<1>12. CASE UNCHANGED match
  BY <1>12
<1> QED
  BY <1>1, <1>2, <1>3, <1>4, <1>5, <1>6, <1>7, <1>8, <1>9, <1>10, <1>11, <1>12 DEF Next

\* The flags and the players are never in a state that the code does not know, when the
\* map's inputs leave alone a flag that is carried or was just captured.
THEOREM TypeCorrect == ~BusyInputs => (Spec => []TypeOK)
<1> SUFFICES ASSUME ~BusyInputs PROVE Spec => []TypeOK
  OBVIOUS
<1>1. Init => Good(match)
  BY InitGood
<1>2. Good(match) /\ [Next]_match => Good(match)'
  BY NextGood
<1>3. Good(match) => TypeOK
  BY DEF Good, TypeOK
<1> QED BY <1>1, <1>2, <1>3, PTL DEF Spec

\* Drop, capture, death, respawn, the end of a round and the start of the next never make
\* two players hold a flag, or leave one stolen by nobody.
THEOREM FlagHeldAlways == ~BusyInputs => (Spec => []FlagHeld)
<1> SUFFICES ASSUME ~BusyInputs PROVE Spec => []FlagHeld
  OBVIOUS
<1>1. Init => Good(match)
  BY InitGood
<1>2. Good(match) /\ [Next]_match => Good(match)'
  BY NextGood
<1>3. Good(match) => FlagHeld
  BY GoodHeld
<1> QED BY <1>1, <1>2, <1>3, PTL DEF Spec

=============================================================================

-------------------------- MODULE RoundTimer_proofs --------------------------
(***************************************************************************)
(* Proofs about RoundTimer.                                                *)
(***************************************************************************)
EXTENDS RoundTimer, WellFoundedInduction, NaturalsInduction, TLAPS

\* The clock of a timer, seen from the one it had before: it is the same, or within
\* the maximum.
Steady(r, q) ==
  (q.left = r.left /\ q.max = r.max) \/ (q.max > 0 => q.left <= q.max)

\* What decides whether a timer wants to be in the HUD.
SameFace(r, q) == q.alive = r.alive /\ q.disabled = r.disabled /\ q.shown = r.shown

-----------------------------------------------------------------------------
(* Numbers                                                                 *)

\* The first of some timers is one of them, and the lowest.
LEMMA FirstIsOne ==
  ASSUME NEW S \in SUBSET Nat, S # {}
  PROVE  FirstOf(S) \in S /\ \A u \in S : FirstOf(S) <= u
<1>1. PICK x \in S : \A y \in S : ~(<<y, x>> \in OpToRel(<, Nat))
  BY NatLessThanWellFounded, WFMin
<1>2. \A y \in S : <<y, x>> \in OpToRel(<, Nat) <=> y < x
  <2>1. OpToRel(<, Nat) = {ss \in Nat \X Nat : ss[1] < ss[2]}
    BY DEF OpToRel
  <2>2. ASSUME NEW y \in S
        PROVE  <<y, x>> \in {ss \in Nat \X Nat : ss[1] < ss[2]} <=> y < x
    OBVIOUS
  <2> QED BY <2>1, <2>2
<1>3. \A y \in S : ~(y < x)
  BY <1>1, <1>2, Zenon
<1>4. \A y \in S : x <= y
  BY <1>3
<1> QED BY <1>4 DEF FirstOf

\* A set of timers that is not empty has a last one.
LEMMA LastIsOne ==
  ASSUME NEW S \in SUBSET Timers, S # {}
  PROVE  LastOf(S) \in S /\ \A u \in S : u <= LastOf(S)
<1> DEFINE back == {Temp - t : t \in S}
<1>1. Temp \in Nat /\ \A t \in S : t \in Nat /\ t <= Temp
  BY ConstantsAssumption DEF Timers
<1>2. back \in SUBSET Nat /\ back # {}
  BY <1>1
<1>3. FirstOf(back) \in back /\ \A u \in back : FirstOf(back) <= u
  BY <1>2, FirstIsOne
<1>4. PICK t \in S : FirstOf(back) = Temp - t
  BY <1>3
<1>5. \A u \in S : Temp - t <= Temp - u
  BY <1>3, <1>4
<1>6. \A u \in S : u <= t
  BY <1>1, <1>5
<1> QED BY <1>6 DEF LastOf

\* The index for no timer is not that of one.
LEMMA NoTimerIsNone == NoTimer \notin Timers /\ MapTimers \subseteq Timers /\ Temp \in Timers
<1>1. PICK t \in MapTimers : t \in Nat \ {0} /\ t < Temp
  BY ConstantsAssumption
<1>2. Temp # 0
  BY <1>1, ConstantsAssumption
<1> QED BY <1>2, ConstantsAssumption DEF Timers, NoTimer

\* The first of some timers is one of them, or none.
LEMMA FirstTimer ==
  ASSUME NEW S \in SUBSET Timers
  PROVE  FirstOf(S) \in S \cup {NoTimer} /\ (S # {} => FirstOf(S) \in S)
<1>1. S \in SUBSET Nat
  BY ConstantsAssumption DEF Timers
<1> QED BY <1>1, FirstIsOne DEF FirstOf

\* The last of some timers is one of them, or none.
LEMMA LastTimer ==
  ASSUME NEW S \in SUBSET Timers
  PROVE  LastOf(S) \in S \cup {NoTimer} /\ (S # {} => LastOf(S) \in S)
BY LastIsOne DEF LastOf

\* A number of ticks in whole seconds is no more than it was, if it is not negative.
LEMMA SecondsBelow ==
  ASSUME NEW n \in Int
  PROVE  /\ Seconds(n) \in Int
         /\ n >= 0 => 0 <= Seconds(n) /\ Seconds(n) <= n
         /\ n < 0 => Seconds(n) <= 0
<1> DEFINE T == TicksPerSecond
<1>1. T \in Nat \ {0}
  BY ConstantsAssumption
<1> HIDE DEF T
<1>2. \A k \in Nat : k \div T \in Nat /\ 0 <= T * (k \div T) /\ T * (k \div T) <= k
  BY <1>1
<1>3. CASE n >= 0
  <2>1. n \in Nat
    BY <1>3
  <2>2. Seconds(n) = T * (n \div T)
    BY <1>3 DEF Seconds, T
  <2>3. n \div T \in Nat /\ T * (n \div T) \in Int
    BY <2>1, <1>1, <1>2
  <2> QED BY <1>2, <2>1, <2>2, <2>3
<1>4. CASE n < 0
  <2>1. -n \in Nat
    BY <1>4
  <2>2. Seconds(n) = -(T * ((-n) \div T))
    BY <1>4 DEF Seconds, T
  <2>3. (-n) \div T \in Nat
    BY <2>1, <1>2
  <2>4. T * ((-n) \div T) \in Nat
    BY <2>3, <1>1
  <2> QED BY <2>2, <2>4, <1>4
<1> QED BY <1>3, <1>4

-----------------------------------------------------------------------------
(* The clock of a timer                                                    *)

\* q is a timer, it looks as r does, and its clock is steady.
Step(r, q) == q \in TimerType /\ SameFace(r, q) /\ Steady(r, q)

\* The steps of a timer compose.
LEMMA StepStep ==
  ASSUME NEW r, NEW q, NEW w, Step(r, q), Step(q, w)
  PROVE  Step(r, w)
BY DEF Step, SameFace, Steady

\* The members of a timer have their types.
LEMMA Members ==
  ASSUME NEW r \in TimerType
  PROVE  /\ r.left \in Int /\ r.max \in Int /\ r.after \in Nat /\ r.due \in 0..TicksPerSecond
         /\ r.armed \in SUBSET (Warnings \cup {End}) /\ r.state \in {"setup", "normal"}
         /\ r.alive \in BOOLEAN /\ r.disabled \in BOOLEAN /\ r.shown \in BOOLEAN
         /\ r.paused \in BOOLEAN /\ r.winPaused \in BOOLEAN /\ r.owed \in BOOLEAN
BY ZenonT(30) DEF TimerType

\* A think a tick or a second away.
LEMMA DueTypes == {0, 1, TicksPerSecond} \subseteq 0..TicksPerSecond
BY ConstantsAssumption

\* The time that is left is not negative.
LEMMA Remaining ==
  ASSUME NEW r \in TimerType
  PROVE  GetTimeRemaining(r) \in Nat /\ r.left <= GetTimeRemaining(r)
         /\ (r.left >= 0 => GetTimeRemaining(r) = r.left)
<1>1. r.left \in Int
  BY Members
<1> QED BY <1>1 DEF GetTimeRemaining

\* CalculateOutputMessages looks at the clock and changes the messages alone.
LEMMA Messages ==
  ASSUME NEW r \in TimerType
  PROVE  /\ Step(r, CalculateOutputMessages(r)) /\ CalculateOutputMessages(r).left = r.left
         /\ CalculateOutputMessages(r).max = r.max
<1> DEFINE armed == {w \in Warnings : w <= GetTimeRemaining(r)}
                      \cup (IF GetTimeRemaining(r) > 0 THEN {End} ELSE {})
           q == [r EXCEPT !.armed = armed]
<1>1. armed \in SUBSET (Warnings \cup {End})
  OBVIOUS
<1>2. CalculateOutputMessages(r) = q
  BY DEF CalculateOutputMessages
<1> HIDE DEF armed
<1>3. q \in TimerType /\ SameFace(r, q) /\ q.left = r.left /\ q.max = r.max
  BY <1>1, ZenonT(60) DEF TimerType, SameFace
<1> HIDE DEF q
<1> QED BY <1>2, <1>3 DEF Step, Steady

\* SetTimeRemaining keeps to the maximum.
LEMMA SetTimeStep ==
  ASSUME NEW r \in TimerType, NEW n \in Int
  PROVE  Step(r, SetTimeRemaining(r, n))
<1> DEFINE time == IF r.max > 0 /\ n > r.max THEN r.max ELSE n
           owed == time > 0
           q    == [r EXCEPT !.left = time, !.owed = owed]
<1>1. time \in Int /\ (r.max > 0 => time <= r.max) /\ owed \in BOOLEAN
  BY Members
<1>2. SetTimeRemaining(r, n) = IF r.disabled THEN r ELSE CalculateOutputMessages(q)
  BY DEF SetTimeRemaining
<1> HIDE DEF time, owed
<1>3. q \in TimerType /\ SameFace(r, q) /\ q.left = time /\ q.max = r.max
  BY <1>1, ZenonT(60) DEF TimerType, SameFace
<1> HIDE DEF q
<1>4. Step(r, q)
  BY <1>1, <1>3 DEF Step, Steady
<1>5. Step(r, r)
  BY DEF Step, Steady, SameFace
<1> QED BY <1>2, <1>3, <1>4, <1>5, Messages, StepStep

\* PauseTimer and ResumeTimer leave the clock as it is.
LEMMA PauseStep ==
  ASSUME NEW r \in TimerType
  PROVE  Step(r, PauseTimer(r)) /\ Step(r, ResumeTimer(r))
<1>1. Step(r, r)
  BY DEF Step, Steady, SameFace
<1>2. Step(r, [r EXCEPT !.paused = TRUE, !.winPaused = FALSE])
  BY ZenonT(60) DEF TimerType, Step, Steady, SameFace
<1>3. Step(r, [r EXCEPT !.paused = FALSE])
  BY ZenonT(60) DEF TimerType, Step, Steady, SameFace
<1> QED BY <1>1, <1>2, <1>3 DEF PauseTimer, ResumeTimer

\* The next think, the messages and the history are no part of what a step is about.
LEMMA OtherStep ==
  ASSUME NEW r \in TimerType, NEW armed \in SUBSET (Warnings \cup {End}),
         NEW due \in 0..TicksPerSecond, NEW b \in BOOLEAN
  PROVE  /\ Step(r, [r EXCEPT !.due = due])
         /\ Step(r, [r EXCEPT !.armed = armed, !.due = due])
         /\ Step(r, [r EXCEPT !.armed = armed, !.owed = b, !.due = due])
         /\ Step(r, [r EXCEPT !.winPaused = b])
         /\ Step(r, [r EXCEPT !.winPaused = b, !.due = due])
<1>1. Step(r, [r EXCEPT !.due = due])
  BY ZenonT(60) DEF TimerType, Step, Steady, SameFace
<1>2. Step(r, [r EXCEPT !.armed = armed, !.due = due])
  BY ZenonT(60) DEF TimerType, Step, Steady, SameFace
<1>3. Step(r, [r EXCEPT !.armed = armed, !.owed = b, !.due = due])
  BY ZenonT(60) DEF TimerType, Step, Steady, SameFace
<1>4. Step(r, [r EXCEPT !.winPaused = b])
  BY ZenonT(60) DEF TimerType, Step, Steady, SameFace
<1>5. Step(r, [r EXCEPT !.winPaused = b, !.due = due])
  BY ZenonT(60) DEF TimerType, Step, Steady, SameFace
<1> QED BY <1>1, <1>2, <1>3, <1>4, <1>5

\* A timer never gains time beyond its maximum: what NeverAboveMaximum says of one.
Capped(r, q) ==
  q.alive /\ q.max > 0 /\ q.left > r.left /\ q.max = r.max => q.left <= q.max

\* A step of a timer is capped.
LEMMA StepCapped ==
  ASSUME NEW r \in TimerType, NEW q, Step(r, q)
  PROVE  Capped(r, q)
<1>1. r.left \in Int /\ q.left \in Int
  BY Members DEF Step
<1> QED BY <1>1 DEF Step, Steady, Capped

\* AddTimerSeconds fills up to the maximum.
LEMMA AddTimeStep ==
  ASSUME NEW r \in TimerType, NEW n \in Int, NEW b \in BOOLEAN
  PROVE  /\ AddTimerSeconds(r, n, b) \in TimerType
         /\ SameFace(r, AddTimerSeconds(r, n, b)) /\ Capped(r, AddTimerSeconds(r, n, b))
<1> DEFINE room == Room(r, n)
           left == r.left + room
           owed == IF room < 0 THEN r.owed /\ r.left + room > 0
                   ELSE r.owed \/ r.left + room > 0
           q    == [r EXCEPT !.left = left, !.owed = owed]
<1>1. r.left \in Int /\ r.max \in Int /\ r.owed \in BOOLEAN
  BY Members
<1>2. room \in Int /\ (r.max > 0 /\ r.left + room > r.left => r.left + room <= r.max)
  <2>1. CASE r.max > 0 /\ GetTimeRemaining(r) + n > r.max
    <3> DEFINE d == r.max - GetTimeRemaining(r)
    <3>1. d \in Int /\ r.left <= r.max - d
      BY <1>1, Remaining
    <3>2. room = Seconds(d)
      BY <2>1 DEF Room
    <3> HIDE DEF d, room
    <3>3. room \in Int /\ (d >= 0 => room <= d) /\ (d < 0 => room <= 0)
      BY <3>1, <3>2, SecondsBelow
    <3> QED BY <1>1, <3>1, <3>3
  <2>2. CASE ~(r.max > 0 /\ GetTimeRemaining(r) + n > r.max)
    <3>1. room = n
      BY <2>2 DEF Room
    <3> HIDE DEF room
    <3> QED BY <1>1, <2>2, <3>1, Remaining
  <2> QED BY <2>1, <2>2
<1> HIDE DEF room
<1>3. left \in Int /\ owed \in BOOLEAN /\ (r.max > 0 /\ left > r.left => left <= r.max)
  <2>1. owed \in BOOLEAN
    BY <1>1, Zenon
  <2> HIDE DEF owed
  <2> QED BY <1>1, <1>2, <2>1
<1>4. AddTimerSeconds(r, n, b) = IF r.disabled \/ b THEN r ELSE CalculateOutputMessages(q)
  BY DEF AddTimerSeconds, Added, room
<1> HIDE DEF left, owed
<1>5. q \in TimerType /\ SameFace(r, q) /\ q.left = left /\ q.max = r.max
  BY <1>3, ZenonT(60) DEF TimerType, SameFace
<1> HIDE DEF q
<1> DEFINE w == CalculateOutputMessages(q)
<1>6. w \in TimerType /\ SameFace(r, w) /\ w.left = left /\ w.max = r.max
  BY <1>5, Messages DEF Step, SameFace
<1> HIDE DEF w
<1>7. Capped(r, w)
  BY <1>3, <1>6 DEF Capped
<1>8. Capped(r, r) /\ SameFace(r, r)
  BY <1>1 DEF Capped, SameFace
<1> QED BY <1>4, <1>6, <1>7, <1>8 DEF w

\* SetMaxTime brings a timer that is enabled down to a new maximum.
LEMMA SetMaxStep ==
  ASSUME NEW r \in TimerType, NEW n \in Int
  PROVE  /\ InputSetMaxTime(r, n) \in TimerType
         /\ SameFace(r, InputSetMaxTime(r, n)) /\ Capped(r, InputSetMaxTime(r, n))
<1> DEFINE q == [r EXCEPT !.max = n]
<1>1. q \in TimerType /\ SameFace(r, q) /\ q.left = r.left
  BY ZenonT(60) DEF TimerType, SameFace
<1>2. InputSetMaxTime(r, n) = SetTimeRemaining(q, n) \/ InputSetMaxTime(r, n) = q
  BY DEF InputSetMaxTime
<1> HIDE DEF q
<1>3. Step(q, SetTimeRemaining(q, n)) /\ Step(q, q)
  BY <1>1, SetTimeStep DEF Step, Steady, SameFace
<1>4. Step(q, InputSetMaxTime(r, n))
  BY <1>2, <1>3
<1>5. Capped(q, InputSetMaxTime(r, n))
  BY <1>1, <1>4, StepCapped
<1>6. Capped(r, InputSetMaxTime(r, n))
  <2>1. r.left \in Int /\ InputSetMaxTime(r, n).left \in Int
    BY <1>4, Members DEF Step
  <2> QED BY <1>1, <1>4, <2>1 DEF Step, Steady, Capped
<1> QED BY <1>1, <1>4, <1>6 DEF Step, SameFace

\* A tick takes time and gives none.
LEMMA TickedStep ==
  ASSUME NEW r \in TimerType
  PROVE  Ticked(r) \in TimerType /\ SameFace(r, Ticked(r)) /\ Capped(r, Ticked(r))
<1> DEFINE due  == IF r.due > 0 THEN r.due - 1 ELSE 0
           left == IF ~r.paused /\ r.left > -Debt THEN r.left - 1 ELSE r.left
           q    == [r EXCEPT !.due = due, !.left = left]
<1>1. due \in 0..TicksPerSecond /\ left \in Int /\ left <= r.left
  BY Members, ConstantsAssumption
<1>2. Ticked(r) = q
  BY DEF Ticked
<1> HIDE DEF due, left
<1>3. q \in TimerType /\ SameFace(r, q) /\ q.left = left
  BY <1>1, ZenonT(60) DEF TimerType, SameFace
<1> HIDE DEF q
<1>4. r.left \in Int
  BY Members
<1> QED BY <1>1, <1>2, <1>3, <1>4 DEF Capped

-----------------------------------------------------------------------------
(* The round                                                               *)

One(s) == \A t, u \in Wanting(s) : t = u

\* q is a state of the round in which at most one timer wants to be in the HUD, and no
\* clock was changed but within its maximum.
Reach(s, q) ==
  q \in RoundType /\ One(q) /\ \A t \in Timers : Steady(s.timers[t], q.timers[t])

\* Steps of the round compose.
LEMMA ReachReach ==
  ASSUME NEW s, NEW q, NEW w, Reach(s, q), Reach(q, w)
  PROVE  Reach(s, w)
BY DEF Reach, Steady

\* What leaves the timers alone is a step of the round.
LEMMA SameTimers ==
  ASSUME NEW s, NEW q \in RoundType, One(s), q.timers = s.timers
  PROVE  Reach(s, q)
<1>1. Wanting(q) = Wanting(s)
  BY DEF Wanting
<1> QED BY <1>1 DEF Reach, One, Steady

\* So is what gives no timer a new face.
LEMMA TimersReach ==
  ASSUME NEW s, NEW q \in RoundType, One(s),
         \A t \in Timers : Step(s.timers[t], q.timers[t])
  PROVE  Reach(s, q)
<1>1. Wanting(q) = Wanting(s)
  BY DEF Wanting, Step, SameFace
<1> QED BY <1>1 DEF Reach, One, Step

\* One timer is given a new state.
LEMMA OneTimerType ==
  ASSUME NEW s \in RoundType, NEW t \in Timers, NEW r \in TimerType
  PROVE  /\ [s EXCEPT !.timers[t] = r] \in RoundType
         /\ [s EXCEPT !.timers[t] = r].timers = [s.timers EXCEPT ![t] = r]
<1>1. [s.timers EXCEPT ![t] = r] \in [Timers -> TimerType]
  BY DEF RoundType
<1> QED BY <1>1, ZenonT(60) DEF RoundType

\* A step of one timer that leaves it shown or hidden as it was is one of the round.
LEMMA OneTimerReach ==
  ASSUME NEW s \in RoundType, One(s), NEW t \in Timers, NEW r, Step(s.timers[t], r)
  PROVE  Reach(s, [s EXCEPT !.timers[t] = r])
<1> DEFINE q == [s EXCEPT !.timers[t] = r]
<1>1. q \in RoundType /\ q.timers = [s.timers EXCEPT ![t] = r]
  BY OneTimerType DEF Step
<1>2. \A u \in Timers : q.timers[u] = IF u = t THEN r ELSE s.timers[u]
  BY <1>1 DEF RoundType
<1>3. \A u \in Timers : Step(s.timers[u], s.timers[u])
  BY DEF RoundType, Step, SameFace, Steady
<1> HIDE DEF q
<1>4. \A u \in Timers : Step(s.timers[u], q.timers[u])
  BY <1>2, <1>3
<1>5. Reach(s, q)
  BY <1>1, <1>4, TimersReach
<1> QED BY <1>5 DEF q

\* A timer's clock and the rest of it when only its place in the HUD changes.
LEMMA ShownType ==
  ASSUME NEW r \in TimerType, NEW b \in BOOLEAN
  PROVE  /\ [r EXCEPT !.shown = b] \in TimerType /\ [r EXCEPT !.shown = b].shown = b
         /\ Steady(r, [r EXCEPT !.shown = b])
         /\ [r EXCEPT !.shown = b].alive = r.alive
         /\ [r EXCEPT !.shown = b].disabled = r.disabled
<1>1. /\ [r EXCEPT !.shown = b] \in TimerType /\ [r EXCEPT !.shown = b].shown = b
      /\ [r EXCEPT !.shown = b].alive = r.alive
      /\ [r EXCEPT !.shown = b].disabled = r.disabled
      /\ [r EXCEPT !.shown = b].left = r.left /\ [r EXCEPT !.shown = b].max = r.max
  BY ZenonT(60) DEF TimerType
<1> QED BY <1>1 DEF Steady

\* The timers are replaced, and with them the one in the HUD.
LEMMA TimersType ==
  ASSUME NEW s \in RoundType, NEW timers \in [Timers -> TimerType],
         NEW hud \in Timers \cup {NoTimer}
  PROVE  /\ [s EXCEPT !.hud = hud, !.timers = timers] \in RoundType
         /\ [s EXCEPT !.hud = hud, !.timers = timers].timers = timers
BY ZenonT(60) DEF RoundType

\* SetActiveTimer leaves one timer that wants to be in the HUD, whatever there was.
LEMMA ActiveReach ==
  ASSUME NEW s \in RoundType, NEW t \in Timers \cup {NoTimer}
  PROVE  /\ Reach(s, SetActiveTimer(s, t))
         /\ t \in Timers => Wanting(SetActiveTimer(s, t)) \subseteq {t}
<1> DEFINE chosen == IF t # NoTimer THEN t ELSE FirstOf(Wanting(s))
           off    == Wanting(s) \ {t, chosen}
           R(u)   == IF u \in off THEN [s.timers[u] EXCEPT !.shown = FALSE] ELSE s.timers[u]
           timers == [u \in Timers |-> R(u)]
           q      == [s EXCEPT !.hud = chosen, !.timers = timers]
<1>1. Wanting(s) \subseteq Timers /\ NoTimer \notin Timers
  BY NoTimerIsNone DEF Wanting
<1>2. chosen \in Timers \cup {NoTimer}
  BY <1>1, FirstTimer
<1>3. \A u \in Timers : s.timers[u] \in TimerType
  BY DEF RoundType
<1>4. \A u \in Timers :
        /\ R(u) \in TimerType /\ Steady(s.timers[u], R(u))
        /\ R(u).alive /\ ~R(u).disabled /\ R(u).shown => u \in Wanting(s) /\ u \notin off
  <2> SUFFICES ASSUME NEW u \in Timers
               PROVE  /\ R(u) \in TimerType /\ Steady(s.timers[u], R(u))
                      /\ R(u).alive /\ ~R(u).disabled /\ R(u).shown =>
                           u \in Wanting(s) /\ u \notin off
    OBVIOUS
  <2>1. CASE u \in off
    BY <2>1, <1>3, ShownType
  <2>2. CASE u \notin off
    BY <2>2, <1>3 DEF Steady, Wanting
  <2> QED BY <2>1, <2>2
<1>5. SetActiveTimer(s, t) = q
  BY DEF SetActiveTimer
<1>6. timers \in [Timers -> TimerType] /\ \A u \in Timers : timers[u] = R(u)
  BY <1>4
<1>7. Wanting(s) \ off \subseteq {t, chosen}
  OBVIOUS
<1>8. t \in Timers => chosen = t
  BY <1>1
<1>9. t = NoTimer \/ chosen = t
  BY <1>8
<1> HIDE DEF R, timers, chosen, off
<1>10. q \in RoundType /\ q.timers = timers
  BY <1>2, <1>6, TimersType
<1> HIDE DEF q
<1>11. Wanting(q) \subseteq Wanting(s) \ off /\ Wanting(q) \subseteq Timers
  BY <1>4, <1>6, <1>10 DEF Wanting
<1>12. Wanting(q) \subseteq {t, chosen} /\ NoTimer \notin Wanting(q)
  BY <1>1, <1>7, <1>11
<1>13. One(q) /\ (t \in Timers => Wanting(q) \subseteq {t})
  BY <1>8, <1>9, <1>12 DEF One
<1> QED BY <1>4, <1>5, <1>6, <1>10, <1>13 DEF Reach

\* One timer is shown or not, when it is the only one that wants to be, or is not to be.
LEMMA ShowReach ==
  ASSUME NEW s \in RoundType, NEW t \in Timers, NEW b \in BOOLEAN,
         IF b THEN Wanting(s) \subseteq {t} ELSE One(s)
  PROVE  Reach(s, [s EXCEPT !.timers[t].shown = b])
<1> DEFINE r == [s.timers[t] EXCEPT !.shown = b]
           q == [s EXCEPT !.timers[t] = r]
<1>1. s.timers[t] \in TimerType
  BY DEF RoundType
<1>2. /\ r \in TimerType /\ r.shown = b /\ Steady(s.timers[t], r)
      /\ r.alive = s.timers[t].alive /\ r.disabled = s.timers[t].disabled
  BY <1>1, ShownType
<1>3. q \in RoundType /\ q.timers = [s.timers EXCEPT ![t] = r]
  <2> HIDE DEF r
  <2> QED BY <1>2, OneTimerType
<1>4. [s EXCEPT !.timers[t].shown = b] = q
  OBVIOUS
<1> HIDE DEF r
<1>5. \A u \in Timers : q.timers[u] = IF u = t THEN r ELSE s.timers[u]
  BY <1>3 DEF RoundType
<1> HIDE DEF q
<1>6. \A u \in Timers : Steady(s.timers[u], q.timers[u])
  BY <1>2, <1>5 DEF Steady
<1>7. IF b THEN Wanting(q) \subseteq {t} ELSE Wanting(q) \subseteq Wanting(s)
  BY <1>2, <1>5 DEF Wanting
<1>8. One(q)
  BY <1>7 DEF One
<1> QED BY <1>3, <1>4, <1>6, <1>8 DEF Reach

\* The map shows a timer, or no longer does.
LEMMA ShowInHUDReach ==
  ASSUME NEW s \in RoundType, One(s), NEW t \in Timers, NEW show \in BOOLEAN
  PROVE  Reach(s, InputShowInHUD(s, t, show))
<1> DEFINE active == IF show THEN SetActiveTimer(s, t)
                     ELSE IF s.timers[t].shown THEN SetActiveTimer(s, NoTimer) ELSE s
<1>1. Reach(s, s)
  BY SameTimers
<1>2. Reach(s, active) /\ (show => Wanting(active) \subseteq {t})
  BY <1>1, ActiveReach
<1>3. InputShowInHUD(s, t, show) = [active EXCEPT !.timers[t].shown = show]
  BY DEF InputShowInHUD
<1> HIDE DEF active
<1>4. Reach(active, [active EXCEPT !.timers[t].shown = show])
  BY <1>2, ShowReach DEF Reach
<1> QED BY <1>2, <1>3, <1>4, ReachReach

\* An input that enables or disables a timer gives the HUD to one.
LEMMA EnableReach ==
  ASSUME NEW s \in RoundType, One(s), NEW t \in Timers
  PROVE  Reach(s, InputEnable(s, t)) /\ Reach(s, InputDisable(s, t))
<1>1. s.timers[t] \in TimerType
  BY DEF RoundType
<1> DEFINE e  == ResumeTimer([s.timers[t] EXCEPT !.disabled = FALSE])
           d  == [PauseTimer(s.timers[t]) EXCEPT !.disabled = TRUE]
           on == [s EXCEPT !.timers[t] = e]
           off == [s EXCEPT !.timers[t] = d]
<1>2. /\ e \in TimerType /\ Steady(s.timers[t], e)
      /\ e.alive = s.timers[t].alive /\ e.shown = s.timers[t].shown
  <2> DEFINE r == [s.timers[t] EXCEPT !.disabled = FALSE]
  <2>1. /\ r \in TimerType /\ r.left = s.timers[t].left /\ r.max = s.timers[t].max
        /\ r.alive = s.timers[t].alive /\ r.shown = s.timers[t].shown
    BY <1>1, ZenonT(60) DEF TimerType
  <2> HIDE DEF r
  <2>2. Step(r, ResumeTimer(r))
    BY <2>1, PauseStep
  <2> QED BY <2>1, <2>2 DEF Step, SameFace, Steady, r
<1>3. /\ d \in TimerType /\ Steady(s.timers[t], d) /\ d.disabled
      /\ d.alive = s.timers[t].alive /\ d.shown = s.timers[t].shown
  <2> DEFINE r == PauseTimer(s.timers[t])
  <2>1. Step(s.timers[t], r)
    BY <1>1, PauseStep
  <2> HIDE DEF r
  <2>2. /\ d \in TimerType /\ d.left = r.left /\ d.max = r.max /\ d.disabled
        /\ d.alive = r.alive /\ d.shown = r.shown
    BY <2>1, ZenonT(60) DEF TimerType, Step, r
  <2> QED BY <2>1, <2>2 DEF Step, SameFace, Steady
<1> HIDE DEF e, d
<1>4. on \in RoundType /\ on.timers = [s.timers EXCEPT ![t] = e]
  BY <1>2, OneTimerType
<1>5. off \in RoundType /\ off.timers = [s.timers EXCEPT ![t] = d]
  BY <1>3, OneTimerType
<1>6. \A u \in Timers : /\ on.timers[u] = IF u = t THEN e ELSE s.timers[u]
                        /\ off.timers[u] = IF u = t THEN d ELSE s.timers[u]
  BY <1>4, <1>5 DEF RoundType
<1>7. /\ InputEnable(s, t) = IF s.timers[t].shown THEN SetActiveTimer(on, t) ELSE on
      /\ InputDisable(s, t) = IF s.timers[t].shown THEN SetActiveTimer(off, NoTimer) ELSE off
  BY DEF InputEnable, InputDisable, e, d
<1> HIDE DEF on, off
<1>8. \A u \in Timers : Steady(s.timers[u], on.timers[u]) /\ Steady(s.timers[u], off.timers[u])
  BY <1>2, <1>3, <1>6 DEF Steady
<1>9. Wanting(off) \subseteq Wanting(s) /\ (~s.timers[t].shown => Wanting(on) \subseteq Wanting(s))
  BY <1>2, <1>3, <1>6 DEF Wanting
<1>10. Reach(s, off) /\ (~s.timers[t].shown => Reach(s, on))
  BY <1>4, <1>5, <1>8, <1>9 DEF Reach, One
<1>11. Reach(s, InputDisable(s, t))
  BY <1>5, <1>7, <1>10, ActiveReach, ReachReach
<1>12. Reach(s, InputEnable(s, t))
  <2>1. CASE ~s.timers[t].shown
    BY <2>1, <1>7, <1>10
  <2>2. CASE s.timers[t].shown
    <3>1. Reach(on, SetActiveTimer(on, t))
      BY <1>4, ActiveReach
    <3> QED BY <2>2, <3>1, <1>7, <1>8 DEF Reach, Steady
  <2> QED BY <2>1, <2>2
<1> QED BY <1>11, <1>12

-----------------------------------------------------------------------------
(* Thinks                                                                  *)

\* A warning, the announcement of the end, and the wait for the next think.
LEMMA WarnStep ==
  ASSUME NEW r \in TimerType, NEW W
  PROVE  Step(r, Warn(r, W)) /\ Step(r, Announce(r)) /\ Step(r, [r EXCEPT !.due = 1])
<1>1. r.armed \in SUBSET (Warnings \cup {End})
  BY Members
<1>2. 1 \in 0..TicksPerSecond
  BY DueTypes
<1> DEFINE A == r.armed \ {LastOf({w \in W \cap r.armed : GetTimeRemaining(r) <= w})}
           B == r.armed \ {End}
<1>3. A \in SUBSET (Warnings \cup {End}) /\ B \in SUBSET (Warnings \cup {End})
  BY <1>1
<1>4. Warn(r, W) = [r EXCEPT !.armed = A, !.due = 1]
  BY DEF Warn
<1>5. Announce(r) = [r EXCEPT !.armed = B, !.owed = FALSE, !.due = 1]
  BY DEF Announce
<1> HIDE DEF A, B
<1>6. Step(r, [r EXCEPT !.armed = A, !.due = 1])
  BY <1>2, <1>3, OtherStep
<1>7. Step(r, [r EXCEPT !.armed = B, !.owed = FALSE, !.due = 1])
  BY <1>2, <1>3, OtherStep
<1>8. Step(r, [r EXCEPT !.due = 1])
  BY <1>2, OtherStep
<1> QED BY <1>4, <1>5, <1>6, <1>7, <1>8

\* A think changes one timer and the members that say whether it is setup or overtime.
LEMMA ThinkReach ==
  ASSUME NEW s \in RoundType, One(s), NEW t \in Timers, NEW r, Step(s.timers[t], r),
         NEW a \in BOOLEAN, NEW b \in BOOLEAN
  PROVE  /\ Reach(s, [s EXCEPT !.overtime = a, !.timers[t] = r])
         /\ Reach(s, [s EXCEPT !.timers[t] = r, !.overtime = a])
         /\ Reach(s, [s EXCEPT !.overtime = a, !.timers[t] = r, !.inSetup = b])
<1> DEFINE timers == [s.timers EXCEPT ![t] = r]
           p == [s EXCEPT !.timers = timers]
           q == [s EXCEPT !.timers = timers, !.overtime = a]
           w == [s EXCEPT !.timers = timers, !.overtime = a, !.inSetup = b]
<1>1. timers \in [Timers -> TimerType]
  BY DEF Step, RoundType
<1>2. Reach(s, p)
  <2>1. [s EXCEPT !.timers[t] = r] = p
    BY DEF RoundType
  <2> QED BY <2>1, OneTimerReach
<1>3. /\ [s EXCEPT !.overtime = a, !.timers[t] = r] = q
      /\ [s EXCEPT !.timers[t] = r, !.overtime = a] = q
      /\ [s EXCEPT !.overtime = a, !.timers[t] = r, !.inSetup = b] = w
  BY DEF RoundType
<1> HIDE DEF timers
<1>4. p.timers = timers /\ q \in RoundType /\ q.timers = timers /\ w \in RoundType /\ w.timers = timers
  BY <1>1, ZenonT(60) DEF RoundType
<1> HIDE DEF p, q, w
<1>5. Reach(p, q) /\ Reach(p, w)
  BY <1>2, <1>4, SameTimers DEF Reach
<1> QED BY <1>2, <1>3, <1>5, ReachReach

\* The think of a timer in setup.
LEMMA SetupThinkReach ==
  ASSUME NEW s \in RoundType, One(s), NEW t \in Timers
  PROVE  Reach(s, RoundTimerSetupThink(s, t))
<1> DEFINE r     == s.timers[t]
           full  == SetTimeRemaining(Announce(r), r.after)
           over  == [full EXCEPT !.state = "normal"]
           next  == IF \E w \in SetupWarnings \cap r.armed : GetTimeRemaining(r) <= w
                    THEN Warn(r, SetupWarnings) ELSE [r EXCEPT !.due = 1]
<1>1. r \in TimerType /\ r.after \in Nat
  BY Members DEF RoundType
<1>2. Step(r, Announce(r)) /\ Step(r, next) /\ Step(r, [r EXCEPT !.due = 1])
  BY <1>1, WarnStep
<1>3. Step(r, full)
  BY <1>1, <1>2, SetTimeStep, StepStep DEF Step
<1> HIDE DEF full
<1>4. Step(full, over)
  BY <1>3, ZenonT(60) DEF Step, TimerType, SameFace, Steady
<1>5. Step(r, over)
  BY <1>3, <1>4, StepStep
<1>6. \/ RoundTimerSetupThink(s, t) = [s EXCEPT !.timers[t].due = 1]
      \/ RoundTimerSetupThink(s, t) = [s EXCEPT !.overtime = FALSE, !.timers[t] = over,
                                                !.inSetup = FALSE]
      \/ RoundTimerSetupThink(s, t) = [s EXCEPT !.overtime = FALSE, !.timers[t] = next]
  BY ZenonT(60) DEF RoundTimerSetupThink, full
<1>7. [s EXCEPT !.timers[t].due = 1] = [s EXCEPT !.timers[t] = [r EXCEPT !.due = 1]]
  OBVIOUS
<1> DEFINE later == [r EXCEPT !.due = 1]
<1>8. Step(r, later)
  BY <1>2
<1> HIDE DEF over, next, later
<1>9. Reach(s, [s EXCEPT !.timers[t] = later])
  BY <1>8, OneTimerReach
<1>10. Reach(s, [s EXCEPT !.overtime = FALSE, !.timers[t] = over, !.inSetup = FALSE])
  BY <1>5, ThinkReach
<1>11. Reach(s, [s EXCEPT !.overtime = FALSE, !.timers[t] = next])
  BY <1>2, ThinkReach
<1> QED BY <1>6, <1>7, <1>9, <1>10, <1>11 DEF later

\* The think of a timer that is not in setup.
LEMMA RoundThinkReach ==
  ASSUME NEW s0 \in RoundType, One(s0), NEW t \in Timers
  PROVE  Reach(s0, RoundTimerThink(s0, t))
<1> DEFINE r0 == s0.timers[t]
           r  == [r0 EXCEPT !.winPaused = FALSE]
           on == s0.overtime /\ ~(GetTimeRemaining(r) > 0 /\ r.shown)
           s  == [s0 EXCEPT !.overtime = on, !.timers[t] = r]
           x  == s.timers[t]
           won == [PauseTimer(r0) EXCEPT !.winPaused = TRUE, !.due = 1]
           more == [x EXCEPT !.left = 0, !.due = TicksPerSecond]
           extra == s.overtime \/ s.timers[t].shown
           later == [x EXCEPT !.due = 1]
<1>1. r0 \in TimerType /\ s0.overtime \in BOOLEAN
  BY DEF RoundType
<1>2. Step(r0, r) /\ Step(r0, [r0 EXCEPT !.due = 1])
  <2>1. Step(r0, [r0 EXCEPT !.due = 1])
    BY <1>1, WarnStep
  <2>2. r0.armed \in SUBSET (Warnings \cup {End}) /\ r0.due \in 0..TicksPerSecond
    BY <1>1, Members
  <2>3. Step(r0, [r0 EXCEPT !.winPaused = FALSE])
    BY <1>1, <2>2, OtherStep
  <2> QED BY <2>1, <2>3
<1>3. on \in BOOLEAN
  BY <1>1, ZenonT(30)
<1>4. Reach(s0, s)
  <2> HIDE DEF on, r
  <2> QED BY <1>2, <1>3, ThinkReach
<1>5. \/ RoundTimerThink(s0, t) = [s0 EXCEPT !.timers[t].due = 1]
      \/ RoundTimerThink(s0, t) = [s0 EXCEPT !.timers[t] = won]
      \/ RoundTimerThink(s0, t) = Overtime(s, t)
      \/ RoundTimerThink(s0, t) = [s EXCEPT !.timers[t] = Announce(x)]
      \/ RoundTimerThink(s0, t) = [s EXCEPT !.timers[t] = Warn(x, Warnings)]
      \/ RoundTimerThink(s0, t) = [s EXCEPT !.timers[t].due = 1]
  <2>1. RoundTimerThink(s0, t)
          = IF r.disabled \/ r.paused THEN [s0 EXCEPT !.timers[t].due = 1]
            ELSE IF s0.phase = "won" THEN [s0 EXCEPT !.timers[t] = won]
            ELSE IF Out(r) THEN IF s.contested THEN Overtime(s, t)
                                ELSE [s EXCEPT !.timers[t] = Announce(x)]
            ELSE IF \E w \in Warnings \cap r.armed : GetTimeRemaining(r) <= w
                 THEN [s EXCEPT !.timers[t] = Warn(x, Warnings)]
            ELSE [s EXCEPT !.timers[t].due = 1]
    BY Zenon DEF RoundTimerThink
  <2> HIDE DEF r, s, won
  <2> QED BY <2>1, Zenon
<1>6. Overtime(s, t) = [s EXCEPT !.timers[t] = more, !.overtime = extra]
  BY DEF Overtime
<1> HIDE DEF s
<1>7. s \in RoundType /\ One(s) /\ x \in TimerType /\ extra \in BOOLEAN
  <2>1. s \in RoundType /\ One(s)
    BY <1>4 DEF Reach
  <2>2. x \in TimerType /\ s.overtime \in BOOLEAN
    BY <2>1 DEF RoundType
  <2> QED BY <2>1, <2>2, Members, ZenonT(30)
<1>8. Step(x, Announce(x)) /\ Step(x, Warn(x, Warnings)) /\ Step(x, later)
  BY <1>7, WarnStep
<1>9. Step(r0, won)
  <2> DEFINE paused == PauseTimer(r0)
  <2>1. Step(r0, paused)
    BY <1>1, PauseStep
  <2> HIDE DEF paused
  <2>2. paused \in TimerType /\ paused.armed \in SUBSET (Warnings \cup {End})
        /\ 1 \in 0..TicksPerSecond
    BY <2>1, DueTypes, Members DEF Step
  <2>3. Step(paused, [paused EXCEPT !.winPaused = TRUE, !.due = 1])
    BY <2>2, OtherStep
  <2> QED BY <2>1, <2>3, StepStep DEF paused
<1>10. Step(x, more)
  <2>1. TicksPerSecond \in 0..TicksPerSecond /\ 0 \in Int
    BY DueTypes
  <2>2. more \in TimerType /\ SameFace(x, more) /\ more.left = 0 /\ more.max = x.max
    BY <1>7, <2>1, ZenonT(60) DEF TimerType, SameFace
  <2> HIDE DEF more, x
  <2>3. more.max \in Int
    BY <2>2, Members
  <2> QED BY <2>2, <2>3 DEF Step, Steady
<1>11. Reach(s0, [s0 EXCEPT !.timers[t] = won]) /\ Reach(s, [s EXCEPT !.timers[t] = later])
       /\ Reach(s, [s EXCEPT !.timers[t] = Announce(x)])
       /\ Reach(s, [s EXCEPT !.timers[t] = Warn(x, Warnings)])
  <2> HIDE DEF won, later
  <2> QED BY <1>7, <1>8, <1>9, OneTimerReach
<1>12. Reach(s, [s EXCEPT !.timers[t] = more, !.overtime = extra])
  <2> HIDE DEF more, extra
  <2> QED BY <1>7, <1>10, ThinkReach
<1>13. [s EXCEPT !.timers[t].due = 1] = [s EXCEPT !.timers[t] = later]
  OBVIOUS
<1>14. Reach(s0, [s0 EXCEPT !.timers[t].due = 1])
  <2> DEFINE y == [r0 EXCEPT !.due = 1]
  <2>1. [s0 EXCEPT !.timers[t].due = 1] = [s0 EXCEPT !.timers[t] = y]
    OBVIOUS
  <2>2. Step(r0, y)
    BY <1>2
  <2> HIDE DEF y
  <2> QED BY <2>1, <2>2, OneTimerReach
<1> QED BY <1>4, <1>5, <1>6, <1>11, <1>12, <1>13, <1>14, ReachReach

-----------------------------------------------------------------------------
(* Rounds                                                                  *)

\* The settings of the map are numbers.
LEMMA Settings ==
  ASSUME NEW t \in MapTimers
  PROVE  Setup[t] \in Nat /\ Initial[t] \in Nat /\ MaxLength[t] \in Nat
BY ConstantsAssumption

\* A timer is put into setup or out of it.
LEMMA StateStep ==
  ASSUME NEW r \in TimerType, NEW state \in {"setup", "normal"}
  PROVE  Step(r, [r EXCEPT !.state = state])
BY ZenonT(60) DEF TimerType, Step, SameFace, Steady

\* A timer starts a round.
LEMMA StartedStep ==
  ASSUME NEW s \in RoundType, NEW t \in Timers, NEW after \in Nat
  PROVE  Step(s.timers[t], Started(s, t, after))
<1> DEFINE r0 == s.timers[t]
           r  == [r0 EXCEPT !.after = after, !.due = 1]
           setup  == SetTimeRemaining(r, Setup[t])
           normal == SetTimeRemaining(r, after)
           loaded == IF t \in MapTimers /\ Setup[t] > 0
                     THEN [setup EXCEPT !.state = "setup"] ELSE [normal EXCEPT !.state = "normal"]
<1>1. r0 \in TimerType
  BY DEF RoundType
<1>2. Step(r0, r)
  <2>1. 1 \in 0..TicksPerSecond
    BY DueTypes
  <2> QED BY <1>1, <2>1, ZenonT(60) DEF TimerType, Step, SameFace, Steady
<1> HIDE DEF r
<1>3. Step(r, normal) /\ (t \in MapTimers => Step(r, setup))
  BY <1>2, SetTimeStep, Settings DEF Step
<1>4. Started(s, t, after)
        = IF t \in MapTimers \ StartPaused /\ ~s.waiting THEN ResumeTimer(loaded) ELSE loaded
  BY DEF Started, r
<1> HIDE DEF setup, normal
<1>5. Step(normal, [normal EXCEPT !.state = "normal"])
  BY <1>3, StateStep DEF Step
<1>6. t \in MapTimers => Step(setup, [setup EXCEPT !.state = "setup"])
  BY <1>3, StateStep DEF Step
<1>7. Step(r, loaded)
  BY <1>3, <1>5, <1>6, StepStep
<1> HIDE DEF loaded
<1>8. Step(r0, loaded)
  BY <1>2, <1>7, StepStep
<1>9. Step(loaded, ResumeTimer(loaded))
  BY <1>8, PauseStep DEF Step
<1> QED BY <1>4, <1>8, <1>9, StepStep

\* What is left of the last round, or what the map sets, is a time.
LEMMA SpawnedStep ==
  ASSUME NEW s \in RoundType, NEW t \in Timers
  PROVE  Step(s.timers[t], RoundSpawned(s, t))
<1> DEFINE rest  == Seconds(GetTimeRemaining(s.timers[t]))
           after == IF Keeps(s.timers[t], t) THEN rest
                    ELSE IF t \in MapTimers THEN Initial[t] ELSE 0
<1>1. s.timers[t] \in TimerType
  BY DEF RoundType
<1>2. rest \in Nat
  <2>1. GetTimeRemaining(s.timers[t]) \in Nat
    BY <1>1, Remaining
  <2> QED BY <2>1, SecondsBelow
<1> HIDE DEF rest
<1>3. after \in Nat
  BY <1>2, Settings
<1>4. RoundSpawned(s, t) = Started(s, t, after)
  BY DEF RoundSpawned, rest
<1> HIDE DEF after
<1> QED BY <1>3, <1>4, StartedStep

\* Every timer that is there gets RoundSpawn.
LEMMA RoundSpawnReach ==
  ASSUME NEW s \in RoundType, One(s)
  PROVE  Reach(s, RoundSpawn(s))
<1> DEFINE live  == {t \in Timers : s.timers[t].alive}
           R(t)  == IF t \in live THEN RoundSpawned(s, t) ELSE s.timers[t]
           after == [t \in Timers |-> R(t)]
           setup == after[LastOf(live)].state = "setup"
           q     == [s EXCEPT !.timers = after, !.phase = "playing", !.inSetup = setup]
<1>1. \A t \in Timers : Step(s.timers[t], R(t))
  <2>1. \A t \in Timers : Step(s.timers[t], s.timers[t])
    BY DEF RoundType, Step, SameFace, Steady
  <2> QED BY <2>1, SpawnedStep
<1>2. RoundSpawn(s) = q
  BY DEF RoundSpawn
<1>3. after \in [Timers -> TimerType] /\ \A t \in Timers : after[t] = R(t)
  BY <1>1 DEF Step
<1>4. setup \in BOOLEAN
  OBVIOUS
<1> HIDE DEF R, after, setup
<1>5. q \in RoundType /\ q.timers = after
  BY <1>3, <1>4, ZenonT(60) DEF RoundType
<1> HIDE DEF q
<1>6. \A t \in Timers : Step(s.timers[t], q.timers[t])
  BY <1>1, <1>3, <1>5
<1> QED BY <1>2, <1>5, <1>6, TimersReach

\* A timer that is made is within its maximum.
LEMMA SpawnedType ==
  ASSUME NEW t \in MapTimers
  PROVE  /\ Spawned(t) \in TimerType /\ Spawned(t).disabled = (t \in StartDisabled)
         /\ Spawned(t).max > 0 => Spawned(t).left <= Spawned(t).max
<1> DEFINE time == IF Setup[t] > 0 THEN Setup[t] ELSE Initial[t]
           state == IF Setup[t] > 0 THEN "setup" ELSE "normal"
           shown == t \in StartShown
           off  == t \in StartDisabled
           r    == [alive |-> TRUE, disabled |-> FALSE, shown |-> shown, paused |-> TRUE,
                    winPaused |-> FALSE, state |-> state, left |-> 0, max |-> MaxLength[t],
                    after |-> Initial[t], armed |-> {}, due |-> 1, owed |-> FALSE]
           q    == SetTimeRemaining(r, time)
<1>1. /\ time \in Nat /\ state \in {"setup", "normal"} /\ shown \in BOOLEAN /\ off \in BOOLEAN
      /\ 0 \in Int /\ MaxLength[t] \in Int /\ Initial[t] \in Nat /\ 1 \in 0..TicksPerSecond
  BY Settings, DueTypes
<1>2. Spawned(t) = [q EXCEPT !.disabled = off]
  BY DEF Spawned
<1> HIDE DEF time, state, shown, off
<1>3. r \in TimerType /\ r.left = 0 /\ r.max \in Int
  BY <1>1, ZenonT(60) DEF TimerType
<1> HIDE DEF r
<1>4. Step(r, q)
  BY <1>1, <1>3, SetTimeStep
<1> HIDE DEF q
<1>5. q.max > 0 => q.left <= q.max
  <2>1. q.max \in Int
    BY <1>4, Members DEF Step
  <2> QED BY <1>3, <1>4, <2>1 DEF Step, Steady
<1>6. /\ Spawned(t) \in TimerType /\ Spawned(t).disabled = off
      /\ Spawned(t).left = q.left /\ Spawned(t).max = q.max
  BY <1>1, <1>2, <1>4, ZenonT(60) DEF TimerType, Step
<1> QED BY <1>5, <1>6 DEF off

\* The timer of the rules as it is made.
LEMMA TempType ==
  /\ SpawnedTemp \in TimerType
  /\ SpawnedTemp.max > 0 => SpawnedTemp.left <= SpawnedTemp.max
<1> DEFINE r == [alive |-> TRUE, disabled |-> FALSE, shown |-> TRUE, paused |-> FALSE,
                 winPaused |-> FALSE, state |-> "normal", left |-> 0, max |-> 0, after |-> 0,
                 armed |-> {}, due |-> 1, owed |-> FALSE]
<1>1. 0 \in Int /\ 0 \in Nat /\ 1 \in 0..TicksPerSecond /\ TempTime \in Int
  BY DueTypes, ConstantsAssumption
<1>2. r \in TimerType /\ r.left = 0 /\ r.max = 0
  BY <1>1, ZenonT(60) DEF TimerType
<1>3. SpawnedTemp = SetTimeRemaining(r, TempTime)
  BY DEF SpawnedTemp
<1> HIDE DEF r
<1>4. Step(r, SpawnedTemp)
  BY <1>1, <1>2, <1>3, SetTimeStep
<1>5. SpawnedTemp.max \in Int
  BY <1>4, Members DEF Step
<1> QED BY <1>2, <1>4, <1>5 DEF Step, Steady

\* The timers that the map starts with: the one that is enabled and shown is the first,
\* or there is none.
LEMMA PrevailingOne ==
  /\ Prevailing \in SUBSET Timers
  /\ \A t, u \in Prevailing \ StartDisabled : t = u
<1>1. StartShown \in SUBSET Timers
  BY ConstantsAssumption, NoTimerIsNone
<1> QED BY <1>1 DEF Prevailing

\* The map is made again.
LEMMA MapSpawnedReach ==
  ASSUME NEW s \in RoundType
  PROVE  Reach(s, MapSpawned(s))
<1> DEFINE R(t)   == IF t \in MapTimers THEN [Spawned(t) EXCEPT !.shown = t \in Prevailing]
                     ELSE [s.timers[t] EXCEPT !.alive = FALSE, !.shown = FALSE]
           timers == [t \in Timers |-> R(t)]
           hud    == LastOf(Prevailing)
           setup  == Setup[LastOf(MapTimers)] > 0
           q      == [s EXCEPT !.timers = timers, !.hud = hud, !.hidden = NoTimer,
                               !.inSetup = setup]
<1>1. \A t \in Timers :
        /\ R(t) \in TimerType /\ Steady(s.timers[t], R(t))
        /\ R(t).alive /\ ~R(t).disabled /\ R(t).shown => t \in Prevailing \ StartDisabled
  <2> SUFFICES ASSUME NEW t \in Timers
               PROVE  /\ R(t) \in TimerType /\ Steady(s.timers[t], R(t))
                      /\ R(t).alive /\ ~R(t).disabled /\ R(t).shown =>
                           t \in Prevailing \ StartDisabled
    OBVIOUS
  <2>1. CASE t \in MapTimers
    <3> DEFINE b == t \in Prevailing
               r == [Spawned(t) EXCEPT !.shown = b]
    <3>1. b \in BOOLEAN
      OBVIOUS
    <3>2. Spawned(t) \in TimerType /\ Spawned(t).disabled = (t \in StartDisabled)
      BY <2>1, SpawnedType
    <3> HIDE DEF b
    <3>3. /\ r \in TimerType /\ r.shown = b /\ r.disabled = Spawned(t).disabled
          /\ r.left = Spawned(t).left /\ r.max = Spawned(t).max
      BY <3>1, <3>2, ZenonT(60) DEF TimerType
    <3> HIDE DEF r
    <3>4. Steady(s.timers[t], r)
      BY <2>1, <3>3, SpawnedType DEF Steady
    <3>5. R(t) = r
      BY <2>1 DEF r, b
    <3>6. ~r.disabled /\ r.shown => t \in Prevailing \ StartDisabled
      BY <3>2, <3>3 DEF b
    <3> HIDE DEF R
    <3> QED BY <3>3, <3>4, <3>5, <3>6
  <2>2. CASE t \notin MapTimers
    <3> DEFINE r == [s.timers[t] EXCEPT !.alive = FALSE, !.shown = FALSE]
    <3>1. s.timers[t] \in TimerType
      BY DEF RoundType
    <3>2. /\ r \in TimerType /\ r.alive = FALSE
          /\ r.left = s.timers[t].left /\ r.max = s.timers[t].max
      BY <3>1, ZenonT(60) DEF TimerType
    <3>3. R(t) = r
      BY <2>2
    <3> HIDE DEF R, r
    <3> QED BY <3>2, <3>3 DEF Steady
  <2> QED BY <2>1, <2>2
<1>2. MapSpawned(s) = q
  BY DEF MapSpawned
<1>3. timers \in [Timers -> TimerType] /\ \A t \in Timers : timers[t] = R(t)
  BY <1>1
<1>4. hud \in Timers \cup {NoTimer} /\ setup \in BOOLEAN
  BY PrevailingOne, LastTimer
<1> HIDE DEF R, timers, hud, setup
<1>5. q \in RoundType /\ q.timers = timers
  BY <1>3, <1>4, ZenonT(60) DEF RoundType
<1> HIDE DEF q
<1>6. Wanting(q) \subseteq Prevailing \ StartDisabled
  BY <1>1, <1>3, <1>5 DEF Wanting
<1>7. One(q)
  BY <1>6, PrevailingOne DEF One
<1> QED BY <1>1, <1>2, <1>3, <1>5, <1>7 DEF Reach

\* A round starts.
LEMMA RoundRespawnReach ==
  ASSUME NEW s \in RoundType, One(s), NEW clean \in BOOLEAN
  PROVE  Reach(s, RoundRespawn(s, clean))
<1> DEFINE m == IF clean THEN MapSpawned(s) ELSE s
<1>1. Reach(s, m)
  BY MapSpawnedReach, SameTimers
<1>2. RoundRespawn(s, clean) = RoundSpawn(m)
  BY DEF RoundRespawn
<1> HIDE DEF m
<1>3. Reach(m, RoundSpawn(m))
  BY <1>1, RoundSpawnReach DEF Reach
<1> QED BY <1>1, <1>2, <1>3, ReachReach

\* All timers are hidden.
LEMMA HideReach ==
  ASSUME NEW s \in RoundType
  PROVE  Reach(s, HideActiveTimer(s))
<1> DEFINE shown  == {t \in Timers : s.timers[t].alive /\ s.timers[t].shown}
           b(t)   == s.timers[t].shown /\ t \notin shown
           R(t)   == [s.timers[t] EXCEPT !.shown = b(t)]
           timers == [t \in Timers |-> R(t)]
           hidden == LastOf(shown \ {Temp})
           q      == [s EXCEPT !.hidden = hidden, !.timers = timers]
<1>1. \A t \in Timers :
        /\ R(t) \in TimerType /\ Steady(s.timers[t], R(t)) /\ ~(R(t).alive /\ R(t).shown)
  <2> SUFFICES ASSUME NEW t \in Timers
               PROVE  /\ R(t) \in TimerType /\ Steady(s.timers[t], R(t))
                      /\ ~(R(t).alive /\ R(t).shown)
    OBVIOUS
  <2>1. s.timers[t] \in TimerType
    BY DEF RoundType
  <2>2. b(t) \in BOOLEAN
    BY <2>1, Members, ZenonT(30)
  <2>3. ~(s.timers[t].alive /\ b(t))
    OBVIOUS
  <2> HIDE DEF b
  <2> QED BY <2>1, <2>2, <2>3, ShownType
<1>2. HideActiveTimer(s) = q
  BY DEF HideActiveTimer
<1>3. timers \in [Timers -> TimerType] /\ \A t \in Timers : timers[t] = R(t)
  <2> HIDE DEF R
  <2> QED BY <1>1
<1>4. hidden \in MapTimers \cup {NoTimer}
  <2>1. shown \ {Temp} \in SUBSET Timers /\ shown \ {Temp} \subseteq MapTimers
    BY DEF Timers
  <2> HIDE DEF shown
  <2> QED BY <2>1, LastTimer
<1> HIDE DEF R, timers, hidden
<1>5. q \in RoundType /\ q.timers = timers
  BY <1>3, <1>4, ZenonT(60) DEF RoundType
<1> HIDE DEF q
<1>6. Wanting(q) = {}
  BY <1>1, <1>3, <1>5 DEF Wanting
<1>7. One(q)
  BY <1>6 DEF One
<1> QED BY <1>1, <1>2, <1>3, <1>5, <1>7 DEF Reach

\* The timer of the rules goes and the hidden one comes back.
LEMMA RestoreReach ==
  ASSUME NEW s \in RoundType, One(s)
  PROVE  Reach(s, RestoreActiveTimer(s))
<1> DEFINE r0   == s.timers[Temp]
           r    == [r0 EXCEPT !.alive = FALSE, !.shown = FALSE]
           gone == [s EXCEPT !.timers[Temp] = r]
           show == InputShowInHUD(gone, s.hidden, TRUE)
<1>1. r0 \in TimerType /\ Temp \in Timers
  BY NoTimerIsNone DEF RoundType
<1>2. r \in TimerType /\ r.alive = FALSE /\ r.left = r0.left /\ r.max = r0.max
  BY <1>1, ZenonT(60) DEF TimerType
<1> DEFINE g == [s EXCEPT !.timers[Temp].alive = FALSE, !.timers[Temp].shown = FALSE]
<1>3. g = gone
  BY <1>1 DEF RoundType
<1>4. RestoreActiveTimer(s) = IF s.hidden = NoTimer THEN gone
                              ELSE [show EXCEPT !.hidden = NoTimer]
  <2>1. RestoreActiveTimer(s)
          = IF s.hidden = NoTimer THEN g
            ELSE [InputShowInHUD(g, s.hidden, TRUE) EXCEPT !.hidden = NoTimer]
    BY Zenon DEF RestoreActiveTimer
  <2> HIDE DEF g, gone
  <2> QED BY <2>1, <1>3, Zenon
<1> HIDE DEF r
<1>5. gone \in RoundType /\ gone.timers = [s.timers EXCEPT ![Temp] = r]
  BY <1>1, <1>2, OneTimerType
<1> HIDE DEF gone
<1>6. \A t \in Timers : gone.timers[t] = IF t = Temp THEN r ELSE s.timers[t]
  BY <1>5 DEF RoundType
<1>7. \A t \in Timers : Steady(s.timers[t], gone.timers[t])
  BY <1>2, <1>6 DEF Steady
<1>8. Wanting(gone) \subseteq Wanting(s)
  BY <1>2, <1>6 DEF Wanting
<1>9. Reach(s, gone)
  BY <1>5, <1>7, <1>8 DEF Reach, One
<1>10. CASE s.hidden = NoTimer
  BY <1>4, <1>9, <1>10
<1>11. CASE s.hidden # NoTimer
  <2>1. s.hidden \in Timers
    BY <1>11, NoTimerIsNone DEF RoundType
  <2>2. Reach(gone, show)
    BY <2>1, <1>9, ShowInHUDReach DEF Reach
  <2> HIDE DEF show
  <2>3. show \in RoundType /\ One(show)
    BY <2>2 DEF Reach
  <2>4. [show EXCEPT !.hidden = NoTimer] \in RoundType
        /\ [show EXCEPT !.hidden = NoTimer].timers = show.timers
    BY <2>3, ZenonT(60) DEF RoundType
  <2>5. Reach(show, [show EXCEPT !.hidden = NoTimer])
    BY <2>3, <2>4, SameTimers
  <2> QED BY <1>4, <1>9, <1>11, <2>2, <2>5, ReachReach
<1> QED BY <1>10, <1>11

\* A timer of the rules' own comes up.
LEMMA BringUpReach ==
  ASSUME NEW s \in RoundType
  PROVE  Reach(s, BringUpTimer(s))
<1> DEFINE h == HideActiveTimer(s)
           timers == [h.timers EXCEPT ![Temp] = SpawnedTemp]
           q == [h EXCEPT !.timers = timers, !.inSetup = FALSE]
<1>1. Reach(s, h)
  BY HideReach
<1> HIDE DEF h
<1>2. h \in RoundType /\ Temp \in Timers
  BY <1>1, NoTimerIsNone DEF Reach
<1>3. [h EXCEPT !.timers[Temp] = SpawnedTemp, !.inSetup = FALSE] = q
  BY <1>2 DEF RoundType
<1>4. timers \in [Timers -> TimerType]
      /\ \A t \in Timers : timers[t] = IF t = Temp THEN SpawnedTemp ELSE h.timers[t]
  BY <1>2, TempType DEF RoundType
<1>5. BringUpTimer(s) = SetActiveTimer(q, Temp)
  BY <1>3 DEF BringUpTimer, h
<1> HIDE DEF timers
<1>6. q \in RoundType /\ q.timers = timers
  BY <1>2, <1>4, ZenonT(60) DEF RoundType
<1> HIDE DEF q
<1>7. \A t \in Timers : Steady(h.timers[t], q.timers[t])
  BY <1>4, <1>6, TempType DEF Steady
<1>8. Reach(q, SetActiveTimer(q, Temp))
  BY <1>2, <1>6, ActiveReach
<1>9. \A t \in Timers : Steady(s.timers[t], q.timers[t])
  BY <1>1, <1>7 DEF Reach, Steady
<1> QED BY <1>5, <1>8, <1>9 DEF Reach, Steady

\* The wait for players ends.
LEMMA EndWaitingReach ==
  ASSUME NEW s \in RoundType, One(s)
  PROVE  Reach(s, EndWaiting(s))
<1> DEFINE q == [s EXCEPT !.waiting = FALSE]
<1>1. q \in RoundType /\ q.timers = s.timers
  BY ZenonT(60) DEF RoundType
<1>2. EndWaiting(s) = IF s.waiting THEN RestoreActiveTimer(q) ELSE s
  BY DEF EndWaiting
<1> HIDE DEF q
<1>3. Reach(s, q) /\ Reach(s, s)
  BY <1>1, SameTimers
<1>4. Reach(q, RestoreActiveTimer(q))
  BY <1>3, RestoreReach DEF Reach
<1> QED BY <1>2, <1>3, <1>4, ReachReach

-----------------------------------------------------------------------------
(* The actions                                                             *)

\* What a step of the system keeps and does.
Good == TypeOK /\ One(round)
GoodStep == Good' /\ \A t \in Timers : Capped(round.timers[t], round'.timers[t])

\* A step to what the round may reach is a good one.
LEMMA ReachGood ==
  ASSUME Good, Reach(round, round'), events' \in 0..MaxEvents
  PROVE  GoodStep
<1>1. \A t \in Timers :
        round.timers[t].left \in Int /\ round'.timers[t].left \in Int
  <2>1. \A t \in Timers : round.timers[t] \in TimerType /\ round'.timers[t] \in TimerType
    BY DEF Good, TypeOK, Reach, RoundType
  <2> QED BY <2>1, Members
<1>2. \A t \in Timers : Capped(round.timers[t], round'.timers[t])
  BY <1>1 DEF Reach, Steady, Capped
<1> QED BY <1>2 DEF GoodStep, Good, TypeOK, Reach

\* An event is counted, and what is silent is not.
LEMMA EventGood ==
  ASSUME Good, NEW s, Reach(round, s), Event(s) \/ Silent(s)
  PROVE  GoodStep
<1>1. events' \in 0..MaxEvents
  BY ConstantsAssumption DEF Good, TypeOK, Event, Silent
<1>2. round' = s
  BY DEF Event, Silent
<1> QED BY <1>1, <1>2, ReachGood

\* An input changes one timer, which keeps its face and its maximum.
LEMMA InputGood ==
  ASSUME Good, NEW t \in Timers, NEW r \in TimerType, SameFace(round.timers[t], r),
         Capped(round.timers[t], r), Input(t, r)
  PROVE  GoodStep
<1> DEFINE q == [round EXCEPT !.timers[t] = r]
<1>1. events' \in 0..MaxEvents /\ round' = q
  BY ConstantsAssumption DEF Good, TypeOK, Input, Event
<1>2. round \in RoundType /\ One(round)
  BY DEF Good, TypeOK
<1>3. q \in RoundType /\ q.timers = [round.timers EXCEPT ![t] = r]
  BY <1>2, OneTimerType
<1>4. \A u \in Timers : q.timers[u] = IF u = t THEN r ELSE round.timers[u]
  BY <1>2, <1>3 DEF RoundType
<1> HIDE DEF q
<1>5. Wanting(q) = Wanting(round)
  BY <1>4 DEF Wanting, SameFace
<1>6. \A u \in Timers : Capped(round.timers[u], q.timers[u])
  <2>1. \A u \in Timers : round.timers[u].left \in Int
    BY <1>2, Members DEF RoundType
  <2> QED BY <1>4, <2>1 DEF Capped
<1> QED BY <1>1, <1>2, <1>3, <1>5, <1>6 DEF GoodStep, Good, TypeOK, One

\* Time passes.
LEMMA TickGood ==
  ASSUME Good, Tick
  PROVE  GoodStep
<1> DEFINE R(t)   == IF Alive(t) THEN Ticked(round.timers[t]) ELSE round.timers[t]
           timers == [t \in Timers |-> R(t)]
<1>1. round \in RoundType /\ One(round) /\ events' \in 0..MaxEvents
  BY DEF Good, TypeOK, Tick
<1>2. \A t \in Timers : /\ R(t) \in TimerType /\ SameFace(round.timers[t], R(t))
                        /\ Capped(round.timers[t], R(t))
  <2> SUFFICES ASSUME NEW t \in Timers
               PROVE  /\ R(t) \in TimerType /\ SameFace(round.timers[t], R(t))
                      /\ Capped(round.timers[t], R(t))
    OBVIOUS
  <2>1. round.timers[t] \in TimerType /\ round.timers[t].left \in Int
    BY <1>1, Members DEF RoundType
  <2>2. SameFace(round.timers[t], round.timers[t]) /\ Capped(round.timers[t], round.timers[t])
    BY <2>1 DEF SameFace, Capped
  <2> QED BY <2>1, <2>2, TickedStep
<1>3. round' = [round EXCEPT !.timers = timers]
  BY DEF Tick
<1>4. timers \in [Timers -> TimerType] /\ \A t \in Timers : timers[t] = R(t)
  BY <1>2
<1> HIDE DEF R, timers
<1>5. round' \in RoundType /\ round'.timers = timers
  BY <1>1, <1>3, <1>4, ZenonT(60) DEF RoundType
<1>6. Wanting(round') = Wanting(round)
  BY <1>2, <1>4, <1>5 DEF Wanting, SameFace
<1> QED BY <1>1, <1>2, <1>4, <1>5, <1>6 DEF GoodStep, Good, TypeOK, One

\* The inputs to the clock of a timer.
LEMMA ClockInputGood ==
  ASSUME Good, NEW t \in Scripted, ClockInput(t)
  PROVE  GoodStep
<1> DEFINE r == round.timers[t]
           b == round.phase = "stalemate"
<1>1. t \in MapTimers /\ t \in Timers /\ r \in TimerType /\ Initial[t] \in Nat
  BY ConstantsAssumption, NoTimerIsNone, Settings DEF Good, TypeOK, RoundType
<1>2. ASSUME NEW q, Step(r, q), Input(t, q) PROVE GoodStep
  <2>1. q \in TimerType /\ SameFace(r, q) /\ Capped(r, q)
    BY <1>1, <1>2, StepCapped DEF Step
  <2> QED BY <1>1, <1>2, <2>1, InputGood
<1>3. ASSUME NEW q \in TimerType, SameFace(r, q), Capped(r, q), Input(t, q) PROVE GoodStep
  BY <1>1, <1>3, InputGood
<1>4. CASE Pause(t) \/ Resume(t)
  BY <1>1, <1>2, <1>4, PauseStep DEF Pause, Resume
<1>5. CASE Restart(t)
  BY <1>1, <1>2, <1>5, SetTimeStep DEF Restart
<1>6. ASSUME NEW n \in Times, SetTime(t, n) \/ SetMaxTime(t, n) \/ AddTime(t, n)
      PROVE  GoodStep
  <2>1. n \in Int /\ b \in BOOLEAN
    BY ConstantsAssumption
  <2>2. CASE SetTime(t, n)
    BY <1>1, <1>2, <2>1, <2>2, SetTimeStep DEF SetTime
  <2>3. CASE SetMaxTime(t, n)
    BY <1>1, <1>3, <2>1, <2>3, SetMaxStep DEF SetMaxTime
  <2>4. CASE AddTime(t, n)
    BY <1>1, <1>3, <2>1, <2>4, AddTimeStep DEF AddTime
  <2> QED BY <1>6, <2>2, <2>3, <2>4
<1> QED BY <1>4, <1>5, <1>6 DEF ClockInput

\* The wait for players begins, or begins again.
LEMMA WaitGood ==
  ASSUME Good, WaitForPlayers
  PROVE  GoodStep
<1> DEFINE q == [round EXCEPT !.waiting = TRUE]
           r == SetTimeRemaining(round.timers[Temp], TempTime)
           w == [round EXCEPT !.timers[Temp] = r]
<1>1. round \in RoundType /\ One(round) /\ Temp \in Timers /\ TempTime \in Nat
  BY NoTimerIsNone, ConstantsAssumption DEF Good, TypeOK
<1>2. Reach(round, q)
  <2>1. q \in RoundType /\ q.timers = round.timers
    BY <1>1, ZenonT(60) DEF RoundType
  <2> HIDE DEF q
  <2> QED BY <1>1, <2>1, SameTimers
<1>3. Reach(round, w)
  <2>1. Step(round.timers[Temp], r)
    BY <1>1, SetTimeStep DEF RoundType
  <2> HIDE DEF r
  <2> QED BY <1>1, <2>1, OneTimerReach
<1>4. Event(w) \/ Event(q)
  BY Zenon DEF WaitForPlayers
<1> HIDE DEF q, w
<1> QED BY <1>2, <1>3, <1>4, EventGood

\* The wait is cancelled, and the timer that it hid runs.
LEMMA CancelGood ==
  ASSUME Good, CancelWaiting
  PROVE  GoodStep
<1> DEFINE t == round.hidden
           r == ResumeTimer(round.timers[t])
           w == [round EXCEPT !.timers[t] = r]
<1>1. round \in RoundType /\ One(round)
  BY DEF Good, TypeOK
<1>2. Reach(round, round)
  BY <1>1, SameTimers
<1>3. t # NoTimer => Reach(round, w)
  <2> SUFFICES ASSUME t # NoTimer PROVE Reach(round, w)
    OBVIOUS
  <2>1. t \in Timers
    BY <1>1, NoTimerIsNone DEF RoundType
  <2>2. Step(round.timers[t], r)
    BY <1>1, <2>1, PauseStep DEF RoundType
  <2> HIDE DEF r, t
  <2> QED BY <1>1, <2>1, <2>2, OneTimerReach
<1> DEFINE s == IF t = NoTimer \/ t \in StartPaused THEN round ELSE w
<1>4. Event(EndWaiting(s))
  BY Zenon DEF CancelWaiting
<1>5. Reach(round, s)
  BY <1>2, <1>3
<1> HIDE DEF s
<1>6. Reach(s, EndWaiting(s))
  BY <1>5, EndWaitingReach DEF Reach
<1> QED BY <1>4, <1>5, <1>6, ReachReach, EventGood

\* Rounds are won.
LEMMA WinGood ==
  ASSUME Good, WinRound
  PROVE  GoodStep
<1> DEFINE s == IF round.phase = "stalemate" THEN RestoreActiveTimer(round) ELSE round
           q == [s EXCEPT !.phase = "won"]
<1>1. round \in RoundType /\ One(round)
  BY DEF Good, TypeOK
<1>2. Reach(round, s)
  BY <1>1, SameTimers, RestoreReach
<1>3. Event(q)
  BY Zenon DEF WinRound
<1> HIDE DEF s
<1>4. s \in RoundType /\ One(s)
  BY <1>2 DEF Reach
<1>5. q \in RoundType /\ q.timers = s.timers
  BY <1>4, ZenonT(60) DEF RoundType
<1> HIDE DEF q
<1>6. Reach(s, q)
  BY <1>4, <1>5, SameTimers
<1> QED BY <1>2, <1>3, <1>6, ReachReach, EventGood

\* A stalemate begins.
LEMMA StalemateGood ==
  ASSUME Good, EnterStalemate
  PROVE  GoodStep
<1> DEFINE s == BringUpTimer(round)
           q == [s EXCEPT !.phase = "stalemate"]
<1>1. Reach(round, s)
  BY BringUpReach DEF Good, TypeOK
<1>2. Event(q)
  BY Zenon DEF EnterStalemate
<1> HIDE DEF s
<1>3. s \in RoundType /\ One(s)
  BY <1>1 DEF Reach
<1>4. q \in RoundType /\ q.timers = s.timers
  BY <1>3, ZenonT(60) DEF RoundType
<1> HIDE DEF q
<1>5. Reach(s, q)
  BY <1>3, <1>4, SameTimers
<1> QED BY <1>1, <1>2, <1>5, ReachReach, EventGood

\* The first round, the next one and one that is begun again.
LEMMA RoundsGood ==
  ASSUME Good, NEW b \in BOOLEAN, StartGame(b) \/ NextRound(b) \/ RestartRound(b)
  PROVE  GoodStep
<1>1. round \in RoundType /\ One(round)
  BY DEF Good, TypeOK
<1>2. CASE StartGame(b)
  <2> DEFINE q == [round EXCEPT !.waiting = b]
  <2>1. q \in RoundType /\ q.timers = round.timers
    BY <1>1, ZenonT(60) DEF RoundType
  <2>2. Silent(RoundRespawn(q, TRUE))
    BY <1>2 DEF StartGame
  <2> HIDE DEF q
  <2>3. Reach(round, q)
    BY <1>1, <2>1, SameTimers
  <2>4. Reach(q, RoundRespawn(q, TRUE))
    BY <2>3, RoundRespawnReach DEF Reach
  <2> QED BY <2>2, <2>3, <2>4, ReachReach, EventGood
<1>3. CASE NextRound(b)
  BY <1>1, <1>3, RoundRespawnReach, EventGood DEF NextRound
<1>4. CASE RestartRound(b)
  <2> DEFINE s == EndWaiting(round)
  <2>1. Reach(round, s)
    BY <1>1, EndWaitingReach
  <2> HIDE DEF s
  <2>2. Reach(s, RoundRespawn(s, b))
    BY <2>1, RoundRespawnReach DEF Reach
  <2>3. Event(RoundRespawn(s, b))
    BY <1>4 DEF RestartRound, s
  <2> QED BY <2>1, <2>2, <2>3, ReachReach, EventGood
<1> QED BY <1>2, <1>3, <1>4

\* Every step is a good one.
LEMMA NextGood == Good /\ [Next]_vars => GoodStep
<1> SUFFICES ASSUME Good, [Next]_vars PROVE GoodStep
  OBVIOUS
<1>1. round \in RoundType /\ One(round) /\ events \in 0..MaxEvents
  BY DEF Good, TypeOK
<1>2. CASE Tick
  BY <1>2, TickGood
<1>3. CASE Contest
  <2> DEFINE b == ~round.contested
             q == [round EXCEPT !.contested = b]
  <2>1. b \in BOOLEAN
    OBVIOUS
  <2>2. round' = q /\ events' \in 0..MaxEvents
    BY <1>1, <1>3 DEF Contest
  <2> HIDE DEF b
  <2>3. q \in RoundType /\ q.timers = round.timers
    BY <1>1, <2>1, ZenonT(60) DEF RoundType
  <2> HIDE DEF q
  <2> QED BY <1>1, <2>2, <2>3, SameTimers, ReachGood
<1>4. CASE WinRound
  BY <1>4, WinGood
<1>5. CASE WaitForPlayers
  BY <1>5, WaitGood
<1>6. CASE ShowWaitingTimer
  <2>1. Silent(BringUpTimer(round))
    BY <1>6 DEF ShowWaitingTimer
  <2>2. Reach(round, BringUpTimer(round))
    BY <1>1, BringUpReach
  <2> QED BY <2>1, <2>2, EventGood
<1>7. CASE CancelWaiting
  BY <1>7, CancelGood
<1>8. CASE EnterStalemate
  BY <1>8, StalemateGood
<1>9. ASSUME NEW t \in Timers, Think(t) PROVE GoodStep
  <2>1. events' \in 0..MaxEvents
    BY <1>1, <1>9 DEF Think
  <2>2. round' = RoundTimerSetupThink(round, t) \/ round' = RoundTimerThink(round, t)
    BY <1>9 DEF Think
  <2>3. Reach(round, round')
    BY <1>1, <2>2, SetupThinkReach, RoundThinkReach
  <2> QED BY <2>1, <2>3, ReachGood
<1>10. ASSUME NEW t \in Scripted, ClockInput(t) PROVE GoodStep
  BY <1>10, ClockInputGood
<1>11. ASSUME NEW t \in MapTimers, TimerInput(t) PROVE GoodStep
  <2>1. t \in Timers
    BY NoTimerIsNone
  <2>2. CASE Enable(t)
    BY <1>1, <2>1, <2>2, EnableReach, EventGood DEF Enable
  <2>3. CASE Disable(t)
    BY <1>1, <2>1, <2>3, EnableReach, EventGood DEF Disable
  <2>4. ASSUME NEW b \in BOOLEAN, ShowInHUD(t, b) PROVE GoodStep
    BY <1>1, <2>1, <2>4, ShowInHUDReach, EventGood DEF ShowInHUD
  <2> QED BY <1>11, <2>2, <2>3, <2>4 DEF TimerInput
<1>12. ASSUME NEW b \in BOOLEAN, StartGame(b) \/ NextRound(b) \/ RestartRound(b)
       PROVE  GoodStep
  BY <1>12, RoundsGood
<1>13. CASE UNCHANGED vars
  <2>1. Reach(round, round')
    BY <1>1, <1>13, SameTimers DEF vars
  <2> QED BY <1>1, <1>13, <2>1, ReachGood DEF vars
<1> QED
  BY <1>2, <1>3, <1>4, <1>5, <1>6, <1>7, <1>8, <1>9, <1>10, <1>11, <1>12, <1>13 DEF Next

\* The map's timers are made before the first round.
LEMMA InitGood == Init => Good
<1> SUFFICES ASSUME Init PROVE Good
  OBVIOUS
<1> DEFINE r == [SpawnedTemp EXCEPT !.alive = FALSE, !.shown = FALSE]
           timers == [t \in Timers |-> r]
           s == [timers |-> timers, hud |-> NoTimer, hidden |-> NoTimer, phase |-> "pregame",
                 waiting |-> FALSE, inSetup |-> FALSE, overtime |-> FALSE, contested |-> FALSE]
<1>1. r \in TimerType
  BY TempType, ZenonT(60) DEF TimerType
<1>2. timers \in [Timers -> TimerType]
  <2> HIDE DEF r
  <2> QED BY <1>1
<1>3. InitRound = MapSpawned(s)
  BY DEF InitRound
<1> HIDE DEF timers
<1>4. s \in RoundType
  BY <1>2, ZenonT(60) DEF RoundType
<1> HIDE DEF s
<1>5. Reach(s, InitRound)
  BY <1>3, <1>4, MapSpawnedReach
<1>6. round = InitRound /\ events \in 0..MaxEvents
  BY ConstantsAssumption DEF Init
<1> QED BY <1>5, <1>6 DEF Reach, Good, TypeOK

-----------------------------------------------------------------------------
(* Theorems                                                                *)

\* The timers and the members of the rules that they use are always in states that the
\* code knows.
THEOREM TypeCorrect == Spec => []TypeOK
<1>1. Good /\ [Next]_vars => Good'
  BY NextGood DEF GoodStep
<1>2. Good => TypeOK
  BY DEF Good
<1> QED BY <1>1, <1>2, InitGood, PTL DEF Spec

\* However timers are enabled, disabled, shown, hidden and replaced by one of the rules,
\* SetActiveTimer leaves no more than one that wants to be in the HUD.
THEOREM OneTimerShownAlways == Spec => []OneTimerShown
<1>1. Good /\ [Next]_vars => Good'
  BY NextGood DEF GoodStep
<1>2. Good => OneTimerShown
  BY DEF Good, One, OneTimerShown
<1> QED BY <1>1, <1>2, InitGood, PTL DEF Spec

\* No order of inputs, thinks, rounds and stalemates puts more time on a timer than its
\* maximum.
THEOREM NeverAbove == Spec => NeverAboveMaximum
<1>1. Good /\ [Next]_vars => Good'
  BY NextGood DEF GoodStep
<1> DEFINE Above == \A t \in Timers :
             LET r == round.timers[t] IN LET q == round'.timers[t] IN
             q.alive /\ q.max > 0 /\ q.left > r.left /\ q.max = r.max => q.left <= q.max
<1>2. Good /\ [Next]_vars => [Above]_vars
  BY NextGood DEF GoodStep, Capped
<1> QED BY <1>1, <1>2, InitGood, PTL DEF Spec, NeverAboveMaximum

=============================================================================

------------------------ MODULE CaptureArea_proofs ------------------------
(* Proofs about CaptureArea, for any players, teams and times.             *)
EXTENDS CaptureArea, FiniteSetTheorems, WellFoundedInduction, TLAPS

\* What the handlers rely on: a capture in progress has a team and time left.
InRange(a) == a.capturing => a.capTeam \in Teams /\ a.left \in 1..TotalTime(a.capTeam)

\* What they keep: the properties, as predicates of the area.
Seen(a) == a.cpCapping \in {NoTeam} \cup (IF a.capturing THEN {a.capTeam} ELSE {})
Told(a) == a.cpNum = a.touching
Known(a) == a.pointOwner = a.cpOwner
Once(a) == \A p \in Players : a.credits[p] = IF p \in a.blockers THEN 1 ELSE 0

\* b, which the area has become from a, is still right where a was.
Keeps(a, b) ==
  /\ b \in AreaType /\ InRange(b)
  /\ ShownAsIs(a) => ShownAsIs(b)
  /\ OneOwner(a) => OneOwner(b)
  /\ Seen(a) => Seen(b)
  /\ Told(a) => Told(b)
  /\ Known(a) => Known(b)
  /\ Once(a) => Once(b)

\* The time a capture takes is not zero.
LEMMA TotalTimePositive == \A t \in Teams : TotalTime(t) \in Nat /\ TotalTime(t) >= 1
  <1> SUFFICES ASSUME NEW t \in Teams PROVE TotalTime(t) \in Nat /\ TotalTime(t) >= 1
    OBVIOUS
  <1>1. CapTime \in Nat /\ CapTime >= 1 /\ Required[t] \in Nat /\ Required[t] >= 1
    BY ConstantsAssumption
  <1>2. \A m, n \in Nat : m >= 1 /\ n >= 1 => m * n \in Nat /\ m * n >= 1
    OBVIOUS
  <1>3. CapTime * 2 \in Nat /\ CapTime * 2 >= 1 BY <1>1
  <1>4. CapTime * 2 * Required[t] \in Nat /\ CapTime * 2 * Required[t] >= 1
    BY <1>1, <1>2, <1>3
  <1> QED BY <1>1, <1>4 DEF TotalTime

-----------------------------------------------------------------------------
(* Counting players                                                        *)

\* The weight of a set of players is zero exactly if nobody is in it.
LEMMA WeightZero ==
  ASSUME NEW S \in SUBSET Players
  PROVE  Weight(S) \in Nat /\ (Weight(S) > 0 <=> S # {})
  <1> DEFINE V == {v \in S \X Units : v[2] <= Value[v[1]]}
  <1>1. IsFiniteSet(S \X Units)
    <2>1. IsFiniteSet(S) BY ConstantsAssumption, FS_Subset
    <2>2. IsFiniteSet(Units) BY ConstantsAssumption, FS_Interval DEF Units
    <2> QED BY <2>1, <2>2, FS_Product
  <1>2. IsFiniteSet(V)
    <2>1. V \in SUBSET (S \X Units) OBVIOUS
    <2> QED BY <1>1, <2>1, FS_Subset
  <1>3. Cardinality(V) \in Nat /\ (Cardinality(V) = 0 <=> V = {})
    BY <1>2, FS_CardinalityType, FS_EmptySet
  <1>4. V = {} <=> S = {}
    <2>1. ASSUME NEW p \in S PROVE <<p, 1>> \in V
      <3>1. Value[p] \in 1..MaxValue BY ConstantsAssumption
      <3>2. 1 <= Value[p] BY <3>1
      <3>3. 1 \in Units BY ConstantsAssumption DEF Units
      <3> QED BY <3>2, <3>3
    <2>2. V \subseteq S \X Units OBVIOUS
    <2>3. S = {} => V = {} BY <2>2
    <2> QED BY <2>1, <2>3
  <1> QED BY <1>3, <1>4 DEF Weight

\* A capture that goes on with one team in the zone is not contested: the team is
\* there, and no other team has anybody there who may capture or block.
LEMMA ZoneUncontested ==
  ASSUME NEW ps, NEW n \in [Teams -> Nat], NEW t \in Teams,
         ~(TeamsInZone(ps, n) > 1), TeamInZone(n) = t
  PROVE  n[t] > 0 /\ \A u \in Teams \ {t} : n[u] = 0 /\ Blockables(ps, u) = {}
  <1> DEFINE C == TeamsCapping(n)
             B == {u \in Teams : Blockables(ps, u) # {} /\ TeamInZone(n) # u}
  <1>1. t # NoTeam BY ConstantsAssumption
  <1>2. Cardinality(C) = 1 /\ t = CHOOSE u \in C : TRUE BY <1>1 DEF TeamInZone
  <1>3. IsFiniteSet(C) /\ IsFiniteSet(B)
    <2>1. C \in SUBSET Teams /\ B \in SUBSET Teams BY DEF TeamsCapping
    <2> QED BY <2>1, ConstantsAssumption, FS_Subset
  <1>4. PICK e : C = {e} BY <1>2, <1>3, FS_Singleton
  <1>5. C = {t} BY <1>2, <1>4
  <1>6. Cardinality(B) \in Nat BY <1>3, FS_CardinalityType
  <1>7. TeamsInZone(ps, n) = Cardinality(C) + Cardinality(B)
    BY <1>2 DEF TeamsInZone
  <1>8. Cardinality(B) = 0
    <2>1. \A x, y : x = 1 /\ y \in Nat /\ ~(x + y > 1) => y = 0 OBVIOUS
    <2>2. Cardinality(C) = 1 /\ ~(Cardinality(C) + Cardinality(B) > 1)
      BY Zenon, <1>2, <1>7
    <2> HIDE DEF C, B
    <2> QED BY Zenon, <1>6, <2>1, <2>2
  <1>9. B = {} BY <1>3, <1>8, FS_EmptySet
  <1> QED BY <1>5, <1>9 DEF TeamsCapping

\* Nobody counts more than MaxValue times.
LEMMA WeightBound ==
  ASSUME NEW S \in SUBSET Players
  PROVE  Weight(S) \in 0..MaxCount
  <1> DEFINE V == {v \in Players \X Units : v[1] \in S /\ v[2] <= Value[v[1]]}
  <1>1. Weight(S) = Cardinality(V)
    <2>1. V = {v \in S \X Units : v[2] <= Value[v[1]]} OBVIOUS
    <2> QED BY <2>1 DEF Weight
  <1>2. IsFiniteSet(Units) /\ Cardinality(Units) = MaxValue
    BY ConstantsAssumption, FS_Interval DEF Units
  <1>3. /\ IsFiniteSet(Players \X Units)
        /\ Cardinality(Players \X Units) = Cardinality(Players) * Cardinality(Units)
    BY <1>2, FS_Product, ConstantsAssumption
  <1>4. V \in SUBSET (Players \X Units) OBVIOUS
  <1>5. IsFiniteSet(V) /\ Cardinality(V) <= Cardinality(Players \X Units)
    BY <1>3, <1>4, FS_Subset
  <1>6. Cardinality(V) \in Nat /\ Cardinality(Players) \in Nat
    BY <1>5, FS_CardinalityType, ConstantsAssumption
  <1> HIDE DEF V
  <1> QED BY <1>1, <1>2, <1>3, <1>5, <1>6, ConstantsAssumption DEF MaxCount

-----------------------------------------------------------------------------
(* The operations on the area                                              *)

\* TEAM_UNASSIGNED is no team.
LEMMA OwnersType == NoTeam \in Owners /\ NoTeam \notin Teams /\ Teams \subseteq Owners
  BY ConstantsAssumption DEF Owners

\* Each operation leaves an area that is right where it was, or more so.
LEMMA StartCaptureKeeps ==
  ASSUME NEW a \in AreaType, InRange(a), NEW t \in Teams
  PROVE  Keeps(a, StartCapture(a, t)) /\ StartCapture(a, t).lag = 0
  <1> DEFINE b == StartCapture(a, t)
  <1>1. t \in Owners /\ TotalTime(t) \in Nat /\ 0 \in 0..ThinkTicks
    BY OwnersType, ConstantsAssumption, TotalTimePositive
  <1>2. b \in AreaType BY ZenonT(60), <1>1 DEF StartCapture, AreaType
  <1>3. InRange(b) BY TotalTimePositive DEF StartCapture, AreaType, InRange
  <1> QED
    BY <1>2, <1>3
    DEF StartCapture, AreaType, Keeps, ShownAsIs, OneOwner, Seen, Told, Known, Once

\* BreakCapture leaves no capture, and the owner.
LEMMA BreakCaptureKeeps ==
  ASSUME NEW a \in AreaType
  PROVE  /\ Keeps(a, BreakCapture(a)) /\ ~BreakCapture(a).capturing
         /\ BreakCapture(a).pointOwner = a.pointOwner
  <1> DEFINE b == BreakCapture(a)
  <1>1. b \in AreaType BY ZenonT(60), OwnersType DEF BreakCapture, AreaType
  <1>2. ~b.capturing BY DEF BreakCapture, AreaType
  <1> QED
    BY <1>1, <1>2
    DEF BreakCapture, AreaType, InRange, Keeps, ShownAsIs, OneOwner, Seen, Told, Known, Once

\* SetPointOwner has no invariant of its own: the area's owner is the caller's.
LEMMA SetPointOwnerType ==
  ASSUME NEW a \in AreaType, NEW t \in Owners
  PROVE  SetPointOwner(a, t) \in AreaType
  BY ZenonT(60), OwnersType DEF SetPointOwner, AreaType

\* EndCapture leaves no capture, and gives everybody the new owner.
LEMMA EndCaptureKeeps ==
  ASSUME NEW a \in AreaType, a.capTeam \in Teams
  PROVE  Keeps(a, EndCapture(a)) /\ ~EndCapture(a).capturing
  <1> DEFINE c == [a EXCEPT !.capturing = FALSE, !.owner = a.capTeam, !.left = 0,
                            !.blockers = {}, !.credits = [p \in Players |-> 0],
                            !.killers = {}]
             b == EndCapture(a)
  <1>1. c \in AreaType
    <2>1. [p \in Players |-> 0] \in [Players -> Nat] /\ {} \in SUBSET Players /\ 0 \in Nat
      OBVIOUS
    <2> QED BY ZenonT(60), <2>1, OwnersType DEF AreaType
  <1>2. b \in AreaType BY <1>1, SetPointOwnerType, OwnersType DEF EndCapture
  <1>3. ~b.capturing BY DEF EndCapture, SetPointOwner, AreaType
  <1> QED
    BY <1>2, <1>3
    DEF EndCapture, SetPointOwner, AreaType, InRange, Keeps, ShownAsIs, OneOwner, Seen, Told, Known, Once

\* ForceOwner makes the owners agree even if they did not.
LEMMA ForceOwnerKeeps ==
  ASSUME NEW a \in AreaType, NEW t \in Owners
  PROVE  /\ Keeps(a, ForceOwner(a, t)) /\ ~ForceOwner(a, t).capturing
         /\ OneOwner(ForceOwner(a, t)) /\ Known(ForceOwner(a, t))
  <1> DEFINE c == BreakCapture(a)
             b == ForceOwner(a, t)
  <1>1. c \in AreaType /\ ~c.capturing /\ Keeps(a, c) BY BreakCaptureKeeps DEF Keeps
  <1> HIDE DEF c
  <1>2. [c EXCEPT !.owner = t] \in AreaType BY ZenonT(60), <1>1 DEF AreaType
  <1>3. b = SetPointOwner([c EXCEPT !.owner = t], t) BY DEF ForceOwner, c
  <1>4. b \in AreaType BY <1>2, <1>3, SetPointOwnerType
  <1> HIDE DEF b
  <1>5. /\ b.owner = t /\ b.pointOwner = t /\ b.cpOwner = t /\ b.cpCapping = NoTeam
        /\ ~b.capturing /\ b.touching = c.touching /\ b.cpNum = c.cpNum
        /\ b.blockers = c.blockers /\ b.credits = c.credits
    BY <1>1, <1>3 DEF SetPointOwner, AreaType
  <1>6. Keeps(a, b) /\ ~b.capturing /\ OneOwner(b) /\ Known(b)
    BY <1>1, <1>4, <1>5 DEF InRange, Keeps, ShownAsIs, OneOwner, Seen, Told, Known, Once
  <1> QED BY <1>6 DEF b

\* AreaTouch takes the owner from the point.
LEMMA AreaTouchKeeps ==
  ASSUME NEW a \in AreaType, InRange(a), NEW ps
  PROVE  /\ Keeps(a, AreaTouch(a, ps))
         /\ AreaTouch(a, ps).capturing = a.capturing
         /\ AreaTouch(a, ps).capTeam = a.capTeam
         /\ AreaTouch(a, ps).lag = a.lag
         /\ AreaTouch(a, ps).pointOwner = a.pointOwner
  <1> DEFINE b == AreaTouch(a, ps)
  <1>1. b \in AreaType BY ZenonT(60) DEF AreaTouch, AreaType
  <1> QED
    BY <1>1
    DEF AreaTouch, AreaType, InRange, Keeps, ShownAsIs, OneOwner, Seen, Told, Known, Once

-----------------------------------------------------------------------------
(* The think                                                               *)

Counts == [Teams -> 0..MaxCount]

\* The players of each team, counted.
LEMMA CountsType ==
  ASSUME NEW ps
  PROVE  [t \in Teams |-> Weight(Cappers(ps, t))] \in Counts
  <1>1. \A t \in Teams : Cappers(ps, t) \in SUBSET Players BY DEF Cappers, With
  <1> QED BY <1>1, WeightBound DEF Counts

\* The numbers of players are shown as they are counted; nothing else changes.
LEMMA CountPlayersKeeps ==
  ASSUME NEW a \in AreaType, InRange(a), NEW ps
  PROVE  /\ Keeps(a, CountPlayers(a, ps)) /\ CountPlayers(a, ps).touching \in Counts
         /\ CountPlayers(a, ps) = [a EXCEPT !.touching = CountPlayers(a, ps).touching,
                                            !.counted = CountPlayers(a, ps).counted,
                                            !.cpNum = CountPlayers(a, ps).cpNum]
  <1> DEFINE n == [t \in Teams |-> Weight(Cappers(ps, t))]
             shown == IF BlockStyle = 1 /\ a.capturing /\ TeamsInZone(ps, n) > 1
                      THEN [t \in Teams |-> 0] ELSE n
             num == IF n # a.touching \/ shown # n THEN shown ELSE a.cpNum
             b == CountPlayers(a, ps)
  <1>1. MaxCount \in Nat
    BY ConstantsAssumption, FS_CardinalityType DEF MaxCount
  <1>2. n \in Counts /\ [t \in Teams |-> 0] \in Counts
    BY <1>1, CountsType DEF Counts
  <1>3. shown \in Counts BY <1>2
  <1>4. Counts \subseteq [Teams -> Nat] BY <1>1 DEF Counts
  <1>5. b = [a EXCEPT !.touching = shown, !.counted = n, !.cpNum = num] BY DEF CountPlayers
  <1>6. num \in [Teams -> Nat] BY <1>3, <1>4 DEF AreaType
  <1>7. Told(a) => num = shown BY DEF Told
  <1> HIDE DEF n, shown, num, b
  <1>8. b \in AreaType BY ZenonT(60), <1>2, <1>3, <1>4, <1>5, <1>6 DEF AreaType
  <1>9. Keeps(a, b)
    BY <1>5, <1>7, <1>8
    DEF AreaType, InRange, Keeps, ShownAsIs, OneOwner, Seen, Told, Known, Once
  <1>10. b.touching = shown /\ b.counted = n /\ b.cpNum = num BY <1>5 DEF AreaType
  <1>11. /\ b.touching \in Counts
         /\ b = [a EXCEPT !.touching = b.touching, !.counted = b.counted, !.cpNum = b.cpNum]
    BY <1>3, <1>5, <1>10
  <1> QED BY <1>9, <1>11 DEF b

\* Credit is given with an entry in the list of blockers.
LEMMA CreditBlockKeeps ==
  ASSUME NEW a \in AreaType, InRange(a), NEW p \in Players \cup {Nobody}
  PROVE  /\ Keeps(a, CreditBlock(a, p)) /\ CreditBlock(a, p).lag = a.lag
         /\ CreditBlock(a, p).pointOwner = a.pointOwner
  <1> DEFINE b == CreditBlock(a, p)
  <1>1. CASE p = Nobody \/ p \in a.blockers
    BY <1>1 DEF CreditBlock, Keeps
  <1>2. CASE p \in Players /\ p \notin a.blockers
    <2> DEFINE bl == a.blockers \cup {p}
               cr == [a.credits EXCEPT ![p] = @ + 1]
    <2>1. p # Nobody BY <1>2, ConstantsAssumption
    <2>2. b = [a EXCEPT !.blockers = bl, !.credits = cr] BY <1>2, <2>1 DEF CreditBlock
    <2>3. bl \in SUBSET Players /\ cr \in [Players -> Nat] BY <1>2 DEF AreaType
    <2>4. Once(a) => \A q \in Players : cr[q] = IF q \in bl THEN 1 ELSE 0
      BY <1>2 DEF Once, AreaType
    <2> HIDE DEF bl, cr, b
    <2>5. b \in AreaType BY ZenonT(60), <2>2, <2>3 DEF AreaType
    <2>6. Keeps(a, b) /\ b.lag = a.lag /\ b.pointOwner = a.pointOwner
      BY <2>2, <2>4, <2>5
      DEF AreaType, InRange, Keeps, ShownAsIs, OneOwner, Seen, Told, Known, Once
    <2> QED BY <2>6 DEF b
  <1> QED BY <1>1, <1>2

\* Keeps is transitive.
LEMMA KeepsTwice ==
  ASSUME NEW a, NEW b, NEW c, Keeps(a, b), Keeps(b, c)
  PROVE  Keeps(a, c)
  BY DEF Keeps

\* A blocked capture stands still or is broken off.
LEMMA BlockedKeeps ==
  ASSUME NEW a \in AreaType, InRange(a), NEW p \in Players \cup {Nobody}
  PROVE  /\ Keeps(a, Blocked(a, p)) /\ Blocked(a, p).pointOwner = a.pointOwner
         /\ Blocked(a, p).capturing => Blocked(a, p).lag = 0
  <1> DEFINE c == [a EXCEPT !.blocked = TRUE, !.lag = 0]
             b == CreditBlock(c, p)
  <1>1. c \in AreaType
    <2>1. 0 \in 0..ThinkTicks BY ConstantsAssumption
    <2> QED BY ZenonT(60), <2>1 DEF AreaType
  <1>2. Keeps(a, c) /\ c.lag = 0 /\ InRange(c) /\ c.pointOwner = a.pointOwner
    BY <1>1 DEF AreaType, InRange, Keeps, ShownAsIs, OneOwner, Seen, Told, Known, Once
  <1> HIDE DEF c
  <1>3. Keeps(c, b) /\ b.lag = 0 /\ b.pointOwner = a.pointOwner
    BY <1>1, <1>2, CreditBlockKeeps
  <1> HIDE DEF b
  <1>4. Keeps(a, b) /\ b \in AreaType BY <1>2, <1>3, KeepsTwice DEF Keeps
  <1>5. Blocked(a, p) = IF BlockStyle = 0 THEN BreakCapture(b) ELSE b
    BY DEF Blocked, b, c
  <1>6. /\ Keeps(b, BreakCapture(b)) /\ ~BreakCapture(b).capturing
        /\ BreakCapture(b).pointOwner = b.pointOwner
    BY <1>4, BreakCaptureKeeps
  <1>7. Keeps(a, BreakCapture(b)) BY <1>4, <1>6, KeepsTwice
  <1> QED BY <1>3, <1>4, <1>5, <1>6, <1>7

\* Time runs out only for the team that is alone in the zone.
LEMMA TimeLeftZero ==
  ASSUME NEW a \in AreaType, a.capturing, InRange(a), a.touching \in Counts,
         NEW zone \in Owners, NEW overtime \in BOOLEAN
  PROVE  /\ TimeLeft(a, zone, overtime) \in Nat
         /\ TimeLeft(a, zone, overtime) = 0 => zone = a.capTeam
  <1> DEFINE n == IF CapStyle = 1 /\ zone # NoTeam /\ a.touching[zone] > 0
                  THEN a.touching[zone] ELSE 1
             change == a.lag * Rate[n]
             decayed == a.lag * Decay * (IF overtime THEN 6 ELSE 1)
  <1>1. MaxCount \in Nat
    BY ConstantsAssumption, FS_CardinalityType DEF MaxCount
  <1>2. \A i, j \in Nat : i * j \in Nat OBVIOUS
  <1>3. a.lag \in Nat /\ a.left \in Nat /\ a.left >= 1 /\ a.capTeam \in Teams
    BY ConstantsAssumption, TotalTimePositive DEF AreaType, InRange
  <1>4. MaxCount >= 1
    <2>1. Cardinality(Players) \in Nat /\ (Cardinality(Players) = 0 <=> Players = {})
      BY ConstantsAssumption, FS_CardinalityType, FS_EmptySet
    <2>2. \A i, j \in Nat : i # 0 /\ j # 0 => i * j >= 1 OBVIOUS
    <2>3. Cardinality(Players) # 0 /\ MaxValue \in Nat /\ MaxValue # 0
      BY <2>1, ConstantsAssumption
    <2> QED BY <2>1, <2>2, <2>3 DEF MaxCount
  <1>5. n \in 1..MaxCount
    <2>1. CASE zone \in Teams
      <3>1. a.touching[zone] \in 0..MaxCount BY <2>1 DEF Counts
      <3> QED BY <1>1, <1>4, <3>1
    <2>2. CASE zone = NoTeam BY <1>1, <1>4, <2>2
    <2> QED BY <2>1, <2>2 DEF Owners
  <1>6. change \in Nat
    <2>1. Rate[n] \in Nat BY <1>5, ConstantsAssumption
    <2> HIDE DEF n
    <2> QED BY <1>2, <1>3, <2>1
  <1>7. decayed \in Nat
    <2>1. a.lag * Decay \in Nat BY <1>2, <1>3, ConstantsAssumption
    <2>2. (IF overtime THEN 6 ELSE 1) \in Nat OBVIOUS
    <2> QED BY <1>2, <2>1, <2>2
  <1>8. TotalTime(a.capTeam) \in Nat /\ TotalTime(a.capTeam) >= 1
    BY <1>3, TotalTimePositive
  <1>9. TimeLeft(a, zone, overtime) =
          IF zone = a.capTeam THEN (IF a.left > change THEN a.left - change ELSE 0)
          ELSE IF a.owner = NoTeam /\ zone # NoTeam THEN a.left + change
          ELSE IF a.capTeam \in may THEN a.left + decayed
          ELSE TotalTime(a.capTeam)
    BY Zenon DEF TimeLeft
  <1> HIDE DEF n, change, decayed
  <1> QED BY <1>3, <1>6, <1>7, <1>8, <1>9

\* A capture goes on, ends, or is broken off; it ends only for its own team.
LEMMA ProgressKeeps ==
  ASSUME NEW a \in AreaType, a.capturing, InRange(a), a.touching \in Counts,
         NEW zone \in Owners, NEW overtime \in BOOLEAN
  PROVE  LET c == Progress(a, zone, overtime)
         IN  /\ Keeps(a, c) /\ (c.capturing => c.lag = 0)
             /\ zone = a.capTeam \/ c.pointOwner = a.pointOwner
  <1> DEFINE left == TimeLeft(a, zone, overtime)
             b == [a EXCEPT !.left = left, !.blocked = FALSE, !.lag = 0]
             c == Progress(a, zone, overtime)
  <1>1. left \in Nat /\ (left = 0 => zone = a.capTeam) BY TimeLeftZero
  <1>2. a.capTeam \in Teams BY DEF InRange
  <1>3. TotalTime(a.capTeam) \in Nat BY <1>2, TotalTimePositive
  <1>4. c = IF b.left = 0 THEN EndCapture(b)
            ELSE IF b.left >= TotalTime(b.capTeam) THEN BreakCapture(b) ELSE b
    BY Zenon DEF Progress
  <1> HIDE DEF left, c
  <1>5. b \in AreaType
    <2>1. 0 \in 0..ThinkTicks BY ConstantsAssumption
    <2> QED BY ZenonT(60), <1>1, <2>1 DEF AreaType
  <1>6. /\ b.left = left /\ b.lag = 0 /\ b.capTeam = a.capTeam /\ b.capturing = a.capturing
        /\ b.pointOwner = a.pointOwner /\ b.owner = a.owner /\ b.cpOwner = a.cpOwner
        /\ b.cpCapping = a.cpCapping /\ b.touching = a.touching /\ b.cpNum = a.cpNum
        /\ b.blockers = a.blockers /\ b.credits = a.credits
    BY DEF AreaType
  <1> HIDE DEF b
  \* b is a but for the range of the time left
  <1>7. InRange(b) => Keeps(a, b)
    BY <1>5, <1>6
    DEF Keeps, ShownAsIs, OneOwner, Seen, Told, Known, Once
  <1>8. ASSUME NEW d, Keeps(b, d) PROVE Keeps(a, d)
    BY <1>6, <1>8 DEF Keeps, ShownAsIs, OneOwner, Seen, Told, Known, Once
  <1>9. CASE left = 0
    <2>1. Keeps(b, EndCapture(b)) /\ ~EndCapture(b).capturing
      BY <1>2, <1>5, <1>6, EndCaptureKeeps
    <2> QED BY <1>1, <1>4, <1>6, <1>8, <1>9, <2>1 DEF c
  <1>10. CASE left # 0 /\ left >= TotalTime(a.capTeam)
    <2>1. /\ Keeps(b, BreakCapture(b)) /\ ~BreakCapture(b).capturing
          /\ BreakCapture(b).pointOwner = b.pointOwner
      BY <1>5, BreakCaptureKeeps
    <2> QED BY <1>4, <1>6, <1>8, <1>10, <2>1 DEF c
  <1>11. CASE left # 0 /\ ~(left >= TotalTime(a.capTeam))
    <2>1. c = b BY <1>4, <1>6, <1>11
    <2>2. InRange(b) BY <1>1, <1>2, <1>3, <1>6, <1>11 DEF InRange
    <2> QED BY <1>6, <1>7, <2>1, <2>2 DEF c
  <1> QED BY <1>9, <1>10, <1>11

\* A nonempty set of numbers has a first one.
LEMMA FirstIn ==
  ASSUME NEW S \in SUBSET Nat, S # {}
  PROVE  First(S) \in S
  <1> DEFINE R == {ss \in Nat \X Nat : ss[1] < ss[2]}
  <1>1. IsWellFoundedOn(R, Nat) BY NatLessThanWellFounded DEF OpToRel
  <1>2. PICK x \in S : \A y \in S : ~ (<<y, x>> \in R) BY <1>1, WFMin
  <1>3. ASSUME NEW y \in S PROVE x <= y
    <2>1. x \in Nat /\ y \in Nat OBVIOUS
    <2>2. y < x => <<y, x>> \in R BY Zenon, <2>1
    <2> QED BY <1>2, <2>1, <2>2
  <1> QED BY <1>3 DEF First

\* The team in the zone is a team or none.
LEMMA TeamInZoneType ==
  ASSUME NEW n
  PROVE  TeamInZone(n) \in Owners
  <1> DEFINE C == TeamsCapping(n)
  <1>1. IsFiniteSet(C)
    <2>1. C \in SUBSET Teams BY DEF TeamsCapping
    <2> QED BY <2>1, ConstantsAssumption, FS_Subset
  <1>2. Cardinality(C) = 1 => C # {}
    BY <1>1, FS_EmptySet
  <1>3. C \subseteq Owners BY OwnersType DEF TeamsCapping
  <1> QED BY <1>2, <1>3, OwnersType DEF TeamInZone

\* The player credited is a player, or nobody.
LEMMA CreditForType ==
  ASSUME NEW a, NEW ps, NEW p \in CreditFor(a, ps)
  PROVE  p \in Players \cup {Nobody}
  BY DEF CreditFor, Cappers, With

\* A think while points may be captured.
LEMMA OpenThinkKeeps ==
  ASSUME NEW a \in AreaType, InRange(a), round = "open", NEW ps,
         NEW p \in Players \cup {Nobody}, NEW overtime \in BOOLEAN
  PROVE  LET c == CaptureThink(a, ps, p, overtime)
             n == [t \in Teams |-> Weight(Cappers(ps, t))]
         IN  /\ Keeps(a, c) /\ (c.capturing => c.lag = 0)
             /\ a.capturing /\ c.pointOwner # a.pointOwner =>
                  ~(TeamsInZone(ps, n) > 1) /\ TeamInZone(n) = a.capTeam
  <1> DEFINE c == CaptureThink(a, ps, p, overtime)
             n == [t \in Teams |-> Weight(Cappers(ps, t))]
             b == CountPlayers(a, ps)
             zone == TeamInZone(n)
             inZone == TeamsInZone(ps, n)
  <1>1. c = IF a.capturing THEN IF inZone > 1 THEN Blocked(b, p) ELSE Progress(b, zone, overtime)
            ELSE IF inZone > 0 /\ MayStart(b) # {} THEN StartCapture(b, First(MayStart(b)))
            ELSE b
    BY DEF CaptureThink
  <1>2. /\ Keeps(a, b) /\ b.touching \in Counts
        /\ b = [a EXCEPT !.touching = b.touching, !.counted = b.counted, !.cpNum = b.cpNum]
    BY CountPlayersKeeps
  <1> HIDE DEF c, n, b, inZone
  <1>3. /\ b \in AreaType /\ InRange(b) /\ b.capturing = a.capturing /\ b.capTeam = a.capTeam
        /\ b.pointOwner = a.pointOwner /\ b.owner = a.owner
    BY <1>2 DEF Keeps, AreaType
  <1>4. zone \in Owners BY TeamInZoneType
  <1> HIDE DEF zone
  <1> DEFINE Good == /\ Keeps(a, c) /\ (c.capturing => c.lag = 0)
                     /\ a.capturing /\ c.pointOwner # a.pointOwner =>
                          ~(inZone > 1) /\ zone = a.capTeam
  <1>5. ASSUME a.capturing /\ inZone > 1 PROVE Good
    <2>1. /\ Keeps(b, c) /\ c.pointOwner = b.pointOwner /\ (c.capturing => c.lag = 0)
      BY <1>1, <1>3, <1>5, BlockedKeeps
    <2>2. Keeps(a, c) BY <1>2, <2>1, KeepsTwice
    <2> QED BY <1>3, <1>5, <2>1, <2>2
  <1>6. ASSUME a.capturing /\ ~(inZone > 1) PROVE Good
    <2>1. c = Progress(b, zone, overtime) BY <1>1, <1>6
    <2>2. /\ Keeps(b, c) /\ (c.capturing => c.lag = 0)
          /\ zone = b.capTeam \/ c.pointOwner = b.pointOwner
      BY <1>2, <1>3, <1>4, <1>6, <2>1, ProgressKeeps
    <2>3. Keeps(a, c) BY <1>2, <2>2, KeepsTwice
    <2> QED BY <1>3, <1>6, <2>2, <2>3
  <1>7. ASSUME ~a.capturing /\ inZone > 0 /\ MayStart(b) # {} PROVE Good
    <2> DEFINE t == First(MayStart(b))
    <2>1. MayStart(b) \subseteq Teams BY <1>3 DEF MayStart, AreaType
    <2>2. t \in Teams BY <1>7, <2>1, FirstIn, ConstantsAssumption
    <2>3. c = StartCapture(b, t) BY <1>1, <1>7
    <2> HIDE DEF t
    <2>4. Keeps(b, c) /\ c.lag = 0 BY <1>3, <2>2, <2>3, StartCaptureKeeps
    <2>5. Keeps(a, c) BY <1>2, <2>4, KeepsTwice
    <2> QED BY <1>3, <1>7, <2>4, <2>5
  <1>8. ASSUME ~a.capturing /\ ~(inZone > 0 /\ MayStart(b) # {}) PROVE Good
    <2>1. c = b BY <1>1, <1>8
    <2> QED BY <1>2, <1>3, <1>8, <2>1
  <1>9. Good
    <2> HIDE DEF Good
    <2> QED BY <1>3, <1>5, <1>6, <1>7, <1>8 DEF AreaType
  <1> QED BY <1>9 DEF c, n, zone, inZone

\* A think at any time.
LEMMA ThinkKeeps ==
  ASSUME NEW a \in AreaType, InRange(a), round \in {"open", "over", "elsewhere"}, NEW ps,
         NEW p \in Players \cup {Nobody}, NEW overtime \in BOOLEAN
  PROVE  Keeps(a, CaptureThink(a, ps, p, overtime))
         /\ (round # "open" /\ ~a.capturing => ~CaptureThink(a, ps, p, overtime).capturing)
  <1> DEFINE c == CaptureThink(a, ps, p, overtime)
  <1>1. CASE round = "open" BY <1>1, OpenThinkKeeps
  <1>2. CASE round = "elsewhere"
    <2>1. c = a BY <1>2 DEF CaptureThink
    <2> HIDE DEF c
    <2>2. Keeps(a, c) /\ (~a.capturing => ~c.capturing) BY <2>1 DEF Keeps
    <2> QED BY <2>2 DEF c
  <1>3. CASE round = "over"
    <2> DEFINE b == BreakCapture(a)
    <2>1. c = IF a.capturing THEN [b EXCEPT !.cpNum = b.touching] ELSE a
      BY <1>3 DEF CaptureThink
    <2>2. Keeps(a, b) /\ b \in AreaType /\ ~b.capturing BY BreakCaptureKeeps DEF Keeps
    <2> HIDE DEF b, c
    <2>3. b.touching \in [Teams -> Nat] BY <2>2 DEF AreaType
    <2>4. [b EXCEPT !.cpNum = b.touching] \in AreaType
      BY ZenonT(60), <2>2, <2>3
      DEF AreaType
    <2>5. Keeps(b, [b EXCEPT !.cpNum = b.touching]) /\ ~[b EXCEPT !.cpNum = b.touching].capturing
      BY <2>2, <2>4
      DEF AreaType, InRange, Keeps, ShownAsIs, OneOwner, Seen, Told, Known, Once
    <2>6. Keeps(a, [b EXCEPT !.cpNum = b.touching]) BY <2>2, <2>5, KeepsTwice
    <2>7. Keeps(a, a) BY DEF Keeps
    <2>8. Keeps(a, c) /\ (~a.capturing => ~c.capturing) BY <2>1, <2>5, <2>6, <2>7
    <2> QED BY <2>8 DEF c
  <1> QED BY <1>1, <1>2, <1>3

-----------------------------------------------------------------------------
(* The invariant                                                           *)

\* The resource never shows a capture that there is not, and knows the owner of the
\* point.  The numbers told are right only while points may be captured.  The lag never
\* exceeds the think interval because the area is thinking then.
Inv ==
  /\ TypeOK
  /\ InRange(area) /\ Once(area) /\ Seen(area) /\ Known(area)
  /\ round = "elsewhere" => ~area.capturing
  /\ round = "open" => Told(area)
  /\ area.capturing /\ round = "open" => area.lag + due <= ThinkTicks

\* What a step keeps that gives the point no owner but through the area.
Kept == /\ ShownAsIs(area) => ShownAsIs(area')
        /\ OneOwner(area) => OneOwner(area')

PlayersType == [Players -> [in: BOOLEAN, cond: {"cap", "block", "hidden", "dead"}]]

\* A step that leaves round alone keeps the invariant if the area keeps its own.
LEMMA SameRound ==
  ASSUME Inv, Keeps(area, area'), round' = round, may' \in SUBSET Teams, due' \in 0..ThinkTicks,
         players' \in PlayersType,
         round = "elsewhere" => ~area'.capturing,
         area'.capturing /\ round = "open" => area'.lag + due' <= ThinkTicks
  PROVE  Inv' /\ Kept
  <1>1. TypeOK' BY DEF Inv, TypeOK, Keeps, PlayersType
  <1>2. /\ InRange(area') /\ Once(area') /\ Seen(area') /\ Known(area')
        /\ (Told(area) => Told(area'))
    BY DEF Inv, Keeps
  <1>3. Kept BY DEF Keeps, Kept
  <1> QED BY <1>1, <1>2, <1>3 DEF Inv, Once, Seen, Told, Known, InRange

\* Init and each action keep the invariant.
LEMMA InitInv == Init => Inv
  <1> SUFFICES ASSUME Init PROVE Inv OBVIOUS
  <1>1. PICK owner \in Owners : area = FreshArea(owner) BY DEF Init
  <1>2. area \in AreaType
    BY <1>1, OwnersType, ConstantsAssumption DEF FreshArea, AreaType
  <1>3. TypeOK BY <1>2, ConstantsAssumption DEF Init, TypeOK, Outside
  <1> QED BY <1>1, <1>3 DEF Init, Inv, FreshArea, InRange, Once, Seen, Told, Known

\* A tick adds to the lag what it takes from the time to the next think.
LEMMA TickInv == ASSUME Inv, Tick PROVE Inv' /\ Kept
  <1> DEFINE lag == IF area.capturing /\ round = "open" THEN area.lag + 1 ELSE 0
             a == [area EXCEPT !.lag = lag]
  <1>0. due > 0 /\ due \in 0..ThinkTicks /\ ThinkTicks \in Nat
    BY ConstantsAssumption DEF Tick, Inv, TypeOK
  <1>1. lag \in 0..ThinkTicks /\ (area.capturing /\ round = "open" => lag + due' <= ThinkTicks)
    BY <1>0 DEF Tick, Inv, TypeOK, AreaType
  <1> HIDE DEF lag
  <1>2. a \in AreaType BY ZenonT(60), <1>1 DEF AreaType, Inv, TypeOK
  <1>3. Keeps(area, a) /\ InRange(a) /\ a.capturing = area.capturing /\ a.lag = lag
    BY <1>2
    DEF Inv, TypeOK, AreaType, InRange, Keeps, ShownAsIs, OneOwner, Seen, Told, Known, Once
  <1>4. area' = AreaTouch(a, players) BY DEF Tick, lag
  <1> HIDE DEF a
  <1>5. Keeps(a, area') /\ area'.capturing = a.capturing /\ area'.lag = a.lag
    BY <1>2, <1>3, <1>4, AreaTouchKeeps
  <1>6. Keeps(area, area') BY <1>3, <1>5, KeepsTwice
  <1>7. due' \in 0..ThinkTicks BY <1>0 DEF Tick
  <1> QED BY <1>1, <1>3, <1>5, <1>6, <1>7, SameRound DEF Tick, Inv, TypeOK, PlayersType

\* The think that is due.
LEMMA ThinkInv == ASSUME Inv, Think PROVE Inv' /\ Kept
  <1>1. PICK credited \in CreditFor(area, players), overtime \in BOOLEAN :
          area' = CaptureThink(area, players, credited, overtime)
    BY DEF Think
  <1>2. credited \in Players \cup {Nobody} BY CreditForType
  <1>3. area \in AreaType /\ InRange(area) /\ round \in {"open", "over", "elsewhere"}
    BY DEF Inv, TypeOK
  <1>4. Keeps(area, area') /\ (round # "open" /\ ~area.capturing => ~area'.capturing)
    BY <1>1, <1>2, <1>3, ThinkKeeps
  <1>5. round = "open" /\ area'.capturing => area'.lag = 0
    BY <1>1, <1>2, <1>3, OpenThinkKeeps
  <1>6. due' = ThinkTicks /\ due' \in 0..ThinkTicks BY ConstantsAssumption DEF Think
  <1> QED
    BY <1>4, <1>5, <1>6, SameRound, ConstantsAssumption
    DEF Think, Inv, TypeOK, PlayersType

\* The think of a player who walks in.
LEMMA StartTouchInv == ASSUME Inv, NEW p \in Players, StartTouch(p) PROVE Inv' /\ Kept
  <1>1. PICK credited \in CreditFor(area, players'), overtime \in BOOLEAN :
          area' = AreaTouch(CaptureThink(area, players', credited, overtime), players')
    BY DEF StartTouch
  <1> DEFINE a == CaptureThink(area, players', credited, overtime)
  <1>2. credited \in Players \cup {Nobody} BY CreditForType
  <1>3. area \in AreaType /\ InRange(area) /\ round \in {"open", "over", "elsewhere"}
    BY DEF Inv, TypeOK
  <1>4. Keeps(area, a) /\ (round # "open" /\ ~area.capturing => ~a.capturing)
    BY <1>2, <1>3, ThinkKeeps
  <1>5. round = "open" /\ a.capturing => a.lag = 0
    BY <1>2, <1>3, OpenThinkKeeps
  <1>6. area' = AreaTouch(a, players') BY <1>1
  <1> HIDE DEF a
  <1>7. Keeps(a, area') /\ area'.capturing = a.capturing /\ area'.lag = a.lag
    BY <1>4, <1>6, AreaTouchKeeps DEF Keeps
  <1>8. Keeps(area, area') BY <1>4, <1>7, KeepsTwice
  <1>9. due' = ThinkTicks /\ due' \in 0..ThinkTicks BY ConstantsAssumption DEF StartTouch
  <1>10. players' \in PlayersType BY DEF StartTouch, Inv, TypeOK, PlayersType
  <1> QED
    BY <1>4, <1>5, <1>7, <1>8, <1>9, <1>10, SameRound, ConstantsAssumption
    DEF StartTouch, Inv, TypeOK

\* Steps that do not concern the area.
LEMMA SameAreaInv ==
  ASSUME Inv, UNCHANGED <<area, round, due>>, may' \in SUBSET Teams,
         players' \in PlayersType
  PROVE  Inv' /\ Kept
  <1>1. Keeps(area, area') BY DEF Keeps, Inv, TypeOK
  <1> QED BY <1>1, SameRound DEF Inv, TypeOK

\* The map's input.
LEMMA SetTeamCanCapInv ==
  ASSUME Inv, NEW teams \in MapAllows, SetTeamCanCap(teams) PROVE Inv' /\ Kept
  <1>1. teams \in SUBSET Teams BY ConstantsAssumption
  <1>2. area' = [area EXCEPT !.canCap = teams] BY DEF SetTeamCanCap
  <1>3. area' \in AreaType BY ZenonT(60), <1>1, <1>2 DEF AreaType, Inv, TypeOK
  <1>4. Keeps(area, area') /\ area'.capturing = area.capturing /\ area'.lag = area.lag
    BY <1>2, <1>3
    DEF Inv, TypeOK, AreaType, InRange, Keeps, ShownAsIs, OneOwner, Seen, Told, Known, Once
  <1> QED BY <1>4, SameRound DEF SetTeamCanCap, Inv, TypeOK, PlayersType

\* A kill is credited at most.
LEMMA DiesInv ==
  ASSUME Inv, NEW p \in Players, NEW killer \in Killers \cup {Nobody}, Dies(p, killer)
  PROVE  Inv' /\ Kept
  <1> DEFINE kill == [area EXCEPT !.killers = @ \cup {killer}]
  <1>1. area' = area \/ (killer \in Players /\ area' = kill)
    <2>1. area' = area \/ (killer # Nobody /\ area' = kill)
      BY DEF Dies, CheckIfDeathCausesBlock
    <2> QED BY <2>1, ConstantsAssumption
  <1>2. killer \in Players => kill \in AreaType
    <2>1. killer \in Players => area.killers \cup {killer} \in SUBSET Players
      BY DEF Inv, TypeOK, AreaType
    <2> QED BY ZenonT(60), <2>1 DEF AreaType, Inv, TypeOK
  <1>3. Keeps(area, area) BY DEF Keeps, Inv, TypeOK
  <1>4. killer \in Players =>
          Keeps(area, kill) /\ kill.capturing = area.capturing /\ kill.lag = area.lag
    BY <1>2
    DEF Inv, TypeOK, AreaType, InRange, Keeps, ShownAsIs, OneOwner, Seen, Told, Known, Once
  <1>5. players' \in PlayersType BY DEF Dies, Inv, TypeOK, PlayersType
  <1> HIDE DEF kill
  <1>6. Keeps(area, area') /\ area'.capturing = area.capturing /\ area'.lag = area.lag
    BY <1>1, <1>3, <1>4
  <1> QED BY <1>5, <1>6, SameRound DEF Dies, Inv, TypeOK

\* The point is given an owner: the resource learns of it and shows no capture.
LEMMA SetPointOwnerInv ==
  ASSUME Inv, NEW t \in Owners, area' = SetPointOwner(area, t), UNCHANGED <<players, may, due>>,
         round' \in {round, "over"}
  PROVE  Inv'
  <1>1. area' \in AreaType BY SetPointOwnerType DEF Inv, TypeOK
  <1>2. /\ area'.cpCapping = NoTeam /\ area'.pointOwner = t /\ area'.cpOwner = t
        /\ area'.capturing = area.capturing /\ area'.capTeam = area.capTeam
        /\ area'.left = area.left /\ area'.lag = area.lag /\ area'.blockers = area.blockers
        /\ area'.credits = area.credits /\ area'.cpNum = area.cpNum
        /\ area'.touching = area.touching
    BY DEF SetPointOwner, Inv, TypeOK, AreaType
  <1>3. TypeOK' BY <1>1 DEF Inv, TypeOK
  <1>4. InRange(area') /\ Once(area') /\ Seen(area') /\ Known(area')
    BY <1>2 DEF Inv, InRange, Once, Seen, Known
  <1>5. round' = "open" => round = "open" /\ Told(area')
    BY <1>2 DEF Inv, Told
  <1> QED BY <1>2, <1>3, <1>4, <1>5 DEF Inv, InRange, Once, Seen, Told, Known

\* The end of a round, which may leave a capture under way for the next think.
LEMMA RoundEndsInv ==
  ASSUME Inv, NEW forced \in MapGives \cup {NoTeam}, RoundEnds(forced)
  PROVE  Inv' /\ (Kept \/ forced \in MapGives)
  <1>1. forced \in Owners BY OwnersType, ConstantsAssumption DEF Owners
  <1>2. CASE forced = NoTeam
    <2>1. area' = area /\ round' = "over" /\ UNCHANGED <<players, may, due>>
      BY <1>2 DEF RoundEnds
    <2>2. Kept BY <2>1 DEF Kept
    <2> QED BY <2>1, <2>2 DEF Inv, TypeOK, InRange, Once, Seen, Told, Known
  <1>3. CASE forced # NoTeam
    BY <1>1, <1>3, SetPointOwnerInv DEF RoundEnds
  <1> QED BY <1>2, <1>3

\* Nobody is counted among players who are all outside.
LEMMA NobodyOutside ==
  ASSUME NEW a \in AreaType, ~a.capturing, a.cpNum = [t \in Teams |-> 0]
  PROVE  Told(CountPlayers(a, Outside))
  <1> DEFINE none == [t \in Teams |-> 0]
             n == [t \in Teams |-> Weight(Cappers(Outside, t))]
  <1>1. ASSUME NEW t \in Teams PROVE Weight(Cappers(Outside, t)) = 0
    <2>1. Cappers(Outside, t) = {} BY DEF Cappers, With, Outside
    <2>2. {} \in SUBSET Players OBVIOUS
    <2> QED BY <2>1, <2>2, WeightZero
  <1>2. n = none BY <1>1
  <1> HIDE DEF n, none
  <1>3. CountPlayers(a, Outside) =
          [a EXCEPT !.touching = n, !.counted = n,
                    !.cpNum = IF n # a.touching THEN n ELSE a.cpNum]
    BY Zenon DEF CountPlayers, n
  <1>4. a.cpNum = none BY DEF none
  <1> QED BY <1>2, <1>3, <1>4 DEF Told, AreaType

\* A new round, with the map cleaned or not.
LEMMA NewRoundInv ==
  ASSUME Inv, NEW cleaned \in BOOLEAN, NEW here \in BOOLEAN, NEW owner \in Owners,
         NewRound(cleaned, owner, here)
  PROVE  Inv' /\ Kept
  <1> DEFINE none == [t \in Teams |-> 0]
             a == IF cleaned THEN FreshArea(owner)
                  ELSE IF owner = NoTeam THEN area ELSE ForceOwner(area, owner)
             b == [a EXCEPT !.cpCapping = NoTeam, !.cpNum = none]
             c == CountPlayers(b, Outside)
  <1>1. area' = IF here THEN c ELSE b BY DEF NewRound
  <1>2. none \in [Teams -> Nat] OBVIOUS
  <1>3. /\ a \in AreaType /\ ~a.capturing /\ Once(a) /\ Known(a)
        /\ (OneOwner(area) => OneOwner(a))
    <2>1. CASE cleaned
      BY <2>1, OwnersType, ConstantsAssumption
      DEF FreshArea, AreaType, Once, Known, OneOwner
    <2>2. CASE ~cleaned /\ owner = NoTeam
      BY <2>2 DEF NewRound, Inv, TypeOK
    <2>3. CASE ~cleaned /\ owner # NoTeam
      BY <2>3, ForceOwnerKeeps DEF Inv, TypeOK, Keeps
    <2> QED BY <2>1, <2>2, <2>3
  <1> HIDE DEF none, a
  <1>4. b \in AreaType BY ZenonT(60), <1>2, <1>3, OwnersType DEF AreaType
  <1>5. /\ ~b.capturing /\ Once(b) /\ ShownAsIs(b) /\ Seen(b) /\ Known(b)
        /\ (OneOwner(area) => OneOwner(b)) /\ b.cpNum = none
    BY <1>3 DEF AreaType, Once, ShownAsIs, Seen, Known, OneOwner
  <1> HIDE DEF b
  <1>6. InRange(b) BY <1>5 DEF InRange
  <1>7. Keeps(b, c) /\ c = [b EXCEPT !.touching = c.touching, !.counted = c.counted,
                                     !.cpNum = c.cpNum]
    BY <1>4, <1>6, CountPlayersKeeps
  <1>8. Told(c) BY <1>4, <1>5, NobodyOutside DEF none
  <1> HIDE DEF c
  <1>9. /\ c \in AreaType /\ ~c.capturing /\ Once(c) /\ ShownAsIs(c) /\ Seen(c) /\ Known(c)
        /\ (OneOwner(area) => OneOwner(c))
    BY <1>4, <1>5, <1>7 DEF Keeps, AreaType
  <1>10. /\ area' \in AreaType /\ ~area'.capturing /\ Once(area') /\ ShownAsIs(area')
         /\ Seen(area') /\ Known(area') /\ (OneOwner(area) => OneOwner(area'))
         /\ (here => Told(area'))
    BY <1>1, <1>4, <1>5, <1>8, <1>9
  <1>11. Outside \in PlayersType BY DEF Outside, PlayersType
  <1>12. TypeOK'
    BY <1>10, <1>11, ConstantsAssumption DEF NewRound, Inv, TypeOK, PlayersType
  <1>13. round' = "open" => here BY DEF NewRound
  <1> QED BY <1>10, <1>12, <1>13 DEF Inv, Kept, InRange, Once, Seen, Told, Known

\* The invariant is inductive, and only the map and the master give the point an
\* owner behind the area's back.
LEMMA NextInv == Inv /\ [Next]_vars => Inv' /\ (Kept \/ Given)
  <1> SUFFICES ASSUME Inv, [Next]_vars PROVE Inv' /\ (Kept \/ Given) OBVIOUS
  <1> DEFINE Good == Inv' /\ (Kept \/ Given)
  <1>1. CASE Tick BY <1>1, TickInv
  <1>2. CASE Think BY <1>2, ThinkInv
  <1>3. ASSUME NEW p \in Players, StartTouch(p) PROVE Good BY <1>3, StartTouchInv
  <1>4. ASSUME NEW p \in Players, EndTouch(p) PROVE Good
    BY <1>4, SameAreaInv DEF EndTouch, Inv, TypeOK, PlayersType
  <1>5. ASSUME NEW p \in Players, NEW cond \in Conditions[p], Becomes(p, cond) PROVE Good
    <2>1. cond \in {"cap", "block", "hidden", "dead"} BY ConstantsAssumption
    <2>2. players' \in PlayersType BY <1>5, <2>1 DEF Becomes, Inv, TypeOK, PlayersType
    <2> QED BY <1>5, <2>2, SameAreaInv DEF Becomes, Inv, TypeOK
  <1>6. ASSUME NEW p \in Players, NEW killer \in Killers \cup {Nobody}, Dies(p, killer)
        PROVE Good
    BY <1>6, DiesInv
  <1>7. ASSUME NEW teams \in MayCapture, OthersChange(teams) PROVE Good
    BY <1>7, SameAreaInv, ConstantsAssumption DEF OthersChange, Inv, TypeOK, PlayersType
  <1>8. ASSUME NEW teams \in MapAllows, SetTeamCanCap(teams) PROVE Good
    BY <1>8, SetTeamCanCapInv
  <1>9. ASSUME NEW t \in MapGives, InputSetOwner(t) PROVE Good
    <2>1. Given BY <1>9 DEF Given
    <2>2. t \in Owners BY ConstantsAssumption DEF Owners
    <2> QED BY <1>9, <2>1, <2>2, SetPointOwnerInv DEF InputSetOwner
  <1>10. ASSUME NEW forced \in MapGives \cup {NoTeam}, RoundEnds(forced) PROVE Good
    <2>1. forced \in MapGives => Given BY <1>10 DEF Given
    <2> QED BY <1>10, <2>1, RoundEndsInv
  <1>11. ASSUME NEW cleaned \in BOOLEAN, NEW here \in BOOLEAN, NEW owner \in Owners,
                NewRound(cleaned, owner, here)
         PROVE Good
    BY <1>11, NewRoundInv
  <1>12. CASE UNCHANGED vars BY <1>12, SameAreaInv DEF vars, Inv, TypeOK, PlayersType
  <1> HIDE DEF Good
  <1>13. Good
    BY <1>1, <1>2, <1>3, <1>4, <1>5, <1>6, <1>7, <1>8, <1>9, <1>10, <1>11, <1>12
    DEF Next, Good
  <1> QED BY <1>13 DEF Good

-----------------------------------------------------------------------------
(* Theorems                                                                *)

\* In every behaviour the invariant holds.
THEOREM Invariance == Spec => []Inv
  BY InitInv, NextInv, PTL DEF Spec

\* The variables, and the fields of the area, keep their types; in particular the
\* counts stay within what the rates are defined for (CaptureThink,
\* trigger_area_capture.cpp).
THEOREM TypeCorrect == Spec => []TypeOK
  <1>1. Inv => TypeOK BY DEF Inv
  <1> QED BY <1>1, Invariance, PTL

\* The objective resource never shows a capture that there is not: starting, breaking
\* and ending one, every change of the owner and every reset of the resource see to it.
\* It loses sight of one only where the map or the master gives the point an owner.
THEOREM CappingTeamCorrect == Spec => CappingTeamShown
  <1>1. Inv /\ Inv' /\ [Next]_vars =>
          [/\ area'.cpCapping \in {NoTeam} \cup (IF area'.capturing THEN {area'.capTeam} ELSE {})
           /\ ShownAsIs(area) => ShownAsIs(area') \/ Given]_vars
    BY NextInv DEF Inv, Seen, Kept
  <1> QED BY <1>1, Invariance, PTL DEF Spec, CappingTeamShown

\* Point and resource agree on the owner, whatever order captures, inputs and rounds
\* come in, and the area agrees with them until the map or the master gives the point
\* an owner without it.
THEOREM OwnersCorrect == Spec => OwnersAgree
  <1>1. Inv /\ Inv' /\ [Next]_vars =>
          [/\ area'.pointOwner = area'.cpOwner
           /\ OneOwner(area) => OneOwner(area') \/ Given]_vars
    BY NextInv DEF Inv, Known, Kept
  <1> QED BY <1>1, Invariance, PTL DEF Spec, OwnersAgree

\* While points may be captured the numbers of players that the clients are shown
\* are those the area counts.
THEOREM NumPlayersCorrect == Spec => []NumPlayersShown
  <1>1. Inv => NumPlayersShown BY DEF Inv, Told, NumPlayersShown
  <1> QED BY <1>1, Invariance, PTL

\* A capture under way has some time left, and no more than it takes in all.
THEOREM ProgressCorrect == Spec => []ProgressInRange
  <1>1. Inv => ProgressInRange BY DEF Inv, InRange, ProgressInRange
  <1> QED BY <1>1, Invariance, PTL

\* Nobody gets the points for standing in the way of a capture twice before the point
\* is captured (CaptureThink, trigger_area_capture.cpp; those for a kill come on top).
THEOREM BlocksCreditedOnce == Spec => []CreditedOnce
  <1>1. Inv => CreditedOnce BY DEF Inv, Once, CreditedOnce
  <1> QED BY <1>1, Invariance, PTL

-----------------------------------------------------------------------------
(* What a step may do                                                      *)

\* Nobody contests the point for the team t among the players ps.
Uncontested(ps, t) ==
  /\ Cappers(ps, t) # {}
  /\ \A u \in Teams \ {t} : Cappers(ps, u) = {} /\ Blockables(ps, u) = {}

\* A think that takes the point from its owner found it uncontested.
LEMMA TakenUncontested ==
  ASSUME NEW a \in AreaType, InRange(a), round = "open", NEW ps,
         NEW p \in Players \cup {Nobody}, NEW overtime \in BOOLEAN, a.capturing,
         CaptureThink(a, ps, p, overtime).pointOwner # a.pointOwner
  PROVE  Uncontested(ps, a.capTeam)
  <1> DEFINE n == [t \in Teams |-> Weight(Cappers(ps, t))]
  <1>1. ~(TeamsInZone(ps, n) > 1) /\ TeamInZone(n) = a.capTeam BY OpenThinkKeeps
  <1>2. a.capTeam \in Teams BY DEF InRange
  <1>3. \A t \in Teams : Cappers(ps, t) \in SUBSET Players BY DEF Cappers, With
  <1>4. n \in [Teams -> Nat] BY <1>3, WeightZero
  <1>5. \A t \in Teams : n[t] = Weight(Cappers(ps, t)) OBVIOUS
  <1> HIDE DEF n
  <1>6. n[a.capTeam] > 0 /\ \A u \in Teams \ {a.capTeam} : n[u] = 0 /\ Blockables(ps, u) = {}
    BY <1>1, <1>2, <1>4, ZoneUncontested
  <1>7. \A t \in Teams : n[t] > 0 <=> Cappers(ps, t) # {} BY <1>3, <1>5, WeightZero
  <1> QED BY <1>2, <1>6, <1>7 DEF Uncontested

\* Only a think that takes the point completes a capture.
LEMMA CompletesUncontested ==
  ASSUME Inv, [Next]_vars, Completes
  PROVE  Uncontested(players', area.capTeam)
  <1>0. /\ area \in AreaType /\ InRange(area) /\ area.capturing /\ ~area'.capturing
        /\ round' = "open" /\ area'.pointOwner # area.pointOwner
    BY DEF Inv, TypeOK, Completes
  <1>1. CASE Tick
    <2> DEFINE a == [area EXCEPT !.lag = IF area.capturing /\ round = "open"
                                         THEN area.lag + 1 ELSE 0]
    <2>1. a.pointOwner = area.pointOwner BY <1>0 DEF AreaType
    <2>2. area'.pointOwner = area.pointOwner
      BY <1>0, <1>1, <2>1 DEF Tick, AreaTouch, AreaType
    <2> QED BY <1>0, <2>2
  <1>2. CASE Think
    <2>1. PICK credited \in CreditFor(area, players), overtime \in BOOLEAN :
            area' = CaptureThink(area, players, credited, overtime)
      BY <1>2 DEF Think
    <2>2. credited \in Players \cup {Nobody} BY CreditForType
    <2>3. round = "open" /\ players' = players BY <1>0, <1>2 DEF Think
    <2> QED BY <1>0, <2>1, <2>2, <2>3, TakenUncontested
  <1>3. ASSUME NEW p \in Players, StartTouch(p) PROVE Uncontested(players', area.capTeam)
    <2>1. PICK credited \in CreditFor(area, players'), overtime \in BOOLEAN :
            area' = AreaTouch(CaptureThink(area, players', credited, overtime), players')
      BY <1>3 DEF StartTouch
    <2> DEFINE a == CaptureThink(area, players', credited, overtime)
    <2>2. credited \in Players \cup {Nobody} BY CreditForType
    <2>3. round = "open" BY <1>0, <1>3 DEF StartTouch
    <2>4. a \in AreaType /\ InRange(a) BY <1>0, <2>2, <2>3, OpenThinkKeeps DEF Keeps
    <2>5. a.pointOwner # area.pointOwner BY <1>0, <2>1, <2>4, AreaTouchKeeps
    <2> QED BY <1>0, <2>2, <2>3, <2>5, TakenUncontested
  <1>4. ASSUME area'.capturing = area.capturing PROVE Uncontested(players', area.capTeam)
    BY <1>0, <1>4
  <1>5. ASSUME NEW cleaned, NEW here, NEW owner, NewRound(cleaned, owner, here)
        PROVE Uncontested(players', area.capTeam)
    BY <1>0, <1>5 DEF NewRound
  <1>6. ASSUME NEW forced, RoundEnds(forced) PROVE Uncontested(players', area.capTeam)
    BY <1>0, <1>6 DEF RoundEnds
  <1>7. \A teams : SetTeamCanCap(teams) => area'.capturing = area.capturing
    BY <1>0 DEF SetTeamCanCap, AreaType
  <1>8. \A t : InputSetOwner(t) => area'.capturing = area.capturing
    BY <1>0 DEF InputSetOwner, SetPointOwner, AreaType
  <1>9. \A p, killer : Dies(p, killer) => area'.capturing = area.capturing
    BY <1>0 DEF Dies, CheckIfDeathCausesBlock, AreaType
  <1>10. \/ Tick \/ Think \/ \E p \in Players : StartTouch(p)
         \/ \E teams : SetTeamCanCap(teams)
         \/ \E t : InputSetOwner(t)
         \/ \E p, killer : Dies(p, killer)
         \/ \E cleaned, here, owner : NewRound(cleaned, owner, here)
         \/ \E forced : RoundEnds(forced) \/ UNCHANGED area
    BY DEF Next, vars, EndTouch, Becomes, OthersChange
  <1> QED BY <1>1, <1>2, <1>3, <1>4, <1>5, <1>6, <1>7, <1>8, <1>9, <1>10

\* A point changes hands only while a player who may capture it stands on it and no
\* enemy who may capture it or block (CaptureThink, trigger_area_capture.cpp).
THEOREM CapturesUncontested == Spec => CaptureUncontested
  <1>1. Inv /\ [Next]_vars =>
          [Completes => /\ Cappers(players', area.capTeam) # {}
                        /\ \A t \in Teams \ {area.capTeam} :
                             Cappers(players', t) = {} /\ Blockables(players', t) = {}]_vars
    BY CompletesUncontested DEF Uncontested
  <1> QED BY <1>1, Invariance, PTL DEF Spec, CaptureUncontested

=============================================================================

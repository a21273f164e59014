# Verification of the Open Fortress sources

TLA+ models of the parts of this repository whose correctness is a matter of
the order in which things happen, TLC runs that check them on small instances,
and theorems checked by TLAPS. Source references are `path:line` from the
repository's root; `PROJECT.json` maps every definition to the lines it stands
for, lists the runs, the hazards that the properties are aimed at, and the
findings.

## 1. The system

A Source-engine game: a server library (`src/game/server`, `src/game/shared`),
a client library, the tier libraries they are built on (`src/public/tier0`,
`tier1`), tools, and vendored code. The server library is called by the engine
on one thread, once a frame: entities think, touch each other, and send inputs
to each other through the event queue; the operator sets variables and issues
commands between frames. The difficulty of the game logic is therefore not
parallelism but the order of handlers, deadlines that pass in between, and
state that is kept in several places at once. Real threads exist in tier0 and
tier1 only.

| component | state | operations | interacts with | what is hard | what makes it correct |
|---|---|---|---|---|---|
| Round rules `teamplayroundbased_gamerules.cpp`, overrides in `tf/tf_gamerules.cpp` | round state, pending restart, waiting period, three timers, scores, rounds played, reset flags | think of each state, win, stalemate, respawn of a round, the operator's variables, ready signals | control points, map entities, round timers, players, HUD | several ways to win at once; flags set states before they are read; timers removed at the end of a frame | a round counts once; restarts, waiting and stalemates end; timers exist just when needed; the map is cleaned when it must be |
| Capture area `trigger_area_capture.cpp` | capture under way, time left, players of each team, owner | touch, think, start/end/break of a capture, inputs | control point, objective resource, game rules | the owner is held three times, the capturing team and the number of players twice; players change between two thinks | copies agree; captures are uncontested, end, or decay |
| Control point, objective resource | owner, what clients are shown | set/force owner, reset of a round | area, master, clients, round timer | reset and set from several places | as above |
| Control point master, control point round `team_control_point_master.cpp`, `team_control_point_round.cpp` | owners of the points, mini-round played, asked for and played before, what the rules keep from round to round | think, change of an owner, win, choice of a mini-round, inputs | points, round rules | each change of an owner may win; a request outlives the state it was made in; a simulation that loops until it ends | a mini-round that is played can be won; a partial win is kept |
| Round timer `teamplay_round_timer.cpp` | setup or round, paused, end time, maximum, messages armed, in the HUD or not | think, pause, resume, add and set time, enable, disable, show, start of a round | map, HUD, round rules, captures | one object for setup and round; pause by map and by win; overtime; one HUD for many timers | the end is announced; no more time than the maximum; one timer in the HUD |
| Capture flag `tf/entity_capture_flag.cpp`, with the player's item `tf/tf_item.cpp` and `func_capture_zone.cpp` | home, stolen, dropped; touchable, thinking, captured, return time; what each player carries | touch, drop, return, capture, enable, disable, start of a round | players, zones, round rules | death, return, capture, pick-up and the end of a round in any order; think and touch are switched off and on | one carrier; a flag comes back |
| Train watcher, vote controller, buildings, player conditions | progress, votes, construction, timed conditions | thinks and inputs | round timer, players | timers against events | to be stated with their models |
| Entity I/O event queue | delayed inputs, ordered by time | add, service, cancel | every entity | inputs fired while servicing | delivered once, in order |
| Lock-free queue and list `public/tier0/tslist.h` | linked nodes, head and tail with sequence numbers | push, pop | thread pool, call queue | every access to memory interleaves; nodes are used again | FIFO, nothing lost, no thread waits for another |
| Locks `tier0/threadtools.h` | owner, depth, readers | lock, try, unlock | all threads | upgrade, recursion, a reader against a writer | exclusion, no lost wake-up |
| Thread pool, call queue | jobs and functors | queue, execute, wait | threads | the pool's implementation is not in the repository | each job once |
| Client, materials, vgui, engine interfaces, map compilers, third-party code | | | | rendering, geometry, vendored | not a subject here |

## 2. Modules

| module | models | |
|---|---|---|
| `RoundRules` | the round state machine and everything that changes it | |
| `RoundRulesLive` | `RoundRules` with fairness, and what eventually happens | EXTENDS `RoundRules` |
| `CaptureArea` | a capture area with its control point and its entry in the objective resource | |
| `RoundTimer` | the round timers of a map, the HUD they share, and what the round rules do to them | |
| `ControlPoints` | the points of a map played in mini-rounds: owners, wins, choice of the next mini-round | |
| `CaptureFlag` | the flags of a map, the players who carry them, capture zones | |
| `TSQueue` | `CTSQueue`, one access to shared memory a step | implements `FifoQueue` |
| `FifoQueue` | abstract: what a queue promises to threads | |
| `RoundRules_proofs`, `CaptureArea_proofs`, `RoundTimer_proofs`, `ControlPoints_proofs`, `CaptureFlag_proofs`, `TSQueue_proofs` | the theorems, each module EXTENDS its component's | |
| `RoundRulesPlay_proofs` | more about `RoundRules`: the HUD, the limit of rounds, the cleaning of the map | EXTENDS `RoundRules_proofs` |
| `TSQueueFifo_proofs` | the refinement of `FifoQueue` | EXTENDS `TSQueue_proofs` |
| `MC*` and their `.cfg` | instances for TLC | |

Definitions named `Operation_Fault` and commented "Faulty" are mutated forms of
`Operation`. No specification uses them; they show that a property would notice
the fault.

### RoundRules

`rules` is the record of the members of `CTeamplayRoundBasedRules`, of the
timers it owns and of those facts of the world it changes. A handler of the code
is an operator from record to record with the name of the C++ function, composed
in the order of the code's calls, so that an action performs all that its
handler does. `Think(c)` is one frame; `c` holds what the frame finds: whether
the periodic checks are due, the facts of `Facts` (`timerMayExpire`, a next
level, mini-rounds left, ...), the teams whose respawn wave is due, and the
team, if any, that has captured enough flags. The other actions are inputs of
the map (`MapRoundWin`, `MapStalemate`, `PointsWin`, `MapIntermission`),
deadlines (`Elapse...`), the operator (`Request`), players (`ReadySignal`,
`TeamBecomes`) and the change of level.

A deadline is off, pending or passed. `UTIL_Remove` marks an entity, handles to
it stay valid until the end of the frame: a timer is `none`, `live` or `dying`,
and a think begins by sweeping the dying ones away.

Abstracted: the players of a team are nobody, all dead or one alive; which of
several surviving teams is "the last" is any; balancing and scrambling of teams
are the environment's; players on a team count as ready; the flag captures are a
choice. Left out: commentary mode, bug reports, maps that score per capture (`ShouldScorePerRound` false), the
extra warnings and sounds. `mp_timelimit`, if set, is more than five minutes.
`world`, `fullWin`, `counted`, `nested` are history, read by properties only:
`fullWin` is forgotten when `mp_restartround` is taken up after the win, and `nested` says that
the assertion of `HideActiveTimer` failed, and not for a waiting period in a stalemate.
`PlayAllRounds` is the master's `play_all_rounds`, without which the level may change after
any round.

### CaptureArea

`area` holds the fields of the area, the point's owner and the resource's entry;
`players` whether a player is in the area and whether he may capture, may only
block (invulnerable), neither (cloaked, disguised) or is dead; `round` whether
points may be captured. `Tick` is a frame, with its `AreaTouch`; `Think` is due
after `ThinkTicks` ticks; `StartTouch` makes the area think at once, as the code
does. `NewRound` covers both kinds: with cleaned map everything is new, in a
mini-round the area keeps what it had.

Abstracted: time is in ticks, rates are scaled integers; the order in which
players touched the area is any (who gets the credit for a block). The displays
of who is in the zone, sounds and outputs are left out, and so is a disabled
trigger. A capture that wins the round is followed by `RoundEnds` as a step of
its own. `NewRound` needs the area's think to have found the round over: with
`mp_enableroundwaittime 0` a capture can survive a restart, which the model
excludes. Multiple cappers are not simulated (`mp_simulatemultiplecappers 1`),
and the area has a point.

The point gets an owner without the area by its input `SetOwner` (`InputSetOwner`), which may
come in the middle of a capture, and by the master's `SetWinnerAndForceCaps`
(`RoundEnds(forced)`); `MapGives` are the owners so given. `Dies` is a kill with
`CheckIfDeathCausesBlock`, which gives the killer of the last capturing player points,
on the numbers of the last think (`counted`) and without the list of blockers. `credits` counts
the points for standing in the way, `killers` names who got some for a kill; both are history.

### RoundTimer

`round` holds the timers, the handle of the one in the HUD
(`m_iTimerToShowInHUD`), the one that was hidden, and the members of the rules
that timers read or write. In the code the timer of a waiting period or a
stalemate is another `team_round_timer`, made by the rules: here it is `Temp`,
the last in the list of entities. Time is in ticks, `TicksPerSecond` to a second,
as some of the code's arithmetic truncates to whole seconds. A paused timer's
`m_flTimeRemaining` and a running one's end time are one field, `left`, which goes
below 0 when a timer runs on without being stopped. In a frame the timers that are
due think, in the order of the list, before anything else happens (`NoneDue`). The
handlers are again operators with the code's names, `SetActiveTimer`,
`AddTimerSeconds`, `RoundTimerThink`, ... The warnings are a set of times, of
which those in `armed` are still to be given.

`RoundRules` has the life of the waiting and the stalemate timer; here is what
they do to the map's timers. Left out: `AutoCountdown` and the client's half, which
choose sounds and draw; commentary mode; what the outputs are connected to.
The map's inputs may take time away (`AddTime` and the others ask only for a number that
is not 0, `teamplay_round_timer.cpp:1086`), even below 0, and so set a negative maximum. A stalemate
is begun with neither a waiting period nor a timer of the rules, as there is one `Temp`; how
the two overlap is `RoundRules`' subject. `owed` is history: time was put on the timer, not
taken away again, and its end is not announced yet.

### ControlPoints

`match` holds the owners, the mini-round that is played, asked for
(`m_iszRoundToPlayNext`) and those played before, and the members of the rules
that pass from a round to the next. Where the code picks at random, an operator
gives the set of states it may lead to (`GetControlPointRoundToPlay`,
`MakePlayable`). A change of an owner includes the check of the win it may bring,
as `InternalSetOwner` calls it. Who captures a point is `CaptureArea`'s subject:
here a point that can be capped may be captured by any team that has an area for it. The states
of the round are reduced to before, running and won: `RoundRules` has the rest.
`mp_restartround` may be asked for at any time and a waiting period cancelled
whatever it asked for; `kept` is history: the operator had the map kept after a full win.
Left out: a stalemate as the master's input (it is in `RoundRules`), maps without
mini-rounds, `Enable` and `Disable` of the master, all players leaving.
`CTeamControlPoint::InputReset` is not registered as an input
(`src/game/server/team_control_point.cpp:41`) and cannot be called.

### CaptureFlag

`match` holds the flags, what each player carries, who lives, and whether the round is
won. A tick is `TF_FLAG_THINK_TIME`. The touch function of a flag is
on or off, its think off, set or due. `Think`, `Drop`, `Capture` and `RoundRespawn`
are the handlers; `Drop` is taken for a set of players, as the losers drop all they
carry and a new round respawns all. Players are touched by a flag only if the code
does not turn them away (no respawn room, no teleporter, not invulnerable, not
waiting for players); where they walk is any. Left out: the neutral stage of
invade mode, territory control, the count of captures (a choice in `RoundRules`),
the return icon. The code does not look whether a player who touches a flag carries
another, so `ConstantsAssumption` lets a team take one flag only.

### TSQueue and FifoQueue

A thread has a program counter and the locals of `Push` or `Pop`; each action is
one read, write or compare-and-exchange of shared memory, named for what it
does. Memory that only one thread can reach is written with the step that makes
it so. The memory is sequentially consistent: the exchanges are full barriers,
and the reads of `Pop` go through volatile pointers; the two reads in `Push` do
not, so `ReadTail` makes them in either order. The free list is a stack whose
operations are one step (it is a `CTSListBase`, not modelled). `recycle` tells
which interface is used, fixed at the start: "Dont mix Push/PushItem"
(`src/public/tier0/tslist.h:601`). With `Push`/`Pop` a node is never used again
within the run, which is what the comment there demands of the caller. `Purge`,
`RemoveAll` and `ValidateQueue` are for a single thread and are left out.
Sequence numbers do not wrap.

`FifoQueue` has the items, the threads that ask for one, and those of them for
which the queue was empty at some moment: only these may be told that it is
empty. In the refinement `queue` is the items of the nodes behind the dummy, a
push takes effect when its node is linked, a pop when it moves the head.

## 3. Runs

Passing runs (distinct states):

| run | instance | shows |
|---|---|---|
| `rounds_play` (440 000) | two teams, points, two rounds, `MaxInputs` 3, one `mp_restartgame`, `mp_restartround` or ready restart, frag limit | `TypeOK`, `MaxRoundsRespected`, `FullWinCleansMap`; restarts, waiting and ready restarts come to an end |
| `rounds_stalemate` (90 000) | time limit, stalemates, flags, win limit | `StalemateTimerTracksState`, `RoundTimerShown`, `RoundCountedOnce`; stalemates end, a draw at the time limit ends the game |
| `rounds_operator` (760 000) | mini-rounds, stalemates that may overlap waiting, `mp_restartround`, `mp_waitingforplayers_restart`, `_cancel`, `mp_switchteams`, next level | `WaitingTimerTracksWaiting`, `OneTimerHidden`, `WaitingLeavesNoTrace` |
| `area_capture` (550 000) | scout (counts twice, kills) of team 2, spy of team 3, to whom the map gives the point; a capture takes two ticks of one, one of two; decay 1 | copies agree but for a point that is given away, progress in range, credit once, captures uncontested; a lone capper wins, an abandoned capture ends |
| `timers` (240 000) | one timer with setup, reset at a round's start and a maximum, one that starts paused, the rules' timer; two ticks a second, time added and taken away, `MaxEvents` 3 | `TypeOK`, `OneTimerShown`, `NeverAboveMaximum`; the end of a timer that was given time and runs is announced (`EndAnnounced`) |
| `mini_rounds` (158 000) | four points in a chain, two of each team, five mini-rounds, `MaxInputs` 4 | `TypeOK`, `WinnableRound`, `RoundsRemainingFinite`, `PartialWinKept` |
| `flags` (24 000) | a flag two enemies may steal, an attack/defend flag that starts disabled, three players | `FlagHeld`; a flag that nobody carries comes back (`FlagComesBack`) |
| `queue` (160 000) | two threads, three items, both interfaces | refinement of `FifoQueue`, nothing lost, nodes apart, tail in the queue, lock freedom |

Runs that find the code at odds with what it says:

| run | finding |
|---|---|
| `rounds_dying_timer` | a stalemate asked for in the frame in which one ended has no timer (`src/game/shared/teamplayroundbased_gamerules.cpp:1324` finds the removed one) |
| `rounds_last_mini_round` | a stalemate won in the last mini-round counts as two rounds (`:1288`), as `InputSetWinnerAndForceCaps` wins twice |
| `area_forced_owner` | that input, and the input `SetOwner` of the point, change the point's owner without telling the area, whose owner stays stale until a player there is touched; the owning team starts a capture of its own point |
| `queue_items_empty` | with `PushItem`/`PopItem` an item may be linked to a recycled node that is not in the queue: until that node is linked, `PopItem` answers "empty" |

What the passing runs leave out because the code fails there, by named constants:
`SameFrameStalemate = FALSE` (a stalemate in the frame in which one ended); no `"rounds"` master with
stalemates in the run that checks `RoundCountedOnce`; no waiting period in the run that
checks `RoundTimerShown`, so that none overlaps a stalemate, in which case the map's timer is lost;
`BusyInputs = FALSE`, no `Enable` or `Disable` of a flag that is held. In `TSQueue` the refinement is
stated for `Push`/`Pop` and the other properties for both interfaces.

What they have, and the properties excuse by name: a waiting period in a stalemate
(`OneTimerHidden`), `mp_restartround` after a full win (`FullWinCleansMap`, `WinnableRound`), the
point switched for a round that a cancelled wait asked for (`PartialWinKept`), a point given away over
the area's head (`CappingTeamShown`, `OwnersAgree`), points for kills (`CreditedOnce`), time
taken away (`EndAnnounced`), a flag carried by the dead or a spectator (`FlagHeld`). Each says that
nothing *else* brings the bad state about; what the code does in the case itself is told below.

Bounds and why they are enough. `MaxRounds` 2: a round after a counted round,
and the limit reached. `MaxInputs` (wins and stalemates from outside) 3 or fewer:
a win, another in the time after it, and one in the next round. `MaxRequests`
1 or 2: a request and one that overwrites it. Two teams: every condition on
teams is "one", "another", "all". In the area a scout, who counts twice, and a spy, who may come to capture, only block
or neither, give every combination of counts (none, one, several) with a reason for each;
a capture of two ticks is just begun, half done or done, by thinks of one tick (the spy's) or in one
(the scout's), and is turned back or given up on the way; one owner given by the map, the
spy's team, is the owner, the capturing team or the other; a scout who kills meets a
victim that is the last one counted, and a kill of the scout would credit nobody;
one tick a think is enough, as a think looks only at the time since the last.
Of the timers one has all the settings and one none, and both may be shown; three
events are enough to hide a timer, bring another up and win or restart the round, or to add time
in overtime, take it away and lower the maximum, and the thinks and captures in between are free;
a timer that nobody stops is followed two ticks below 0 (`Debt`), past which nothing tells
the times apart. The chain of four points with five mini-rounds has a round that is played first, rounds
that share a point, and rounds that only a switched point makes playable; four inputs
force a win, ask for a restart and wait twice. Two flags of the two kinds and two
thieves of one give a second player for each race. In the queue, three items on two threads let a tail node be popped, recycled
and reused within one push, the shortest history in which sequence numbers
matter, and let the tail lag behind one more push.

Fairness. `RoundRulesLive`: the server keeps running frames, and among them
come infinitely many `QuietFrame`s: with the periodic checks, between respawn
waves, and with no point being captured (the code lets no timer expire during a
capture, so one capture after another may hold up a stalemate for ever); `parity`
alternates with them so that "infinitely many" is a formula about states. Pending
deadlines pass. No fairness is asked of players, operator or map.
`CaptureArea`: time passes and the area thinks. `RoundTimer`: time passes and timers
think; and a timer that thinks infinitely often finds no point being captured infinitely often
(overtime lasts as long as captures do). `CaptureFlag`: time passes, flags think,
and a flag that thinks infinitely often does so infinitely often in a round that is not won, as rounds
go on after a win; nothing is asked of the players. `TSQueue`: `NonBlocking` assumes
of each thread only its own steps, so that it holds with all other threads
stopped anywhere; the scheduler owes no more.

Seen while modelling and not made a run: `ValidateQueue` (debug builds) calls a
queue with a lagging tail corrupt (`tslist.h:780`), while the comment at line 864
explains that a push may leave it so. `HideActiveTimer` asserts that no timer is
hidden yet (`:1368`), which a waiting period that overlaps a stalemate breaks (and nothing
else does, says `OneTimerHidden`); the map's timer is then not given back.
`Assert( pBlockingPlayer )` (`trigger_area_capture.cpp:453`) fails when only
invulnerable players block. Whoever kills a scout that captures alone is not credited: with
`mp_capstyle 1` `CheckIfDeathCausesBlock` wants at most one to have been counted, and a scout counts as two. The point's input `SetOwner` takes an owner in the middle of a capture,
which the area goes on with and the clients are no longer shown, so that
`TimerMayExpire` lets the round's timer end in it. `mp_restartround` in the time after a full win clears
`m_bForceMapReset`, so the map is not cleaned by the round that follows.
A switch asked for with `mp_switchteams` is cancelled by a win in the five
seconds before the restart. A `game_round_win` in the time after a win counts
again. `m_iCapAttemptNumber` grows with
completed captures only. `ResetControlPoints` zeroes the shown number of players
with a mini-round that keeps its areas.

Of the round timer: a timer paused by a win never resumes by itself, as the return for
paused timers (`teamplay_round_timer.cpp:712`) comes before the code meant to do so
(`:722`), and one that starts paused stays so. `ShowInHUD 0` leaves the HUD on the timer just
hidden, as `SetActiveTimer( NULL )` is called while it still wants to be shown
(`:1138`). Time added after the announced end is added to a clock that ran below 0. A
timer not reset at a round's start carries over 0 and its end is then not announced;
`SetTime 0` the same; and time taken away so that none is left disarms the end
of a setup or a round that was still to come (`CalculateOutputMessages`,
`teamplay_round_timer.cpp:377`, called at `:958`), and `OnFinished` is never fired. `SetMaxTime` on a disabled timer leaves its time above the maximum.
The rules' timer, having no setup, clears `InSetup` while the map's timer is in
setup, and a setup goes on after a win. `m_bInOvertime` is cleared by thinks only and
so survives into a round whose timer starts paused, where capture areas and train
watcher read it. `mp_waitingforplayers_cancel` resumes the hidden timer only.

Of the mini-rounds, both in the run: `mp_restartround` in the time after a full
win clears `m_bForceMapReset` (`teamplayroundbased_gamerules.cpp:779`), so that the next round has
no mini-round to play, which the operator is taken to have wanted (`kept`); a waiting period cancelled when its
time is up leaves the round to play next (`:699`), and a later mini-round takes one point from
its owner for it (`SwitchedForRequest`). Not in the run: a mini-round whose points the simulated winner
already has, and that stays playable because he may not win it (`m_iInvalidCapWinner`),
makes `CalcNumRoundsRemaining` loop for ever, and so do points in no
mini-round. On a map without mini-rounds a restart in `TEAM_WIN` lets `CPMThink` win at
once, of which `team_control_point_master.cpp:595` says that "this function should never trigger a win".

Of the flags, with `BusyInputs = TRUE`: `Disable` of a carried flag makes `Drop` and
`Capture` return at once, so that the carrier keeps it through his death and the zone
announces a capture with every touch; `Enable` of a held flag, or between a
capture and the think after it, makes it touchable, and two players carry it
(`FlagHeld` violated). An idle player made a spectator keeps the flag until he respawns. Flags
of territory control have no return time and stay where they were dropped. In
sudden death with `tf_flag_caps_per_round 0` a capture does not win, though the comment at
`entity_capture_flag.cpp:757` calls "whoever capped the flag" the winner.

## 4. Proofs

All are of the form "in every behaviour of `Spec`, for all values of the
constants that satisfy `ConstantsAssumption`". That assumption says what the
constants are (two different teams for the switch, natural limits, finitely many
players with capture values from 1 to `MaxValue`, ...) and nothing about the
code.

`RoundRules_proofs`: `Invariance` (the inductive invariant), `TypeCorrect`,
`WaitingTimerCorrect`, `StalemateTimerCorrect`, `RoundsCountedCorrectly`.
The invariant is the typing of `rules` with three parts: `W`, a live waiting timer
exists only while waiting; `T`, a live stalemate timer exists exactly in a
stalemate (and, unless the map may ask for a stalemate in the frame one ended,
every stalemate has one); `C`, a round that is in progress has not been counted.
`C` is stronger than `RoundCountedOnce`, which is not inductive: a win adds one,
and leaves "at most once" true only if it finds the count at nothing. Between
leaving one state and entering the next `T` gives way to `L`, no live stalemate
timer, which the entries need. The handlers are composed, so each has
a lemma of its own saying what it keeps (`Keeps`) and establishes; the lemma of a
think is put together from these, and the step of each action from the thinks.
`StalemateTimerCorrect` assumes `~SameFrameStalemate`, and
`RoundsCountedCorrectly` (`OneWin`) that the map declares no winner once a round is
won and that there are no stalemates or no control point master, which is where
the findings lie.

`RoundRulesPlay_proofs`: `PlayInvariance` (a second inductive invariant, on top of
the first), `RoundTimerIsShown`, `OneTimerIsHidden`, `MaxRoundsAreRespected`,
`WaitingIsCleanedUp`, `FullWinsCleanTheMap`. The invariant is `More`, and a part that is not true
of every map and operator stands under the condition that makes it so:

- `Hud`, if `OneHides`: in a stalemate the timer that is hidden is the map's; otherwise the
  map's timer is in the HUD, or hidden by a live waiting timer. This says more than
  `RoundTimerShown` (which timer is remembered), or `RestoreActiveTimer` would not be known
  to bring back the right one. One hidden timer is remembered: where a stalemate may begin
  in a waiting period, or a waiting period in a stalemate, the map's is lost, which is what
  `OneHides` excludes.
- `Hidden`, without a condition: outside a stalemate nothing is hidden unless by a live waiting timer,
  so that the assertion in `HideActiveTimer` fails only where waiting and stalemate overlap.
- `Limit`, if `OneWin`: rounds counted are within the limit, and below it unless a round has
  just been won or the game is over. Where a round can be won twice the limit is passed.
- `Full`, without a condition: after a full win the map will be reset, unless `mp_restartround`
  was taken up since, which `fullWin` remembers.
- `Asked`: which variables of the operator, and so which waiting periods, there can be.
- `Traced`: of a frame that found a waiting period on, and not to be cancelled, that it still is or
  the map is clean. This one is not a state's property but a step's, so the lemmas carry a
  parameter `waited`; `WaitingIsCleanedUp` holds without a condition.

Between two states of a round `More` gives way to `Between`, as `T` does to `L`. The instances
of the passing runs satisfy the conditions their properties need.

`CaptureArea_proofs`: `Invariance`, `TypeCorrect`, `CappingTeamCorrect`,
`NumPlayersCorrect`, `ProgressCorrect`, `BlocksCreditedOnce`, `OwnersCorrect`,
`CapturesUncontested`, all without conditions. The invariant adds to the typing: `InRange`, the time
left; `Seen`, no capture is shown that there is not; `Known`, point and resource agree
on the owner; `Told`, the clients are told the
numbers whenever the round is open; `Once`, a player has one credit if he is among the blockers and
none if not; no
capture is on while another mini-round is played; and, while capturing, the time since the last
reduction and the time to the next think make up at most `ThinkTicks`, which
bounds what one think may take off. That the area agrees with the point, and that a capture is shown, are
not states' properties, as the map breaks both: `Kept` says of a step that both hold after
it if before, and `NextInv` that each step is `Kept` or `Given`. The weighing of players is a cardinality, so
that lemmas about finite sets give what is needed of it (`WeightZero`,
`WeightBound`), without recursion.

`RoundTimer_proofs`: `TypeCorrect`, `OneTimerShownAlways`, `NeverAbove`. The
invariant is typing (with a maximum that inputs may make negative) with `One`: of the enabled timers at most one wants to be in the HUD.
It is inductive because no handler makes a timer want the HUD without
`SetActiveTimer` in the same step; the lemmas follow the handlers, a
`RoundRespawn` being a `MapSpawned`, in which a disabled timer prevails, followed
by a `RoundSpawn`, which leaves the HUD alone. `NeverAbove` is an action property: its
lemmas say of each operator on a clock that it leaves the time no higher or within the maximum, for
which the truncation to seconds is bounded (`Seconds`).

`ControlPoints_proofs`: `TypeCorrect`, `WinnableRoundAlways`, `PartialWinAlwaysKept`,
for any requests of the operator and a map that can be played as it was made
(`PlayableAssumption`). The invariant adds to `WinnableRound` (`Winnable`) why the next round will be
one: a round that is won partially leaves a playable mini-round, or the map is
cleaned, or the operator had it kept (`Continues`), and the first round finds it clean (`Fresh`).
`PartialWinAlwaysKept` needs of the lemmas on choosing a round that a request which is used is done
with and moves one point (`Handed`).
`RoundsRemainingAreFinite` has two conditions, on the map, which the instance of
`mini_rounds` meets and without which the loop of `CalcNumRoundsRemaining` may not end
(section 3): every part of the points, but none and all, has a mini-round with points in
it and out of it (`Joined`), and no team is barred from winning a mini-round
(`NoneBarred`). As a partial win leaves a mini-round to play, each simulated one gives
the winner a point that it did not own (`PlayNextGrows`), so after `n` of them it owns `n`
points or all (`OwnedGrows`, an induction on a set of numbers). That a mini-round has points
is an assumption: the code warns of one that has none
(`team_control_point_round.cpp:98`), and takes it to be owned by no team.

`CaptureFlag_proofs`: `TypeCorrect`, `FlagHeldAlways`, for `~BusyInputs`. The invariant is
`Paired`: a stolen flag has its previous owner as its only carrier and cannot be
touched; what a player carries is stolen, by him, and his team's to take; a captured
flag cannot be touched until it thinks, or the think would make a stolen one touchable.

`TSQueue_proofs`: `Invariant`, `TypeCorrect`, `NodesAreApart`, `TailIsInQueue`,
`ItemsConserved`, and `EmptyIsAnswered` for `TRUE \notin Modes`, that is, `Push` and `Pop`
(with `PushItem`/`PopItem` it is false, as the run `queue_items_empty` shows). The code's queue is a list that
is found by following pointers, and a thread may hold a pointer to a node that has left it
and been used again. So the invariant is `\E root, pos : Good(root, pos)`: `root`
says to which list a node belongs (`Null`: the queue; a node: the list that
begins with it, pushed or free) and `pos` where in it, and each step is given the new pair. This
takes the place of a history variable for the linked nodes. The parts of `Good`:
`Own` (who holds which node), `Ends` and `Order` (positions rise by one along `next`, and the
sequence numbers of head and tail are positions), `Cargo` and `Books` (items, counts), `PushOK`
and `PopOK`: what a thread knows of the nodes it has read, *as long as* the sequence
number it has read is the present one. In recycled mode a node may be linked
behind one that is itself not linked yet, so there is more than one list, and `PushOK` keeps them
in order by the items (a node used again has a later item). `Walk` follows the pointers from
the head; `Walks` shows by induction on a set, not on an operator, that it meets the nodes of the
queue in the order of `pos`. It is a function on the top level of the module, as tlapm 1.4.5
treats a recursive function within a `LET` as if it were not recursive.

`TSQueueFifo_proofs`: `Refinement`, `Spec => ImplementsFifo`. `Link`, if it succeeds, is `Enqueue`; `TakeHead`, if
it succeeds, is `Dequeue`; `CompareTail` that returns is `FindEmpty`, `StartPop` is
`Ask`, `GiveBack` is `Return`, and every other step leaves the abstract queue alone, which
`Kept`, `Appended` and `Removed` show of its contents. When nodes are used again the
abstract queue stands still, as the mapping says.

Each inductive invariant was an invariant of TLC's runs before it was proved, where it
can be evaluated on an instance.

Only model-checked: everything about "eventually" (liveness and `ENABLED` are
beyond the prover), so `RestartHonoured`, `WaitingEnds`, `ReadyHonoured`, `StalemateEnds`,
`DrawAtTimeLimitEndsGame`, `LoneCapperWins`, `AbandonedCaptureEnds`, `EndAnnounced`,
`FlagComesBack`, `NonBlocking`. Every invariant and every action property of the passing runs is the
statement of a theorem.

## 5. Plan

Done: `RoundRules`, `CaptureArea`, `TSQueue` with `FifoQueue`, `RoundTimer`,
`ControlPoints`, `CaptureFlag`, and the theorems above. Left, in this order:

1. A composition of `RoundRules` with `ControlPoints`: `PointsWin` and `roundsLeft` of
   the former become the states of points of the latter; a `CaptureArea` a point.
2. `TSList` and the locks of tier0; the list's 16-bit depth and sequence with
   their width; then the free list of `TSQueue` as an instance of it.
3. The train watcher's progress and recede timers, on `RoundTimer`'s overtime.
4. The vote controller, the event queue, the call queue on `TSQueue`.

Not modelled, and why: what runs on the client shows state that the modules have, and
decides nothing; rendering, UI, map compilers, AI and weapons are geometry and
arithmetic on reals, where TLC has no small instance that means anything; the
vendored libraries are not this project's. Most of the repository's lines are of these kinds,
so the modelled components are a small share of it.

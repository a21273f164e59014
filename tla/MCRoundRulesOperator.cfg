SPECIFICATION SafetySpec
CONSTANTS
  red = red
  blue = blue
  unassigned = unassigned
  Teams <- MCTeams
  Red <- red
  Blue <- blue
  NoTeam <- unassigned
  MaxRounds = 2
  WinLimit = 0
  TimeLimit = FALSE
  WaitForPlayers = TRUE
  StalemateEnabled = TRUE
  StalemateOnTimeLimit = FALSE
  Master = "rounds"
  PlayAllRounds = TRUE
  SwitchOnWin = FALSE
  SameFrameStalemate = FALSE
  MaxInputs = 1
  MaxRequests = 2
  AdminCvars <- OperatorCvars
  Facts <- OperatorFacts
  MapWhen <- Overlapping
INVARIANTS
  WaitingTimerTracksWaiting
  OneTimerHidden
PROPERTIES
  WaitingLeavesNoTrace

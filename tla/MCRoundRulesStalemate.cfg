SPECIFICATION LiveSpec
CONSTANTS
  red = red
  blue = blue
  unassigned = unassigned
  Teams <- MCTeams
  Red <- red
  Blue <- blue
  NoTeam <- unassigned
  MaxRounds = 2
  WinLimit = 2
  TimeLimit = TRUE
  WaitForPlayers = FALSE
  StalemateEnabled = TRUE
  StalemateOnTimeLimit = TRUE
  Master = "none"
  PlayAllRounds = TRUE
  SwitchOnWin = FALSE
  SameFrameStalemate = FALSE
  MaxInputs = 2
  MaxRequests = 2
  AdminCvars <- NoCvars
  Facts <- FlagFacts
  MapWhen <- InPlay
INVARIANTS
  StalemateTimerTracksState
  RoundTimerShown
  RoundCountedOnce
PROPERTIES
  StalemateEnds
  DrawAtTimeLimitEndsGame

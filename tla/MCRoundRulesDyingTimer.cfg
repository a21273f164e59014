SPECIFICATION LiveSpec
CONSTANTS
  red = red
  blue = blue
  unassigned = unassigned
  Teams <- MCTeams
  Red <- red
  Blue <- blue
  NoTeam <- unassigned
  MaxRounds = 2
  WinLimit = 0
  TimeLimit = FALSE
  WaitForPlayers = FALSE
  StalemateEnabled = TRUE
  StalemateOnTimeLimit = FALSE
  Master = "none"
  PlayAllRounds = TRUE
  SwitchOnWin = FALSE
  SameFrameStalemate = TRUE
  MaxInputs = 2
  MaxRequests = 2
  AdminCvars <- NoCvars
  Facts <- StalemateFacts
  MapWhen <- Anytime
INVARIANTS
  StalemateTimerTracksState

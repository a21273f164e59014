SPECIFICATION LiveSpec
CONSTANTS
  red = red
  blue = blue
  unassigned = unassigned
  Teams <- MCTeams
  Red <- red
  Blue <- blue
  NoTeam <- unassigned
  MaxRounds = 2
  WinLimit = 0
  TimeLimit = FALSE
  WaitForPlayers = TRUE
  StalemateEnabled = FALSE
  StalemateOnTimeLimit = FALSE
  Master = "points"
  PlayAllRounds = TRUE
  SwitchOnWin = FALSE
  SameFrameStalemate = FALSE
  MaxInputs = 3
  MaxRequests = 1
  AdminCvars <- RestartCvars
  Facts <- PlayFacts
  MapWhen <- InPlay
INVARIANTS
  TypeOK
  MaxRoundsRespected
PROPERTIES
  FullWinCleansMap
  RestartHonoured
  WaitingEnds
  ReadyHonoured

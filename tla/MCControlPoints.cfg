SPECIFICATION Spec
CONSTANTS
  Teams <- MCTeams
  NoTeam = 0
  Points <- MCPoints
  Default <- MCDefault
  Areas <- MCAreas
  Rounds <- MCRounds
  PointsOf <- MCPointsOf
  Priority <- MCPriority
  InvalidCapWinner <- MCInvalid
  MaxInputs = 4
INVARIANTS
  TypeOK
  WinnableRound
  RoundsRemainingFinite
PROPERTIES
  PartialWinKept

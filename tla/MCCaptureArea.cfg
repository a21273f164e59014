SPECIFICATION FairSpec
CONSTANTS
  Teams <- MCTeams
  NoTeam = 0
  Players <- MCPlayers
  TeamOf <- MCTeamOf
  Value <- MCValue
  MaxValue = 2
  Required <- MCRequired
  CapTime = 1
  CapStyle = 1
  BlockStyle = 1
  Rate <- MCRate
  Decay = 1
  ThinkTicks = 1
  MayCapture <- MCMayCapture
  MapAllows <- MCMapAllows
  MapGives = {3}
  Conditions <- MCConditions
  Killers = {"scout"}
INVARIANTS
  TypeOK
  NumPlayersShown
  ProgressInRange
  CreditedOnce
PROPERTIES
  CappingTeamShown
  OwnersAgree
  CaptureUncontested
  LoneCapperWins
  AbandonedCaptureEnds

SPECIFICATION Spec
CONSTANTS
  p1 = p1
  p2 = p2
  p3 = p3
  f1 = f1
  f2 = f2
  NoPlayer = NoPlayer
  NoFlag = NoFlag
  Players <- MCPlayers
  Team <- MCTeam
  Flags <- MCFlags
  Kind <- MCKind
  FlagTeam <- MCFlagTeam
  StartDisabled = {f2}
  ReturnTicks = 2
  OwnerTicks = 1
  BusyInputs = FALSE
INVARIANTS
  FlagHeld
PROPERTIES
  FlagComesBack

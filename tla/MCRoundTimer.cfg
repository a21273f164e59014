SPECIFICATION Spec
CONSTANTS
  MapTimers <- MCMapTimers
  Temp = 3
  Setup <- MCSetup
  Initial <- MCInitial
  MaxLength <- MCMaxLength
  StartPaused <- MCStartPaused
  ResetTime <- MCResetTime
  StartDisabled <- MCStartDisabled
  StartShown <- MCStartShown
  TempTime = 2
  Warnings <- MCWarnings
  SetupWarnings <- MCWarnings
  TicksPerSecond = 2
  Times <- MCTimes
  Scripted <- MCScripted
  Debt = 2
  MaxEvents = 3
INVARIANTS
  TypeOK
  OneTimerShown
PROPERTIES
  NeverAboveMaximum
  EndAnnounced

SPECIFICATION Spec
CONSTANTS
  Threads <- MCThreads
  Modes <- ItemsOnly
  MaxPushes = 3
PROPERTIES
  EmptyAnswers

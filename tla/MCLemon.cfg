SPECIFICATION Spec
CONSTANTS
  UpperNames <- MCUpperNames
  MaxRhs = 4
  NameHash <- MCNameHash
  TableSize = 2
  Slack = 20
  StackDepth = 6
  MaxTokens = 6
  Driven <- MCDriven
  Files <- MCFiles
INVARIANTS
  RulesAsWritten
  LookaheadsExact
  TablesExact
  TablesFind
  SentencesExact
  AssertsHold
  PrecedenceRespected
  TokensFreedOnce
PROPERTIES
  ErrorsSpaced
  ParseReturns
CHECK_DEADLOCK FALSE

SPECIFICATION Spec
CONSTANTS
  TextHash <- MCTextHash
  FirstSize = 1
  MAXTOKENLENGTH = 8
  MaxIndexes = 6
  Invocations <- MCInvocations
  Sendings <- MCSendings
  Orders <- MCOrders
  Texts <- MCTexts
  INT_MAX = 12
  LONG_MAX = 112
INVARIANTS
  PreprocessExact
  TokensAsWritten
  AnswersExact
  FilterExact
  ConversionsExact
CHECK_DEADLOCK FALSE

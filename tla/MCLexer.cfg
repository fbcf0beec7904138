SPECIFICATION Spec
CONSTANTS
  Files <- MCFiles
  TokensOf <- MCTokensOf
INVARIANTS
  TokensExact
  NothingDropped
PROPERTIES
  ScanEnds

SPECIFICATION Spec
CONSTANTS
  Words <- MCWords
  Spellings <- MCSpellings
  Canonical <- MCCanonical
  IntWords <- MCIntWords
  Tokens <- MCTokens
  MaxSections = 4
INVARIANTS
  ConfigTypeOK
  StacksAgree
  GroupsComplete
  NoGroupLost
  SectionsSupplyKeys
  PFEnabledExact

SPECIFICATION ContainerSpec
CONSTANTS
  Keys <- MCKeys
  Values = {a, b}
  a = a
  b = b
  NoKey = NoKey
  HashOf <- MCHashOf
  InitSize = 2
  MaxCount = 9
  MaxOverload = 1
  Settings <- MCSettings
  s = s
  t = t
  Strings = {s, t}
  Arrays = {list1}
  Enumerators = {e}
  Nil = nil
  BUCKET_SIZE = 1
  MaxPools = 2
  MaxEntries = 2
  MaxOwned = 1
  MaxLength = 2
SYMMETRY StringSymmetry
INVARIANTS
  HashVerify
  ScanExact
  ReferencesBalanced
  CountsExact
  EnumeratorsExact
PROPERTIES
  ImplementsDictionary

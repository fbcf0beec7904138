CONSTANTS
  u1 = u1  u2 = u2
  a1 = a1  a2 = a2
  eng = eng  ops = ops
  p1 = p1  p2 = p2
  t1 = t1  t2 = t2
  x1 = x1  x2 = x2
  s1 = s1  s2 = s2
  Users = {u1, u2}
  Accounts = {a1, a2}
  Entries = {eng, ops}
  Passwords = {p1, p2}
  Tables = {t1, t2}
  Addresses = {x1, x2}
  Sessions = {s1, s2}
  PasswordOf <- MCPasswordOf
  EmptyPassword = EmptyPassword
  Anonymous = Anonymous
  Service = Service
  NoTable = NoTable
  NoUser = NoUser
  NoSession = NoSession
  NoAccount = NoAccount
  NoAddress = NoAddress
  NoPassword = NoPassword
  Garbage = Garbage
  Login <- MCLogin
  Below <- MCBelow
  FilterMatches <- MCFilterMatches
  Listable <- MCListable
  Changes <- NoChanges
  InitialDirectories <- SearchDirectory
  Configs <- SearchOnly
  HostPools = {FALSE}
  FaultsOn = FALSE
  CrashOn = FALSE
SPECIFICATION Spec
INVARIANT
  MemberBySearch

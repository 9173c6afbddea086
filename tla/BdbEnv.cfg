SPECIFICATION BdbEnvSpec
CONSTANTS
  Procs = {pa, pb}
  Conns = {a1, a2, b1}
  a1 = a1
  a2 = a2
  b1 = b1
  pa = pa
  pb = pb
  ProcOf <- TwoAndOne
  Nobody = Nobody
  MaxCookie = 1
  MaxFaults = 1
  Mishaps = {}
SYMMETRY BdbConnSymmetry
INVARIANTS
  BdbEnvTypeOK
  RefsCounted
  MutexFollows
  LsnsReset
  MasterOnce
  Equipped

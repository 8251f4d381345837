SPECIFICATION Spec
CONSTANTS
  Items = {i1, i2}
  Keys = {k1, k2, k3, k4}
  Vals = {v1, v2}
  Procs = {rot, wr, rd}
  Rotators = {rot, rd}
  Readers = {rd}
  Writers = {wr, rd}
  Deleters = {wr}
  LongLived = {}
  CliGuard = TRUE
  DiskFaults = TRUE
  MaxCrashes = 1
  NoKey = NoKey
  NoItem = NoItem
  NoDir = NoDir
  NoFile = NoFile
  NoVal = NoVal
  NoProc = NoProc
  i1 = i1
  i2 = i2
  k1 = k1
  k2 = k2
  k3 = k3
  k4 = k4
  v1 = v1
  v2 = v2
  rot = rot
  wr = wr
  rd = rd
SYMMETRY Symmetry
CHECK_DEADLOCK FALSE
INVARIANT TypeOK
INVARIANT WritesSurvive
INVARIANT NoMixedStore
INVARIANT SwapStartsClean
INVARIANT RefusesOnlyMixed
PROPERTY LostOnlyBySweep

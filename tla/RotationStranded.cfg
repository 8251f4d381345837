\* A crash between the two key renames leaves no key file, and the command
\* refuses to run without one.
SPECIFICATION FairSpec
CONSTANTS
  Items = {i1, i2}
  Keys = {k1, k2, k3, k4}
  Vals = {v1}
  Procs = {rot, rd}
  Rotators = {rot}
  Readers = {rd}
  Writers = {}
  Deleters = {}
  LongLived = {}
  CliGuard = TRUE
  DiskFaults = FALSE
  MaxCrashes = 1
  NoKey = NoKey
  NoItem = NoItem
  NoDir = NoDir
  NoFile = NoFile
  NoVal = NoVal
  NoProc = NoProc
  i1 = i1
  i2 = i2
  k1 = k1
  k2 = k2
  k3 = k3
  k4 = k4
  v1 = v1
  rot = rot
  rd = rd

CHECK_DEADLOCK FALSE
PROPERTY HealsItself

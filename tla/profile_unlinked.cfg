SPECIFICATION RefSpec
CONSTANTS
  RefDevices = {d1, d2}
  AuthFunctions = {f1, f2}
  Profiles = {p1}
  NoRef = NoRef
  NoProfile = NoProfile
  Unlinks = TRUE
  MaxRefActs = 4
  MaxRefFaults = 1
INVARIANTS ReferencesAgree

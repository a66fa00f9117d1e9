SPECIFICATION DevicesSpec
CONSTANTS
  NoDoc = NoDoc
  NoPayload = NoPayload
  NoRow = NoRow
  NotRead = NotRead
  NoCall = NoCall
  Devices = {d1, d2}
  LocalIds = {1, 2, 3}
  MaxDocs = 3
  MaxEdits = 4
  Names = {n1}
  UniqueNames = FALSE
  CreateDropsContent = FALSE
  Serialized = TRUE
  ListLimit = 10
  UserActs = {"create", "update", "delete", "keepLocal", "keepCloud"}
  EditDuringPass = FALSE
  EditBehindDialog = FALSE
  ConcurrentDevices = TRUE
  MaxRecords = 1
  MaxFaults = 0
  RefDevices = {e1, e2}
  AuthFunctions = {f1, f2}
  Profiles = {p1}
  NoRef = NoRef
  NoProfile = NoProfile
  Unlinks = FALSE
  MaxRefActs = 4
  MaxRefFaults = 1
SYMMETRY DeviceSymmetry
INVARIANTS NothingDoubled ReferencesAgree
PROPERTIES PassKeepsLocalEdits 

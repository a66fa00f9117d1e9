SPECIFICATION Spec
CONSTANTS
  NoDoc = NoDoc
  NoPayload = NoPayload
  NoRow = NoRow
  NotRead = NotRead
  NoCall = NoCall
  Devices = {d1, d2}
  LocalIds = {1, 2, 3}
  MaxDocs = 3
  MaxEdits = 3
  Names = {n1}
  UniqueNames = TRUE
  CreateDropsContent = FALSE
  Serialized = TRUE
  ListLimit = 10
  UserActs = {"create", "update", "delete", "keepLocal", "keepCloud"}
  EditDuringPass = FALSE
  EditBehindDialog = FALSE
  ConcurrentDevices = FALSE
  MaxRecords = 2
  MaxFaults = 1
SYMMETRY DeviceSymmetry
INVARIANTS CleanMeansSynced
PROPERTIES PushesOnlySuperseded NothingLeftBehind

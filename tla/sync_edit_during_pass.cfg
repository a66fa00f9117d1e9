SPECIFICATION Spec
CONSTANTS
  NoDoc = NoDoc
  NoPayload = NoPayload
  NoRow = NoRow
  NotRead = NotRead
  NoCall = NoCall
  Devices = {d1, d2}
  LocalIds = {1, 2, 3}
  MaxDocs = 3
  MaxEdits = 2
  Names = {n1}
  UniqueNames = FALSE
  CreateDropsContent = FALSE
  Serialized = TRUE
  ListLimit = 10
  UserActs = {"create", "update"}
  EditDuringPass = TRUE
  EditBehindDialog = FALSE
  ConcurrentDevices = FALSE
  MaxRecords = 1
  MaxFaults = 0
SYMMETRY DeviceSymmetry
PROPERTY PassKeepsLocalEdits

SPECIFICATION CloudSpec
CONSTANTS
  NoDoc = NoDoc
  NoPayload = NoPayload
  Clients = {c1, c2}
  MaxDocs = 1
  MaxEdits = 1
  Names = {n1}
  UniqueNames = FALSE
  CreateDropsContent = FALSE
  Serialized = FALSE
  MaxVersion = 3
PROPERTY NoLostUpdate

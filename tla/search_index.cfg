\* Two collections and two requests; the worker embeds one text at a time.
\* The bounds on saves and incidents let the system stop.
SPECIFICATION FairSpec
CONSTANTS
  Collections = {c1, c2}
  Requests = {r1, r2}
  Labels = {n1}
  Descriptions = {d1, d2}
  NoText = NoText
  Unissued = Unissued
  Gone = Gone
  Wiped = Wiped
  NoRow = NoRow
  NoVector = NoVector
  NoMove = NoMove
  BatchSize = 1
  QueuedMoves = FALSE
  MaxSaves = 4
  MaxIncidents = 1
INVARIANTS IndexMatchesStore
PROPERTIES CatchesUp
CHECK_DEADLOCK FALSE

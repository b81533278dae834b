SPECIFICATION KeySpec
CONSTANTS
  a = a
  b = b
  c = c
  Masters = {a, b, c}
  NoKey = NoKey
  Absent = Absent
  MaxVersion = 3
  MaxRows = 3
  Sites <- MCSites
INVARIANTS
  HistoryReadable
  NoFalseTamper
  CheckpointVouched
  AnchorBeforeUse

SPECIFICATION Spec
CONSTANTS
  Task = {t1, t2, t3}
  Opcode = {"Read", "Write"}
  Capacity = 2
  IndexMod = 4
  MaxCalls = 2
  NoToken = NoToken
  NoReq = NoReq
SYMMETRY Symmetry
INVARIANTS
  FreeCountExact
  OnePlacePerDescriptor
  TokensAreWaiting
  ReturnsOwnResult
PROPERTY
  NoResponseDropped
  ImplementsRpc

SPECIFICATION GuestSpec
CONSTANTS
  Task = {t1, t2}
  Opcode = {"Write"}
  Capacity = 2
  IndexMod = 4
  MaxCalls = 1
  NoToken = NoToken
  NoReq = NoReq
SYMMETRY Symmetry
INVARIANTS
  TokensAreWaiting
  OneDescriptorPerCall

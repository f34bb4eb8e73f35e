SPECIFICATION SysSpec
CONSTANTS
  t1 = t1
  t2 = t2
  Task = {t1, t2}
  Uses <- ReaderAndWriter
  Opcode = {"Read", "Write"}
  Capacity = 2
  IndexMod = 4
  MaxCalls = 1
  MaxSignals = 1
  QuietStart = FALSE
  NoToken = NoToken
  NoReq = NoReq
PROPERTY
  SetupCompletes
CHECK_DEADLOCK FALSE

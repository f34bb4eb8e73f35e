SPECIFICATION Spec
CONSTANTS
  Cpu = {c1, c2, c3}
  Error = {"EINVAL"}
INVARIANTS
  NoGuestBeforeAllInited
  AllOrNothing
  MappedWhileUsed
  LeaveTogether
PROPERTY
  CommandsEnd
CHECK_DEADLOCK FALSE

SPECIFICATION Spec
CONSTANTS
  MaxPid = 5
  Boot = 3
  Kernel = {2}
INVARIANTS
  TypeOK
  NoPanic
  QueueExact
  OneLivingParent
  ShutdownLast
  AddressSpaceKept
PROPERTIES
  NoStarvation
  OrphansReaped
CHECK_DEADLOCK FALSE

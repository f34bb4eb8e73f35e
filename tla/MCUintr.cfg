SPECIFICATION Spec
CONSTANTS
  a = a
  b = b
  linux = linux
  Task = {a, b}
  root = root
  Link <- Links
  MaxUitt = 1
  None = None
INVARIANTS
  RegistersOfCurrent
  PostedIsOwed
PROPERTY
  PostedIsDelivered

SPECIFICATION Spec
CONSTANTS
  a = a
  b = b
  linux = linux
  Task = {a, b}
  root = root
  Link <- HighLinks
  MaxUitt = 1
  None = None
PROPERTY
  VectorPosted

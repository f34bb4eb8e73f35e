SPECIFICATION Spec
CONSTANTS
  Caller = {c1, c2}
  Region <- Regions
  None = None
INVARIANTS
  EntryInRegion
  OneOwner
  RegisteredWhileRunning
  StartedIfLoaded

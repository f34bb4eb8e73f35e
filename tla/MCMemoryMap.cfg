SPECIFICATION Spec
CONSTANTS
  PAGE_SIZE = 2
  LARGE = 4
  Name <- Names
  Iomem <- Lists
  HvRegion <- Regions
  None = None
INVARIANTS
  TypeOK
  RegionsApart
  RegionsFit
  RegionsAccepted
  GuestView
  ReservedAccepted

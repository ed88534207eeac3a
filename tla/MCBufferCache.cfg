CONSTANTS
  NumSlots = 2
  NumSectors = 3
  Data = {0, 1}
  Zero = 0
SPECIFICATION Spec
INVARIANTS TypeOK OneSlotPerSector CleanMatchesDisk IInv ClosedIsDurable
PROPERTIES SecondChance ImplementsStore

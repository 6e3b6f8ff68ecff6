SPECIFICATION SizeFairSpec
CONSTANTS
  Items = {a, b}
  NoItem = NoItem
  Capacity = 2
  Laps = 2
  Callers = {"producer", "consumer"}
INVARIANTS NoSlotRace IInv SizeInBounds SizeIsSafeEstimate
PROPERTIES ImplementsFifo EventuallyPopped

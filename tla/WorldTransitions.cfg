CONSTANTS
  Components = {position, velocity}
  Tags = {}
  Values = {0, 1}
  Default = 0
  MaxSlots = 2
  MaxGeneration = 1
SPECIFICATION WorldSpec
SYMMETRY ComponentSymmetry
INVARIANTS
  TypeOK
  LocationsExact
  ColumnsAligned
  TransitionsExact
PROPERTIES
  ImplementsStore

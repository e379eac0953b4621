SPECIFICATION ReceiversSpec
CONSTANTS
  c1 = c1  c2 = c2  c3 = c3  None = None
  Connections <- ThreeConnections  MaxStrays = 2
SYMMETRY Symmetry
INVARIANTS StraysBounded

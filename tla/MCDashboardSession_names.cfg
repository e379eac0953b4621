SPECIFICATION Spec
CONSTANTS
  n1 = n1
  n2 = n2
  t1 = t1
  Names <- MCNames
  Temps <- MCTemps
  None = None
  MaxRequests = 2
  MaxEvents = 2
INVARIANTS StoredUnderItsName SaveButtonTrue

SPECIFICATION Spec
CONSTANTS
  Processes = {p1, p2, p3}
  Length = 3
  Faults = {"death", "full", "power"}
INVARIANTS
  NamedIsWhole
PROPERTIES
  WholeStays
SYMMETRY Interchangeable

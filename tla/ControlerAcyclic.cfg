CONSTANTS
  Name = {1, 2, 3}
  Stamp = {1, 2, 3, 4}
  Repositories <- MovingFamily
  Title <- Titles
  Truncated = Truncated
SPECIFICATION Spec
INVARIANTS NamesAcyclic

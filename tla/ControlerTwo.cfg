CONSTANTS
  Name = {1, 2, 3, 4}
  Stamp = {1, 2, 3}
  Repositories <- TwoFamily
  Title <- Titles
  Truncated = Truncated
SPECIFICATION Spec
INVARIANTS StorageReadable

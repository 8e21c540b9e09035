CONSTANTS
  Name = {1, 2, 3, 4, 5}
  Stamp = {1, 2, 3, 4}
  Repositories <- WrapperFamily
  Title <- Titles
  Truncated = Truncated
SPECIFICATION Spec
PROPERTIES LastIsNewest

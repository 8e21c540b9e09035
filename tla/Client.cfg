CONSTANTS
  Name = {1, 2, 3, 4, 5}
  Stamp = {1, 2, 3, 4}
  Repositories <- ClientFamilies
  Title <- Titles
  Truncated = Truncated
SPECIFICATION ClientSpec
INVARIANTS TypeOK NothingLost OptionTargetOutlives
PROPERTIES OptionsKeepUsers

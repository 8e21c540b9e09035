CONSTANTS
  Name = {1, 2, 3, 4, 5}
  Stamp = {1, 2, 3, 4}
  Repositories <- ControlerFamilies
  Title <- Titles
  Truncated = Truncated
SPECIFICATION Spec
INVARIANTS TypeOK Coherent ExactlyNeeded StorageIsCurrent StorageReadable TargetOutlivesRemoval SweepsAgree
PROPERTIES UsersStay RefusedChangesNothing

CONSTANTS
  User = {u}
  Admin = {a}
  FileNames <- TwoFiles
  Package = {"a", "b", "c", "d"}
  Initial <- OnePackageEach
  Truncated = Truncated
  Nobody = Nobody
  NoChild = NoChild
  Lists <- TwoLists
  AdminRequests <- Requests
SPECIFICATION LiveSpec
INVARIANTS TypeOK CopiesAreServed OkIsStored RefusalChangesNothing NetInv
PROPERTIES UpdatesReturn

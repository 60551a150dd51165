SPECIFICATION Spec
CONSTANTS
  viewer = viewer
  Ids = {1, 2, 3}
  Account = viewer
  OwnerOf <- MCOwnerOf
  CategoryOf <- MCCategoryOf
  ActiveCategories = {"follow"}
  Perishable = {1}
  Readable = {2}
  Limits = {0, 3}
  DefaultLimit = 1
  MaxLimit = 2
  NoFilter = "all"
  NoCursor = NoCursor
  NoPromise = NoPromise
  MaxClock = 2
INVARIANTS TypeOK TraversalIsExact FilterKeepsPromise BellOrInbox
CHECK_DEADLOCK FALSE

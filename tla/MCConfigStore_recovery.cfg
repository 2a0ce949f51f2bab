SPECIFICATION FairSpec
CONSTANTS
  Old = old
  NoTab = NoTab
  Tabs = {t1, t2}
  LockTabs = {t1, t2}
  Edits = {old, e1}
  Catalogs = {tags}
  Kinds = {"update"}
  Starts <- AllStarts
  MaxQueue = 1
  MaxCatalog = 0
  MaxFailures = 1
  MaxCorruptions = 1
  NewerRelease = FALSE
PROPERTIES
  RecoveryLosesAtMostOne
  RequestsAnswered

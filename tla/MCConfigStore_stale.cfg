SPECIFICATION Spec
CONSTANTS
  Old = old
  NoTab = NoTab
  Tabs = {t1, t2}
  LockTabs = {t1, t2}
  Edits = {old, e1, e2, e3}
  Catalogs = {tags}
  Kinds = {"update", "save"}
  Starts <- CurrentStart
  MaxQueue = 2
  MaxCatalog = 0
  MaxFailures = 0
  MaxCorruptions = 0
  NewerRelease = FALSE
SYMMETRY Perms
PROPERTIES
  NoOtherTabReplaced

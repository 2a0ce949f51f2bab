SPECIFICATION Spec
CONSTANTS
  Old = old
  NoTab = NoTab
  Tabs = {t1, t2, t3}
  LockTabs = {t1, t2}
  Edits = {old, e1, e2}
  Catalogs = {tags}
  Kinds = {"update", "import", "save", "catalog"}
  Starts <- CurrentStart
  MaxQueue = 1
  MaxCatalog = 2
  MaxFailures = 1
  MaxCorruptions = 0
  NewerRelease = TRUE
SYMMETRY LockPerms
INVARIANTS
  CatalogViewCurrent

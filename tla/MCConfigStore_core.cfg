SPECIFICATION Spec
CONSTANTS
  Old = old
  NoTab = NoTab
  Tabs = {t1, t2}
  LockTabs = {t1, t2}
  Edits = {old, e1, e2}
  Catalogs = {tags}
  Kinds = {"update", "catalog"}
  Starts <- AllStarts
  MaxQueue = 1
  MaxCatalog = 1
  MaxFailures = 1
  MaxCorruptions = 0
  NewerRelease = TRUE
SYMMETRY Perms
INVARIANTS
  TypeOK
  NoLostUpdate
  RevisionIdentifiesData
PROPERTIES
  NewerSchemaPreserved
  RevisionGrows
  ImplementsRegister

SPECIFICATION SpecParts
CHECK_DEADLOCK FALSE
CONSTANTS
  Tabs = {a, b}
  MaxClock = 2
  Hour <- HourOf
  Limit = 1
  Spacing = 1
  Pause = 1
  Retries = 1
  MaxFaults = 1
  MaxBacks = 1
SYMMETRY TabSymmetry
INVARIANTS
  HourlyAllowance
  PartsTypeOK
  PageShowsTheTruth
  RecordsHaveTheirHistory
  OnlyWhatIsAllowed
  ListingIsCurrent
  SettingsAreSound
  ImportIsReported
PROPERTIES
  Spaced
  KeptInOrder

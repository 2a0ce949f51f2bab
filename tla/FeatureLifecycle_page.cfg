SPECIFICATION FairSpec
CONSTANTS
  Order <- Everything
  Defaults = {"overlay"}
  Debounced = {"overlay"}
  Refreshable = {"overlay", "control"}
  Styles = {"overlayCss", "latestCss"}
  StyleOf <- OwnAndShared
  Pages = {"thread", "latest"}
  InScope <- ByPage
  MaxMoves = 2
  MaxEdits = 1
  MaxHides = 1
  MaxFaults = 1
CHECK_DEADLOCK FALSE
INVARIANTS
  TypeOK
  Settled
  StylesFollow
PROPERTIES
  ComesToRest

SPECIFICATION FairSpec
CONSTANTS
  NoStamp = NoStamp
  Rows = {r1, r2}
  Updaters = {u1}
  Margin = 1
  Skew = 0
  ComparesFirst = FALSE
  Reloads = TRUE
  MaxTime = 3
  MaxVer = 2
PROPERTIES
  CatchesUp

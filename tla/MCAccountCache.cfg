SPECIFICATION Spec
CONSTANTS
  NoStamp = NoStamp
  Rows = {r1, r2}
  Updaters = {u1}
  Margin = 2
  Skew = 0
  ComparesFirst = TRUE
  Reloads = TRUE
  MaxTime = 5
  MaxVer = 2
INVARIANTS
  MarginCoversLateCommits

SPECIFICATION Spec
CONSTANTS
  NoStamp = NoStamp
  Rows = {r1, r2}
  Updaters = {u1, u2}
  Margin = 1
  Skew = 0
  ComparesFirst = FALSE
  Reloads = FALSE
  MaxTime = 3
  MaxVer = 2
INVARIANTS
  TypeOK
  MarginCoversLateCommits

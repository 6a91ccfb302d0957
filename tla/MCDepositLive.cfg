SPECIFICATION FairSpec
CONSTANTS
  d1 = d1
  d2 = d2
  d3 = d3
  a1 = a1
  a2 = a2
  w1 = w1
  w2 = w2
  w3 = w3
  NoOne = NoOne
  Deposits = {d1}
  Accounts = {a1}
  Workers = {w1, w2}
  OwnerOf <- OneOwner
  Gateway = {d1}
  Online = {a1}
PROPERTIES
  EveryRequestEnds

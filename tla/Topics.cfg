\* Three long and two short names compete for the four free entries of the table.
SPECIFICATION TableSpec
CONSTANTS
  LongNames = {n1, n2, n3}
  n1 = n1
  n2 = n2
  n3 = n3
  ShortNames = {ab, cd}
  ab = ab
  cd = cd
  PredefinedName = GW01
  PredefinedId = 1
  BaseId = 256
  IdRange = 65536
  MaxTopicCount = 5
  AddressIds = {2064, 2072}
INVARIANTS
  TableTypeOK
  NamesUnique
  ToldIdsResolve

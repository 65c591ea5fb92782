SPECIFICATION FairSpec
CONSTANTS
  blue = blue
  green = green
  adminB = adminB
  adminG = adminG
  None = None
  Procs = {blue, green}
  Keys = {k1, k2}
  NumCaches = 2
  CacheOf <- SecondMap
  ShortMiss = {2}
  Readers = {reader1, reader2}
  Admins = {adminB, adminG}
  HomeOf <- Homes
  Values = {None, v1}
  FoundTTL = 2
  MissTTL = 1
  MaxItems = 1
  MaxDelay = 1
  MaxChanges = 2
INVARIANTS BoundedStaleness OwnChangeVisible BoundedSize
PROPERTY EventuallyAgree

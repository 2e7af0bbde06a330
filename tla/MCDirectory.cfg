SPECIFICATION MCSpec
CONSTANTS
  Jazz = Jazz
  JAZZ = JAZZ
  Rock = Rock
  alice = alice
  bob = bob
  w1 = w1
  w2 = w2
  admin = admin
  Urls <- MCUrls
  StationIds = {Jazz, Rock}
  StationOf <- MCStationOf
  Users = {alice, bob}
  Admins = {admin}
  Thread = thread
  Workers = {w1, w2}
  Stale = 1
  CycleTicks = 1
  MaxChanges = 2
  MaxFaults = 1
  NoStation = NoStation
INVARIANTS TypeOK TagCountExplained
PROPERTIES NoEarlyDeactivation OnlyBumpedOutlive TagsSurviveIngest DirectoryFollowsFeed

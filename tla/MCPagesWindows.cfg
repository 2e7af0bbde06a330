SPECIFICATION PagesSpec
CONSTANTS
  a = a
  b = b
  all = all
  Stations <- MCStations
  Queries <- MCQueries
  Matches <- MCMatches
  None = None
  Lists = {"mine"}
  MaxChanges = 1
  MaxSame = 2
  MaxCalls = 4
  MaxClicks = 3
  Unanswered = Unanswered
  Bounds <- MCBounds
  MaxFeeds = 2
  MaxEpisodes = 1
  NoFeed = 0
  Events = {1, 2}
  NoEvent = 0
  MaxStations = 2
  MaxSpins = 1
  NoStation = 0
  Paths = {a, b}
  Texts <- MCTexts
  FoundBy <- MCFoundBy
  Seconds = {1, 2}
  ListLimit = 1
  MaxIds = 3
  Users = {a, b}
  NoUser = None
  MaxWindows = 3
CHECK_DEADLOCK FALSE
INVARIANT ShowsOwnData

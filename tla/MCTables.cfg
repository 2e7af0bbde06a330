SPECIFICATION TablesSpec
CONSTANTS
  Users = {u1, u2}
  Platforms = {"p", "q"}
  MaxAccounts = 3
  MaxRequests = 2
  Slugs = {"s"}
  NoSlug = "none"
  Seconds = {1, 2}
  DocumentLimit = 1
  MaxFeeds = 2
  MaxEpisodes = 2
  MaxFeedRequests = 4
  Files = 3
  Statements <- MCStatements
  Once = {2}
  Deploys = {d1, d2}
  MaxRuns = 4
CHECK_DEADLOCK FALSE
INVARIANTS
  TypesOK
  PushAllOrTold
  PostsThroughOwnAccount
  EpisodesByOwner
  MigratedInOrder
PROPERTIES
  ImplementsPodcastService

SPECIFICATION WebSpec
CONSTANTS
  FormKeys <- SomeFormKeys
  TextLines <- SomeTextLines
  FormEdits <- SomeFormEdits
  MaxText = 3
  FileParts <- SomeFileParts
  PairNames <- SomePairNames
  MaxParts = 4
  MaxChanges = 2
  MaxFaults = 3
  MaxAsked = 2
  MAX_FAILED_OPENINGS = 2
  Names = {n}
  MaxDashActs = 2
  MaxDashOthers = 1
  LogInstances = {p, q}
  LogSources = {journal, file_log}
  MaxLogged = 3
  MaxActs = 4
  MaxLoads = 2
  MAX_LINES = 2
  MAX_RECONNECTS = 1
  ConfigInstances = {p, q}
  ConfigKeys = {"port", "tls"}
  FirstFile <- OneFile
  SwitchedKeys = {"tls"}
  MaxEdits = 3
  MaxWrites = 1
  MaxFormLoads = 2
  TunnelInstances = {p, q}
  NameParts = {"a", "b", "tcp", "udp", "6000", "6001"}
  TypedNames <- SomeNames
  FirstTunnels <- SomeTunnels
  MaxTunnelActs = 4
  MaxTunnelWrites = 1
  MaxListLoads = 1
  Followers = {f1, f2}
  MaxJobs = 2
  MaxWatchFaults = 2
  Frps = {"f", "g"}
  NoFrps = "all"
  FirstRules <- SomeRules
  MaxFwActs = 3
  MaxRules = 1
  MaxFwLoads = 1
  Slots = {s1, s2}
  Addresses = {a1, a2}
  DayTicks = 1
  MaxClock = 2
  MaxRequests = 3
  PER_IP_DAY = 2
  MAX_PER_DAY = 1
  KEEP_DAYS = 1
  PRIVE_MAX_FAILS = 1
  PRIVE_FAIL_WINDOW = 2
INVARIANTS WebTypeOK MergeIsExact SaveKeepsFile LogShowsSelection
INVARIANTS SaveKeepsOthers SavedTunnelsAreSound RulesInTheOpen StatsLimits DashboardSettles StaleIsPending
PROPERTIES PageCatchesUp FollowEnds
CHECK_DEADLOCK FALSE

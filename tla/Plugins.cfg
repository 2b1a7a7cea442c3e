SPECIFICATION MCSpec
CONSTANTS
  Clients <- MCClients
  Tokens <- MCTokens
  Calls <- MCCalls
  AclFiles <- MCAclFiles
  Folders <- MCFolders
  OriginsOf <- MCOriginsOf
  CallsignsOf <- MCCallsignsOf
  MethodsOf <- MCMethodsOf
  PatternOrder <- MCPatternOrder
  TestToken <- MCTestToken
  TestingMode = FALSE
  Askers = {"monitor"}
  Children = {"n1", "w1", "w2"}
  Plugins = {"WebKitBrowser", "OCDM", "DisplayInfo", "PlayerInfo", "DeviceIdentification", "Messenger", "Packager", "SecurityAgent", "DeviceInfo", "RustBridge", "Monitor", "MessageControl", "PerformanceMetrics"}
  MaxCycles = 2
  Unit = 2
  Residents = {1, 3}
  Watchers = {"a"}
  MaxCount = 2
  Screens <- MCScreens
  Limit = 2
  MaxEvents = 3
  Framework = 2
  Environment = 1
  Methods = {"add", "mul"}
  Ids = {1, 2}
  Observers = {"a", "b"}
  PortLists <- MCPortLists
  MaxChanges = 3
  Registries <- MCRegistries
  Caps <- MCCaps
  NameOf <- MCNameOf
  Configured <- MCConfigured
  NewLimits <- MCNewLimits
INVARIANTS GivesBackWhatItTook DecidesByTheFile StatisticsAreTold DisplayAndSoundAreKnown
PROPERTIES CrashEnds ReadingSettles OperationalMeansRunning
CHECK_DEADLOCK FALSE

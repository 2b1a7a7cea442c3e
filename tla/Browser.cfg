SPECIFICATION MCSpec
CONSTANTS
  Values = {"a"}
  URLs = {"u", "w"}
  Http = {"u"}
  Threshold = 2
  Timeout = 1
  BlankOnSuspend = TRUE
  MaxInputs = 5
  FewInputs = 2
  MaxExpired = 3
  Cookies = {"x", "y"}
  Keys = {"k"}
  MaxJarCalls = 3
  MaxWay = 2
  Pages = {"p"}
  HeaderLists = {"h"}
  MaxMessages = 2
  Conns = {"own", "other"}
  Controlled = {"own"}
  Configs <- MCConfigs
  MaxCycles = 2
  Channels = {"a", "b"}
  Limits = 1
  MaxQueue = 2
  Plugins = {"web", "tube", "ui", "plain"}
  OfClass = {"tube", "ui", "plain"}
  Named = "web"
  LaunchURLs = {"about:blank", "a/1", "a/2", "b/1"}
INVARIANTS StateIsTold SmallPartsOfThePage OutputsInOrder ChannelsGetWhatTheyAsk LaunchesAreMeasured
PROPERTIES LoadsAnnounced HangsEscalate ThreadEnds WorkerStops
CHECK_DEADLOCK FALSE

\* More sessions than buffers, so that a buffer changes hands.
SPECIFICATION MCSpec
CONSTANTS
  s1 = s1
  s2 = s2
  s3 = s3
  Sessions <- MCSessions
  MaxBuffers = 2
  Keys = {"k1", "k2", "k3"}
  MaxUpdates = 2
  InitData <- MCInitData
  Libraries <- MCLibraries
  SystemConfigs <- MCSystemConfigs
  Contents <- MCContents
  Extended = {"PlayReady"}
INVARIANTS BuffersOwned KeysOfTheSession OfferedSystemsWork
PROPERTY SessionEnds
\* All sessions may have ended.
CHECK_DEADLOCK FALSE

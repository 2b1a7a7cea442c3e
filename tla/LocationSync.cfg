\* A client, and two zones of which one is "Factory", against two probes: the
\* first with two rounds or without limit, the second of Sync with one round.
CONSTANTS
  MaxUint = 4
  RetryArgs = {1}
  InitRetries = {2, 4}
  MaxProbes = 2
  BadAddress = TRUE
  Clients = {c1}
  Zones = {amsterdam, factory}
  NoZone = nozone
  Factory = factory
SPECIFICATION Spec
INVARIANTS PublishedInOrder ProbesInOrder
PROPERTIES OverrideWins AnswerNotLost ProbesAreServed
\* The plugin stops for good once it has been destroyed.
CHECK_DEADLOCK FALSE

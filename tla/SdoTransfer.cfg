SPECIFICATION Spec
CONSTANTS
  SegBytes = 2
  ExpeditedBytes = 1
  MaxBlkSize = 2
  Objects <- MCObjects
  Values <- MCValues
  ClientBytes = 3
  MaxTransfers = 2
  MaxDisturbed = 2
CHECK_DEADLOCK FALSE
INVARIANTS OutcomeIsReal NoMixture NoDisagreement
PROPERTY ChannelReleased

SPECIFICATION FairSpec
CONSTANTS
  Event <- ThreeMessages
  MaxPending = 2
INVARIANT TypeOK
PROPERTIES ChannelsInOrder ChannelsHandled

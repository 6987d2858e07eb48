SPECIFICATION FeedFairSpec
CONSTANTS
  MaxGen = 2
  WorkerNum = 1
  MsgCap = 1
  MaxMsgs = 3
  Feeds <- MCFeeds
  EventCap = 1
INVARIANTS EventsComplete
PROPERTIES ImplementsDropOldest NoMessageStuck
CHECK_DEADLOCK FALSE

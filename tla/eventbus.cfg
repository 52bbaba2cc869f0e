SPECIFICATION LiveSpec
CONSTANTS
  Events = {e1, e2, e3}
  Handlers = {h1, h2}
  Threads <- MCThreads
  NoEvent = NoEvent
  NoThread = 0
  EnabledDefault = TRUE
  ConfiguredOn = FALSE
  MaxOff = 2
INVARIANTS SingleDispatcher EveryHandlerRuns
PROPERTIES ChannelSpec AcceptedIsDelivered OffStopsTheThread
CHECK_DEADLOCK FALSE

SPECIFICATION FairSpec
CONSTANTS
  Kinds = {"get"}
  Topics = {}
  Fns = {TRUE, FALSE}
  MaxCommands = 3
  MaxPushes = 0
  MaxQueue = 4
  CanBreak = TRUE
  Adapters = {"ivykis", "libevent", "libuv", "glib"}
CHECK_DEADLOCK FALSE
PROPERTIES
  EveryCallbackRuns
  DisconnectCompletes

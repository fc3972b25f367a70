SPECIFICATION Spec
CONSTANTS
  Kinds = {"get", "subscribe", "unsubscribe", "monitor"}
  Topics = {"a"}
  Fns = {TRUE}
  MaxCommands = 3
  MaxPushes = 1
  MaxQueue = 3
  CanBreak = TRUE
  Adapters = {"libuv"}
CHECK_DEADLOCK FALSE
INVARIANTS
  PipelineInOrder
  CalledOnce
  AssertsHoldIfWaited
  DisconnectReported
  CleanDisconnect
  RepliesMatch
  SubscribersToldTheEnd

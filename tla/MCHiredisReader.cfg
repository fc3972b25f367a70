SPECIFICATION Spec
CONSTANTS
  Messages <- AllMessages
  MaxMessages = 2
  MaxDepth = 2
  DiscardAt = 5
INVARIANTS
  TypeOK
  RepliesAsSent
  NothingHeldBack
  FailsOnlyOnBadReply

SPECIFICATION Spec
CONSTANTS
  a = a
  b = b
  Clients = {a, b}
  Requests <- MixedRequests
  Replies <- MixedReplies
  Prompt = {a}
  Slow = {a}
  MaxSpins = 2
INVARIANTS
  ExchangeTypeOK
  RequestForwarded
  PassedOnInOrder
  ReplyForwarded
  OwnRequest
PROPERTIES
  KeptAfterWhole
CHECK_DEADLOCK FALSE

SPECIFICATION Spec
CONSTANTS
  a = a
  b = b
  Clients = {a}
  Requests <- LiveRequests
  Replies <- LiveReplies
  Prompt = {}
  Slow = {}
  MaxSpins = 1
PROPERTY DoitReturns
CHECK_DEADLOCK FALSE

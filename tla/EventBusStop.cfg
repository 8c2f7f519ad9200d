SPECIFICATION Spec
CONSTANTS
  Handlers = {h1, h2}
  Types = {"collected", "connected"}
  TypeOf <- MCTypeOf
  HistorySize = 2
  Patient = TRUE
  MaxEvents = 2
  MaxStarts = 2
  MaxSubscribed = 1
INVARIANT StopHandlesPending

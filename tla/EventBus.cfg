SPECIFICATION Spec
CONSTANTS
  Handlers = {h1, h2}
  Types = {"collected", "connected"}
  TypeOf <- MCTypeOf
  HistorySize = 2
  Patient = FALSE
  MaxEvents = 3
  MaxStarts = 2
  MaxSubscribed = 2
INVARIANTS
  TypeOK
  InOrder
  NobodySkipped
  JoinCount
PROPERTIES
  EventsAreHandled
  StopReturns

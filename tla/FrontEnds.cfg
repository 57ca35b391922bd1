CONSTANTS
  MaxKeys = 3
  Lines = {empty, text}
  EmptyLine = empty
  OverlayLine = over
  Blank = blank
  Heights = {2, 3}
  MaxLines = 4
  MaxRenders = 5
  MaxHistory = 2
  MaxPrefix = 1
  MaxChanges = 2
  MaxRequests = 2
  MaxStarts = 2
  MaxDialogs = 1
  MaxWaiters = 1
  MaxStops = 2
SPECIFICATION Spec
INVARIANTS InputArrives UndoLeadsBack ScreenShowsContent PendingIsOpen OneSubscription
PROPERTIES ImplementsBuffer
CHECK_DEADLOCK FALSE

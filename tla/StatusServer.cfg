\* Safety: an id listened to, stopped and listened to again, and another one.
CONSTANTS
  Ids = {alpha, bravo}
  None = None
  MaxListeners = 3
  MaxMessages = 2
SYMMETRY IdSymmetry
SPECIFICATION Safety
INVARIANTS
  HandledInPublishOrder
  ReportedImpliesLabelExchange
  QueueThereWhenUsed
  StoppedQueueOnItsWayOut
PROPERTIES
  LabelRefusedOnlyTooEarly

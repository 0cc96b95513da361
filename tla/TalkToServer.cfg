\* The ceremony of one station, with two progress reports of osmosis.
\* The program may stop: the ceremony ends, or a thread waits for ever.
CONSTANTS
  Main = main
  Reporter = reporter
  None = None
  MaxReports = 2
SPECIFICATION Spec
INVARIANTS WaitingCallIsServed MainStrandedOnlyByLoss
PROPERTIES MainGetsThrough ImplementsCommandQueue
CHECK_DEADLOCK FALSE

\* A progress report races with the clean-up.
CONSTANTS
  Main = main
  Reporter = reporter
  None = None
  MaxReports = 1
SPECIFICATION Safety
INVARIANT CleanUpStrandsNobody
CHECK_DEADLOCK FALSE

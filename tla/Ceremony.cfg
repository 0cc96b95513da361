\* All sources, arguments and disks; any one step may fail, and the debug thread
\* may be told to reboot at any time.
CONSTANT MaxFaults = 1
SPECIFICATION Spec
INVARIANTS RebootNotReportedAsFailure DoneMeansInstalled
PROPERTIES RebootHappens StagesComplete

\* Two labels, inaugurated in turn on one station until the command line has
\* eight words; two faults.
CONSTANTS
  Labels = {"old", "new"}
  MaxWords = 8
  MaxFaults = 2
SPECIFICATION BootSpec
INVARIANTS SettingsAsAsked SameAsNextBoot LineLostOnlyByInterruption
PROPERTY InaugurationsSucceed

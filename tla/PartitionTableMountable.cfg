\* One failure or reboot on a disk of any size will do.
CONSTANTS
  DiskSizes = {40960}
  RootSizes = {20}
  Others = {sdb}
  WholeDisks = {}
  MaxFaults = 1
SPECIFICATION Safety
INVARIANT AcceptedIsMountable

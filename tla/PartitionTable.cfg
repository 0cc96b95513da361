\* Disks too small for the minimal root, small, at the thresholds of 21, 22, 28
\* and 29 GB for roots of 12 GB, below the minimum, of 14 and of 20, and large;
\* one partition and one whole disk that may be left over from other
\* inaugurations; two times a command fails or the machine is rebooted in
\* between.
CONSTANTS
  DiskSizes = {14336, 15360, 21504, 22528, 28672, 29696, 40960}
  RootSizes = {12, 14, 20}
  Others = {sdb, sdc}
  WholeDisks = {sdc}
  MaxFaults = 2
SPECIFICATION Spec
INVARIANT OneInstallationLeft
PROPERTIES WrittenOnlyIfAllowed SettledDiskKept Converges

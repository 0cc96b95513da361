\* A disk, a disk on key and a CDROM drive, in any order; one command may
\* fail. The code looks five times for the target and eleven for the source.
CONSTANTS
  Disks = {disk}
  Keys = {key}
  Cds = {cdrom}
  Nothing = Nothing
  TargetRetries = 3
  SourceRetries = 2
  MaxFaults = 1
SPECIFICATION Spec
INVARIANT InstalledFromAnotherDrive
PROPERTIES SearchesKeepTheirPromise UpInTimeIsFound

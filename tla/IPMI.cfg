\* Three IDs with any names; two commands may fail.
CONSTANTS
  NrIds = 3
  Names = {user, superuser, maintenance, root}
  username = user
  Alike = {superuser}
  TwoWords = {maintenance}
  NoName = NoName
  MaxFaults = 2
SPECIFICATION Spec
INVARIANT DoneIsConfigured
PROPERTIES OtherUsersKept ConfigurationEnds

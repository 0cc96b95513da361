\* Two children, one of which ignores SIGTERM; one round of each signal.
CONSTANTS
  Broker = broker
  Procs = {p1, p2}
  Strangers = {}
  Elder = x1
  Younger = x2
  Stubborn = {p1}
  Init1 = init
  NormalKills = 1
  BruteKills = 1
SPECIFICATION TreeSpec
INVARIANT NoSuicideOverCleanup
PROPERTIES CleanupEnds TreeDies

\* One child, and two processes that are not the broker's.
CONSTANTS
  Broker = broker
  Procs = {p1}
  Strangers = {x1, x2}
  Elder = x1
  Younger = x2
  Stubborn = {}
  Init1 = init
  NormalKills = 1
  BruteKills = 1
SPECIFICATION TreeSafety
INVARIANT OnlyChildrenKilled

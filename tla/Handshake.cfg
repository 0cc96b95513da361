\* One station that may reboot once; the server listens, stops at any point of
\* the set-up, and listens again.
CONSTANTS
  Ids = {alpha}
  None = None
  MaxListeners = 2
  MaxMessages = 2
  MaxBoots = 2
SPECIFICATION HandshakeSpec
INVARIANT HeardCheckInInHand
PROPERTIES
  CheckInAnswered
  StoppedQueueFreed
  ListeningGetsConsumer
  DisconnectedServerEnds

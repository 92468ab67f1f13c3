\* No failures, no restart, and FCS waits for room in a queue outside mq_send:
\* what must happen.
CONSTANTS InCap = 2
          OutCap = 1
          MaxLives = 1
          Faults = {}
SPECIFICATION FairSpec
INVARIANTS StaysAlive NoLostWakeup
PROPERTIES HandshakeCompletes InboundDrains

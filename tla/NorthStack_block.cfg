\* FCS waits for room in the inbound queue inside mq_send.
CONSTANTS InCap = 1
          OutCap = 1
          MaxLives = 1
          Faults = {"block"}
SPECIFICATION FairSpec
PROPERTY HandshakeUnlessBlocked

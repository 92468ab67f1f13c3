\* A restart at any time, and every failure; FCS does not block in mq_send.
CONSTANTS InCap = 1
          OutCap = 1
          MaxLives = 2
          Faults = {"open", "epoll", "slow", "run", "drop", "types"}
SPECIFICATION Spec
INVARIANTS TypeOK LinkMapsQuiescent PushFollowsAcceptance AsksUntilAccepted
PROPERTY RefinesHandshake
CHECK_DEADLOCK FALSE

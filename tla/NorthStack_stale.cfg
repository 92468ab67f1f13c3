\* A restart with messages of the earlier start in the queues.
CONSTANTS InCap = 1
          OutCap = 1
          MaxLives = 2
          Faults = {}
SPECIFICATION Spec
PROPERTY ConfirmedByOwnRequest

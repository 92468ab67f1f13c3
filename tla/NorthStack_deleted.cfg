\* UA_Server_run returns.
CONSTANTS InCap = 1
          OutCap = 1
          MaxLives = 1
          Faults = {"run"}
SPECIFICATION Spec
INVARIANT WritesToLiveServer
CHECK_DEADLOCK FALSE

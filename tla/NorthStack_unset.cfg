\* The inbound queue cannot be opened.
CONSTANTS InCap = 1
          OutCap = 1
          MaxLives = 1
          Faults = {"open"}
SPECIFICATION Spec
INVARIANT SendsThroughAdapter
CHECK_DEADLOCK FALSE

\* The import may fail at node 22, which is linked.
CONSTANTS i1 = i1  i2 = i2  i3 = i3  n1 = n1  n2 = n2
          InCap = 1
          OutCap = 1
          MaxLives = 2
          Faults = {"types", "run"}
          Items <- MCItems
          Nodes <- MCNodes
          NodeOf <- MCNodeOf
          Numbers = {"0", "1"}
          ClientValues = {"0"}
          MaxMembers = 2
          Position <- MCPosition
          MayFail = {22}
          Values <- MCValues
SPECIFICATION Spec
INVARIANTS TypeOK MapsReady RequestsComplete NothingRefused
PROPERTY RefinesMirror
CHECK_DEADLOCK FALSE

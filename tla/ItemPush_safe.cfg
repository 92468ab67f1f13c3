\* Any of the nodes could be loaded; an exception may end the process.
CONSTANTS i1 = i1  i2 = i2  unknown = unknown  n1 = n1  n2 = n2
          Items <- MCItems
          Nodes <- MCNodes
          NodeOf <- MCNodeOf
          Numbers <- MCNumbers
          MaxMembers = 3
SPECIFICATION FairSpec
INVARIANTS TypeOK ConfigKept
PROPERTIES RefinesMirror DueIsWritten
CHECK_DEADLOCK FALSE

\* An item value that is the empty string.
CONSTANTS i1 = i1  i2 = i2  unknown = unknown  n1 = n1  n2 = n2
          Items <- MCItems
          Nodes <- MCNodes
          NodeOf <- MCNodeOf
          Numbers <- MCNumbers
          MaxMembers = 1
SPECIFICATION Spec
INVARIANT DueIsDefinite
CHECK_DEADLOCK FALSE

\* Two processes, one name; a queue that lost its name may be held by both.
CONSTANTS gateway = gateway  fcs = fcs  name = name
          o1 = o1  o2 = o2  o3 = o3
          Adapters = {gateway, fcs}
          Names = {name}
          Objects = {o1, o2, o3}
          Msgs <- MCMsgs
          NameOf <- MCNameOf
          MsgNum <- MCMsgNum
          MsgSize <- MCMsgSize
SPECIFICATION FairSpec
INVARIANTS TypeOK ReceivedFits
PROPERTIES RefinesMailbox RefusedForCause CallsReturn

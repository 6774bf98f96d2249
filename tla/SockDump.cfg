SPECIFICATION FairSpec
CONSTANTS
  UNIX_PATH_MAX = 3
  WORD = 2
  Cpus = {0, 1, 3}
  Addrs <- MCAddrs
  Args <- MCArgs
  Msgs <- MCMsgs
  SEGS_PER_MSG = 2
  RING = 1
  ALIGN = 2
  MaxSends = 2
INVARIANTS TypeOK PathsSelected AbstractCaught Faithful Accounted
PROPERTY Delivered
CHECK_DEADLOCK FALSE

SPECIFICATION FairSpec
CONSTANTS
  a = a
  b = b
  Devices = {a, b}
  Msgs = {m1}
  Author <- MCAuthor
  Conns = {c1, c2}
  None = None
  MaxFaults = 2
CHECK_DEADLOCK FALSE
INVARIANTS TypeOK SentIsStored TextComesOnce ReceiptIsTrue
PROPERTY SentIsPolled

\* Two clients of one machine send three messages to it and to another, two boxes each. No deadlock check: all mail may have been read.
CONSTANTS
  n1 = n1
  n2 = n2
  c1 = c1
  c2 = c2
  NULL = NULL
  Node = {n1, n2}
  Client = {c1, c2}
  Home <- MCHome
  Box = {0, 1}
  MaxMail = 3
SPECIFICATION POFairSpec
INVARIANTS DeliveredInOrder BoxInOrder
PROPERTIES MailArrives SendsReturn
CHECK_DEADLOCK FALSE

SPECIFICATION Spec
CONSTANTS
  Main = Main
  Workers = {w1}
  None = None
  MaxPosts = 2
  MaxTransfers = 1
INVARIANT
  DeliveredInOrder
PROPERTY
  NoMessageStuck
CHECK_DEADLOCK FALSE

SPECIFICATION RelaySpec
CONSTANTS
  Lines = 3
  Wide = {2, 3}
  MaxBytes = 2
  MaxDowns = 2
  MaxEmptied = 1
INVARIANTS RelayInv OnceInOrder NothingLost
PROPERTIES EventuallyRelayed KeptSmall
CHECK_DEADLOCK FALSE

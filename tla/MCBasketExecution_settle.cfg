SPECIFICATION FairSpec
CONSTANTS
  NumLegs = 2
  Quantity <- Pair
  Action = "OPEN"
  MaxRetries = 1
  MaxDrops = 1
CHECK_DEADLOCK FALSE
 
 
 
PROPERTY BasketSettles

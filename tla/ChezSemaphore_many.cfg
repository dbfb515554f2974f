SPECIFICATION SemaphoreFairSpec
CONSTANTS
  Waiter = {w1, w2, w3}
  Initial = 1
  MaxPosts = 6
  MaxWaits = 9
INVARIANTS SemaphoreInv
PROPERTIES ImplementsSemaphore PermitsAreUsed
CHECK_DEADLOCK FALSE

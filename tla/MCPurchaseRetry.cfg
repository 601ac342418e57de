CONSTANTS RedisFaults=FALSE Deposit=2 Price=1 SendRetries=1 Loads={"l1","l2"} MaxConfirms=1 MaxToggles=1
SPECIFICATION PurchaseSpec
INVARIANT OneChargePerConfirm
CHECK_DEADLOCK FALSE

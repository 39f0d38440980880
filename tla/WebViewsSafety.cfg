SPECIFICATION ViewSpec
CONSTANT
  Powers = {{}, {"node_administration"}, {"node_administration", "payout_management", "customer_management"}}
INVARIANT OwnWritesShown
PROPERTIES RefusalsForeseen RefusalsAreTold StaleOffersRefused
CHECK_DEADLOCK FALSE

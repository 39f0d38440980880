SPECIFICATION ViewSpec
CONSTANT
  Powers = {{}, {"node_administration"}, {"node_administration", "payout_management", "customer_management"}}
INVARIANT ViewTypeOK
CHECK_DEADLOCK FALSE

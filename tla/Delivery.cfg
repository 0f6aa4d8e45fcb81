SPECIFICATION Spec
CONSTANT MaxActions = 4
INVARIANT DeliveredInOrder
PROPERTY AllDelivered
CHECK_DEADLOCK FALSE

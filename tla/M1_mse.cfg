CONSTANTS
    MaxSegs = 10
    Quota = 4
SPECIFICATION Spec
INVARIANT FifoDelivery
INVARIANT PositionBuffered
PROPERTY QueueDrains
CHECK_DEADLOCK FALSE

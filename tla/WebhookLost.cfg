\* An order webhook whose handler may fail; no worker fails.
SPECIFICATION Spec
CONSTANTS
    w1 = w1  w2 = w2  order = order  shipment = shipment
    Events = {order}
    Malformed = {}
    Workers = {w1}
    MaxAttempts = 8
    BatchSize = 50
    MaxChanges = 1
    MaxFaults = 0
INVARIANTS FailedHandlersAreRetried

\* Two webhooks, two instances, redeliveries, handlers that may end in any way, and
\* two crashes, failed writes or overrun leases.
SPECIFICATION FairSpec
CONSTANTS
    w1 = w1  w2 = w2  order = order  shipment = shipment
    Events = {order, shipment}
    Malformed = {}
    Workers = {w1, w2}
    MaxAttempts = 2
    BatchSize = 2
    MaxChanges = 1
    MaxFaults = 2
INVARIANTS TypeOK DispatchedAgainForAReason GivesUpAfterMaxAttempts ExclusiveUnlessOverrun
PROPERTIES  KeepsPromise

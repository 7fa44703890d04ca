\* A shipment that changes twice; nothing fails.
SPECIFICATION Spec
CONSTANTS
    w1 = w1  w2 = w2  order = order  shipment = shipment
    Events = {shipment}
    Malformed = {}
    Workers = {w1}
    MaxAttempts = 8
    BatchSize = 50
    MaxChanges = 2
    MaxFaults = 0
INVARIANTS NotifiedChangesAreFetched

\* An order of two items, ingested and cancelled.
SPECIFICATION Spec
CONSTANTS
    c1 = c1  c2 = c2
    Ingesters = {c1}
    NItems = 2
    Substatuses = {}
    MaxFaults = 0
INVARIANTS DirectCancellationHoldsNoStock

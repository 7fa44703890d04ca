\* Two published listings; two requests to delete, overlapping or one after the other,
\* and one disturbance at any point.
SPECIFICATION Spec
CONSTANTS
    a = a  b = b  r1 = r1  r2 = r2
    Listings = {a, b}
    Published = {a, b}
    Requesters = {r1, r2}
    Prefetch = 2
    MaxRequests = 2
    MaxDisturbances = 1
SYMMETRY Alike
INVARIANTS TypeOK ErasedMeansClosed ManualRemovalStaysManual
\* The product is erased, or waits for a result that was lost.
CHECK_DEADLOCK FALSE

\* An order of one item, two overlapping ingestions, substatuses and faults.
SPECIFICATION Spec
CONSTANTS
    c1 = c1  c2 = c2
    Ingesters = {c1, c2}
    NItems = 1
    Substatuses = {"in_transit"}
    MaxFaults = 2
SYMMETRY Alike
INVARIANTS TypeOK DeductedMeansTaken StockOutIsTracked ReturnsWereTaken CancelledMeansReturned CancellationsArrive

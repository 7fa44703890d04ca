\* One instance whose timer overlaps two drainOnce calls; crashes, failed writes,
\* lost confirms and recovery.
SPECIFICATION Spec
CONSTANTS
    r1 = r1  r2 = r2  c1 = c1  c2 = c2  m1 = m1  m2 = m2
    Msgs = {m1, m2}
    Relays = {r1}
    Calls = {c1, c2}
    RelayOf <- OneInstance
    MaxAttempts = 3
    BatchSize = 1
    RecoverEvery = 2
    MaxFaults = 2
    NoClaim = NoClaim
SYMMETRY Alike
INVARIANTS TypeOK PublishedMeansDelivered GivesUpOnlyAfterMaxAttempts ExclusiveWork

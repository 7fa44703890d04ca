\* Two instances and one message: every message settles, and the relay implements
\* the promise of the outbox.
SPECIFICATION FairSpec
CONSTANTS
    r1 = r1  r2 = r2  c1 = c1  c2 = c2  m1 = m1  m2 = m2
    Msgs = {m1}
    Relays = {r1, r2}
    Calls = {c1, c2}
    RelayOf <- TwoInstances
    MaxAttempts = 2
    BatchSize = 1
    RecoverEvery = 2
    MaxFaults = 2
    NoClaim = NoClaim
PROPERTIES EveryMessageSettles KeepsPromise

\* Two instances and two orders, one of them paid at first; two changes and two failed
\* calls or crashes.
SPECIFICATION Spec
CONSTANTS
    o1 = o1  o2 = o2  i1 = i1  i2 = i2
    Orders = {o1, o2}
    Dates <- OnePaid
    Instances = {i1, i2}
    PageSize = 1
    MaxAttempts = 2
    MaxChanges = 2
    MaxFaults = 2
INVARIANTS TypeOK NothingIsPassedOver
PROPERTIES FailuresAreRemembered DeadRefsStay
SYMMETRY Alike

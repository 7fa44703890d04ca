\* One handler, one request after the other: a movement of one unit is edited twice.
SPECIFICATION Spec
CONSTANTS
    a = a  b = b  c = c  x = x  y = y  h1 = h1  h2 = h2
    saleA = saleA  saleB = saleB  cancelA = cancelA
    Handlers = {h1}
    Lots = {a, b, c}
    Boxes = {x, y}
    NoBox = NoBox
    Refs = {saleA, saleB, cancelA}
    NoRef = NoRef
    Posts <- AllPosts
    Aims = {2, 3}
    Corrections = {}
    Damages = {}
    MaxTries = 3
    MaxRequests = 3
INVARIANTS AmendmentsReachTheirAim
CHECK_DEADLOCK FALSE

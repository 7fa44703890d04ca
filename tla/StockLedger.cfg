\* Two handlers serve four requests of every kind.
SPECIFICATION Spec
CONSTANTS
    a = a  b = b  c = c  x = x  y = y  h1 = h1  h2 = h2
    saleA = saleA  saleB = saleB  cancelA = cancelA
    Handlers = {h1, h2}
    Lots = {a, b, c}
    Boxes = {x, y}
    NoBox = NoBox
    Refs = {saleA, saleB, cancelA}
    NoRef = NoRef
    Posts <- AllPosts
    Aims = {0}
    Corrections <- ToTwo
    Damages <- OneDamaged
    MaxTries = 3
    MaxRequests = 4
INVARIANTS TypeOK ReferenceOncePerLot OnlyDamageMarkingDiverges AnsweredMeansPosted
PROPERTIES KeepsPort
SYMMETRY HandlersAlike
CHECK_DEADLOCK FALSE

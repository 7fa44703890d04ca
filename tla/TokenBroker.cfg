\* One instance, two accounts and two calls at a time; two grants per account and two events.
\* It may rest: nobody has to ask for anything.
SPECIFICATION Spec
CONSTANTS
    i1 = i1  k1 = k1  k2 = k2
    None = None
    Accounts = {1, 2}
    Instances = {i1}
    Calls = {k1, k2}
    Untimed <- WithoutExpiresAt
    Unrenewable <- WithoutRefreshToken
    MaxGrants = 2
    MaxEvents = 2
INVARIANTS TypeOK LiveTokenIsKept RefreshesAreAccepted DeletedStaysDeleted TokensAreTimed
PROPERTY AnswersFitTheQuestion
SYMMETRY Alike
CHECK_DEADLOCK FALSE

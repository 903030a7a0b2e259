CONSTANTS
    Requests = {r1}
    Names <- MCNames
    MaxConns = 3
    MaxSites = 2
    MaxSuffixes = 1
SPECIFICATION Spec
INVARIANT RequestsFit
PROPERTY NothingDangles
PROPERTY PairsPartCleanly
CONSTRAINT FewLost

SPECIFICATION Spec
CONSTANTS
    r1 = r1
    r2 = r2
    k1 = k1
    Requests = {r1, r2}
    Passkeys = {k1}
    MaxUsers = 2
SYMMETRY Symmetry
PROPERTY LastAdminStays
PROPERTY LastFactorStays
PROPERTY ConfirmedHasSecret

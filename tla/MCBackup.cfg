SPECIFICATION Spec
CONSTANTS
    r1 = r1
    r2 = r2
    users = users
    sites = sites
    Requests = {r1, r2}
    Tables <- MCTables
    Foreign <- MCForeign
    Free = Free
    MaxChanges = 1
    MaxVersion = 2
    MaxSaved = 2
SYMMETRY Symmetry
PROPERTY Implements
PROPERTY StoredRestoreWhole
PROPERTY WipedIsKept

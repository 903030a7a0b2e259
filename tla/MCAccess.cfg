CONSTANTS
    root = root
    ann = ann
    bob = bob
    Names = {root, ann, bob}
    Bootstrap = root
    Places = {"home", "loopback"}
    Loopback = "loopback"
    Here = {"home"}
    Initial = {"home", "loopback"}
    MaxDeeds = 5
SPECIFICATION Spec
INVARIANT LogTellsTokens
INVARIANT IssuedToOwner
INVARIANT ScopeWithinRole
PROPERTY FirstRunComplete
PROPERTY RevocationSticks
SYMMETRY People

SPECIFICATION Spec
CONSTANTS
    Workers = {w1, w2}
    Contents = {login, change}
    LegacyRows = 0
    MaxId = 3
    SingleWriter = TRUE
    NoOne = NoOne
SYMMETRY Symmetry
INVARIANT UntouchedLogVerifies

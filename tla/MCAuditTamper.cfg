SPECIFICATION TamperSpec
CONSTANTS
    Workers = {w1, w2}
    Contents = {login, change}
    LegacyRows = 1
    MaxId = 4
    SingleWriter = TRUE
    NoOne = NoOne
SYMMETRY Symmetry
INVARIANT TamperPinpointed

CONSTANTS
    Conns = {c1, c2, c3}
    Sites = {"srx", "fort"}
    Names = {"x", "y"}
    Refers <- MCRefers
    Links <- MCLinks
    Forms <- MCForms
    Imports <- MCImports
    Choices <- MCChoices
    Algorithms = {"aes", "des"}
    BuiltIn = "aes"
    MaxRows = 2
    MaxChanges = 3
SPECIFICATION Spec
INVARIANT BuiltPairsFit
INVARIANT ObjectsDistinct
INVARIANT SuggestedBothWays
PROPERTY ApprovedAsShown
PROPERTY PeeringMirrors
SYMMETRY Swaps
CONSTRAINT EarlyReviews

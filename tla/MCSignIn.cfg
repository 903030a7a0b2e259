SPECIFICATION Spec
CONSTANTS
    b1 = b1
    b2 = b2
    Browsers = {b1, b2}
    MaxDeeds = 2
PROPERTY SignInEnds

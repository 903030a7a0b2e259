SPECIFICATION Spec
CONSTANTS
    r1 = r1
    r2 = r2
    r3 = r3
    Requests <- MCRequests
    Asked = {"sign", "child", "pending_child", "regenerate", "complete", "discard", "import", "delete"}
    Free = Free
    NoKey = NoKey
    NoCert = NoCert
    Null = Null
PROPERTY ErrorsLeaveNothing
PROPERTY SignedByPresentCa
PROPERTY CompletionFits
PROPERTY SerialsApart
PROPERTY Answered

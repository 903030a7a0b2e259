SPECIFICATION Spec
CONSTANTS
    root = root
    site = site
    offline = offline
    Subjects = {root, site}
    OutsideKeys = {offline}
    DeviceKey = DeviceKey
    Outside <- MCOutside
    Replies <- MCReplies
    AskedTypes = {"issuing"}
    ImportBase = 100
    MaxCas = 3
    MaxCerts = 2
    MaxWorld = 4
    MaxTwins = 2
    MaxKeys = 2
    NoKey = NoKey
    NoCert = NoCert
    Null = Null
INVARIANT TypeOK
INVARIANT Lineage
INVARIANT KeysFitCerts
INVARIANT OneRowPerCert
INVARIANT LeavesChain
INVARIANT SerialsFit
PROPERTY UsableCaFixed
PROPERTY LockedStays
CONSTRAINT Few

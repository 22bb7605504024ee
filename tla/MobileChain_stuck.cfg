SPECIFICATION FairSpec
CONSTANTS
    s1 = s1
    s2 = s2
    None = None
    Slots = {s1}
    Users = {"anne", "paul"}
    Devices = {"d1", "d2"}
    Keys = {"k1", "k2"}
    EventIds = {"e1", "e2", "e3", "e4", "e5", "e6"}
    Requests = {"r1", "r2", "r3", "r4", "r6"}
    Hashes = {"h1", "h2", "h3", "h4", "h6"}
    Batches <- Unobjectionable
PROPERTY EveryBatchIsStored
CHECK_DEADLOCK FALSE

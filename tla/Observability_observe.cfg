SPECIFICATION Spec
CONSTANTS
    s1 = s1
    s2 = s2
    s3 = s3
    h1 = h1
    Slots = {s1, s2, s3}
    Hosts = {h1}
    MaxPerMinute = 2
    Minute = 3
    MaxLen = 4
    MaxBatch = 2
    Kinds = {"ui", "http"}
    Posted = {0, 1, 5}
INVARIANT AtMostTheLimit
PROPERTIES NoLockOut StatsFailOnlyWhenFlooded

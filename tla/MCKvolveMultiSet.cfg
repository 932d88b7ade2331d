SPECIFICATION MultiSpec
CONSTANTS
    c1 = c1
    c2 = c2
    pa = pa
    pb = pb
    NULL = NULL
    Garbled = Garbled
    Client = {c1, c2}
    NS <- MCNS
    Vers = {1, 2}
    Declarations <- Programs
    Updates <- Rename
    KV_INIT_SZ = 20
    Names = {"1"}
    Payload = {pa}
    Numbers = {}
    MaxLen = 0
    Fields = {"f"}
    Reshaped = {"1"}
    Scores = {}
    Typings <- MCTypings
    zset_max_ziplist_entries = 128
    Commands = {"get", "set"}
    Rejectable = {}
    Queued = {"set"}
    MaxQueue = 2
    Watching = {c1}
    Careful = FALSE
PROPERTY SetsOccur
CHECK_DEADLOCK FALSE

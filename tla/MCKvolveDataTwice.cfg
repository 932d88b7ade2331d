SPECIFICATION KvolveSpec
CONSTANTS
    c1 = c1
    c2 = c2
    pa = pa
    pb = pb
    NULL = NULL
    Garbled = Garbled
    Client = {c1}
    NS <- TwiceNS
    Vers = {1, 2, 3}
    Declarations <- OneProgram
    Updates <- TwiceUpdates
    KV_INIT_SZ = 20
    Names = {"1"}
    Payload = {pa}
    Numbers = {0, 1}
    MaxLen = 0
    Fields = {}
    Reshaped = {}
    Scores = {}
    Typings <- Strings
    zset_max_ziplist_entries = 128
    Commands = {"get", "set"}
    Rejectable = {}
INVARIANT Reachable
CHECK_DEADLOCK FALSE

SPECIFICATION PersistSpec
CONSTANTS
    c1 = c1
    a = a
    NULL = NULL
    Garbled = Garbled
    Client = {c1}
    NS <- MCNS
    Vers = {253, 254, 255}
    Declarations <- OneProgram
    Updates <- MCUpdates
    KV_INIT_SZ = 20
    Names = {"1", "2"}
    Payload = {a}
    Numbers = {}
    MaxLen = 0
    Fields = {}
    Reshaped = {}
    Scores = {10}
    Typings <- MCTypings
    zset_max_ziplist_entries = 128
    Commands = {"get", "set", "smembers", "sadd", "zrange", "zadd", "zrem"}
    Rejectable = {"sadd"}
    MaxRestarts = 2
INVARIANTS
    SavedTagsTruthful
    RestartTagsTruthful
    RestartRestores
CHECK_DEADLOCK FALSE
VIEW View

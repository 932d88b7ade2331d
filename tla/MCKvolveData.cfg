SPECIFICATION KvolveSpec
CONSTANTS
    c1 = c1
    c2 = c2
    pa = pa
    pb = pb
    NULL = NULL
    Garbled = Garbled
    Client = {c1}
    NS <- MCNS
    Vers = {1, 2, 3, 4}
    Declarations <- OneProgram
    Updates <- MCUpdates
    KV_INIT_SZ = 20
    Names = {"1", "2"}
    Payload = {pa, pb}
    Numbers = {0, 1}
    MaxLen = 2
    Fields = {}
    Reshaped = {}
    Scores = {10, 13}
    Typings <- MCTypings
    zset_max_ziplist_entries = 3
    Commands = {"get", "set", "setxx", "del", "incr", "mget", "mset", "mdel", "keys",
                "smembers", "sadd", "srem", "zrange", "zadd", "zrem",
                "lrange", "lpush", "rpush", "lpop", "rpop", "lset"}
    Rejectable = {"get", "sadd", "lpush", "zadd"}
INVARIANTS
    KvolveTypeOK
    TagsTruthful
    OneCopy
    Reachable
PROPERTIES
    UpdatesAreEager
    ReadsKeepData
CHECK_DEADLOCK FALSE
VIEW View

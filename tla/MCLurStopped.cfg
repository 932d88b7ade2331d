CONSTANTS
    v0 = v0
    v1 = v1
    v2 = v2
    Client = {r1, r2}
    NS = {"edge"}
    Ver = {v0, v1, v2}
    Suffix = {"n1"}
    Programs <- Programs3
    Files <- Chain
    Updaters = {r1}
    Live = FALSE
    NULL = NULL
    Payload = {p, q}
    Commands = {"get", "set", "delete", "upd_all"}
    Marker = Marker
    Garbled = Garbled
SPECIFICATION LurFairSpec
INVARIANTS LurTypeOK AllUpdated
PROPERTIES UpdatesAreEager CallsEnd
VIEW View

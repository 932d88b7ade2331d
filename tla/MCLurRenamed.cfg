CONSTANTS
    v0 = v0
    v1 = v1
    v2 = v2
    Client = {r1, r2}
    NS = {"edge", "link"}
    Ver = {v0, v1}
    Suffix = {"n1"}
    Programs <- RenamePrograms
    Files <- Rename
    Updaters = {r1}
    Live = FALSE
    NULL = NULL
    Payload = {p, q}
    Commands = {"get", "set", "delete"}
    Marker = Marker
    Garbled = Garbled
SPECIFICATION LurSpec
PROPERTY CommitFresh

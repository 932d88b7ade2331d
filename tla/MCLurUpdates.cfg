CONSTANTS
    v0 = v0
    v1 = v1
    v2 = v2
    Client = {r1, r2}
    NS = {"edge", "link"}
    Ver = {v0, v1, v2}
    Suffix = {"n1"}
    Programs <- TwoSpaces
    Files <- Rivals
    Updaters = {r1, r2}
    Live = TRUE
    NULL = NULL
    Payload = {p}
    Commands = {}
    Marker = Marker
    Garbled = Garbled
SPECIFICATION LurSpec
PROPERTIES NoVersionLost FilesKept
SYMMETRY Symmetry

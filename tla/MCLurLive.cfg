CONSTANTS
    v0 = v0
    v1 = v1
    v2 = v2
    Client = {r1, r2}
    NS = {"edge"}
    Ver = {v0, v1}
    Suffix = {"n1"}
    Programs <- Programs2
    Files <- One
    Updaters = {r1}
    Live = TRUE
    NULL = NULL
    Payload = {p}
    Commands = {"get", "set", "setnx", "setxx", "delete"}
    Marker = Marker
    Garbled = Garbled
SPECIFICATION LurSpec
INVARIANTS ShapesTruthful
PROPERTY CommitFresh

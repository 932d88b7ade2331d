SPECIFICATION RegistrySpec
CONSTANTS
    c1 = c1
    c2 = c2
    c3 = c3
    order = order
    foo_order = foo_order
    bar_order = bar_order
    NULL = NULL
    Client = {c1, c2, c3}
    NS <- MCNS
    Vers = {1, 2, 3}
    Declarations <- MCDeclarations
    Updates <- MCUpdates
    KV_INIT_SZ = 20
SYMMETRY Symmetry
INVARIANTS
    RegistryTypeOK
    HistoryAligned
    HistoryShared
    AncestryAcyclic
    RepeatsOnlyByRename
    UpdatesChain
    TableConsistent
    AtMostOneStale
PROPERTIES
    MemberUpdateEvictsOthers
    HistoryAppendOnly
CHECK_DEADLOCK FALSE

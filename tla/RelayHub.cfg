SPECIFICATION HubSpec
CONSTANTS
    Nodes = {n1, n2, n3}
    Conns = {c1, c2}
    Ids = {i1}
    Incompatible = {n3}
    None = None
    MaxFrames = 1
INVARIANTS
    HubTypeOK
    RegisteredIsRunning
    RegistryIsolation
    DeliveredToAddressee
SYMMETRY HubSymmetry
CHECK_DEADLOCK FALSE

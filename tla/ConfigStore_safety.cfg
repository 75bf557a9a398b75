SPECIFICATION Spec
CONSTANTS
    Names = {n1, n2}
    UUIDs = {u1, u2, u3}
    Handlers = {h1, h2}
    Primary = "reality"
    Inbounds = {"reality", "ws-in"}
    Mirrors <- OneMirror
    InitialUsers <- MCInitialUsers
SYMMETRY Symmetry
INVARIANTS
    LiveFollowsFile
    RevokedStaysRevoked
    OneKeyPerName
    MirrorsInParity
    IInv
PROPERTIES
    RegistryImplemented

SPECIFICATION NodeSpec
CONSTANTS
    Names = {n1, n2}
    UUIDs = {u1, u2, u3}
    Handlers = {h1}
    Primary = "reality"
    Inbounds = {"reality", "ws-in"}
    Mirrors <- AwkwardMirrors
    InitialUsers <- MCInitialUsers
    InitialNodes <- MCInitialNodes
    Tags = {"vless-reality", "reality", "ws-in"}
    DefaultTag = "vless-reality"
    NoTag = ""
    PortTexts = {0, 1, 65536}
    Unset = Unset
    Garbage = Garbage
SYMMETRY Symmetry
INVARIANTS
    NodeTypeOK
    PrimaryFollowsFile
    RevokedStaysOutOfFile
    NInv
    MirrorsAreSound
    PortsAreAsked
PROPERTIES
    ReconcileReachesParity
    RegistrySurvives

SPECIFICATION NodeSpec
CONSTANTS
    Names = {n1, n2}
    UUIDs = {u1, u2, u3}
    Handlers = {h1}
    Primary = "reality"
    Inbounds = {"reality", "ws-in"}
    Mirrors <- OneMirror
    InitialUsers <- MCInitialUsers
    InitialNodes <- MCBootedNodes
INVARIANTS
    NeverSilentlyDisagree

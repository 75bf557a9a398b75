SPECIFICATION FairSpec
CONSTANTS
    Names = {n1}
    UUIDs = {u1, u2}
    Handlers = {h1, h2}
    Primary = "reality"
    Inbounds = {"reality", "ws-in"}
    Mirrors <- OneMirror
    InitialUsers <- MCInitialUsers
PROPERTIES
    EveryRequestIsAnswered

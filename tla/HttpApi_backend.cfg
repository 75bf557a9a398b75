SPECIFICATION HttpSpec
CONSTANTS
    Names = {n1, n2}
    UUIDs = {u1, u2, u3}
    Handlers = {h1, h2}
    InitialUsers <- MCInitialUsers
    NoKey = NoKey
    Unsure = Unsure
SYMMETRY Symmetry
INVARIANTS
    HttpTypeOK
    ViewIsTrue
    NoSurprises
    HInv

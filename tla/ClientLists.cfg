SPECIFICATION Spec
CONSTANTS
    Names = {a, b}
    UUIDs = {u1, u2, u3}
    Inbounds = {"reality", "grpc"}
    Primary = "reality"
    Mirrors <- MCMirrors
    Documents <- MCDocuments
    Blank = Blank
    Junk = Junk
INVARIANTS
    ListsTypeOK
    ReconciledIsPrimary
PROPERTIES
    ListsAreSets
    OthersUntouched
    FlowStaysHome
    StaysDecodable
    NoneIsLeft

SPECIFICATION Spec
CONSTANTS
    Documents = {d1, d2, d3}
    Accepted = {d1, d2}
    Torn = Torn
    None = None
SYMMETRY Symmetry
INVARIANTS
    AInv
    AlwaysWhole
    PermissionsKept
PROPERTIES
    ReplaceImplemented

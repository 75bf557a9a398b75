SPECIFICATION Spec
CONSTANTS
    Settings = {s1, s2}
    None = None
SYMMETRY Symmetry
INVARIANTS
    FoundIsKept
    FailureUndone
    InstalledBoots
    RInv

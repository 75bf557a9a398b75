SPECIFICATION Spec
CONSTANTS
    Users = {a}
    Pollers = {biller, auditor, viewer}
    Resetting = {biller, auditor}
    Goroutines = {g1, g2}
    MaxBytes = 2
    Nobody = Nobody
SYMMETRY Symmetry
INVARIANTS
    EveryByteOnce
    NeverOvercounts
    StatsInv

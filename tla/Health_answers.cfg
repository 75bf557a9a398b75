SPECIFICATION Spec
CONSTANTS
    Names = {n1}
    UUIDs = {u1, u2}
    Inbounds = {"reality"}
    Primary = "reality"
    Callers = {c1, c2}
SYMMETRY Symmetry
INVARIANTS
    HealthyIsEarned
    NoFalseAlarm
    HealthInv

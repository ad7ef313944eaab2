CONSTANTS
    Callers = {c1, c2, c3, c4}
    Keys = {k1}
    Old = Old
    Absent = Absent
    c1 = c1
    c2 = c2
    c3 = c3
    c4 = c4
    k1 = k1
SPECIFICATION Spec
SYMMETRY MCSymmetry
INVARIANTS
    TypeOK
    ReadsNotSuperseded
    CloseSettles

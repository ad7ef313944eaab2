CONSTANTS
    Callers = {c1}
    Size = 3
    Latencies = {1, 2, 3}
    MaxAdds = 7
    c1 = c1
SPECIFICATION Spec
INVARIANTS
    WithinBounds
    PercentilesOfLatest

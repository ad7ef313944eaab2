CONSTANTS
    Callers = {c1, c2}
    Size = 3
    Latencies = {1, 2}
    MaxAdds = 4
    c1 = c1
    c2 = c2
SPECIFICATION Spec
INVARIANTS
    WithinBounds

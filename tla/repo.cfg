SPECIFICATION Spec
CONSTANTS
    c1 = c1
    c2 = c2
    a = a
    b = b
    u = u
    v = v
    Callers = {c1, c2}
    Names = {a, b}
    URLs = {u, v}
    NoUrl = NoUrl
    Absent = Absent
    MaxCalls = 4
INVARIANT RegisteredIsIndexed
SYMMETRY Interchangeable
CHECK_DEADLOCK FALSE

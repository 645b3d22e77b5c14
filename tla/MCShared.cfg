\* Three callers and four calls of the singleton; two readers of a domain that
\* grows from one symbol to three.
CONSTANTS
    a = a
    b = b
    c = c
    Callers = {a, b, c}
    MaxCalls = 4
    r1 = r1
    r2 = r2
    Readers = {r1, r2}
    Start = 1
    MinCap = 2
    MaxSyms = 3
SPECIFICATION MCSpec
INVARIANTS OneOwner GetHonest DomainRight
PROPERTIES CallsReturn ReadsEnd
CHECK_DEADLOCK FALSE

CONSTANTS
    a = a
    b = b
    c = c
    d = d
    Workers = {w1, w2, w3}
    None = None
    Items <- MCItems
    Spawns <- MCSpawns
SPECIFICATION Spec
INVARIANT EnoughAwake
PROPERTIES
    DestroyReturns
    ImplementsBag

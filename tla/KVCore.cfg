SPECIFICATION KVSpec
CONSTANTS
    ID = {p, q, r}
    NoTree = NoTree
    Token = {x, y}
    MaxLen = 3
    MaxStep = 2
    Capacity = 6
    Budget = 5
    ReuseNamespace = FALSE
SYMMETRY Symmetry
INVARIANTS PrefixResident RefsExact BooksKept LookupsSound

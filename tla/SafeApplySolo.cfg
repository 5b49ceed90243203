\* A manual refresh alone; create and disk faults, four managed tables.
CONSTANTS
    self = menu
    Procs = {menu}
    LoopProcs = {}
    Gens = {g1, g2, g3}
    NTables = 4
    Faults = {"create", "disk"}
    Absent = Absent
    Empty = Empty
    Torn = Torn
SPECIFICATION Spec
PROPERTY KeepsPromise

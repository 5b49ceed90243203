\* One process, every fault, the four managed tables of apply.rs.
CONSTANTS
    Procs = {service}
    LoopProcs = {service}
    Gens = {g1, g2}
    NTables = 4
    Faults = {"create", "disk", "list", "delete", "save", "restore", "kill"}
    Absent = Absent
    Empty = Empty
    Torn = Torn
SPECIFICATION Spec
INVARIANTS TypeOK NoSilentOutage

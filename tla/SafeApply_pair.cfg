\* The service and one manual refresh with two scripts, three faults, two
\* managed tables.
CONSTANTS
    Procs = {service, menu}
    LoopProcs = {service}
    Gens = {g1, g2}
    NTables = 2
    Faults = {"create", "delete", "kill"}
    Absent = Absent
    Empty = Empty
    Torn = Torn
    MaxBlocks = 2
SPECIFICATION Spec
CONSTRAINT FewBlocks
SYMMETRY Texts
VIEW View
INVARIANTS RolledBackRestores KeptUntouched SuccessInstalls

\* The service and its faults over a midnight; an operator looks or resets once.
SPECIFICATION AllSpec
CONSTANTS
    Service = service
    Menu = menu
    MenuOps = {"show", "reset"}
    N = 2
    Limit <- MCLimit
    Daily <- MCDaily
    Faults = {"nft", "stats", "save", "apply", "kill"}
    Unseen = unseen
    MaxBytes = 2
    MaxDay = 2
    MaxEdits = 1
    MaxFaults = 1
INVARIANTS
    NeverOvercounts
    Ledger
PROPERTIES
    FirstDisabledByOwnTraffic

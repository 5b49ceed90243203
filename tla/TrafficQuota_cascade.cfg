\* The service alone, no fault: only the quota disables rules.
SPECIFICATION AllSpec
CONSTANTS
    Service = service
    Menu = menu
    MenuOps = {}
    N = 2
    Limit <- MCLimit
    Daily <- MCDaily
    Faults = {}
    Unseen = unseen
    MaxBytes = 3
    MaxDay = 1
    MaxEdits = 0
    MaxFaults = 0
PROPERTIES
    DisabledForOwnTraffic

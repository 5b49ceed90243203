\* Liveness, and notices: an operator toggles a rule once; one failure.
SPECIFICATION AllFairSpec
CONSTANTS
    Service = service
    Menu = menu
    MenuOps = {"toggle"}
    N = 2
    Limit <- MCLimit
    Daily <- MCDaily
    Faults = {"write", "save", "apply", "kill"}
    Unseen = unseen
    MaxBytes = 2
    MaxDay = 1
    MaxEdits = 1
    MaxFaults = 1
INVARIANTS
    NoticesDeduplicated
PROPERTIES
    QuotaEnforced

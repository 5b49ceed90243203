\* The service and manual refreshes, faults of the disk and of nft, an editor.
CONSTANTS
    Service = service
    Procs = {service, menu}
    Rules = {r1}
    a1 = a1
    a2 = a2
    Addrs = {a1, a2}
    AllowLists <- MCAllowLists
    NoAddr = NoAddr
    None = None
    Invalid = Invalid
    HandEdits = TRUE
    Faults = {"apply", "create", "save"}
    MaxChanges = 2
    MaxFaults = 1
SPECIFICATION FairSpec
PROPERTY ConvergesIfOwn

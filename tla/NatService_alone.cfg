\* The service alone; the faults a round recovers from; atomic edits only.
CONSTANTS
    Service = service
    Procs = {service}
    Rules = {r1, r2}
    a1 = a1
    a2 = a2
    Addrs = {a1, a2}
    AllowLists <- MCAllowLists
    NoAddr = NoAddr
    None = None
    Invalid = Invalid
    HandEdits = FALSE
    Faults = {"apply", "prepare", "save", "kill"}
    MaxChanges = 3
    MaxFaults = 2
SPECIFICATION FairSpec
INVARIANTS TypeOK HashMatchesKernel OnePolicyAdmits
PROPERTIES DnsOutageKeepsRule Converges

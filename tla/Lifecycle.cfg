\* Two operations in a row, every failure; a bare host or a running service.
\* A bare host has nothing left to do once MaxOps is reached.
CONSTANTS
    Faults = {"net", "disk", "systemctl", "nft", "rm", "die", "kill"}
    MaxOps = 2
SPECIFICATION FairSpec
INVARIANT UninstallLeavesNothing
PROPERTY ServiceComesBack
CHECK_DEADLOCK FALSE

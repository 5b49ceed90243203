\* Two menus and the quota check of the service over one file.
CONSTANTS
    V4 <- MCV4
    V6 <- MCV6
    Names <- MCNames
    MaxPort = 3
    Menus = {m1, m2}
    Ops <- MCOps
    Alone <- MCAlone
    PageOps <- MCPageOps
    Start <- MCStart
    StartCache <- MCStartCache
    Ip <- MCIp
    Zones = {"UTC", "Asia/Shanghai"}
    Over = {1}
    MaxOps = 2
    MaxFaults = 1
    MaxClock = 1
SPECIFICATION Spec
SYMMETRY MCSymmetry
INVARIANT CacheKeepsToItsDomain
PROPERTIES NeverTorn StaysLoadable EditsStayApart KeepsItsOwnSaves SaysTrue ReplacedIsKept
CHECK_DEADLOCK FALSE

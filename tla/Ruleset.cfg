\* Every pair of the rules under every variant of one policy.
CONSTANTS
    V4 <- MCV4
    V6 <- MCV6
    Names <- MCNames
    MaxPort = 3
    Configs <- MCConfigs
    Packets <- MCPackets
SPECIFICATION Spec
INVARIANTS PageIsTrue PlanIsTrue AccessHolds EgressHolds GeoHolds RoutesAsConfigured TrafficIsCounted QueryIsTrue LinesRoundTrip
CHECK_DEADLOCK FALSE

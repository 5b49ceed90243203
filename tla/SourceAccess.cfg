\* The service and one menu, with every failure.
CONSTANTS
    V4 <- MCV4
    V6 <- MCV6
    Names <- MCNames
    MaxPort = 3
    Net <- MCNet
    Answers <- MCAnswers
    Files <- MCFiles
    Edits <- MCEdits
    Start <- MCStart
    StartDns <- MCStartDns
    MaxChanges = 3
    MaxFaults = 1
SPECIFICATION FairSpec
INVARIANTS SourcesAreResolved WidthFollows
PROPERTIES OutageKeepsSources LockCheckTrue Settles
CHECK_DEADLOCK FALSE

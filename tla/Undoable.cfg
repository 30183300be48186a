SPECIFICATION FairSpec
CONSTANTS
    Rows = {r1, r2}
    NoRow = NoRow
    Sites <- AllSites
    Modes <- BothModes
    MaxReloads = 1
    MaxFaults = 1
INVARIANTS TypeOK OneCommit ReverseFollowsCommit LockIsItsDelete SettledListIsServers
PROPERTIES UndoneInTimeIsNeverSent ImplementsScheduledWrite WritesSettle
CHECK_DEADLOCK FALSE

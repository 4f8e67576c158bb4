SPECIFICATION FairSpec
CONSTANTS
    Lines = {l1, l2}
    LastProject = 2
    States = {open, closed}
    Open = open
    App = app
    Assistants = {chat}
    None = none
    Alien = alien
    MaxChanges = 4
    MaxFaults = 2
CHECK_DEADLOCK FALSE
INVARIANTS UnlistedSnapshotsMatch
PROPERTIES BehindIsWritten LostLedgerComesBack

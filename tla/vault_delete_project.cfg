SPECIFICATION Spec
CONSTANTS
    s1 = s1
    Actors = {app, assistant}
    Ids = {n1}
    Projects = {a, b}
    Stem <- OneStem
    Inbox = Inbox
    Nothing = Nothing
    Calls <- ProjectCalls
    Extras = {FALSE, TRUE}
    LastName = 2
    Budget = 1
CHECK_DEADLOCK FALSE
PROPERTIES MovedNotesKeepEveryField

SPECIFICATION Spec
CONSTANTS
    s1 = s1
    Actors = {app, assistant}
    Ids = {n1, n2}
    Projects = {a, b}
    Stem <- OneStem
    Inbox = Inbox
    Nothing = Nothing
    Calls <- AllCalls
    Extras = {FALSE}
    LastName = 2
    Budget = 3
SYMMETRY Alike
CHECK_DEADLOCK FALSE
INVARIANTS NoNoteIsLost OneFilePerNote 

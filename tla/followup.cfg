SPECIFICATION FSpec
CONSTANTS
    n1 = n1
    n2 = n2
    you = you
    nobody = nobody
    wOld = wOld
    wNew = wNew
    inbox = inbox
    Entries = {e1, e2}
    Notes = {n1, n2}
    Lines <- NoteLines
    Words = {wOld, wNew}
    Owners = {you, nobody}
    You = you
    Unassigned = nobody
    NoteOf <- LineNote
    WordsOf <- LineWords
    OwnerOf <- WordsOwner
    Projects = {inbox}
    Dates = {1}
    Claims = {c1}
    Pages <- NotePages
    Identities = {}
    Conversations <- Talks
SYMMETRY EntrySymmetry
VIEW Told
CONSTRAINT OneAccident
ACTION_CONSTRAINT NothingBegins
INVARIANTS SupersededIffLinked ConversationCloseHasClaim
PROPERTIES ClaimedLineStays FirstChangeWins FollowUpLosesNoLine

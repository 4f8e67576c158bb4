SPECIFICATION Spec
CONSTANTS
    n1 = n1
    n2 = n2
    you = you
    sam = sam
    nobody = nobody
    wSam = wSam
    wNobody = wNobody
    inbox = inbox
    growth = growth
    Entries = {e1, e2}
    Owners = {you, sam, nobody}
    You = you
    Unassigned = nobody
    Claims = {c1}
    Notes = {n1, n2}
    Lines <- TwoNoteLines
    Words = {wSam, wNobody}
    NoteOf <- TwoNoteOf
    WordsOf <- TwoNoteWords
    OwnerOf <- TwoNoteOwner
    Projects = {inbox, growth}
    Dates = {1, 2}
    Pages <- TwoNotePages
    Identities = {{sam}}
SYMMETRY EntrySymmetry
ACTION_CONSTRAINT NothingIsBehind
INVARIANTS DirectionFitsOwner MachineUntrackHasOneSource ManualEnrolmentSticks
PROPERTIES ChangesMarkTheirProjects

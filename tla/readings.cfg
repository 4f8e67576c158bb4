SPECIFICATION RSpec
CONSTANTS
    n1 = n1
    you = you
    sam = sam
    nobody = nobody
    wYou = wYou
    wSam = wSam
    inbox = inbox
    Entries = {e1, e2}
    Notes = {n1}
    Lines <- NoteLines
    Words = {wYou, wSam}
    Owners = {you, sam, nobody}
    You = you
    Unassigned = nobody
    NoteOf <- LineNote
    WordsOf <- LineWords
    OwnerOf <- WordsOwner
    Projects = {inbox}
    Dates = {1}
    Claims = {}
    Pages <- NotePages
    Identities = {}
SYMMETRY EntrySymmetry
INVARIANTS OwedLinesHeld OneHolderPerLine
PROPERTIES ResyncOfDistinctLinesWritesNothing LostLineAsks OnlyAPersonReopens NoDuplicateMinted

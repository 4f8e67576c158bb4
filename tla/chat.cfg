SPECIFICATION FairSpec
CONSTANTS
    LastChat = 2
    LastPrompt = 2
    Nothing = Nothing
    MaxSaid = 3
    MaxFaults = 1
CHECK_DEADLOCK FALSE
INVARIANTS PromptsAreAnsweredOnce NoteHasTheWholeChat
PROPERTIES EndedChatIsNoted

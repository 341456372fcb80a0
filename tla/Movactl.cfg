CONSTANTS
    a = a
    b = b
    d = d
    e = e
    Letter <- MCLetter
    NameSets <- MCNameSets
    ArgLists <- MCArgLists
    Lines = 2
    Command <- MCCommand
    Nargs <- MCNargs
    CodeOf <- MCCodeOf
    Wire <- MCWire
    Supports <- MCSupports
    Enable <- MCEnable
    Disable <- MCDisable
    Notify <- MCNotify
    MayDisable = TRUE
SPECIFICATION MovactlFairSpec
INVARIANTS CandidatesAreBest ToldWhatWasMeant
PROPERTIES NamedCommandIsDone
CHECK_DEADLOCK FALSE

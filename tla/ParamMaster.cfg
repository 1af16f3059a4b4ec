SPECIFICATION FairSpec
CONSTANTS
    h1 = h1  h2 = h2  short = short  long = long
    Boundary = Boundary  Blank = Blank
    Escape = Escape  Escaped <- MCEscaped
    MinFrame = 1  FrameMax = 7
    Handlers <- MCHandlers
    Pieces <- MCPieces
    Values <- MCValues
    Default = long
    Size <- MCSize
    Stop = 18
    OldSaves <- MCOldSaves
    Torn = {2}
    MaxCommands = 2  MaxFaults = 1
INVARIANTS TypeOK WedgedOnlyByLoss ParserBetweenLoads GetInOrder OngoingIsAnswered
PROPERTIES SavedIsTheTree  EveryActionEnds
CHECK_DEADLOCK FALSE

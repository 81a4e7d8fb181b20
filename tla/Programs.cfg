CONSTANTS
    PRINTF_INTEGER_BUFFER_SIZE = 8
    PRINTF_MAX_POSSIBLE_BUFFER_SIZE = 100
    CharBits = 5
    ShortBits = 6
    IntBits = 8
    LongBits = 16
    NULL = NULL
    Names <- mc_Names
    Contents <- mc_Contents
    Argvs <- mc_Argvs
    HeadSize = 1
    HeaderSize = 2
    Leftover = "?"
    Missing = Missing
    MaxEdits = 1
    RowLength = 2
    Code <- mc_Code
    Tails <- mc_Tails
SPECIFICATION Spec
INVARIANTS AsSpecified Terminated ReadBack ProgramShows
CHECK_DEADLOCK FALSE

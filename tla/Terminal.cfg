CONSTANTS
    Width = 11
    Height = 3
    FontWidth = 2
    FontHeight = 1
    Spacing = 1
    FontBits <- mc_FontBits
    LineGlyphs <- mc_LineGlyphs
    NULL = NULL
    Writes <- mc_Writes
    MaxWrites = 3
    MAX_ESC_VALUES = 5
    Printable <- mc_Printable
    Lead <- mc_Lead
    Payload <- mc_Payload
    cp437 <- mc_cp437
    Syscalls = {}
    Colours = {}
SPECIFICATION Spec
INVARIANTS QueueFits InkIsRecorded
PROPERTIES WriteShows RegionOnly
CHECK_DEADLOCK FALSE

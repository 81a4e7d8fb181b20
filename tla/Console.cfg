CONSTANTS
    Width = 5
    Height = 2
    FontWidth = 1
    FontHeight = 1
    Spacing = 1
    FontBits <- mc_FontBits
    LineGlyphs <- mc_LineGlyphs
    NULL = NULL
    Writes <- mc_Printed
    MaxWrites = 5
    MAX_ESC_VALUES = 5
    Printable <- mc_Printable
    Lead <- mc_Lead
    Payload <- mc_Payload
    cp437 <- mc_cp437
    Syscalls = {"clear", "fg", "bg", "fg_default", "bg_default"}
    Colours = {255}
SPECIFICATION Spec
PROPERTIES PlainText
CHECK_DEADLOCK FALSE

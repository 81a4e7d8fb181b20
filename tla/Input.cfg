CONSTANTS
    MaxKeys = 5
    StrSize = 4
    TempSize = 3
    ArgSlots = 2
    Columns = 4
    TabSize = 2
    Left = {0, 1, 3, 4}
SPECIFICATION Spec
INVARIANTS LineIsEcho ArgsSpellLine
PROPERTIES KeysInOrder

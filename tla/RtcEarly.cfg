CONSTANTS
    HOURS = 2
    MINUTES = 2
    SECONDS = 11
    Sleeps = {0, 1, 11, 12, 25}
SPECIFICATION RtcSpec
PROPERTY NeverEarly

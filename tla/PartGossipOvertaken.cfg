SPECIFICATION PartSpec
CONSTANTS
    None = None
    Parts = {1, 2}
    Blocks = {x, y}
    Committed = y
    MaxPartRound = 1
PROPERTY HelpsCatchUp
CHECK_DEADLOCK FALSE

SPECIFICATION Spec
CONSTANTS
    Questions = {q1, q2}
    FirstQuestion = q1
    Null = null
    Saves = {s1, s2}
    Renders = {r1, r2}
    MaxEdits = 2
    MaxMoves = 1
    MaxSaves = 2
SYMMETRY Symmetry
PROPERTIES
    OldSaveNeverOverwrites
CHECK_DEADLOCK FALSE

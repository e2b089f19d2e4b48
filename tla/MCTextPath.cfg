SPECIFICATION Spec
CONSTANTS
    Calls <- LevelOne
    MaxBlock = 2
    MaxSent = 6
    Window = 2
    None = None
INVARIANT NewTextIsSentAsT140
\* the text comes to an end
CHECK_DEADLOCK FALSE

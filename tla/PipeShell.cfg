CONSTANTS
    MaxCommands = 3
    PipeCap = 1
    MaxOutput = 2
    MaxLines = 2
    Shell = Shell
SPECIFICATION Spec
CHECK_DEADLOCK FALSE
INVARIANTS
    EndOfInputArrives
    PromptIsClean
PROPERTY LineEnds

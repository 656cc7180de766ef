CONSTANTS
    Tables <- MCTables
    Texts <- MCTexts
    Modes = {"if"}
    Paste <- MCPaste
    Recursive = TRUE
SPECIFICATION Spec
INVARIANT NothingLeft

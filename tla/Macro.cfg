CONSTANTS
    Tables <- MCTables
    Texts <- MCTexts
    Modes = {"text", "if"}
    Paste <- MCPaste
    Recursive = FALSE
SPECIFICATION Spec
INVARIANTS ExpandsAsStd NothingLeft

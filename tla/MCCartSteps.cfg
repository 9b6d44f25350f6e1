SPECIFICATION Spec
CONSTANTS
    Name = {"americano", "latte"}
    Option = {"shot"}
    Quantity <- MCQuantity
    Options <- MCOptions
    HistoryLimit = 2
    MaxLines = 2
    MaxQuantity = 2
    MaxCalls = 4
CHECK_DEADLOCK FALSE
INVARIANTS
    TypeOK
    HistoryChain
PROPERTIES
    ImplementsCart
    IsUndoStack
    TwinsOnlyByRewriting
    GetUntorn

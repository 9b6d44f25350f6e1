SPECIFICATION DispatcherSpec
CONSTANTS
    Name = {"latte", "bingsu", "mango", "la", "cold", "ALL"}
    MenuName = {"latte", "bingsu", "mango"}
    FamilyName = {"cold"}
    MenuCategory <- MCMenuCategory
    StockField <- MCStockField
    Option = {"shot1", "shot2", "syrup"}
    OptionName = {"shot1", "shot2", "syrup"}
    OptionCategory <- MCOptionCategory
    Applicable <- MCApplicable
    Exclusive = {"shot"}
    Slang <- MCSlang
    OptionList <- MCOptionList
    Options <- MCOptions
    Quantity <- MCQuantity
    AddQuantity <- MCAddQuantity
    RemoveQuantity <- MCRemoveQuantity
    NotANumber = NotANumber
    HistoryLimit = 1
    MaxLines = 2
    MaxQuantity = 3
INVARIANTS
    DispatcherTypeOK
    LinesOrderable
    MergeIsLoop
PROPERTIES
    EmptyLineOnlyByAdding
    OversoldOnlyByRemoving
    ChangeOptionSettles

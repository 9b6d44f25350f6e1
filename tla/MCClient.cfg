\* Three requests of one page.
SPECIFICATION FairClientSpec
CONSTANTS
    Name = {"latte", "bingsu", "ALL"}
    MenuName = {"latte", "bingsu"}
    FamilyName = {}
    MenuCategory <- MCMenuCategory
    StockField <- MCStockField
    Option = {"shot1", "shot2", "syrup"}
    OptionName = {"shot1", "shot2", "syrup"}
    OptionCategory <- MCOptionCategory
    Applicable <- MCApplicable
    Exclusive = {"shot"}
    Slang <- MCSlang
    OptionList <- MCOptionList
    Options <- MCOptions
    Quantity = {1}
    AddQuantity <- MCAddQuantity
    RemoveQuantity <- MCRemoveQuantity
    NotANumber = NotANumber
    HistoryLimit = 1
    MaxLines = 3
    MaxQuantity = 3
    MaxRequests = 3
    NoLine = NoLine
CHECK_DEADLOCK FALSE
INVARIANTS
    ClientTypeOK
    PageShowsCart
PROPERTIES
    ChipChooses
    ComposerFreed

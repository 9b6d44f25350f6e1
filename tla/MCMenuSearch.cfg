SPECIFICATION Spec
CONSTANTS
    Letter = {"a", "b", "c"}
    Menus <- MCMenus
    Categories <- MCCategories
    Aliases <- MCAliases
    Family <- MCFamily
    Indexed <- MCIndexed
    Texts <- MCTexts
    MaxContext = 3
    MaxInquiry = 2
    MaxUnsure = 1
    MaxFamily = 2
    MaxSimilar = 2
    PerCategory = 1
INVARIANTS
    TypeOK
    Grounded
    StrongestShown

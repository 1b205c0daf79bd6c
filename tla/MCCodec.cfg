CONSTANTS
    Messages <- MCMessages
    Dialects = {"i8", "apache"}
    NestingLimit = 3
    XmlSizeLimit = 16
    IntMax = 3
    EditNames = {"value", "array", "struct", "data", "member", "name", "string", "i4", "params", "other"}
    EditTexts <- MCEditTexts
    EditTokens <- MCEditTokens
    EditSpecs <- MCEditSpecs
    MaxBranches = 2
    MaxEdits = 1
    Memories = {0, 1, 2, 3, 4, 5, 6, 7, 99}
SPECIFICATION Spec
INVARIANTS
    AcceptsWhatItMeans
    NothingLeaked
    
CHECK_DEADLOCK FALSE

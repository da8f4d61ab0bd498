CONSTANTS
    PageIds = {"p1", "p2", "p3", "p9"}
    FieldIds = {"who", "pick", "more"}
    Values <- MCValues
    Empty = ""
    Blank = " "
    Parts <- MCParts
    Num <- MCNum
    Lists = {"a+b"}
    Matches <- MCMatches
    Dates = {}
    Listed = "[a]"
    MaxFields = 3
    MaxRules = 2
    None = None
    Schemas <- MCSchemas
    Edits <- MCEdits
    Replies <- MCReplies
    Purposes = {"contact"}
    Editors = {e1, e2}
    Visitors = {v}
    MaxVersions = 2
    MaxSubs = 1
    MaxDocs = 2
SPECIFICATION FormsSpec
CHECK_DEADLOCK FALSE
SYMMETRY MCSymmetry
INVARIANTS LiveIsNewest NavigationHolds GivenReadsAsGiven
PROPERTIES NonBreakingKeepsRows

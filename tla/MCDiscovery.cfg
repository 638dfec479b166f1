CONSTANTS
    Wild <- MCWild
    Denotes <- MCDenotes
    Like <- MCLike
    Projects <- MCProjects
    Edits <- MCEdits
    Skills <- MCSkills
    Capabilities <- MCCapabilities
    Topical = {"k1", "k3"}
    Ranked <- MCRanked
    RankedCapabilities <- MCRankedCapabilities
    Questions <- MCQuestions
    Limit = 1
    MaxEdits = 1
    MaxRefreshes = 1
    MaxQuestions = 1
CHECK_DEADLOCK FALSE
SPECIFICATION FairSpec
INVARIANTS  NothingElse
PROPERTY PagesEnd

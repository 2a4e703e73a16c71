CONSTANTS
    Flags = {"sampleInterval", "host", "metricConfigFile", "start", "ruleNameFilter", "matcher"}
    Words <- MCWords
    Args <- MCArgs
    Texts <- MCTexts
    Requests <- MCRequests
SPECIFICATION FairSpec
INVARIANTS
    CommandInv
    FlagsFollowPrecedence
PROPERTIES
    InterruptEnds

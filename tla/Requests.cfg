\* Pages of one or two rows, and walks with and without a filter.
CONSTANTS
    Calls = {c1, c2}
    MaxAttempts = 2
    MaxThreshold = 2
    Definitions <- MCDefinitions
    Outcomes = {"true", "false", "error", "other"}
    Inputs <- MCInputs
    MaxRules = 3
    MaxItems = 2
    Ranks = {1, 2, 3, 4}
    Statuses = {"active", "disabled"}
    NoFilter = "any"
    DefaultSize = 1
    MaxSize = 2
    Asked = {0, 1, 7}
SPECIFICATION MCSpec
INVARIANTS RequestTypes ClientSound AnswerFaithful ListsSound
PROPERTIES CallsEnd
CHECK_DEADLOCK FALSE

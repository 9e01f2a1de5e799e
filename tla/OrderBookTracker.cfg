SPECIFICATION Spec
CONSTANTS
    Prices <- MCPrices
    Amounts <- MCAmounts
    FirstBooks <- MCFirstBooks
    PAST_DIFF_WINDOW_SIZE = 2
    SavedLimit = 2
    MaxUpdates = 4
    MaxSnapshots = 1
INVARIANTS BookIsNotCrossed QuotesAreLive ProcessedBookIsCurrent
PROPERTY NewerLevelsWin
CHECK_DEADLOCK FALSE

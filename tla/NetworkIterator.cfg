SPECIFICATION FairSpec
CONSTANTS
    MaxStarts = 3
    StopsFirst = TRUE
    Swallows = FALSE
 
 
PROPERTY ExchangeIsFound

SPECIFICATION PollSpec
CONSTANTS
    Pollers <- MCPollers
    Interval <- MCInterval
    Items <- MCItems
    Detailed <- MCDetailed
    Errors = {"500"}
    MaxVersion <- MCMaxVersion
    MaxFailedQueries = 1
    MaxLate = 1
    None = None
INVARIANTS DetailsLag
PROPERTIES LogCatchesUp

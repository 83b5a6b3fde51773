CONSTANTS
    Modes = {"FTP"}
    MaxVersion = 1
SPECIFICATION FetchSpec
INVARIANTS UndisturbedFetchDelivers

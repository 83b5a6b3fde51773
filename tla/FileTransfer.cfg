CONSTANTS
    Modes = {"FTP", "SFTP"}
    MaxVersion = 2
SPECIFICATION FetchSpec
INVARIANTS NormalMeansFetched PairMatches

SPECIFICATION MCFairSpec
CONSTANTS
    Intent = {"i1"}
    Retention = 2
    Limit = 1
    MaxDay = 2
    MaxGeneration = 2
    MaxAborts = 1
    Parts = {"recovery", "oneJob", "ingest", "quiet"}
PROPERTIES
    BooksSettle
CHECK_DEADLOCK FALSE

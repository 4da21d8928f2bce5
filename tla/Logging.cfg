SPECIFICATION LoggerSpec
CONSTANTS
    Threads <- MCThreads
    Nobody = "nobody"
    Levels <- MCLevels
    Paths <- MCPaths
    EmptyPath = ""
    MaxCalls = 4
INVARIANTS LoggerFollowsConfig OneLogger
CHECK_DEADLOCK FALSE

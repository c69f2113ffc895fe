CONSTANTS
    MaxProxies = 3
    MaxSeq = 6
    MaxDrops = 1
    Steps = 3
    InitCodes = {200}
    DropCodes = {1006}
SPECIFICATION Spec
PROPERTY DropLeadsToOnline
CHECK_DEADLOCK FALSE

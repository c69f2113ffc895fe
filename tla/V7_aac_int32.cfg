CONSTANTS
    W = 14
    Media = "audio"
    StartTs = {0, 10000}
    Steps = {1024}
    MaxTs = 49152
SPECIFICATION Spec
PROPERTY AacDtsMonotone
CHECK_DEADLOCK FALSE

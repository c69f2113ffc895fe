CONSTANTS
    MaxFrames = 8
    Intervals = {18000}
    MaxSlices = 1
    InbandParams = TRUE
    GopLen = 5
    Jitters = {0, 1800}
    FlushPeriod = 18000
    FirstTicks = {0, 9000}
    FuParts = 1
    BrowserIsChrome = TRUE
    StapParams = FALSE
SPECIFICATION Spec
INVARIANT SamplesHaveDuration
CHECK_DEADLOCK FALSE

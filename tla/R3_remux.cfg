CONSTANTS
    MaxFrames = 7
    Intervals = {3600, 5400}
    MaxSlices = 2
    InbandParams = TRUE
    GopLen = 5
    Jitters = {0, 1800}
    FlushPeriod = 18000
    FirstTicks = {0, 9000}
    FuParts = 2
    BrowserIsChrome = TRUE
    StapParams = TRUE
SPECIFICATION Spec
INVARIANT MdatLenMatchesSamples
INVARIANT NalusWhole
INVARIANT StartsOnKeyframe
INVARIANT SamplesHaveDuration
INVARIANT FragmentsDoNotOverlap
CHECK_DEADLOCK FALSE
INVARIANT TrackSizedFromSps
PROPERTY FedFragmentWellFormed
INVARIANT InitSegmentsDescribeTracks

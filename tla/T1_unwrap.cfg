CONSTANTS
    W = 12
    Media = "video"
    StartTs = {0, 3000, 4000}
    Steps = {700, 1500}
    MaxTs = 12288
SPECIFICATION Spec
INVARIANT UnwrapWithinOneTickPerWrap
PROPERTY UnwrapMonotone
CHECK_DEADLOCK FALSE

\* A composer and the viewer read while loads of two sources begin, write and
\* commit and licence rows arrive.
SPECIFICATION Spec
CONSTANTS
    Sources <- MCSources
    Rank <- MCRank
    Licence <- MCLicence
    Fields <- MCFields
    Incorporated = "incorporated"
    Channels <- MCChannels
    ViewerChannel = "api"
    Detectors <- MCDetectors
    DetectorSource <- MCDetectorSource
    RuleFrom <- MCRuleFrom
    RuleTo <- MCRuleTo
    Readers = {p1}
    p1 = p1
    MaxLoads = 2
    MaxClock = 2
INVARIANTS
    GateHolds
    ReplaysExactly
    DeniedByDefault
CHECK_DEADLOCK FALSE

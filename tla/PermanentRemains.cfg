CONSTANTS
    Names <- MCNames
    Rank <- MCRank
    LeapRel = "leaprel"
    Temp = "_temp"
    NoTable = NoTable
    NoFile = NoFile
    NoName = NoName
    MaxMade = 2
    MaxFaults = 1
SPECIFICATION Spec
PROPERTY PermanentRemains

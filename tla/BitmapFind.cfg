CONSTANTS
    MaxSize = 5
    SIZE_MAX = 15
SPECIFICATION FairSpec
INVARIANT FindCorrect
PROPERTY Terminates

CONSTANTS
    Chars <- MCChars
    MaxFormat = 5
    CHAR = 128
    INT = 256
    LONG = 4096
    Ints <- MCInts
    Longs <- MCLongs
    Strings <- MCStrings
    BufX = 3
    BufLX = 4
    BufU = 4
    BufLU = 5
    BufD = 5
    BufLD = 6

SPECIFICATION Spec


    

PROPERTY
    LogReturns

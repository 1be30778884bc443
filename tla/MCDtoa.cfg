SPECIFICATION Spec
CONSTANTS
    W = 10
    HiBits = 2
    Bias = 30
    IntMax = 2
    TenPmax = 5
    DigitRoom = 6
    TextRoom = 11
    Exps = {0, 1, 2, 3, 10, 18, 24, 29, 30, 31, 34, 36, 39, 42, 44, 46, 48, 49, 53, 57, 59, 60, 61}
    His = {0, 1, 3}
    Los = {0, 1, 2, 5, 300, 512, 771, 1000, 1023}
INVARIANTS BlocksSound QuoremBounds ShortestDigits TextExact

CONSTANTS
    Modulus = 8
    WordBits = 2
    WordCount = 2
    MaxNumber = 9
    MaxAcks = 2
    Arrivals <- MCArrivals
SPECIFICATION Spec
INVARIANTS TypeOK WindowsMatchHistory AtMostOnce FreshAccepted AckSound
CHECK_DEADLOCK FALSE

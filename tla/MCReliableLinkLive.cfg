CONSTANTS
    Modulus = 8
    WordBits = 2
    WordCount = 1
    AllowNone = AllowNone
    AllowInDump = AllowInDump
    AllowInDumpAndPush = AllowInDumpAndPush
    Resend = Resend
    OrderResend = OrderResend
    ResendRetries = 1
    MaxSent = 2
    MaxWriters = 2
    MaxAcks = 1
    MaxRetries = 1
SPECIFICATION FairSpec
PROPERTIES OrderedIsReceived ResendingEnds
CHECK_DEADLOCK FALSE

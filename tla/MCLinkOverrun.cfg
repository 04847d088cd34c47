CONSTANTS
    Modulus = 8
    WordBits = 1
    WordCount = 1
    AllowNone = AllowNone
    AllowInDump = AllowInDump
    AllowInDumpAndPush = AllowInDumpAndPush
    Resend = Resend
    OrderResend = OrderResend
    ResendRetries = 1
    MaxSent = 2
    MaxWriters = 1
    MaxAcks = 1
    MaxRetries = 1
SPECIFICATION FairSpec
PROPERTIES OrderedIsReceived
CHECK_DEADLOCK FALSE

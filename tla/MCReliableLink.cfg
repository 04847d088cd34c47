CONSTANTS
    Modulus = 8
    WordBits = 2
    WordCount = 1
    AllowNone = AllowNone
    AllowInDump = AllowInDump
    AllowInDumpAndPush = AllowInDumpAndPush
    Resend = Resend
    OrderResend = OrderResend
    ResendRetries = 1
    MaxSent = 3
    MaxWriters = 2
    MaxAcks = 2
    MaxRetries = 0
SPECIFICATION Spec
INVARIANTS TypeOK ConfirmedArrived NothingWithheld
PROPERTY ImplementsChannel
CHECK_DEADLOCK FALSE

SPECIFICATION ReportSpec
CONSTANTS
    Senders = {s1}
    MaxDate = 1
    MaxAttempts = 1
    Details = {e1}
    MaxLost = 0
PROPERTIES
    FailureCoolsDown
CHECK_DEADLOCK FALSE

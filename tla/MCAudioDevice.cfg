CONSTANTS
    Streams = {s1, s2, s3}
    Threads = {t1, t2}
    NoStream = NoStream
    MaxCount = 4
SPECIFICATION DeviceSpec
INVARIANT DeviceInv
CHECK_DEADLOCK FALSE

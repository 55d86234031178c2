\* Delays in units of the buffer; 0 and 3 are outside the plausible ones.
CONSTANTS
    FramesPerMs = 1
    BufferMs = 1
    kMinimumDelayMs = 0
    kMaximumDelayMs = 3
    kExtraAudioSyncMs = 1
    Delays = {0, 1, 3}
    MaxFrames = 4
    Capacity = 2
    Requests = {0, 1, 3}
    MaxPolls = 1
    MaxSessions = 2
    MaxBytes = 4
SPECIFICATION TransferSpec
INVARIANT TransferInv
INVARIANT NeverEarly
INVARIANT AheadByWriteOnly
PROPERTY NeverStuck
PROPERTY CallReturns

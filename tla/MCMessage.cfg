SPECIFICATION MCSpec
CONSTANTS
    Threads = {t1, t2}
    MaxMessages = 2
    MaxNodes = 4
    MaxRefs = 2
    Buffers = {b1, b2}
    MaxBufferRefs = 3
    Rubbish = {0, 1}
INVARIANTS FreedByLastOwner FreedTwiceOnlyByRace TreesFollowMessages
PROPERTY BufferImplementsShared
CHECK_DEADLOCK FALSE

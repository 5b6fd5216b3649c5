\* Batches of up to two entries are enough for a message received twice
\* in one batch and for an entry that stops the loop before a message.
CONSTANTS
    ch1 = ch1
    ch2 = ch2
    m1 = m1
    m2 = m2
    path1 = path1
    Channels <- MCChannels
    Ids <- MCIds
    Paths <- MCPaths
    NoMedia = NoMedia
    NoPath = NoPath
    Absent = Absent
    NotAMessage = NotAMessage
    None = None
    Displays = {100}
    MaxBatch = 2
SYMMETRY MCSymmetry
SPECIFICATION Spec
INVARIANT TypeOK
PROPERTY StoredMessagesKept

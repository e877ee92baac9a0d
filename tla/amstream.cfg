SPECIFICATION FairSpec
CONSTANTS
    Tasks = {t1, t2, t3}
    MaxStreams = 2
    MaxMessages = 3
INVARIANTS
    HandlerIsMapped
    NoMissedMessage
PROPERTIES
    ImplementsChannel
    MessagesTaken

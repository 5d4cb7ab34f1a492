CONSTANTS
    Commands = {a1, a2, a3}
    Senders = {s1, s2}
    Notifier = Notifier
    CacheLen = 2
    PoolSize = 2
    NULL = NULL
SPECIFICATION FairSpec
INVARIANTS
    SentOnce
PROPERTIES
    NeverOvertaken
    StartupFlushes
    StrandedOnlyByOpen

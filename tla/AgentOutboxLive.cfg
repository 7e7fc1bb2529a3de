SPECIFICATION FairSpec
CONSTANTS
    Tokens = {t1}
    Signals = {s1}
    MaxOutbox = 2
    MaxPosts = 1
    MaxItems = 3
    MaxFaults = 1
PROPERTY
    EventuallySettled

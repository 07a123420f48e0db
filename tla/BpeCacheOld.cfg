\* cache.h:6: a clear makes the entries of other threads unreachable.
CONSTANTS
    a = a
    b = b
    long = long
    bad = bad
    word = word
    Threads = {t1, t2}
    Instances = {i1}
    Keys <- TwoKeys
    Kind <- TwoKind
    Capacities = {2}
    MaxIds = 2
    MaxContents = 2
SPECIFICATION HistorySpec
PROPERTY OldEntriesInvalid
\* The caller may stop calling; the bounds stop it here.
CHECK_DEADLOCK FALSE

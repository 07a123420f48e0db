\* Several threads and instances, with clears, training and destruction; texts of every kind.
CONSTANTS
    a = a
    b = b
    long = long
    bad = bad
    word = word
    Threads = {t1, t2}
    Instances = {i1, i2}
    Keys <- MCKeys
    Kind <- MCKind
    Capacities = {0, 1}
    MaxIds = 2
    MaxContents = 3
SYMMETRY Symmetry
SPECIFICATION HistorySpec
INVARIANTS TypeOK CurrentWhereIdUnique Bounded OwnClearsCurrent
PROPERTIES TransparentUntilCleared
\* The caller may stop calling; the bounds stop it here.
CHECK_DEADLOCK FALSE

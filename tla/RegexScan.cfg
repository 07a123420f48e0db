\* Two threads on one Regex, with calls that overlap and calls that do not.
CONSTANTS
    Threads = {t1, t2}
    Regexes = {r1}
    MaxCalls = 1
    Subjects <- MCSubjects
    Text <- MCTexts
SPECIFICATION FairSpec
INVARIANTS TypeOK ScanExact OnBoundaries
PROPERTIES CallsReturn
\* The threads stop after MaxCalls calls.
CHECK_DEADLOCK FALSE

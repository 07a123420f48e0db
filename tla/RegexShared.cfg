\* regex_engine.h:5: every thread has match data of its own.
CONSTANTS
    Threads = {t1, t2}
    Regexes = {r1}
    MaxCalls = 1
    Subjects <- MCSubjects
    Text <- MCTexts
SPECIFICATION Spec
INVARIANT EachCallExact
\* The threads stop after MaxCalls calls.
CHECK_DEADLOCK FALSE

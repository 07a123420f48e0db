\* regex_engine.cpp:3: what reaches the regex engine is UTF-8.
CONSTANTS
    Texts <- MCTexts
    Configs <- CaseConfigs
SPECIFICATION Spec
INVARIANT Utf8Kept

CONSTANTS
    Texts <- MCTexts
    Configs <- MCConfigs
SPECIFICATION Spec
INVARIANTS TypeOK AlignmentExact SpansExact Traceable Ordered WithinText NothingLost

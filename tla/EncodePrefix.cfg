\* interfaces.h:69: alignment with the space that add_prefix_space inserts.
CONSTANTS
    Texts <- MCTexts
    Configs <- PrefixConfigs
SPECIFICATION Spec
INVARIANT AlignmentContract

\* All three-merge tables, all words of the Lengths, without and with dropout.
CONSTANTS
    Lengths = {0, 1, 3, 5}
    MaxText = 4
    Arity = 2
    Id <- MCId
    Width <- MCWidth
    Words <- MCWords
    MergeTables <- MCMergeTables
    Dropouts = {"none", "some"}
SPECIFICATION HFairSpec
INVARIANTS TypeOK Linked Tiled Covered RankCurrent Irreducible Compacted QueueExact TopIsLeast
PROPERTIES RefinesReference Termination

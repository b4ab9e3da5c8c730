------------------------------ MODULE MCStorage ------------------------------
EXTENDS Storage, TLC

CONSTANTS a, b, c1, c2

RecordsTwo == {a, b}
ContentsTwo == {c1, c2}
StorageSymmetry == Permutations(RecordsTwo) \cup Permutations(ContentsTwo)
PowerLosses == {{"power"}}
AllEnvironments == {{"power", "unlink", "corrupt"}, {"unlink"}, {"read", "corrupt"}}
=============================================================================

CONSTANTS
    Sizes = {1, 3, 5}
    Parallelism = {1, 2, 4}
    MaxBytes = 5
    MaxChanges = 1
SPECIFICATION Spec
INVARIANTS
    TypeOK
    PartsTileTheArchive
    DownloadIsWhole
    DownloadIsOneArchive
    NoPartLeftBehind
PROPERTIES
    DownloadEnds

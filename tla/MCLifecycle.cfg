SPECIFICATION LifeFairSpec
CONSTANTS
    h1 = h1
    h2 = h2
    Handlers = {h1, h2}
    Forced = {FALSE}
    Kibi = 2
    Kilo = 3
    U32_MAX = 4
    U64_MAX = 100
    MIN_SLICE_SIZE = 1
    DEFAULT_BLOCK_SIZE = 2
    STORE_FORMAT_VERSION = 2
    MAGIC = 42
    ABSENT = 99
    Configs <- MCConfigs
    Content <- MCContent
    Header <- MCHeader
    Metas <- MCMetas
    Fragile = {1, 5, 9, 10, 11}
    Noise = {8}
    MaxCrashes = 1
    MaxFailures = 1
    MaxDamage = 1
INVARIANTS
    FinishedIsIdle
    RefusedOnlyWhenUnready
    ReadyMeansServing
    DirectoryReadsBack
    ReadsBelongToConfig
PROPERTIES
    CompletionNotMissed
    ExitIsBounded
    StartsAgain

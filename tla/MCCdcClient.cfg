\* Two workers, channels of one element, chunks that repeat, one chunk that
\* another client is uploading.
CONSTANTS
    Streams <- MCStreams
    Workers = {w1, w2}
    ChanCap = 1
    MaxManifest = 4
    Known <- MCKnown
    Foreign <- MCForeign
SPECIFICATION FairSpec
INVARIANTS
    CdcTypeOK
    ManifestIsWhole
    ChunksBeforeManifest
    RangesReadRight
PROPERTIES
    EverythingEnds
CHECK_DEADLOCK FALSE

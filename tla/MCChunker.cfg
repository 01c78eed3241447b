\* Chunking of short raw texts with small windows and of sentence texts
\* with 16-character windows, every overlap below the shortest cut.
CONSTANTS
    Configs <- ChunkerConfigs
    RawTexts <- ChunkerTexts
    MaxChunks = 24
SPECIFICATION Spec
INVARIANT TypeOK
PROPERTY LoopProgress
PROPERTY ImplementsChunkerSpec

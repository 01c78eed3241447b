\* chunk_size 16, overlap 15 (overlap < chunk_size, as spec 4.1 requires):
\* does every iteration still move the window forward when the boundary cut shortens the window?
CONSTANTS
    Configs <- TightConfigs
    RawTexts <- TightTexts
    MaxChunks = 24
SPECIFICATION Spec
PROPERTY LoopProgress

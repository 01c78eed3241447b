\* Default environment without OpenAI (the "tfidf" provider, never fitted,
\* so every embedding is a mock), PYTHONHASHSEED fixed across restarts,
\* the store limit above the store bound.
CONSTANTS
    Titles <- MCTitles
    DocChunks <- MCDocChunks
    DocSource <- MCDocSource
    Queries <- MCQueries
    Relevant <- MCRelevant
    LiteralMatch <- MCLiteralMatch
    HasOpenAI = FALSE
    HasNumpy = TRUE
    HasSklearn = TRUE
    Seeds = {1}
    Limit = 4
    MaxResults = 2
    MaxStore = 4
    MaxRestarts = 1
SPECIFICATION Spec
INVARIANT TypeOK
INVARIANT ExactMatchFirst

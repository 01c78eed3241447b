\* OpenAI configured: the completion succeeds or raises (then the answer is
\* extractive). Up to four context docs (the context keeps three).
CONSTANTS
    Titles <- MCTitles
    TitleToks <- MCTitleToks
    Contents <- MCContents
    Questions <- MCQuestions
    TokLen <- MCTokLen
    LowerOf <- MCLowerOf
    UseOpenAI = TRUE
    MaxDocs = 4
SPECIFICATION Spec
INVARIANT TypeOK
INVARIANT FallbackIsBestSentence

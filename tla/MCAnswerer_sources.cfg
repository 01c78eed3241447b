\* No OpenAI key; four context docs (one more than the context keeps)
\* over two contents and one question.
CONSTANTS
    Titles <- MCTitles
    TitleToks <- MCTitleToks
    Contents <- MCFewContents
    Questions <- MCOneQuestion
    TokLen <- MCTokLen
    LowerOf <- MCLowerOf
    UseOpenAI = FALSE
    MaxDocs = 4
SPECIFICATION Spec
INVARIANT SourcesOfContext

SPECIFICATION Spec
CONSTANTS
    Senders = {s1}
    MaxDate = 2
    MaxAttempts = 2
    Details = {e1}
    MaxLost = 0
    Turns = {t1}
    Deciders = {d1, d2}
    MaxRounds = 2
    Nothing = Nothing
    Views = {v1, v2}
    Homes = {h1}
    Inputs = {i1, i2}
    Lasts = 0
    MaxTicks = 1
    MaxDecided = 1
    NoView = NoView
    Scans = {x1}
    Pages = {{}, {"words", "description"}, {"words", "organization", "palette"}}
    Answers = {{}, {"summary", "tone"}, {"names"}, {"nulls"}}
    NavAttempts = 2
    MaxRedirects = 1
    ModelAttempts = 2
    Files = {f1}
    Desks = {d1, d2}
    MaxEpoch = 2
INVARIANTS
    OfficeTypeOK
    ThreadsAreTrue
    AnswersAreCurrent
    ThemesAreFound
    FilesAreKept
PROPERTIES
    DueIsSent
    RequestsEnd
    OneBuildServesAll
CHECK_DEADLOCK FALSE

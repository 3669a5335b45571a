SPECIFICATION MCSpec
CONSTANTS
    q1 = q1
    t1 = t1
    t2 = t2
    yes = yes
    no = no
    Prompt <- Prompts
    Tab <- Tabs
    Answer <- Answers
    NoAnswer = NoAnswer
    GaveUp = GaveUp
    Unknown = Unknown
    MaxBreaks = 1
INVARIANTS PendingShown AnswerOnItsWay
PROPERTIES ImplementsQuestion AsksEnd
CHECK_DEADLOCK FALSE

CONSTANT
    Signs = {s1, s2}
SPECIFICATION FairSpec
CHECK_DEADLOCK FALSE
INVARIANTS
    TypeOK
    ResumedOnce
PROPERTIES
    CancelledPromptCloses
    AnsweredPromptResumes

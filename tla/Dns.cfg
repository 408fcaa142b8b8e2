CONSTANTS
    MaxAsked = 3
    Cap = 2
CHECK_DEADLOCK FALSE
SPECIFICATION Spec
PROPERTIES
    QuestionIsAnswered
    LeavingEndsIt

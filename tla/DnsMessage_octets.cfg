CONSTANTS
    Octets <- MCOctets
    MaxBody = 7
    Answers <- MCAnswers
    Messages <- MCMessages
SPECIFICATION MessageSpec
CHECK_DEADLOCK FALSE
INVARIANTS
    NamesAreRead
    AnswersReadBack
    QuestionForwarded
    WholeSections

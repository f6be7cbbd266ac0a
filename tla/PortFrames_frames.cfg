CONSTANTS
    Base = 2
    Commands <- MCCommands
    Answers <- MCAnswers
    Room = 2
    MaxCommands = 3
SPECIFICATION FairSpec
INVARIANTS TypeOK TakenInOrder AnswersInStep EndsOnlyWhenClosed
PROPERTIES ImplementsChannel EndsAfterClose
CHECK_DEADLOCK FALSE

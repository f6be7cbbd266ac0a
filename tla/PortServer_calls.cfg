\* Three calls: one whose answer is late, one that gets it and one whose answer
\* is late in its turn.  Commands that change the program's state and answer
\* ok or error, answers that are no terms, commands without an answer.
CONSTANTS
    Calls = {c1, c2, c3}
    Kinds = {"connect", "unfinished", "unanswered"}
    NoCall = NoCall
SPECIFICATION FairSpec
INVARIANTS TypeOK MixOnlyAfterTimeout EachAnswerOnce
PROPERTIES RequestsAreServed ImplementsPortCall

SPECIFICATION Spec
CONSTANTS
    NLoads = 2
    Repeat = 2
    MaxPresses = 1
    Answers <- MCAnswers
INVARIANTS TypeOK ZeroMeansClean VerdictIsTheFirst LoadsStopped NoButtonIntoTheVoid PassMeansPolled WorseIsNotBetter
PROPERTIES StopsAtFailure
CHECK_DEADLOCK FALSE

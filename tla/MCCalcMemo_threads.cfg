CONSTANTS
    t1 = t1  t2 = t2 
    Threads = {t1, t2}
    Questions <- MCQuestions
    Wanted <- MCWanted
    Instead <- MCInstead
    Positions <- MCPositions
    Error = Error
    Absent = Absent
    Paths = {"def", "res"}
    Initial = "def"
    Resources = "res"
    AnswerOf <- MCAnswerOf
    MaxSize = 1
SPECIFICATION Spec
PROPERTY EveryRequestEnds
INVARIANTS TypeOK 

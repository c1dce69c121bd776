SPECIFICATION Spec
CONSTANTS
    Calls = {"c1", "c2", "bad"}
    Invalid = {"bad"}
    MaxConcurrency = 2
    PoolSize = 2
    Backlog = 2
    MaxVersion = 2
    MaxKills = 1
INVARIANTS
    TypeOK
    AnswerIsOfOneModel
PROPERTIES
    EveryCallReturns
    SignalEndsServer
    ListensAgain
CHECK_DEADLOCK FALSE

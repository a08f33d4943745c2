SPECIFICATION Spec
CONSTANTS
    c1 = c1
    c2 = c2
    u1 = u1
    u2 = u2
    NoUser = NoUser
    Reqs = {c1, c2}
    Users = {u1, u2}
    MaxAnswer = 2
    MaxHistory = 3
    PromptHistory = 2
INVARIANTS
    TypeOK
    QuestionBeforeAnswer
    HalfTurnsAreBroken
    AnsweredIsRemembered
CHECK_DEADLOCK FALSE

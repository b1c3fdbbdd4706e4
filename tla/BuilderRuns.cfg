CONSTANTS
    Tabs = {t1}
    WebhookNode = w
    CodeNodes = {c1, c2}
    ResponseNodes = {p, q}
    MaxFaults = 2
    Runs = {r1}
    NoNode = NoNode
    StopNodes = {c1}
    BareNodes = {q}
    MaxRows = 5
CHECK_DEADLOCK FALSE
SPECIFICATION DrawnSpec
INVARIANTS
    TypeOK
    CompletedIsSettled
    AnswerMatchesRecord
    StopEndsTheWalk
    LastOutputAnswers
    NoNodeTwice
PROPERTIES
    EventuallyAnswered

CONSTANTS
    Tabs = {t1}
    WebhookNode = w
    CodeNodes = {c1}
    ResponseNodes = {}
    MaxFaults = 0
    Runs = {r1}
    NoNode = NoNode
    StopNodes = {c1}
    BareNodes = {}
    MaxRows = 3
CHECK_DEADLOCK FALSE
SPECIFICATION FairSpec
PROPERTIES
    EventuallyAnswered

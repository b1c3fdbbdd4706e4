CONSTANTS
    Tabs = {t1}
    WebhookNode = w
    CodeNodes = {c1}
    ResponseNodes = {p}
    MaxFaults = 1
CHECK_DEADLOCK FALSE
SPECIFICATION GraphSpec
INVARIANTS
    GraphTypeOK
    StoredIsDrawable

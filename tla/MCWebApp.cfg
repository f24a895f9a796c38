SPECIFICATION FairSpecWeb
CONSTANTS
    MaxValue = 1
    CounterIds = {c1}
    UserIds = {u1}
    ArticleIds = {a1}
    Catalog = {a1}
    Handlers = {h1, h2}
    Browsers = {b1}
    MaxCommands = 3
    c1 = c1
    u1 = u1
    a1 = a1
    h1 = h1
    h2 = h2
    b1 = b1
INVARIANTS
    WebTypeOK
    FormsCarriedOutOnce
    AlertsAreTruthful
    RefusalsHaveCause
    TogglesAsLabelled
PROPERTIES
    EveryFormAnswered
CHECK_DEADLOCK FALSE

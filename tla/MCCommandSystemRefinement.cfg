SPECIFICATION FairSpec
CONSTANTS
    MaxValue = 1
    CounterIds = {x, c1}
    UserIds = {x}
    ArticleIds = {a1, a2}
    Catalog = {a1}
    Handlers = {h1, h2}
    MaxCommands = 4
    c1 = c1
    x = x
    a1 = a1
    a2 = a2
    h1 = h1
    h2 = h2
INVARIANTS
    LegalHistory
    ReceiptsHonoured
    CounterListAgrees
    ArticleListAgrees
    OwnStreamConflictMeansContention
PROPERTIES
    CommandsAreAtomic
    EveryCommandAnswered
CHECK_DEADLOCK FALSE

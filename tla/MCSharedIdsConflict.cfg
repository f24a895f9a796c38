SPECIFICATION Spec
CONSTANTS
    MaxValue = 1
    CounterIds = {x, c1}
    UserIds = {x}
    ArticleIds = {a1}
    Catalog = {a1}
    Handlers = {h1, h2}
    MaxCommands = 4
    x = x
    c1 = c1
    a1 = a1
    h1 = h1
    h2 = h2
SYMMETRY HandlerSymmetry
INVARIANT
    ConflictMeansContention
CHECK_DEADLOCK FALSE

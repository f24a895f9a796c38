SPECIFICATION SpecPure
CONSTANTS
    MaxChain = 4
    MaxStatements = 3
INVARIANTS
    ElementsReadAsMeant
    PagesReadAsMade
    TypedIdComesBack
    KeysUnambiguous
    PackagesAreLayers
    PagePartsInOrder
    AcceptedFilesOwnTheirThing
PROPERTIES
    PrivateStatementsKeepAccepted
CHECK_DEADLOCK FALSE

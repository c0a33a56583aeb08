SPECIFICATION Spec
CONSTANTS
    Size = 3
    Limit = 2
    NoItem = none
    Events = {e1, e2, e3}
INVARIANT TypeOK
PROPERTY ImplementsQueue

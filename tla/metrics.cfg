SPECIFICATION Spec
CONSTANTS
    Handlers = {h1, h2}
    Pages = {p1}
    None = none
    Values = {1, 3}
    Infinity = 4
    MaxMessages = 3
INVARIANTS
    StatsExact
    PageIsACut

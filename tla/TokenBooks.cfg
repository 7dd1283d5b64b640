SPECIFICATION Spec
CONSTANTS
    Checks = {k1, k2}
    Windows = 2
INVARIANTS BooksBalance SummariesAddUp
PROPERTIES EveryCountEntersASummary

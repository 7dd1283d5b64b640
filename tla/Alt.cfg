SPECIFICATION Safety
CONSTANTS
    a1 = a1
    a2 = a2
    tip1 = tip1
    Closed = Closed
    Builders = {b1, b2}
    Tables = {t1, t2}
    Accounts = {a1, a2, tip1}
    Tips = {tip1}
    Listable <- Accounts
    Width = 2
    MaxListed = 3
SYMMETRY Symmetry
INVARIANTS ResolvesAsBuilt TipIsStatic ShiftedByTips

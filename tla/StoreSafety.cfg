SPECIFICATION Safety
CONSTANTS
    r1 = r1
    r2 = r2
    r3 = r3
    h1 = h1
    h2 = h2
    wsol = wsol
    token = token
    None = None
    Routes = {r1, r2, r3}
    Hops = {h1, h2}
    HopsOf <- KeysOfPlans
    DexOf <- DexOfKeys
    Amounts = {10}
    Costs = 3
    Base = 32
    Width = 1
    Layout <- PlainLayout
    Embeds <- PlainEmbeds
    Tasks = {t1, t2}
    Cap = 1
    Modes <- AllOn
SYMMETRY Symmetry
INVARIANTS TypeOK SegmentsDisjoint SegmentsBounded PairsIndexed

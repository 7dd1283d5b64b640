SPECIFICATION Spec
CONSTANTS
    t1 = t1
    t2 = t2
    p1 = p1
    p2 = p2
    p3 = p3
    p4 = p4
    p5 = p5
    Wsol = Wsol
    None = None
    NotArray = NotArray
    NoKey = NoKey
    ForbiddenDexes <- NoDexes
    ForbiddenPrograms <- NoDexes
    Costs = 3
    MinProfit = 4
    Tokens <- TwoTokens
    Configs <- SomeConfigs
    Plans <- SomePlans
    Outs <- SomeOuts
    Tasks = {s1}
INVARIANTS TypeOK EveryPairOnce FreeNotBehindDirect RoundTrip HopsAsCounted QuotedAboveFloor
PROPERTIES CyclesRecur

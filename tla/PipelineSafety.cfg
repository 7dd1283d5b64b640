CONSTANTS
    Items = {i1, i2, i3}
    Workers = {w1, w2}
    None = None
    RestMax = 1
    GrpcMax = 1
    Max <- MCMax
    MaxAge = 1
    Window = 2
SPECIFICATION SafetyForever
SYMMETRY Symmetry
INVARIANTS TypeOK PermitAccounting PopFindsItem GaugeNeverNegative NeverDuplicated BudgetRespected
PROPERTIES ImplementsDispatch

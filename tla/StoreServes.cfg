SPECIFICATION Spec
CONSTANTS
    r1 = r1
    r2 = r2
    r3 = r3
    h1 = h1
    h2 = h2
    wsol = wsol
    token = token
    None = None
    Routes = {r1, r2}
    Hops = {h1, h2}
    HopsOf <- KeysOfPlans
    DexOf <- DexOfKeys
    Amounts = {10, 20}
    Costs = 3
    Base = 32
    Width = 1
    Layout <- SomeLayout
    Embeds <- SomeEmbeds
    Tasks = {t1}
    Cap = 1
    Modes <- Rollout
INVARIANTS ServedAsAsked
PROPERTIES RoutesPersisted ImplementsTable

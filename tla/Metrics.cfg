SPECIFICATION FunnelSpec
CONSTANTS
    Tasks = {t1, t2}
    MaxEvents = 2
INVARIANTS FunnelBalances
PROPERTIES EveryShownCountIsPrinted

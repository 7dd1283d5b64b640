SPECIFICATION SimulationSafety
CONSTANTS
    ata = ata
    vault = vault
    pool = pool
    mint = mint
    wsol = wsol
    wallet = wallet
    tokenAta = tokenAta
    program = program
    table = table
    Callers = {c1, c2}
    Workers = 1
    Txs <- SomeTxs
    AddressesOf <- SomeTables
    Executable = {program}
    FailClosed = TRUE
    Accounts = {vault, program, table}
    Streamed <- Subscribed
    Warm <- WarmUp
    None = None
    MaxSlot = 3
INVARIANTS LiveIsCurrent ClockNotBehind RunsOnWhatItRead
SYMMETRY Symmetry

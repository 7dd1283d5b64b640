SPECIFICATION Safety
CONSTANTS
    ata = ata
    vault = vault
    pool = pool
    mint = mint
    wsol = wsol
    wallet = wallet
    tokenAta = tokenAta
    Accounts = {ata, vault, pool, mint}
    Streamed <- Subscribed
    Warm <- WarmUp
    None = None
    MaxSlot = 4
PROPERTIES StreamNeverUndone

----------------------------- MODULE MCPoolFiles -----------------------------
(* The start-up of AccountCache for one token and one pool file. *)
EXTENDS Sequences

CONSTANTS ata, vault, pool, mint, wsol, wallet, tokenAta

F == INSTANCE PoolFiles WITH
    Files <- {[vault_a |-> vault, vault_b |-> "not a key", mint_a |-> mint, extra |-> {"neither"}]},
    Keys <- {vault, mint},
    DexOwned <- {pool},
    TokenMints <- <<mint>>,
    AtaOf <- [m \in {mint, wsol} |-> IF m = wsol THEN ata ELSE tokenAta],
    WsolMint <- wsol,
    Wallet <- wallet

\* As far as a run follows them: the wallet's WSOL account and a vault are both streamed and
\* prefetched, a pool is only streamed, a mint is only prefetched.
SubscribedOf(accounts) == F!Subscribed \cap accounts
WarmUpOf(accounts) == SelectSeq(F!WarmUp, LAMBDA a : a \in accounts)
=============================================================================

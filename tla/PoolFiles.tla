----------------------------- MODULE PoolFiles -----------------------------
(***************************************************************************)
(* Which accounts the account cache starts with: the pool files that       *)
(* dex_accounts.rs loads, and what main.rs subscribes to and prefetches.   *)
(*                                                                         *)
(* A pool file is a function from the fields it has to what they hold, of  *)
(* which only what parses as a key counts. Files that start with _, that   *)
(* are not TOML or that cannot be read are left out of Files.              *)
(***************************************************************************)
EXTENDS SequencesExt

CONSTANTS
    Files,      \* the files under dex_dir
    Keys,       \* what parses as a public key
    DexOwned,   \* accounts owned by a program of program_registry::PROGRAMS
    TokenMints, \* the mints of tokens_file, in order
    AtaOf,      \* [mints -> accounts]: the wallet's token account of a mint
    WsolMint, Wallet

\* Some(field) of a pool, as far as it parses
Field(pool, name) == IF name \in DOMAIN pool THEN {pool[name]} \cap Keys ELSE {}

Vaults(pool) == Field(pool, "vault_a") \cup Field(pool, "vault_b")

PoolAccounts(pool) ==
    Vaults(pool) \cup Field(pool, "market") \cup Field(pool, "mint_a") \cup Field(pool, "mint_b")
                 \cup (pool.extra \cap Keys)

\* DexPools, sorted and without duplicates
AllAccounts == UNION {PoolAccounts(pool) : pool \in Files}
SubscribeAccounts == UNION {Vaults(pool) : pool \in Files}

\* live_extra: followed by name
LiveExtra == {AtaOf[WsolMint]} \cup SubscribeAccounts

\* What the two filters of the subscription match.
Subscribed == DexOwned \cup LiveExtra

\* warm: the mints, the wallet and its token accounts, and every account of a pool file
WarmUp ==
    LET mints == SelectSeq(TokenMints, LAMBDA m : m \in Keys)
    IN  mints \o <<WsolMint, AtaOf[WsolMint], Wallet>>
              \o [k \in DOMAIN mints |-> AtaOf[mints[k]]] \o SetToSeq(AllAccounts)

=============================================================================

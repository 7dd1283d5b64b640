------------------------------ MODULE AltTables ------------------------------
(***************************************************************************)
(* Address lookup tables: the cache of alt_cache.rs, the transaction       *)
(* builders of transaction.rs that share it (one blocking thread per       *)
(* opportunity), and the tables themselves, which their owners extend and  *)
(* close on chain at any time. A transaction names an account by its       *)
(* position in a table; the cluster resolves the position when the         *)
(* transaction lands, in the table as it is then.                          *)
(*                                                                         *)
(* Only the accounts a table may stand for are modelled: the ones the swap *)
(* instruction uses without invoking or signing for them, and the tip's.   *)
(***************************************************************************)
EXTENDS Naturals, Sequences, FiniteSets, Functions

CONSTANTS
    Builders,  \* build_arb_transaction calls running at once
    Tables,    \* keys of lookup tables
    Accounts,  \* addresses of accounts
    Tips,      \* JITO_TIP_ACCOUNTS
    Listable,  \* the accounts that owners put in tables
    Closed,    \* the state of a table that was closed
    Width,     \* positions an instruction can name: 256
    MaxListed  \* bound: addresses in all the open tables together

ASSUME TipAssumption == Tips \subseteq Accounts /\ Listable \subseteq Accounts
ASSUME FiniteAssumption == IsFiniteSet(Tables)

VARIABLES
    chain,     \* the tables on chain
    cache,     \* AltCache.inner: table -> addresses
    build      \* progress of each builder

vars == <<chain, cache, build>>

Resting == [stage |-> "idle", tip |-> {}, tables |-> <<>>, got |-> <<>>, static |-> {},
            lookups |-> {}]

Init ==
    /\ chain = [t \in Tables |-> <<>>]
    /\ cache = <<>>
    /\ build = [b \in Builders |-> Resting]

-----------------------------------------------------------------------------
(* The chain. *)

\* How many addresses the open tables list.
Listed == Cardinality({p \in Tables \X (1..MaxListed) : chain[p[1]] # Closed /\ p[2] <= Len(chain[p[1]])})

Extend(t, a) ==
    /\ chain[t] # Closed
    /\ Listed < MaxListed
    /\ chain' = [chain EXCEPT ![t] = Append(@, a)]
    /\ UNCHANGED <<cache, build>>

Close(t) ==
    /\ chain[t] # Closed
    /\ chain' = [chain EXCEPT ![t] = Closed]
    /\ UNCHANGED <<cache, build>>

-----------------------------------------------------------------------------
(* get_or_fetch, for the tables of a builder one after the other. *)

\* Mutations of Retained: the tip accounts stay; an account listed twice is kept once.
RetainedAll(s) == s
RetainedOnce(s) ==
    LET first(n) == \A k \in 1..(n - 1) : s[k] # s[n]
        kept == {n \in 1..Len(s) : first(n)}
    IN  [k \in 1..Cardinality(kept) |->
            s[CHOOSE n \in kept : Cardinality({x \in kept : x <= n}) = k]]

\* addresses.retain(|addr| !tip_pubkeys.contains(addr))
Retained(s) ==
    LET kept[n \in 0..Len(s)] ==
            IF n = 0 THEN <<>>
            ELSE IF s[n] \in Tips THEN kept[n - 1] ELSE Append(kept[n - 1], s[n])
    IN  kept[Len(s)]

\* The tables that Metis names, without repetition.
Begin(b, tables) ==
    /\ build[b].stage = "idle"
    /\ build' = [build EXCEPT ![b] = [Resting EXCEPT !.stage = "lookup", !.tables = tables]]
    /\ UNCHANGED <<chain, cache>>

Wanted(b) == build[b].tables[Len(build[b].got) + 1]
AllGot(b) == Len(build[b].got) = Len(build[b].tables)
Got(b, addresses, stage) ==
    build' = [build EXCEPT ![b].stage = stage, ![b].got = Append(@, addresses)]

\* Under the read lock.
Hit(b) ==
    /\ build[b].stage = "lookup" /\ ~AllGot(b)
    /\ Wanted(b) \in DOMAIN cache
    /\ Got(b, cache[Wanted(b)], "lookup")
    /\ UNCHANGED <<chain, cache>>

Miss(b) ==
    /\ build[b].stage = "lookup" /\ ~AllGot(b)
    /\ Wanted(b) \notin DOMAIN cache
    /\ build' = [build EXCEPT ![b].stage = "fetch"]
    /\ UNCHANGED <<chain, cache>>

\* rpc.get_account
Fetch(b) ==
    /\ build[b].stage = "fetch"
    /\ chain[Wanted(b)] # Closed
    /\ Got(b, Retained(chain[Wanted(b)]), "store")
    /\ UNCHANGED <<chain, cache>>

\* The RPC call fails, or the account is gone or malformed; ? leaves the builder.
FetchFails(b) ==
    /\ build[b].stage = "fetch"
    /\ build' = [build EXCEPT ![b] = Resting]
    /\ UNCHANGED <<chain, cache>>

\* Under the write lock: what this builder fetched replaces what another has stored since.
Store(b) ==
    LET n == Len(build[b].got)
        t == build[b].tables[n]
    IN  /\ build[b].stage = "store"
        /\ cache' = [k \in DOMAIN cache \cup {t} |-> IF k = t THEN build[b].got[n] ELSE cache[k]]
        /\ build' = [build EXCEPT ![b].stage = "lookup"]
        /\ UNCHANGED chain

-----------------------------------------------------------------------------
(* v0::Message::try_compile. *)

Lists(b, k, a) == a \in Range(build[b].got[k])

\* Tables are drained in order: an account is looked up in the first one that lists it.
FoundIn(b, k, a) == Lists(b, k, a) /\ \A j \in 1..(k - 1) : ~Lists(b, j, a)

\* Its first position there.
Position(s, a) == CHOOSE n \in DOMAIN s : s[n] = a /\ \A m \in 1..(n - 1) : s[m] # a

Lookups(b, used) ==
    UNION {{[table |-> build[b].tables[k], index |-> Position(build[b].got[k], a), account |-> a] :
               a \in {c \in used : FoundIn(b, k, c)}} : k \in 1..Len(build[b].got)}

Fits(b, used) == \A l \in Lookups(b, used) : l.index <= Width

\* The accounts of the swap instruction, which no earlier step looks at, and a random tip account.
Compile(b, uses, tip) ==
    LET used == uses \cup {tip}
        found == Lookups(b, used)
    IN  /\ build[b].stage = "lookup" /\ AllGot(b) /\ Fits(b, used)
        /\ build' = [build EXCEPT ![b] =
              [Resting EXCEPT !.stage = "built", !.tip = {tip}, !.lookups = found,
                              !.static = used \ {l.account : l \in found}]]
        /\ UNCHANGED <<chain, cache>>

\* A position does not fit in a byte.
CompileFails(b, uses, tip) ==
    /\ build[b].stage = "lookup" /\ AllGot(b) /\ ~Fits(b, uses \cup {tip})
    /\ build' = [build EXCEPT ![b] = Resting]
    /\ UNCHANGED <<chain, cache>>

\* The transaction has landed or expired; the thread serves another opportunity.
Finish(b) ==
    /\ build[b].stage = "built"
    /\ build' = [build EXCEPT ![b] = Resting]
    /\ UNCHANGED <<chain, cache>>

-----------------------------------------------------------------------------
TableLists == {s \in UNION {[1..n -> Tables] : n \in 0..Cardinality(Tables)} : IsInjective(s)}

Chain == \E t \in Tables : Close(t) \/ \E a \in Listable : Extend(t, a)

Builder(b) ==
    \/ \E tables \in TableLists : Begin(b, tables)
    \/ Hit(b) \/ Miss(b) \/ Fetch(b) \/ FetchFails(b) \/ Store(b)
    \/ \E uses \in SUBSET (Accounts \ Tips), tip \in Tips :
          Compile(b, uses, tip) \/ CompileFails(b, uses, tip)
    \/ Finish(b)

Next == Chain \/ \E b \in Builders : Builder(b)

Safety == Init /\ [][Next]_vars

-----------------------------------------------------------------------------
(* Properties. *)

Addresses == UNION {[1..n -> Accounts] : n \in 0..MaxListed}

Stands(l) ==
    chain[l.table] # Closed =>
        /\ l.index \in DOMAIN chain[l.table]
        /\ chain[l.table][l.index] = l.account

\* Every position that a transaction names stands, when it lands, for the account it was
\* compiled from, in each table that is still open: however old the cached copy, whoever
\* stored it, and however the table has grown since. In tables without tip accounts.
ResolvesAsBuilt ==
    \A b \in Builders : \A l \in build[b].lookups :
        chain[l.table] # Closed /\ Range(chain[l.table]) \cap Tips = {} => Stands(l)

\* What transaction.rs:69-72 says of every built transaction: its second instruction is the
\* arbitrage that Metis described. A tip account in a table shifts the positions behind it.
ResolvesAlways == \A b \in Builders : \A l \in build[b].lookups : Stands(l)

\* A tip account is never looked up, even in a table that lists it (transaction.rs:22-23).
TipIsStatic ==
    \A b \in Builders : build[b].stage = "built" => build[b].tip \subseteq build[b].static

\* How many tip accounts are listed before the n-th address.
Ahead(s, n) == Cardinality({m \in 1..(n - 1) : s[m] \in Tips})

\* An open table has the account where the position says, counted without the tip accounts
\* ahead of it.
Came(t, a, k) ==
    chain[t] # Closed => \E n \in 1..Len(chain[t]) : chain[t][n] = a /\ n = k + Ahead(chain[t], n)

\* How wrong a position can be: short of the place of its account in the open table by exactly
\* the tip accounts that the table lists ahead of that place. This is what retain, run once
\* when a table is fetched (alt_cache.rs:44), does to the positions that the cluster resolves
\* in the table itself, however old the copy is and however the table has grown since.
ShiftedByTips == \A b \in Builders : \A l \in build[b].lookups : Came(l.table, l.account, l.index)

=============================================================================

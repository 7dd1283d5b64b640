----------------------------- MODULE Simulation -----------------------------
(***************************************************************************)
(* The simulators of litesvm_sim.rs on the account cache (AccountCache): a *)
(* caller takes the next simulator of the pool, fetches what the cache     *)
(* lacks of its transaction's accounts, locks the simulator, copies every  *)
(* account into its virtual machine, one read of the cache at a time, and  *)
(* runs the transaction there. The machine keeps the accounts for the next *)
(* simulation.                                                             *)
(*                                                                         *)
(* main.rs builds the pool when [simulation] is enabled; no worker calls   *)
(* simulate() at this commit.                                              *)
(***************************************************************************)
EXTENDS AccountCache, SequencesExt

CONSTANTS
    Callers,     \* bound: simulations at once
    Workers,     \* simulation.workers
    Txs,         \* transactions: [keys, lookups], the latter from tables to sets of indexes
    AddressesOf, \* [tables -> Seq(Accounts)]: the tables that were resolved for them
    Executable,  \* programs
    FailClosed   \* simulation.fail_closed

ASSUME PoolAssumption == Workers \in Nat /\ FailClosed \in BOOLEAN /\ Executable \subseteq Accounts
ASSUME TxAssumption ==
    /\ IsFiniteSet(Accounts)
    /\ \A tx \in Txs : tx.keys \subseteq Accounts /\ DOMAIN tx.lookups \subseteq Accounts
    /\ \A t \in DOMAIN AddressesOf : AddressesOf[t] \in Seq(Accounts)

VARIABLES
    next,        \* SimulatorPool.next, modulo the size of the pool
    svm,         \* [clock, account] of each machine; 0 when it was never set
    sim          \* progress of each caller

simVars == <<next, svm, sim>>
simulationVars == <<vars, simVars>>

\* workers.max(1)
Size == Max({Workers, 1})
Pool == 0..(Size - 1)

Idle == [stage |-> "idle", tx |-> None, on |-> 0, rest |-> <<>>, saw |-> <<>>, answer |-> "none"]

SimulationInit ==
    /\ Init
    /\ next = 0
    /\ svm = [s \in Pool |-> [clock |-> clock, account |-> [a \in Accounts |-> 0]]]
    /\ sim = [c \in Callers |-> Idle]

\* collect_tx_accounts: the static keys and what the lookups name; not the tables themselves.
Collected(tx) ==
    tx.keys \cup UNION {{AddressesOf[t][i] : i \in tx.lookups[t] \cap DOMAIN AddressesOf[t]} :
                          t \in DOMAIN tx.lookups \cap DOMAIN AddressesOf}

Tables(tx) == DOMAIN tx.lookups \cap DOMAIN AddressesOf

-----------------------------------------------------------------------------
\* pool.acquire(), simulate(tx, alts, ..)
Call(c, tx) ==
    /\ sim[c].stage = "idle"
    /\ sim' = [sim EXCEPT ![c] = [stage |-> "lazy", tx |-> tx, on |-> next,
                                  rest |-> SetToSeq(Collected(tx)), saw |-> <<>>, answer |-> "none"]]
    /\ next' = (next + 1) % Size
    /\ UNCHANGED <<vars, svm>>

\* The first account that is left and not in the cache: 0 when there is none.
FirstMissing(c) == SelectInSeq(sim[c].rest, LAMBDA a : cache[a] = 0)

\* cache.get(pk).is_none(): get_or_fetch asks the RPC node.
LazyMiss(c) ==
    /\ sim[c].stage = "lazy"
    /\ FirstMissing(c) # 0
    /\ sim' = [sim EXCEPT ![c].stage = "fetch",
                          ![c].rest = SubSeq(@, FirstMissing(c), Len(@))]
    /\ UNCHANGED <<vars, next, svm>>

LazyFetched(c) ==
    LET a == Head(sim[c].rest)
    IN  /\ sim[c].stage = "fetch"
        /\ \E slot \in written[a] : cache' = [cache EXCEPT ![a] = slot]
        /\ live' = live \ {a}
        /\ sim' = [sim EXCEPT ![c].stage = "lazy", ![c].rest = Tail(@)]
        /\ UNCHANGED <<chainVars, stream, pending, hand, clock, warmVars, next, svm>>

\* The error is logged, and the account stays missing.
LazyFails(c) ==
    /\ sim[c].stage = "fetch"
    /\ sim' = [sim EXCEPT ![c].stage = "lazy", ![c].rest = Tail(@)]
    /\ UNCHANGED <<vars, next, svm>>

LazyDone(c) ==
    /\ sim[c].stage = "lazy"
    /\ FirstMissing(c) = 0
    /\ sim' = [sim EXCEPT ![c].stage = "lock"]
    /\ UNCHANGED <<vars, next, svm>>

Locked(s) == \E d \in Callers : sim[d].on = s /\ sim[d].stage \in {"inject", "run"}

\* svm.lock(), warp_to_slot(current_slot.load())
Lock(c) ==
    /\ sim[c].stage = "lock"
    /\ ~Locked(sim[c].on)
    /\ svm' = [svm EXCEPT ![sim[c].on].clock = clock]
    /\ sim' = [sim EXCEPT ![c].stage = "inject",
                          ![c].rest = SetToSeq(Tables(sim[c].tx)) \o SetToSeq(Collected(sim[c].tx))]
    /\ UNCHANGED <<vars, next>>

\* set_account of the next account, if the cache has it and it is not a program
Inject(c) ==
    LET a == Head(sim[c].rest)
        sets == cache[a] # 0 /\ a \notin Executable
    IN  /\ sim[c].stage = "inject"
        /\ sim[c].rest # <<>>
        /\ svm' = IF sets THEN [svm EXCEPT ![sim[c].on].account[a] = cache[a]] ELSE svm
        /\ sim' = [sim EXCEPT ![c].rest = Tail(@),
                              ![c].saw = [b \in DOMAIN @ \cup {a} |-> IF b = a THEN cache[a] ELSE @[b]]]
        /\ UNCHANGED <<vars, next>>

Prepared(c) ==
    /\ sim[c].stage = "inject"
    /\ sim[c].rest = <<>>
    /\ sim' = [sim EXCEPT ![c].stage = "run"]
    /\ UNCHANGED <<vars, next, svm>>

\* The machine can expand the lookups.
Expands(c) == \A t \in DOMAIN sim[c].tx.lookups : svm[sim[c].on].account[t] # 0

\* simulate_transaction leaves the machine as it is. Enough WSOL at the end, not enough, or
\* a revert, for which fail_closed decides.
Run(c) ==
    /\ sim[c].stage = "run"
    /\ \E answer \in (IF Expands(c) THEN {"ok", "err"} ELSE {})
                       \cup {IF FailClosed THEN "err" ELSE "ok"} :
         sim' = [sim EXCEPT ![c] = [Idle EXCEPT !.answer = answer]]
    /\ UNCHANGED <<vars, next, svm>>

-----------------------------------------------------------------------------
Simulate(c) ==
    \/ \E tx \in Txs : Call(c, tx)
    \/ LazyMiss(c) \/ LazyFetched(c) \/ LazyFails(c) \/ LazyDone(c)
    \/ Lock(c) \/ Inject(c) \/ Prepared(c) \/ Run(c)

SimulationNext ==
    \/ Next /\ UNCHANGED simVars
    \/ \E c \in Callers : Simulate(c)

SimulationSafety == SimulationInit /\ [][SimulationNext]_simulationVars

-----------------------------------------------------------------------------
(* Properties. *)

\* A transaction runs on what its own simulation read from the cache and on nothing else:
\* not on accounts that an earlier simulation left in the machine or another one is
\* injecting, nor on program data that replaced the bytecode loaded from file. That no
\* leftover shows depends on the cache never losing an account it once had.
RunsOnWhatItRead ==
    \A c \in Callers : sim[c].stage = "run" =>
        \A a \in Collected(sim[c].tx) :
            svm[sim[c].on].account[a] = IF a \in Executable THEN 0 ELSE sim[c].saw[a]

=============================================================================

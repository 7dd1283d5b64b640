------------------------------- MODULE Scanner -------------------------------
(***************************************************************************)
(* The scan loop. main.rs calls scan_all_tokens for ever; each call lists  *)
(* every amount for every token, once for free and once for direct routes, *)
(* and runs a quote_check for each through buffer_unordered: they start in *)
(* order, a bounded number at a time, and end in any order. A check asks   *)
(* Metis for the way out and then for the way back of what comes out; each *)
(* request is answered, fails or times out.                                *)
(*                                                                         *)
(* All checks and the body of the loop share one task, which is switched   *)
(* at an await only: what follows the answer to the second request, to the *)
(* end of the body, is one step. What the template store answers (module   *)
(* TemplateStore), and the counters (modules TokenBooks, MetricsWindow),   *)
(* are left open here; what is pushed is an item of module Pipeline.       *)
(***************************************************************************)
EXTENDS Quotes, FiniteSets

CONSTANTS
    Wsol,      \* WSOL_MINT
    Tokens,    \* the mints of trading.tokens_file, in order
    Configs,   \* [min, max, step, quotes, serve_route, serve_from_metis] of config.toml
    MinProfit, \* trading.min_profit_lamports
    Plans,     \* [mints \X mints -> sets of route plans]: what Metis may answer
    Outs,      \* [mints -> sets of amounts]: how much may come out
    Tasks,     \* bound: Metis tasks running at once
    None       \* nothing

TokenMints == {Tokens[k] : k \in DOMAIN Tokens}

\* load_tokens refuses an empty file. That no mint is listed twice, as in tokens.txt, it does
\* not check: the checks of such a mint could not be told apart here.
ASSUME TokenAssumption ==
    /\ Tokens \in Seq(TokenMints) /\ Tokens # <<>>
    /\ \A j, k \in DOMAIN Tokens : Tokens[j] = Tokens[k] => j = k
ASSUME ConfigAssumption == \A c \in Configs : {c.min, c.max, c.quotes} \subseteq Nat /\ c.step \in Nat \ {0}
ASSUME ProfitAssumption == MinProfit \in Nat

\* One leg, as Metis plans it: a chain of hops through different pools.
IsRoute(plan, from, to) ==
    /\ plan \in Seq({plan[k] : k \in DOMAIN plan}) /\ plan # <<>>
    /\ plan[1].inMint = from /\ plan[Len(plan)].outMint = to
    /\ \A k \in DOMAIN plan : k + 1 \in DOMAIN plan => plan[k].outMint = plan[k + 1].inMint
    /\ \A k \in DOMAIN plan : plan[k].ammKey # NoKey
    /\ \A j, k \in DOMAIN plan : plan[j].ammKey = plan[k].ammKey => j = k

\* Of Metis, not of this code, which compares the two legs and looks into neither.
ASSUME PlanAssumption ==
    \A t \in TokenMints :
        /\ \A plan \in Plans[<<Wsol, t>>] \ {NotArray} : IsRoute(plan, Wsol, t)
        /\ \A plan \in Plans[<<t, Wsol>>] \ {NotArray} : IsRoute(plan, t, Wsol)
        /\ Outs[t] \cup Outs[Wsol] \subseteq Nat

VARIABLES
    config,    \* the settings this process was started with
    todo,      \* the checks of this cycle that buffer_unordered has not taken
    flying,    \* check -> the answer to its first request, or None
    task,      \* what each spawned Metis task captured, or None
    pushed,    \* the opportunity that the last step pushed to the queue, or None
    asked      \* history: the checks taken in this cycle

vars == <<config, todo, flying, task, pushed, asked>>

Larger(a, b) == IF a > b THEN a ELSE b

-----------------------------------------------------------------------------
(* all_pairs and max_concurrent. *)

\* Mutation of PairsOf: the direct check before the free one.
PairsOfDirectFirst(amount) ==
    [k \in 1..(2 * Len(Tokens)) |->
        [amount |-> amount, token |-> Tokens[(k + 1) \div 2], direct |-> k % 2 = 1]]

\* for token_mint in token_mints: a free and a direct check
PairsOf(amount) ==
    [k \in 1..(2 * Len(Tokens)) |->
        [amount |-> amount, token |-> Tokens[(k + 1) \div 2], direct |-> k % 2 = 0]]

\* Mutation of AllPairs: < for <=.
AllPairsButLast(c) ==
    LET from[amount \in Nat] ==
            IF amount >= c.max THEN <<>> ELSE PairsOf(amount) \o from[amount + c.step]
    IN  from[c.min]

\* while amount <= max_lamports { ...; amount += step_lamports }
AllPairs(c) ==
    LET from[amount \in Nat] ==
            IF amount > c.max THEN <<>> ELSE PairsOf(amount) \o from[amount + c.step]
    IN  from[c.min]

\* max_concurrent_quotes.max(1).min(all_pairs.len().max(1))
Limit(c) == Smaller(Larger(c.quotes, 1), Larger(Len(AllPairs(c)), 1))

Init ==
    /\ config \in Configs
    /\ todo = AllPairs(config)
    /\ flying = <<>>
    /\ task = [t \in Tasks |-> None]
    /\ pushed = None
    /\ asked = <<>>

-----------------------------------------------------------------------------
(* buffer_unordered and quote_check. *)

\* Mutation of Full: one check too many.
FullLate == Cardinality(DOMAIN flying) > Limit(config)

Full == Cardinality(DOMAIN flying) >= Limit(config)

\* The next check is taken and polled: its first request is on its way.
Start ==
    /\ todo # <<>>
    /\ ~Full
    /\ todo' = Tail(todo)
    /\ flying' = [c \in DOMAIN flying \cup {Head(todo)} |-> IF c \in DOMAIN flying THEN flying[c] ELSE None]
    /\ asked' = Append(asked, Head(todo))
    /\ pushed' = None
    /\ UNCHANGED <<config, task>>

\* opps.next() fills the buffer before it looks for an answer.
Filled == Full \/ todo = <<>>

\* An answer of Metis to get_quote.
Answers(from, to, amount) ==
    {[inMint |-> from, inAmount |-> amount, outMint |-> to, outAmount |-> out, plan |-> plan] :
        out \in Outs[to], plan \in Plans[<<from, to>>]}

OutQuoted(c) ==
    /\ Filled
    /\ flying[c] = None
    /\ \E q \in Answers(Wsol, c.token, c.amount) :
         q.outAmount > 0 /\ flying' = [flying EXCEPT ![c] = q]
    /\ pushed' = None
    /\ UNCHANGED <<config, todo, task, asked>>

\* The check is over.
Ends(c) ==
    /\ Filled
    /\ flying' = [d \in DOMAIN flying \ {c} |-> flying[d]]
    /\ UNCHANGED <<config, todo, asked>>

\* Mutation of RequestFails: the check begins again.
RequestFailsRetried(c) ==
    /\ Filled
    /\ flying' = [flying EXCEPT ![c] = None]
    /\ pushed' = None
    /\ UNCHANGED <<config, todo, task, asked>>

\* An error, a time-out, or nothing comes out, on the way out or back.
RequestFails(c) ==
    /\ Ends(c)
    /\ pushed' = None
    /\ UNCHANGED task

\* Mutation of Pays: the amount is not added.
PaysMinimum(c, q2) == q2.outAmount > MinProfit

\* output_wsol > amount + min_profit_lamports
Pays(c, q2) == q2.outAmount > c.amount + MinProfit

Profitable(c, q1, q2) ==
    /\ Pays(c, q2)
    /\ ~UsesForbiddenDex(q1) /\ ~UsesForbiddenDex(q2)
    /\ ~SharePool(q1, q2)

\* The way back of what came out: asked of the token, for Wsol.
BackAnswers(c) == Answers(c.token, Wsol, flying[c].outAmount)

Unprofitable(c) ==
    /\ flying[c] # None
    /\ \E q2 \in BackAnswers(c) : ~Profitable(c, flying[c], q2)
    /\ Ends(c)
    /\ pushed' = None
    /\ UNCHANGED task

-----------------------------------------------------------------------------
(* The body of the loop, on a profitable pair. *)

\* Mutation of Forwarded: the gate is for pairs that are not direct.
ForwardedFree(c, q1, q2) == (c.direct \/ HopCount(q1, q2) # 2) /\ CanMerge(q1, q2)

\* A direct pair has two hops; both plans are arrays.
Forwarded(c, q1, q2) == (c.direct => HopCount(q1, q2) = 2) /\ CanMerge(q1, q2)

\* What becomes an item of the queue, with what it was found by.
Opportunity(c, q1, q2) ==
    [check |-> c, quoted |-> q2.outAmount, hopCount |-> HopCount(q1, q2),
     merged |-> Merge(q1, q2, Floor(c.amount))]

DropPair(c) ==
    /\ flying[c] # None
    /\ \E q2 \in BackAnswers(c) :
         Profitable(c, flying[c], q2) /\ ~Forwarded(c, flying[c], q2)
    /\ Ends(c)
    /\ pushed' = None
    /\ UNCHANGED task

\* The merged quotes that the body may have to serve when check c ends.
Offers(c) ==
    IF flying[c] = None THEN {}
    ELSE {Opportunity(c, flying[c], q2) :
            q2 \in {q \in BackAnswers(c) : Profitable(c, flying[c], q) /\ Forwarded(c, flying[c], q)}}

\* Tier 1 or 2: the store has an instruction for the route.
ServeFromStore(c) ==
    /\ config.serve_route
    /\ \E o \in Offers(c) : pushed' = o
    /\ Ends(c)
    /\ UNCHANGED task

\* Neither tier, and no Tier 3.
DropNoServe(c) ==
    /\ ~config.serve_from_metis
    /\ Offers(c) # {}
    /\ Ends(c)
    /\ pushed' = None
    /\ UNCHANGED task

\* Tier 3: the task captures the merged quote.
SpawnTask(c, t) ==
    /\ config.serve_from_metis
    /\ task[t] = None
    /\ \E o \in Offers(c) : task' = [task EXCEPT ![t] = o]
    /\ Ends(c)
    /\ pushed' = None

\* get_swap_instructions answers, or fails in one of four ways.
TaskPushes(t) ==
    /\ task[t] # None
    /\ pushed' = task[t]
    /\ task' = [task EXCEPT ![t] = None]
    /\ UNCHANGED <<config, todo, flying, asked>>

TaskFails(t) ==
    /\ task[t] # None
    /\ pushed' = None
    /\ task' = [task EXCEPT ![t] = None]
    /\ UNCHANGED <<config, todo, flying, asked>>

-----------------------------------------------------------------------------
\* scan_all_tokens returns, and main calls it again.
NextCycle ==
    /\ todo = <<>> /\ flying = <<>>
    /\ todo' = AllPairs(config)
    /\ asked' = <<>>
    /\ pushed' = None
    /\ UNCHANGED <<config, flying, task>>

Check(c) ==
    \/ OutQuoted(c) \/ RequestFails(c) \/ Unprofitable(c)
    \/ DropPair(c) \/ ServeFromStore(c) \/ DropNoServe(c)
    \/ \E t \in Tasks : SpawnTask(c, t)

Task(t) == TaskPushes(t) \/ TaskFails(t)

Next ==
    \/ Start \/ NextCycle
    \/ \E c \in DOMAIN flying : Check(c)
    \/ \E t \in Tasks : Task(t)

\* Every request ends by the client's time-out, and the task is polled when one does.
Fairness ==
    /\ WF_vars(Start) /\ WF_vars(NextCycle)
    /\ WF_vars(\E c \in DOMAIN flying : Check(c))
    /\ \A t \in Tasks : WF_vars(Task(t))

Safety == Init /\ [][Next]_vars
Spec == Safety /\ Fairness

-----------------------------------------------------------------------------
(* Properties. *)

\* The reference: every amount reached from the least by whole steps and not above the
\* greatest, with every token, free and direct.
Wanted ==
    [amount : {a \in config.min..config.max : (a - config.min) % config.step = 0},
     token : TokenMints, direct : BOOLEAN]

\* Every variable has the type of the Rust state it stands for; no more checks are in
\* flight than performance.max_concurrent_quotes, or one.
TypeOK ==
    /\ config \in Configs
    /\ \A k \in DOMAIN todo : todo[k] \in Wanted
    /\ DOMAIN flying \subseteq Wanted
    /\ Cardinality(DOMAIN flying) <= Larger(config.quotes, 1)
    /\ \A t \in Tasks : task[t] # None => task[t].check \in Wanted

\* A cycle that ends has asked every wanted check, the greatest amount included, and none
\* of them twice, whatever the checks before it ran into.
EveryPairOnce ==
    todo = <<>> /\ flying = <<>> =>
        /\ {asked[k] : k \in DOMAIN asked} = Wanted
        /\ Len(asked) = Cardinality(Wanted)

\* A slot is never taken by the direct check of a pair whose free check is still to start,
\* so that a slow direct request cannot hold up the free check it belongs to.
FreeNotBehindDirect ==
    \A c \in DOMAIN flying : c.direct => \A k \in DOMAIN todo : todo[k] # [c EXCEPT !.direct = FALSE]

\* What is pushed swaps Wsol for the token and back: each hop takes what the one before
\* it gave, and no pool is gone through twice, however long the two legs are.
RoundTrip ==
    pushed # None =>
        LET plan == pushed.merged.plan
            hops == DOMAIN plan
        IN  /\ plan[1].inMint = Wsol /\ plan[Len(plan)].outMint = Wsol
            /\ \A k \in hops : k + 1 \in hops => plan[k].outMint = plan[k + 1].inMint
            /\ \E k \in hops : plan[k].outMint = pushed.check.token
            /\ \A j, k \in hops : j # k => plan[j].ammKey # plan[k].ammKey

\* The compute-unit limit, looked up by hop_count, is that of the plan that is swapped,
\* and a check for direct routes has led to one hop each way.
HopsAsCounted ==
    pushed # None =>
        /\ pushed.hopCount = Len(pushed.merged.plan)
        /\ pushed.check.direct => Len(pushed.merged.plan) = 2

\* Where min_profit_lamports is at least tip and fee, as in config.toml, what was quoted is
\* above the floor the transaction is sent with, and the floor pays for the amount, the
\* tip and the fee: an opportunity is never pushed that is sure to revert or to lose.
QuotedAboveFloor ==
    pushed # None /\ MinProfit >= Costs =>
        /\ pushed.quoted > pushed.merged.outAmount
        /\ pushed.merged.outAmount >= pushed.merged.inAmount + Costs
        /\ pushed.merged.inAmount = pushed.check.amount

\* A scan cycle ends and the next one begins, for ever, even when every request times out
\* and even with max_concurrent_quotes = 0.
CyclesRecur == []<><<NextCycle>>_vars

=============================================================================

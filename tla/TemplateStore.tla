---------------------------- MODULE TemplateStore ----------------------------
(***************************************************************************)
(* The template store of template_cache.rs with the tasks that use it:     *)
(* the scanner, which looks an opportunity's route up in two tiers and     *)
(* falls back to Metis (scan_all_tokens); the tasks it spawns for Metis,   *)
(* which record what they learn; the flush task; and the process itself,   *)
(* which may die at any moment and is started again on the files left.     *)
(*                                                                         *)
(* The store is one RwLock, taken once per step below: get_route takes it  *)
(* twice (a read, then a write to promote), a Metis task twice             *)
(* (insert_route, record_hops), a flush twice (routes, hops), and anything *)
(* may happen in between.                                                  *)
(*                                                                         *)
(* An instruction is abstracted to the route it swaps along and its data,  *)
(* which holds the two amounts somewhere (module AmountPatch). The         *)
(* statistics of a template (seen_count, hit_count, slots) are left out:   *)
(* they are stored and saved, and no decision reads them.                  *)
(***************************************************************************)
EXTENDS AmountPatch, FiniteSets

CONSTANTS
    Routes,    \* route signatures (route_sig)
    Hops,      \* hop keys: a pool, its two mints and a direction
    HopsOf,    \* [Routes -> Seq(Hops)]: the hops of a merged route plan
    DexOf,     \* [Hops -> names]: the file of cache/hops a hop is kept in
    Amounts,   \* in_amounts
    Costs,     \* tip and fee: the floor of a transaction is its amount and these
    Layout,    \* [Routes -> [head, tail]]: what Metis writes before and after the amounts
    Embeds,    \* [Routes -> [Amounts -> Nat]]: what Metis writes as quoted out amount
    Tasks,     \* bound: Metis tasks running at once
    None,      \* no route, amount or instruction
    Cap,       \* ROUTE_SEG_CAP
    Modes      \* the [template_cache] switches that config.toml may set

Switches == {"save_new", "serve_route", "serve_from_metis"}

ASSUME NoneAssumption == None \notin Routes \cup Amounts
ASSUME FiniteAssumption == IsFiniteSet(Routes)
ASSUME RouteAssumption == HopsOf \in [Routes -> Seq(Hops)] /\ DOMAIN DexOf = Hops
ASSUME LayoutAssumption ==
    /\ Amounts \subseteq Nat /\ Costs \in Nat
    /\ Layout \in [Routes -> [head : Seq(Nat), tail : Seq(Nat)]]
    /\ Embeds \in [Routes -> [Amounts -> Nat]]
ASSUME CapAssumption == Cap \in Nat \ {0} /\ Modes \subseteq SUBSET Switches

VARIABLES
    hot, cold, \* StoreInner.routes_hot, routes_cold: route -> template
    index,     \* StoreInner.hop_pair_index: hop pair -> route
    hops,      \* StoreInner.hops
    scan,      \* the scanner's progress on one opportunity
    outcome,   \* the instruction its last lookup served, if any
    task,      \* progress of each Metis task
    flush,     \* progress of the flush task, with its snapshots
    disk,      \* cache/routes.json and cache/hops
    mode,      \* the switches this process was started with
    boot       \* how many routes this process loaded

memVars == <<hot, cold, index, hops>>
vars == <<memVars, scan, outcome, task, flush, disk, mode, boot>>

\* A map of the code: a function from some of the keys in S to values in T.
IsMap(f, S, T) == f \in [DOMAIN f -> T] /\ DOMAIN f \subseteq S

\* route_v2 data: the amounts follow each other.
Encoded(r, inAmount, out) ==
    [route |-> r, data |-> Layout[r].head \o Bytes(inAmount) \o Bytes(out) \o Layout[r].tail]

\* on_chain_floor
Floor(amount) == amount + Costs

\* The out amounts that an instruction for this amount may hold.
Outs(r, amount) == {Floor(amount), Embeds[r][amount]}

Instructions ==
    {Encoded(x[1], x[2], out) : x \in Routes \X Amounts,
                                out \in UNION {Outs(r, a) : r \in Routes, a \in Amounts}}

\* What Metis answers for a route and an amount, and where discover_offsets then finds
\* the two amounts that were asked for.
MetisIx == [r \in Routes |-> [a \in Amounts |-> Encoded(r, a, Embeds[r][a])]]
OffsetOf ==
    [r \in Routes |-> [a \in Amounts |-> DiscoverOffsets(MetisIx[r][a].data, a, Floor(a))]]

\* The comment of discover_offsets, "collisions ... are effectively impossible": where Metis
\* writes another out amount than the floor, the two do not follow each other by accident.
ASSUME NoAccidentAssumption ==
    \A r \in Routes, a \in Amounts :
        Embeds[r][a] = Floor(a) \/ PairAt(MetisIx[r][a].data, a, Floor(a)) = {}

\* RouteTemplate
IsTemplate(t) ==
    /\ t.base \in Instructions
    /\ t.inAmount \in Amounts /\ t.quotedOut = Floor(t.inAmount)
    /\ t.offset \in 0..Len(t.base.data)
    /\ IsMap(t.variants, Amounts, Instructions)

IsTemplateMap(f) == DOMAIN f \subseteq Routes /\ \A r \in DOMAIN f : IsTemplate(f[r])

Empty == <<>>
Put(f, x, y) == [z \in DOMAIN f \cup {x} |-> IF z = x THEN y ELSE f[z]]
Remove(f, x) == [z \in DOMAIN f \ {x} |-> f[z]]

\* "hop1_id|hop2_id": only routes of two hops are indexed.
Paired(r) == Len(HopsOf[r]) = 2
Pairs == {HopsOf[r] : r \in {s \in Routes : Paired(s)}}

HopsIn(r) == {HopsOf[r][k] : k \in 1..Len(HopsOf[r])}

Live == DOMAIN hot \cup DOMAIN cold

Resting == [stage |-> "idle", tier |-> 1, route |-> None, amount |-> None, target |-> None]
NoTask == [stage |-> "idle", route |-> None, amount |-> None]
NoFlush == [stage |-> "idle", routes |-> Empty, pairs |-> Empty, hops |-> {}]
NoOutcome == [route |-> None, target |-> None, amount |-> None, ix |-> None]

Init ==
    /\ hot = Empty /\ cold = Empty /\ index = Empty /\ hops = {}
    /\ scan = Resting
    /\ outcome = NoOutcome
    /\ task = [t \in Tasks |-> NoTask]
    /\ flush = NoFlush
    /\ disk = [routes |-> Empty, pairs |-> Empty, hops |-> {}]
    /\ mode \in Modes
    /\ boot = 0

-----------------------------------------------------------------------------
(* The store. *)

\* Mutation of Full: > for >=.
FullLate(h) == Cardinality(DOMAIN h) > Cap

\* push_hot_route: routes_hot.len() >= ROUTE_SEG_CAP
Full(h) == Cardinality(DOMAIN h) >= Cap

\* push_hot_route: a full hot segment becomes the cold one, whose routes are lost.
PushHot(r, t, c) ==
    /\ hot' = IF Full(hot) THEN Put(Empty, r, t) ELSE Put(hot, r, t)
    /\ cold' = IF Full(hot) THEN hot ELSE c

\* The amounts are overwritten at the offsets discovered for the base.
Patched(t, a) ==
    [t.base EXCEPT !.data = PatchAmounts(@, t.offset, a, a + (t.quotedOut - t.inAmount))]

\* serve_route: the exact variant, else the patched base, else nothing.
Served(t, a) ==
    IF a \in DOMAIN t.variants THEN t.variants[a]
    ELSE IF t.offset # NoOffset THEN Patched(t, a) ELSE None

\* amount_variants.entry(in_amount).or_insert(swap_ixs)
Learnt(t, a, ix) ==
    IF a \in DOMAIN t.variants THEN t ELSE [t EXCEPT !.variants = Put(@, a, ix)]

-----------------------------------------------------------------------------
(* The scanner: scan_all_tokens, from the merged quotes of one opportunity. *)

\* route_sig of the next profitable opportunity; Tier 1 looks it up.
Begin(r, a) ==
    /\ scan.stage = "idle"
    /\ scan' = [stage |-> IF "serve_route" \in mode THEN "read" ELSE "hops",
                tier |-> 1, route |-> r, amount |-> a, target |-> r]
    /\ outcome' = NoOutcome
    /\ UNCHANGED <<memVars, task, flush, disk, mode, boot>>

\* get_route answered with an instruction, which is queued, or with nothing to serve.
Answer(ix) ==
    /\ outcome' = [route |-> scan.route, target |-> scan.target, amount |-> scan.amount, ix |-> ix]
    /\ scan' = IF ix # None THEN Resting
               ELSE [scan EXCEPT !.stage = IF scan.tier = 1 THEN "hops" ELSE "metis"]

\* get_route under the read lock: a hot hit or a miss is final, a cold hit is promoted next.
ReadHot ==
    /\ scan.stage = "read"
    /\ scan.target \in DOMAIN hot
    /\ Answer(Served(hot[scan.target], scan.amount))
    /\ UNCHANGED <<memVars, task, flush, disk, mode, boot>>

ReadCold ==
    /\ scan.stage = "read"
    /\ scan.target \in DOMAIN cold \ DOMAIN hot
    /\ scan' = [scan EXCEPT !.stage = "promote"]
    /\ UNCHANGED <<memVars, outcome, task, flush, disk, mode, boot>>

ReadMiss ==
    /\ scan.stage = "read"
    /\ scan.target \notin Live
    /\ Answer(None)
    /\ UNCHANGED <<memVars, task, flush, disk, mode, boot>>

\* get_route under the write lock: cold.remove, then push_hot_route.
Promote ==
    /\ scan.stage = "promote"
    /\ scan.target \in DOMAIN cold
    /\ Answer(Served(cold[scan.target], scan.amount))
    /\ PushHot(scan.target, cold[scan.target], Remove(cold, scan.target))
    /\ UNCHANGED <<index, hops, task, flush, disk, mode, boot>>

\* The route left the cold segment in the meantime: routes_hot.get(&sig).cloned().
PromoteGone ==
    /\ scan.stage = "promote"
    /\ scan.target \notin DOMAIN cold
    /\ Answer(IF scan.target \in DOMAIN hot THEN Served(hot[scan.target], scan.amount) ELSE None)
    /\ UNCHANGED <<memVars, task, flush, disk, mode, boot>>

\* Tier 2, check_hops: are all the hops known?
CheckHops ==
    /\ scan.stage = "hops"
    /\ scan' = [scan EXCEPT !.stage =
                   IF HopsIn(scan.route) \subseteq hops /\ "serve_route" \in mode THEN "index" ELSE "metis"]
    /\ UNCHANGED <<memVars, outcome, task, flush, disk, mode, boot>>

\* get_route_for_hops: the route indexed under the two hops, looked up like any other.
LookupPair ==
    /\ scan.stage = "index"
    /\ Paired(scan.route) /\ HopsOf[scan.route] \in DOMAIN index
    /\ scan' = [scan EXCEPT !.stage = "read", !.tier = 2, !.target = index[HopsOf[scan.route]]]
    /\ UNCHANGED <<memVars, outcome, task, flush, disk, mode, boot>>

NoPair ==
    /\ scan.stage = "index"
    /\ ~(Paired(scan.route) /\ HopsOf[scan.route] \in DOMAIN index)
    /\ scan' = [scan EXCEPT !.stage = "metis"]
    /\ UNCHANGED <<memVars, outcome, task, flush, disk, mode, boot>>

\* Tier 3: dropped, or a task is spawned that asks Metis.
DropNoServe ==
    /\ scan.stage = "metis"
    /\ "serve_from_metis" \notin mode
    /\ scan' = Resting
    /\ UNCHANGED <<memVars, outcome, task, flush, disk, mode, boot>>

\* Mutation of SpawnTask: the task captures the request after it was cleared.
SpawnTaskCleared(t) ==
    /\ scan.stage = "metis"
    /\ "serve_from_metis" \in mode
    /\ task[t].stage = "idle"
    /\ scan' = Resting
    /\ task' = [task EXCEPT ![t] = [stage |-> "fetch", route |-> scan'.route, amount |-> scan'.amount]]
    /\ UNCHANGED <<memVars, outcome, flush, disk, mode, boot>>

SpawnTask(t) ==
    /\ scan.stage = "metis"
    /\ "serve_from_metis" \in mode
    /\ task[t].stage = "idle"
    /\ task' = [task EXCEPT ![t] = [stage |-> "fetch", route |-> scan.route, amount |-> scan.amount]]
    /\ scan' = Resting
    /\ UNCHANGED <<memVars, outcome, flush, disk, mode, boot>>

-----------------------------------------------------------------------------
(* A Metis task. *)

\* get_swap_instructions fails or times out, or its answer is not to be saved.
FetchEnds(t) ==
    /\ task[t].stage = "fetch"
    /\ task' = [task EXCEPT ![t] = NoTask]
    /\ UNCHANGED <<memVars, scan, outcome, flush, disk, mode, boot>>

\* It answers, and the answer is to be saved: nothing shared is touched before insert_route.
Saves(t) == task[t].stage = "fetch" /\ "save_new" \in mode

\* What Metis answered for the task's route and amount.
Fetched(t) == MetisIx[task[t].route][task[t].amount]

\* insert_route of a route that is live: its amount joins the variants.
InsertKnown(t) ==
    LET r == task[t].route
        learn(f) == IF r \in DOMAIN f THEN [f EXCEPT ![r] = Learnt(@, task[t].amount, Fetched(t))] ELSE f
    IN  /\ Saves(t)
        /\ r \in Live
        /\ hot' = learn(hot)
        /\ cold' = IF r \in DOMAIN hot THEN cold ELSE learn(cold)
        /\ task' = [task EXCEPT ![t].stage = "record"]
        /\ UNCHANGED <<index, hops, scan, outcome, flush, disk, mode, boot>>

\* RouteTemplate of an answer, with the offsets that discover_offsets finds or not
NewTemplate(t) ==
    LET a == task[t].amount
    IN  [base |-> Fetched(t), inAmount |-> a, quotedOut |-> Floor(a),
         offset |-> OffsetOf[task[t].route][a],
         variants |-> Put(Empty, a, Fetched(t))]

\* Mutation of InsertNew: a known route is not looked for first.
InsertBlind(t) ==
    LET r == task[t].route
    IN  /\ Saves(t)
        /\ PushHot(r, NewTemplate(t), cold)
        /\ index' = IF Paired(r) /\ HopsOf[r] \notin DOMAIN index THEN Put(index, HopsOf[r], r) ELSE index
        /\ task' = [task EXCEPT ![t].stage = "record"]
        /\ UNCHANGED <<hops, scan, outcome, flush, disk, mode, boot>>

\* insert_route of a new one: its hop pair is indexed unless the index already has the pair.
InsertNew(t) ==
    LET r == task[t].route
    IN  /\ Saves(t)
        /\ r \notin Live
        /\ PushHot(r, NewTemplate(t), cold)
        /\ index' = IF Paired(r) /\ HopsOf[r] \notin DOMAIN index THEN Put(index, HopsOf[r], r) ELSE index
        /\ task' = [task EXCEPT ![t].stage = "record"]
        /\ UNCHANGED <<hops, scan, outcome, flush, disk, mode, boot>>

\* record_hops; the task then queues its instruction and ends.
RecordHops(t) ==
    /\ task[t].stage = "record"
    /\ hops' = hops \cup HopsIn(task[t].route)
    /\ task' = [task EXCEPT ![t] = NoTask]
    /\ UNCHANGED <<hot, cold, index, scan, outcome, flush, disk, mode, boot>>

-----------------------------------------------------------------------------
(* The flush task and the files. A file is written beside its name and renamed over it,
   so a flush that fails or dies leaves the old one. *)

Caching == mode \cap {"save_new", "serve_route"} # {}

\* What is kept of a template: the base and its offsets, not the variants.
Record(t) == [t EXCEPT !.variants = Empty]

\* Mutation of Snapshot: the cold segment is not chained.
SnapshotHot == [r \in DOMAIN hot |-> Record(hot[r])]

\* routes_hot.values().chain(routes_cold.values()).map(RouteRecord::from_template)
Snapshot == [r \in Live |-> IF r \in DOMAIN hot THEN Record(hot[r]) ELSE Record(cold[r])]

\* Mutation of FlushRoutes: the hop-pair index is not in the snapshot.
FlushRoutesOnly ==
    /\ Caching
    /\ flush.stage = "idle"
    /\ flush' = [NoFlush EXCEPT !.stage = "save", !.routes = Snapshot]
    /\ UNCHANGED <<memVars, scan, outcome, task, disk, mode, boot>>

\* flush_routes_to_disk, under the read lock
FlushRoutes ==
    /\ Caching
    /\ flush.stage = "idle"
    /\ flush' = [NoFlush EXCEPT !.stage = "save", !.routes = Snapshot, !.pairs = index]
    /\ UNCHANGED <<memVars, scan, outcome, task, disk, mode, boot>>

\* fs::write to the temporary file and rename
SaveRoutes ==
    /\ flush.stage = "save"
    /\ disk' = [disk EXCEPT !.routes = flush.routes, !.pairs = flush.pairs]
    /\ flush' = [NoFlush EXCEPT !.stage = "hops"]
    /\ UNCHANGED <<memVars, scan, outcome, task, mode, boot>>

SaveRoutesFails ==
    /\ flush.stage = "save"
    /\ flush' = [NoFlush EXCEPT !.stage = "hops"]
    /\ UNCHANGED <<memVars, scan, outcome, task, disk, mode, boot>>

\* flush_to_disk, under its own read lock
FlushHops ==
    /\ flush.stage = "hops"
    /\ flush' = [NoFlush EXCEPT !.stage = "files", !.hops = hops]
    /\ UNCHANGED <<memVars, scan, outcome, task, disk, mode, boot>>

\* One file per DEX, in any order, each of which may fail to be written.
SaveHops(d) ==
    LET own == {h \in flush.hops : DexOf[h] = d}
    IN  /\ flush.stage = "files"
        /\ own # {}
        /\ flush' = [flush EXCEPT !.hops = @ \ own]
        /\ \/ disk' = [disk EXCEPT !.hops = {h \in @ : DexOf[h] # d} \cup own]
           \/ UNCHANGED disk
        /\ UNCHANGED <<memVars, scan, outcome, task, mode, boot>>

FlushDone ==
    /\ flush.stage = "files"
    /\ flush.hops = {}
    /\ flush' = NoFlush
    /\ UNCHANGED <<memVars, scan, outcome, task, disk, mode, boot>>

\* The process dies and is started again, perhaps with other switches. load_from_disk and
\* load_routes_from_disk fill the empty store: every route is inserted into the hot
\* segment, whatever their number.
Restart(m) ==
    LET load == m \cap {"save_new", "serve_route"} # {}
    IN  /\ mode' = m
        /\ hot' = IF load THEN disk.routes ELSE Empty
        /\ cold' = Empty
        /\ index' = IF load THEN disk.pairs ELSE Empty
        /\ hops' = IF load THEN disk.hops ELSE {}
        /\ boot' = Cardinality(DOMAIN hot')
        /\ scan' = Resting
        /\ outcome' = NoOutcome
        /\ task' = [t \in Tasks |-> NoTask]
        /\ flush' = NoFlush
        /\ UNCHANGED disk

-----------------------------------------------------------------------------
Scan ==
    \/ \E r \in Routes, a \in Amounts : Begin(r, a)
    \/ ReadHot \/ ReadCold \/ ReadMiss
    \/ Promote \/ PromoteGone
    \/ CheckHops \/ LookupPair \/ NoPair
    \/ DropNoServe
    \/ \E t \in Tasks : SpawnTask(t)

Learn(t) == FetchEnds(t) \/ InsertKnown(t) \/ InsertNew(t) \/ RecordHops(t)

SaveSomeHops == \E d \in {DexOf[h] : h \in Hops} : SaveHops(d)

Flush ==
    \/ FlushRoutes \/ SaveRoutes \/ SaveRoutesFails
    \/ FlushHops \/ SaveSomeHops \/ FlushDone

Next ==
    \/ Scan
    \/ \E t \in Tasks : Learn(t)
    \/ Flush
    \/ \E m \in Modes : Restart(m)

\* The flush interval keeps ticking and its blocking task is run; a file cannot be written
\* once in a while, not for ever.
Fairness == WF_vars(Flush) /\ SF_vars(SaveRoutes)

Safety == Init /\ [][Next]_vars
Spec == Safety /\ Fairness

-----------------------------------------------------------------------------
(* Properties. *)

\* Every variable has the type of the Rust state it stands for.
TypeOK ==
    /\ IsTemplateMap(hot) /\ IsTemplateMap(cold)
    /\ IsMap(index, Pairs, Routes)
    /\ hops \subseteq Hops
    /\ scan.stage \in {"idle", "read", "promote", "hops", "index", "metis"}
    /\ scan.stage # "idle" =>
         /\ scan.tier \in {1, 2}
         /\ scan.route \in Routes /\ scan.target \in Routes
         /\ scan.amount \in Amounts
    /\ outcome.ix \in Instructions \cup {None}
    /\ \A t \in Tasks :
         /\ task[t].stage \in {"idle", "fetch", "record"}
         /\ task[t].stage # "idle" => task[t].route \in Routes /\ task[t].amount \in Amounts
    /\ flush.stage \in {"idle", "save", "hops", "files"}
    /\ IsTemplateMap(flush.routes) /\ IsTemplateMap(disk.routes)
    /\ IsMap(flush.pairs, Pairs, Routes) /\ IsMap(disk.pairs, Pairs, Routes)
    /\ flush.hops \subseteq Hops /\ disk.hops \subseteq Hops
    /\ mode \in Modes
    /\ boot \in 0..Cardinality(Routes)

\* A route has one template: promotion removes the cold one in the critical section that
\* inserts the hot one, and insert_route looks in both segments before it inserts.
SegmentsDisjoint == DOMAIN hot \cap DOMAIN cold = {}

Larger(a, b) == IF a > b THEN a ELSE b

\* A segment outgrows ROUTE_SEG_CAP only as far as the process loaded it larger.
SegmentsBounded ==
    /\ Cardinality(DOMAIN hot) <= Larger(Cap, boot)
    /\ Cardinality(DOMAIN cold) <= Larger(Cap, boot)

\* Whatever tier served it, and however stale the template or the index entry it was
\* served from, an instruction swaps along the hops asked for, and its data is, byte for
\* byte, that of the amount asked for: no other field of a patched one is touched.
ServedAsAsked ==
    outcome.ix # None =>
      \E r \in Routes :
        /\ HopsOf[r] = HopsOf[outcome.route]
        /\ \E out \in Outs(r, outcome.amount) : outcome.ix = Encoded(r, outcome.amount, out)

\* A live route of two hops can be reached from its hop pair at least by name: its pair is
\* indexed, under a route of the same two hops, in memory and in the files, whichever of
\* its routes have been evicted and whenever the flush took its snapshot.
PairsIndexed ==
    LET indexed(routes, pairs) ==
            /\ \A r \in routes : Paired(r) => HopsOf[r] \in DOMAIN pairs
            /\ \A p \in DOMAIN pairs : HopsOf[pairs[p]] = p
    IN  indexed(Live, index) /\ indexed(DOMAIN disk.routes, disk.pairs)

\* A route that stays in the store gets to the file, whichever segment it lives in.
RoutesPersisted == \A r \in Routes : r \in Live ~> (r \notin Live \/ r \in DOMAIN disk.routes)

\* What the abstract table knows of a template: not how it is patched.
View(t) == [base |-> t.base, patchable |-> t.offset # NoOffset, variants |-> t.variants]
Abstract(f) == [r \in DOMAIN f |-> View(f[r])]

\* The two segments as one.
Known == [r \in Live |-> IF r \in DOMAIN hot THEN hot[r] ELSE cold[r]]

\* The two segments, the locks taken twice, the patched bytes and the flush implement one
\* table with atomic operations and a file that holds one moment of it.
T == INSTANCE RouteTable WITH
    Asked <- MetisIx,
    Exact <- [r \in Routes |-> [a \in Amounts |-> Encoded(r, a, Floor(a))]],
    Patchable <- {x \in Routes \X Amounts : OffsetOf[x[1]][x[2]] # NoOffset},
    table <- Abstract(Known),
    answer <- [route |-> outcome.target, amount |-> outcome.amount, ix |-> outcome.ix],
    pending <- Abstract(flush.routes),
    saved <- Abstract(disk.routes)

\* Every step of the store is a step of the table, or invisible.
ImplementsTable == T!Spec

=============================================================================

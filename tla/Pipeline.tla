------------------------------ MODULE Pipeline ------------------------------
(***************************************************************************)
(* The opportunity pipeline of arbitrage.rs: a LIFO stack shared by many   *)
(* producers (the scanner through push_to_queue, and one spawned task per  *)
(* Metis /swap-instructions answer) and by a pool of calc workers that     *)
(* pop an opportunity, drop it when it is too old, take a slot of one of   *)
(* two rate limiters or put it back, build the transaction and submit it.  *)
(*                                                                         *)
(* The stack is a mutex, the wake-ups are a semaphore and the depth gauge  *)
(* is an atomic: three separate accesses with every other task in between, *)
(* hence one action per access.                                            *)
(*                                                                         *)
(* Time is kept as ages, one unit per Tick, saturated one unit past the    *)
(* last comparison the code makes with them; a run may last for ever.      *)
(***************************************************************************)
EXTENDS Integers, Sequences, FiniteSets

CONSTANTS
    Items,     \* identities of queued opportunities (ReadyInstruction)
    Workers,   \* calc workers (performance.calc_workers)
    None,      \* no item
    Max,       \* [Channels -> Nat]: max_bundles_per_second of each limiter; 0 for gRPC
               \* when it has no client, and so no limiter
    MaxAge,    \* queue_max_age_ms, in ticks
    Window     \* the limiter's one second, in ticks

Channels == {"rest", "grpc"}

ASSUME NoneAssumption == None \notin Items
ASSUME FiniteAssumption == IsFiniteSet(Items) /\ IsFiniteSet(Workers)
ASSUME LimitAssumption ==
    /\ Max \in [Channels -> Nat]
    /\ MaxAge \in Nat
    /\ Window \in Nat \ {0}

VARIABLES
    lifo,      \* Pipeline.lifo: the last element is the top
    permits,   \* Pipeline.lifo_sem: available permits
    depth,     \* Metrics.queue_depth
    offer,     \* progress of the producer of each item
    pc, held,  \* progress of each worker and the item it owns
    age,       \* arrived_at.elapsed() of each live item
    waited,    \* items whose waited_for_slot is set
    stamps,    \* RateLimiter.timestamps: the items whose grant is remembered
    slot,      \* the channel an item took a slot of, "none" before
    slotAge,   \* time since it took it
    verdict    \* what became of the item

queueVars == <<lifo, permits, depth>>
limitVars == <<stamps, slot, slotAge>>
vars == <<queueVars, offer, pc, held, age, waited, limitVars, verdict>>

OfferStages == {"idle", "pushed", "counted", "offered"}
WorkerStages == {"acquire", "pop", "uncount", "check", "rest", "grpc",
                 "requeue", "recount", "repermit", "sleep", "build", "send"}
LocalDrops == {"stale", "build_failed", "locks", "too_large"}
Verdicts == LocalDrops \cup {"sent", "send_failed"}

Init ==
    /\ lifo = <<>> /\ permits = 0 /\ depth = 0
    /\ offer = [i \in Items |-> "idle"]
    /\ pc = [w \in Workers |-> "acquire"]
    /\ held = [w \in Workers |-> None]
    /\ age = [i \in Items |-> 0]
    /\ waited = {}
    /\ stamps = [c \in Channels |-> {}]
    /\ slot = [i \in Items |-> "none"]
    /\ slotAge = [i \in Items |-> 0]
    /\ verdict = [i \in Items |-> "none"]

Goto(w, stage) == pc' = [pc EXCEPT ![w] = stage]

-----------------------------------------------------------------------------
(* Producers: push_to_queue, and the tail of the spawned Metis task. *)

\* ReadyInstruction { arrived_at: now }, then lifo.lock().push(item).
Push(i) ==
    /\ offer[i] = "idle"
    /\ offer' = [offer EXCEPT ![i] = "pushed"]
    /\ lifo' = Append(lifo, i)
    /\ UNCHANGED <<permits, depth, pc, held, age, waited, limitVars, verdict>>

\* queue_depth.fetch_add(1)
Count(i) ==
    /\ offer[i] = "pushed"
    /\ offer' = [offer EXCEPT ![i] = "counted"]
    /\ depth' = depth + 1
    /\ UNCHANGED <<lifo, permits, pc, held, age, waited, limitVars, verdict>>

\* lifo_sem.add_permits(1)
Signal(i) ==
    /\ offer[i] = "counted"
    /\ offer' = [offer EXCEPT ![i] = "offered"]
    /\ permits' = permits + 1
    /\ UNCHANGED <<lifo, depth, pc, held, age, waited, limitVars, verdict>>

-----------------------------------------------------------------------------
(* Calc workers. *)

\* Mutation of Acquire: without forget() the permit goes back when its guard is dropped.
AcquireWithoutForget(w) ==
    /\ pc[w] = "acquire"
    /\ permits > 0
    /\ Goto(w, "pop")
    /\ UNCHANGED <<queueVars, offer, held, age, waited, limitVars, verdict>>

\* sem.acquire().await.forget()
Acquire(w) ==
    /\ pc[w] = "acquire"
    /\ permits > 0
    /\ permits' = permits - 1
    /\ Goto(w, "pop")
    /\ UNCHANGED <<lifo, depth, offer, held, age, waited, limitVars, verdict>>

\* lifo.lock().pop(). Its None branch is not modelled: PopFindsItem shows it dead.
Pop(w) ==
    /\ pc[w] = "pop"
    /\ lifo # <<>>
    /\ held' = [held EXCEPT ![w] = lifo[Len(lifo)]]
    /\ lifo' = SubSeq(lifo, 1, Len(lifo) - 1)
    /\ Goto(w, "uncount")
    /\ UNCHANGED <<permits, depth, offer, age, waited, limitVars, verdict>>

\* queue_depth.fetch_sub(1)
Uncount(w) ==
    /\ pc[w] = "uncount"
    /\ depth' = depth - 1
    /\ Goto(w, "check")
    /\ UNCHANGED <<lifo, permits, offer, held, age, waited, limitVars, verdict>>

\* The worker drops its item with verdict v and returns to the top of its loop.
Settle(w, v) ==
    /\ verdict' = [verdict EXCEPT ![held[w]] = v]
    /\ age' = [age EXCEPT ![held[w]] = 0]
    /\ held' = [held EXCEPT ![w] = None]
    /\ Goto(w, "acquire")
    /\ UNCHANGED <<queueVars, offer, waited, limitVars>>

\* arrived_at.elapsed() > queue_max_age_ms
TooOld(i) == age[i] > MaxAge

DropStale(w) ==
    /\ pc[w] = "check"
    /\ TooOld(held[w])
    /\ Settle(w, "stale")

\* Mutation of KeepFresh: an item that was put back is not checked again.
KeepFreshOnce(w) ==
    /\ pc[w] = "check"
    /\ ~TooOld(held[w]) \/ held[w] \in waited
    /\ Goto(w, "rest")
    /\ UNCHANGED <<queueVars, offer, held, age, waited, limitVars, verdict>>

KeepFresh(w) ==
    /\ pc[w] = "check"
    /\ ~TooOld(held[w])
    /\ Goto(w, "rest")
    /\ UNCHANGED <<queueVars, offer, held, age, waited, limitVars, verdict>>

\* Mutation of Retained: a grant is forgotten one tick too early.
RetainedTooFew(c) == {i \in stamps[c] : slotAge[i] + 1 < Window}

\* RateLimiter: timestamps.retain(|t| t > now - 1s)
Retained(c) == {i \in stamps[c] : slotAge[i] < Window}

\* Mutation of HasRoom: <= for <.
HasRoomForOneMore(c) == Cardinality(Retained(c)) <= Max[c]

\* ... len() < max_per_second, under the limiter's mutex
HasRoom(c) == Cardinality(Retained(c)) < Max[c]

\* try_acquire answers true: the grant is remembered at age zero
Grant(w, c) ==
    /\ HasRoom(c)
    /\ stamps' = [stamps EXCEPT ![c] = Retained(c) \cup {held[w]}]
    /\ slot' = [slot EXCEPT ![held[w]] = c]
    /\ slotAge' = [slotAge EXCEPT ![held[w]] = 0]
    /\ Goto(w, "build")
    /\ UNCHANGED <<queueVars, offer, held, age, waited, verdict>>

\* try_acquire answers false, having forgotten the old grants
Refuse(w, c, next) ==
    /\ ~HasRoom(c)
    /\ stamps' = [stamps EXCEPT ![c] = Retained(c)]
    /\ Goto(w, next)
    /\ UNCHANGED <<queueVars, offer, held, age, slot, slotAge, verdict>>

TakeRest(w) == pc[w] = "rest" /\ Grant(w, "rest")
RestFull(w) == pc[w] = "rest" /\ Refuse(w, "rest", "grpc") /\ UNCHANGED waited
TakeGrpc(w) == pc[w] = "grpc" /\ Grant(w, "grpc")

\* No slot on either channel: waited_for_slot = true, the item goes back.
GrpcFull(w) ==
    /\ pc[w] = "grpc"
    /\ Refuse(w, "grpc", "requeue")
    /\ waited' = waited \cup {held[w]}

\* Mutations of Requeue: the item is moved out before the push; it is pushed twice.
RequeueMovedItem(w) ==
    /\ pc[w] = "requeue"
    /\ held' = [held EXCEPT ![w] = None]
    /\ lifo' = Append(lifo, held'[w])
    /\ Goto(w, "recount")
    /\ UNCHANGED <<permits, depth, offer, age, waited, limitVars, verdict>>

RequeueCopy(w) ==
    /\ pc[w] = "requeue"
    /\ lifo' = lifo \o <<held[w], held[w]>>
    /\ held' = [held EXCEPT ![w] = None]
    /\ Goto(w, "recount")
    /\ UNCHANGED <<permits, depth, offer, age, waited, limitVars, verdict>>

\* lifo.lock().push(item): arrived_at is kept
Requeue(w) ==
    /\ pc[w] = "requeue"
    /\ lifo' = Append(lifo, held[w])
    /\ held' = [held EXCEPT ![w] = None]
    /\ Goto(w, "recount")
    /\ UNCHANGED <<permits, depth, offer, age, waited, limitVars, verdict>>

\* Mutation of Recount: the permit is never released.
RecountAndSleep(w) ==
    /\ pc[w] = "recount"
    /\ depth' = depth + 1
    /\ Goto(w, "sleep")
    /\ UNCHANGED <<lifo, permits, offer, held, age, waited, limitVars, verdict>>

\* queue_depth.fetch_add(1)
Recount(w) ==
    /\ pc[w] = "recount"
    /\ depth' = depth + 1
    /\ Goto(w, "repermit")
    /\ UNCHANGED <<lifo, permits, offer, held, age, waited, limitVars, verdict>>

\* sem.add_permits(1)
Repermit(w) ==
    /\ pc[w] = "repermit"
    /\ permits' = permits + 1
    /\ Goto(w, "sleep")
    /\ UNCHANGED <<lifo, depth, offer, held, age, waited, limitVars, verdict>>

\* the RATE_RETRY_BACKOFF_MS sleep ends
Wake(w) ==
    /\ pc[w] = "sleep"
    /\ Goto(w, "acquire")
    /\ UNCHANGED <<queueVars, offer, held, age, waited, limitVars, verdict>>

\* build_arb_transaction fails, or the result breaks the account-lock or size limit
BuildFails(w) ==
    /\ pc[w] = "build"
    /\ \E v \in {"build_failed", "locks", "too_large"} : Settle(w, v)

Built(w) ==
    /\ pc[w] = "build"
    /\ Goto(w, "send")
    /\ UNCHANGED <<queueVars, offer, held, age, waited, limitVars, verdict>>

\* jito.send_bundle or grpc.send_bundle answers
Send(w) ==
    /\ pc[w] = "send"
    /\ \E v \in {"sent", "send_failed"} : Settle(w, v)

-----------------------------------------------------------------------------
Live(i) == offer[i] # "idle" /\ verdict[i] = "none"

\* The passage of time, for the age of a queued item and of a grant.
Tick ==
    /\ age' = [i \in Items |-> IF Live(i) /\ age[i] <= MaxAge THEN age[i] + 1 ELSE age[i]]
    /\ slotAge' = [i \in Items |->
                     IF slot[i] # "none" /\ slotAge[i] < Window THEN slotAge[i] + 1 ELSE slotAge[i]]
    /\ UNCHANGED <<queueVars, offer, pc, held, waited, stamps, slot, verdict>>

\* The identity of a finished item, its grant out of the window, names a new opportunity.
Recycle(i) ==
    /\ offer[i] = "offered"
    /\ verdict[i] # "none"
    /\ slot[i] = "none" \/ slotAge[i] = Window
    /\ offer' = [offer EXCEPT ![i] = "idle"]
    /\ verdict' = [verdict EXCEPT ![i] = "none"]
    /\ waited' = waited \ {i}
    /\ stamps' = [c \in Channels |-> stamps[c] \ {i}]
    /\ slot' = [slot EXCEPT ![i] = "none"]
    /\ slotAge' = [slotAge EXCEPT ![i] = 0]
    /\ UNCHANGED <<queueVars, pc, held, age>>

\* Mutation of Produce: the permit is released before the gauge is incremented.
ProduceSignalFirst(i) ==
    \/ Push(i)
    \/ /\ offer[i] = "pushed"
       /\ offer' = [offer EXCEPT ![i] = "counted"]
       /\ permits' = permits + 1
       /\ UNCHANGED <<lifo, depth, pc, held, age, waited, limitVars, verdict>>
    \/ /\ offer[i] = "counted"
       /\ offer' = [offer EXCEPT ![i] = "offered"]
       /\ depth' = depth + 1
       /\ UNCHANGED <<lifo, permits, pc, held, age, waited, limitVars, verdict>>

Produce(i) == Push(i) \/ Count(i) \/ Signal(i)

Work(w) ==
    \/ Acquire(w) \/ Pop(w) \/ Uncount(w)
    \/ DropStale(w) \/ KeepFresh(w)
    \/ TakeRest(w) \/ RestFull(w)
    \/ TakeGrpc(w) \/ GrpcFull(w)
    \/ Requeue(w) \/ Recount(w) \/ Repermit(w) \/ Wake(w)
    \/ BuildFails(w) \/ Built(w) \/ Send(w)

Next ==
    \/ \E i \in Items : Produce(i)
    \/ \E w \in Workers : Work(w)
    \/ Tick

\* Opportunities without end: identities are reused.
NextForever == Next \/ \E i \in Items : Recycle(i)

\* Every task is polled: tokio's scheduler runs a ready task, the mutexes are held
\* for a few instructions, the RPC and HTTP clients time out, and time passes.
Fairness ==
    /\ \A i \in Items : WF_vars(Count(i)) /\ WF_vars(Signal(i))
    /\ \A w \in Workers : WF_vars(Work(w))
    /\ WF_vars(Tick)

Safety == Init /\ [][Next]_vars
SafetyForever == Init /\ [][NextForever]_vars
Spec == Safety /\ Fairness

-----------------------------------------------------------------------------
(* Properties. *)

\* Every variable has the type of the Rust state it stands for.
TypeOK ==
    /\ lifo \in Seq(Items)
    /\ permits \in Nat
    /\ depth \in Int
    /\ offer \in [Items -> OfferStages]
    /\ pc \in [Workers -> WorkerStages]
    /\ held \in [Workers -> Items \cup {None}]
    /\ age \in [Items -> 0..MaxAge + 1]
    /\ waited \in SUBSET Items
    /\ stamps \in [Channels -> SUBSET Items]
    /\ slot \in [Items -> Channels \cup {"none"}]
    /\ slotAge \in [Items -> 0..Window]
    /\ verdict \in [Items -> Verdicts \cup {"none"}]

At(stages) == {w \in Workers : pc[w] \in stages}
Offering(stages) == {i \in Items : offer[i] \in stages}

\* Workers that took a permit and did not pop yet.
Poppers == At({"pop"})

\* Tasks that pushed an item and did not release its permit yet.
Unsignalled == Offering({"pushed", "counted"})
Unpermitted == At({"recount", "repermit"})

\* Tasks that pushed or popped an item and did not update the gauge yet.
Uncounted == Offering({"pushed"})
Unrecounted == At({"recount"})
Undecremented == At({"uncount"})

\* No wake-up is lost and none is invented: every stacked item is matched by a permit, by
\* a worker already woken for it, or by a task about to release one (arbitrage.rs pushes
\* before add_permits, and acquires before pop, on every path).
PermitAccounting ==
    Len(lifo) = permits + Cardinality(Poppers)
                        + Cardinality(Unsignalled) + Cardinality(Unpermitted)

\* A worker that was woken finds an item: the None => continue branch, which would
\* swallow a wake-up, is dead code.
PopFindsItem == \A w \in Workers : pc[w] = "pop" => lifo # <<>>

\* queue_depth is the length of the stack up to the updates in flight.
GaugeAccounting ==
    depth + Cardinality(Uncounted) + Cardinality(Unrecounted)
      = Len(lifo) + Cardinality(Undecremented)

\* The reporter never prints a negative depth, although a worker may pop an item, and
\* decrement for it, before the producer that pushed it has incremented.
GaugeNeverNegative == depth >= 0

\* A live opportunity is in exactly one place, the stack or one worker's hands, and a
\* finished one is nowhere: no bundle is lost or submitted twice.
NeverDuplicated ==
    \A i \in Items :
        Cardinality({k \in 1..Len(lifo) : lifo[k] = i})
          + Cardinality({w \in Workers : held[w] = i}) = IF Live(i) THEN 1 ELSE 0

\* Grants of a channel that are less than one second old.
InWindow(c) == {i \in Items : slot[i] = c /\ slotAge[i] < Window}

\* No second sees more grants on a channel than max_bundles_per_second, whatever the interleaving
\* of the workers and however many grants the limiter has forgotten. It is about the grants of
\* try_acquire: the build comes between a grant and its submission, and takes what it takes.
BudgetRespected == \A c \in Channels : Cardinality(InWindow(c)) <= Max[c]

Queued(i) == \E k \in 1..Len(lifo) : lifo[k] = i

\* Once an item has waited in the stack past queue_max_age_ms it never takes a slot again,
\* through any number of requeues: each pop compares arrived_at again, and a requeue keeps it.
OverdueNeverClaims ==
    \A i \in Items : [](Queued(i) /\ TooOld(i) => [](slot[i] = "none"))

\* With finitely many opportunities each one gets its verdict: a refused item is not
\* bounced between the stack and the limiters for ever, and none is stranded.
EveryItemSettles == \A i \in Items : offer[i] = "pushed" ~> verdict[i] # "none"

\* The pipeline implements Dispatch.
D == INSTANCE Dispatch WITH
    phase <- [i \in Items |->
        CASE offer[i] = "idle" -> "absent"
          [] Live(i) /\ slot[i] = "none" -> "waiting"
          [] Live(i) /\ slot[i] # "none" -> "submitting"
          [] OTHER -> "done"],
    Drops <- LocalDrops

\* Every step of the pipeline is a step of what it promises, or invisible.
ImplementsDispatch == D!Spec

=============================================================================

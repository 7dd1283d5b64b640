--------------------------- MODULE PipelineProofs ---------------------------
(* Proofs about Pipeline, for every set of items and workers and all limits. *)
EXTENDS Pipeline, FiniteSetTheorems, SequenceTheorems, TLAPS

\* Stages at which a worker owns an item.
Holding == {"uncount", "check", "rest", "grpc", "requeue", "build", "send"}

\* A worker owns an item exactly at those stages: it is the source of the items that the
\* worker's steps write verdicts, grants and stack entries for.
HeldOK == \A w \in Workers : held[w] \in Items <=> pc[w] \in Holding

TypeInv == TypeOK /\ HeldOK

-----------------------------------------------------------------------------
(* Type correctness. *)

\* The initial state of spawn_workers and the metrics is well typed.
LEMMA InitTyped == Init => TypeInv
BY NoneAssumption, LimitAssumption
   DEF Init, TypeInv, TypeOK, HeldOK, Holding, OfferStages, WorkerStages, Verdicts, LocalDrops, Channels

\* A producer's step keeps the types.
LEMMA ProduceTyped == ASSUME TypeInv, NEW i \in Items, Produce(i) PROVE TypeInv'
<1> USE DEF TypeInv, TypeOK, HeldOK, limitVars
<1>1. CASE Push(i)
  BY <1>1, AppendProperties DEF Push, OfferStages
<1>2. CASE Count(i)
  BY <1>2 DEF Count, OfferStages
<1>3. CASE Signal(i)
  BY <1>3 DEF Signal, OfferStages
<1> QED BY <1>1, <1>2, <1>3 DEF Produce

\* Dropping an item with a verdict keeps the types.
LEMMA SettleTyped ==
    ASSUME TypeInv, NEW w \in Workers, NEW v \in Verdicts, pc[w] \in Holding, Settle(w, v)
    PROVE  TypeInv'
BY NoneAssumption, LimitAssumption
   DEF TypeInv, TypeOK, HeldOK, Holding, Settle, Goto, queueVars, limitVars, WorkerStages

\* A grant keeps the types.
LEMMA GrantTyped ==
    ASSUME TypeInv, NEW w \in Workers, NEW c \in Channels, pc[w] \in {"rest", "grpc"}, Grant(w, c)
    PROVE  TypeInv'
<1>1. held[w] \in Items
  BY DEF TypeInv, HeldOK, Holding
<1>2. stamps' \in [Channels -> SUBSET Items]
  BY <1>1 DEF TypeInv, TypeOK, Grant, Retained
<1>3. slotAge' \in [Items -> 0..Window] /\ slot' \in [Items -> Channels \cup {"none"}]
  BY <1>1, LimitAssumption DEF TypeInv, TypeOK, Grant
<1>4. pc' \in [Workers -> WorkerStages] /\ HeldOK'
  BY DEF TypeInv, TypeOK, HeldOK, Holding, Grant, Goto, WorkerStages
<1> QED BY <1>2, <1>3, <1>4 DEF TypeInv, TypeOK, Grant, queueVars

\* A refusal keeps the types.
LEMMA RefuseTyped ==
    ASSUME TypeInv, NEW w \in Workers, NEW c \in Channels, pc[w] \in {"rest", "grpc"},
           NEW next \in {"grpc", "requeue"}, Refuse(w, c, next), waited' \in SUBSET Items
    PROVE  TypeInv'
<1>1. stamps' \in [Channels -> SUBSET Items]
  BY DEF TypeInv, TypeOK, Refuse, Retained
<1>2. pc' \in [Workers -> WorkerStages] /\ HeldOK'
  BY DEF TypeInv, TypeOK, HeldOK, Holding, Refuse, Goto, WorkerStages
<1> QED BY <1>1, <1>2 DEF TypeInv, TypeOK, Refuse, queueVars

\* A worker's step keeps the types.
LEMMA WorkTyped == ASSUME TypeInv, NEW w \in Workers, Work(w) PROVE TypeInv'
<1> USE DEF TypeInv, TypeOK, HeldOK, Holding, Goto, WorkerStages, queueVars, limitVars
<1>1. CASE Acquire(w)
  <2>1. permits' \in Nat
    BY <1>1 DEF Acquire
  <2>2. pc' \in [Workers -> WorkerStages] /\ HeldOK'
    BY <1>1 DEF Acquire
  <2> QED BY <1>1, <2>1, <2>2 DEF Acquire
<1>2. CASE Pop(w)
  <2>1. lifo[Len(lifo)] \in Items /\ lifo' \in Seq(Items)
    BY <1>2, LenProperties, ElementOfSeq, SubSeqProperties, EmptySeq DEF Pop
  <2> QED BY <1>2, <2>1 DEF Pop
<1>3. CASE Uncount(w)
  BY <1>3 DEF Uncount
<1>4. CASE DropStale(w)
  BY <1>4, SettleTyped DEF DropStale, Verdicts, LocalDrops
<1>5. CASE KeepFresh(w)
  BY <1>5 DEF KeepFresh
<1>6. CASE TakeRest(w)
  BY <1>6, GrantTyped DEF TakeRest, Channels
<1>7. CASE RestFull(w)
  BY <1>7, RefuseTyped DEF RestFull, Channels
<1>8. CASE TakeGrpc(w)
  BY <1>8, GrantTyped DEF TakeGrpc, Channels
<1>9. CASE GrpcFull(w)
  BY <1>9, RefuseTyped DEF GrpcFull, Channels
<1>10. CASE Requeue(w)
  BY <1>10, AppendProperties, NoneAssumption DEF Requeue
<1>11. CASE Recount(w)
  BY <1>11 DEF Recount
<1>12. CASE Repermit(w)
  BY <1>12 DEF Repermit
<1>13. CASE Wake(w)
  BY <1>13 DEF Wake
<1>14. CASE BuildFails(w)
  BY <1>14, SettleTyped DEF BuildFails, Verdicts, LocalDrops
<1>15. CASE Built(w)
  BY <1>15 DEF Built
<1>16. CASE Send(w)
  BY <1>16, SettleTyped DEF Send, Verdicts, LocalDrops
<1> QED
  BY <1>1, <1>2, <1>3, <1>4, <1>5, <1>6, <1>7, <1>8, <1>9, <1>10, <1>11, <1>12, <1>13,
     <1>14, <1>15, <1>16 DEF Work

\* The passage of time and the reuse of identities keep the types.
LEMMA TickTyped == TypeInv /\ Tick => TypeInv'
BY LimitAssumption DEF TypeInv, TypeOK, HeldOK, Tick, queueVars

LEMMA RecycleTyped == ASSUME TypeInv, NEW i \in Items, Recycle(i) PROVE TypeInv'
BY LimitAssumption DEF TypeInv, TypeOK, HeldOK, Recycle, queueVars, OfferStages, Verdicts

LEMMA StepTyped == TypeInv /\ [NextForever]_vars => TypeInv'
<1> SUFFICES ASSUME TypeInv, [NextForever]_vars PROVE TypeInv'
  OBVIOUS
<1>1. CASE UNCHANGED vars
  BY <1>1 DEF TypeInv, TypeOK, HeldOK, vars, queueVars, limitVars
<1> QED
  BY <1>1, ProduceTyped, WorkTyped, TickTyped, RecycleTyped DEF NextForever, Next

\* Type correctness, for every number of opportunities, workers and reuse of identities.
THEOREM TypeCorrect == SafetyForever => []TypeOK
<1>1. SafetyForever => []TypeInv
  BY InitTyped, StepTyped, PTL DEF SafetyForever
<1>2. TypeInv => TypeOK
  BY DEF TypeInv
<1> QED BY <1>1, <1>2, PTL

-----------------------------------------------------------------------------
(* Permits, the stack and the gauge. *)

One(cond) == IF cond THEN 1 ELSE 0

\* How moving one member of a finite set to another stage changes the number of members
\* whose stage is among some given ones.
LEMMA MoveCount ==
    ASSUME NEW S, IsFiniteSet(S), NEW f, DOMAIN f = S, NEW x \in S, NEW v, NEW X,
           NEW g, g = [f EXCEPT ![x] = v]
    PROVE  /\ Cardinality({y \in S : f[y] \in X}) \in Nat
           /\ Cardinality({y \in S : g[y] \in X})
                = Cardinality({y \in S : f[y] \in X}) + One(v \in X) - One(f[x] \in X)
<1> DEFINE A == {y \in S : f[y] \in X}
           B == {y \in S : g[y] \in X}
<1>1. IsFiniteSet(A) /\ Cardinality(A) \in Nat
  BY FS_Subset, FS_CardinalityType
<1>2. g[x] = v /\ \A y \in S \ {x} : g[y] = f[y]
  OBVIOUS
<1>3. ASSUME v \in X PROVE B = A \cup {x}
  BY <1>2, <1>3
<1>4. ASSUME v \notin X PROVE B = A \ {x}
  BY <1>2, <1>4
<1>5. x \in A <=> f[x] \in X
  OBVIOUS
<1> HIDE DEF A, B
<1>6. Cardinality(B) = Cardinality(A) + One(v \in X) - One(f[x] \in X)
  BY <1>1, <1>3, <1>4, <1>5, FS_AddElement, FS_RemoveElement DEF One
<1> QED BY <1>1, <1>6 DEF A, B

\* The six counts of tasks in flight are natural numbers.
LEMMA CountsTyped ==
    /\ Cardinality(Poppers) \in Nat
    /\ Cardinality(Unsignalled) \in Nat
    /\ Cardinality(Unpermitted) \in Nat
    /\ Cardinality(Uncounted) \in Nat
    /\ Cardinality(Unrecounted) \in Nat
    /\ Cardinality(Undecremented) \in Nat
<1>1. \A X : At(X) \subseteq Workers /\ Offering(X) \subseteq Items
  BY DEF At, Offering
<1> QED BY <1>1, FiniteAssumption, FS_Subset, FS_CardinalityType
        DEF Poppers, Unsignalled, Unpermitted, Uncounted, Unrecounted, Undecremented

\* A worker's move changes its four counts by the stage it leaves and the one it enters.
LEMMA WorkerMove ==
    ASSUME TypeOK, NEW w \in Workers, NEW stage, Goto(w, stage)
    PROVE  /\ Cardinality(Poppers') =
                Cardinality(Poppers) + One(stage = "pop") - One(pc[w] = "pop")
           /\ Cardinality(Unpermitted') =
                Cardinality(Unpermitted) + One(stage \in {"recount", "repermit"})
                                         - One(pc[w] \in {"recount", "repermit"})
           /\ Cardinality(Unrecounted') =
                Cardinality(Unrecounted) + One(stage = "recount") - One(pc[w] = "recount")
           /\ Cardinality(Undecremented') =
                Cardinality(Undecremented) + One(stage = "uncount") - One(pc[w] = "uncount")
<1>1. DOMAIN pc = Workers /\ pc' = [pc EXCEPT ![w] = stage]
  BY DEF TypeOK, Goto
<1>2. \A X : Cardinality({y \in Workers : pc'[y] \in X})
               = Cardinality({y \in Workers : pc[y] \in X}) + One(stage \in X) - One(pc[w] \in X)
  BY <1>1, MoveCount, FiniteAssumption
<1>3. \A X : Cardinality(At(X)') = Cardinality(At(X)) + One(stage \in X) - One(pc[w] \in X)
  BY <1>2 DEF At
<1>4. \A a, b : One(a \in {b}) = One(a = b)
  BY DEF One
<1> QED BY <1>3, <1>4 DEF Poppers, Unpermitted, Unrecounted, Undecremented

OfferTo(i, stage) == offer' = [offer EXCEPT ![i] = stage]

\* A producer's move changes its two counts in the same way.
LEMMA ProducerMove ==
    ASSUME TypeOK, NEW i \in Items, NEW stage, OfferTo(i, stage)
    PROVE  /\ Cardinality(Unsignalled') =
                Cardinality(Unsignalled) + One(stage \in {"pushed", "counted"})
                                         - One(offer[i] \in {"pushed", "counted"})
           /\ Cardinality(Uncounted') =
                Cardinality(Uncounted) + One(stage = "pushed") - One(offer[i] = "pushed")
<1>1. DOMAIN offer = Items /\ offer' = [offer EXCEPT ![i] = stage]
  BY DEF TypeOK, OfferTo
<1>2. \A X : Cardinality({y \in Items : offer'[y] \in X})
               = Cardinality({y \in Items : offer[y] \in X}) + One(stage \in X) - One(offer[i] \in X)
  BY <1>1, MoveCount, FiniteAssumption
<1>3. \A X : Cardinality(Offering(X)') = Cardinality(Offering(X)) + One(stage \in X) - One(offer[i] \in X)
  BY <1>2 DEF Offering
<1>4. \A a, b : One(a \in {b}) = One(a = b)
  BY DEF One
<1> QED BY <1>3, <1>4 DEF Unsignalled, Uncounted

Accounting == PermitAccounting /\ GaugeAccounting

\* Steps that leave a program counter alone leave the sets read off it alone.
LEMMA SameCounts ==
    /\ UNCHANGED pc => /\ Poppers' = Poppers /\ Unpermitted' = Unpermitted
                       /\ Unrecounted' = Unrecounted /\ Undecremented' = Undecremented
    /\ UNCHANGED offer => Unsignalled' = Unsignalled /\ Uncounted' = Uncounted
BY DEF Poppers, Unpermitted, Unrecounted, Undecremented,
       Unsignalled, Uncounted, At, Offering

\* What push and pop do to the length of the stack.
LEMMA PushLength == ASSUME NEW s \in Seq(Items), NEW i \in Items
                    PROVE  Len(Append(s, i)) = Len(s) + 1
BY AppendProperties

LEMMA PopLength == ASSUME NEW s \in Seq(Items), s # <<>>
                   PROVE  Len(SubSeq(s, 1, Len(s) - 1)) = Len(s) - 1
<1>1. Len(s) \in Nat /\ Len(s) # 0
  BY LenProperties, EmptySeq
<1>2. PICK n \in Nat : Len(s) = n + 1
  BY <1>1
<1>3. \A k \in 1..n : s[k] \in Items
  BY <1>2, ElementOfSeq
<1>4. Len(SubSeq(s, 1, n)) = IF 1 <= n THEN n - 1 + 1 ELSE 0
  BY <1>3, SubSeqProperties
<1>5. Len(SubSeq(s, 1, n)) = n
  BY <1>4
<1>6. Len(s) - 1 = n
  BY <1>2
<1> QED BY <1>5, <1>6

\* Nothing is pushed and nothing is counted at the start.
LEMMA InitAccounting == Init => Accounting
<1> SUFFICES ASSUME Init PROVE Accounting
  OBVIOUS
<1>1. /\ Poppers = {} /\ Unpermitted = {} /\ Unrecounted = {} /\ Undecremented = {}
      /\ Unsignalled = {} /\ Uncounted = {}
  BY DEF Init, Poppers, Unpermitted, Unrecounted, Undecremented, Unsignalled, Uncounted, At, Offering
<1> QED BY <1>1, FS_EmptySet, EmptySeq DEF Init, Accounting, PermitAccounting, GaugeAccounting

\* How a step changes the stack's length and its two counters, the counts that are read
\* off the workers, and those read off the producers.
QueueDelta(length, permit, gauge) ==
    /\ Len(lifo') = Len(lifo) + length
    /\ permits' = permits + permit
    /\ depth' = depth + gauge

WorkerDelta(popping, unpermitted, unrecounted, undecremented) ==
    /\ Cardinality(Poppers') = Cardinality(Poppers) + popping
    /\ Cardinality(Unpermitted') = Cardinality(Unpermitted) + unpermitted
    /\ Cardinality(Unrecounted') = Cardinality(Unrecounted) + unrecounted
    /\ Cardinality(Undecremented') = Cardinality(Undecremented) + undecremented

ProducerDelta(unsignalled, uncounted) ==
    /\ Cardinality(Unsignalled') = Cardinality(Unsignalled) + unsignalled
    /\ Cardinality(Uncounted') = Cardinality(Uncounted) + uncounted

\* The accounts balance after a step whose changes balance.
LEMMA BalancedStep ==
    ASSUME TypeOK, Accounting,
           NEW l \in Int, NEW p \in Int, NEW g \in Int, QueueDelta(l, p, g),
           NEW a \in Int, NEW b \in Int, NEW c \in Int, NEW d \in Int, WorkerDelta(a, b, c, d),
           NEW e \in Int, NEW f \in Int, ProducerDelta(e, f),
           l = p + a + e + b, g + f + c = l + d
    PROVE  Accounting'
<1> DEFINE n == Len(lifo)
           po == Cardinality(Poppers)
           us == Cardinality(Unsignalled)
           up == Cardinality(Unpermitted)
           uc == Cardinality(Uncounted)
           ur == Cardinality(Unrecounted)
           ud == Cardinality(Undecremented)
<1>1. n \in Int /\ permits \in Int /\ depth \in Int
  BY LenProperties DEF TypeOK
<1>2. po \in Int /\ us \in Int /\ up \in Int /\ uc \in Int /\ ur \in Int /\ ud \in Int
  BY CountsTyped
<1>3. n = permits + po + us + up /\ depth + uc + ur = n + ud
  BY DEF Accounting, PermitAccounting, GaugeAccounting
<1>4. Len(lifo') = n + l /\ permits' = permits + p /\ depth' = depth + g
  BY DEF QueueDelta
<1>5. /\ Cardinality(Poppers') = po + a /\ Cardinality(Unpermitted') = up + b
      /\ Cardinality(Unrecounted') = ur + c /\ Cardinality(Undecremented') = ud + d
  BY DEF WorkerDelta
<1>6. Cardinality(Unsignalled') = us + e /\ Cardinality(Uncounted') = uc + f
  BY DEF ProducerDelta
<1> HIDE DEF n, po, us, up, uc, ur, ud
<1>7. n + l = permits + p + (po + a) + (us + e) + (up + b)
  BY <1>1, <1>2, <1>3
<1>8. depth + g + (uc + f) + (ur + c) = n + l + (ud + d)
  BY <1>1, <1>2, <1>3
<1>9. PermitAccounting'
  BY <1>4, <1>5, <1>6, <1>7 DEF PermitAccounting
<1>10. GaugeAccounting'
  BY <1>4, <1>5, <1>6, <1>8 DEF GaugeAccounting
<1> QED BY <1>9, <1>10 DEF Accounting

\* The changes of the steps that a count looks at.
LEMMA WorkerDeltas ==
    ASSUME TypeOK, NEW w \in Workers, NEW stage, Goto(w, stage)
    PROVE  /\ pc[w] = "acquire" /\ stage = "pop" => WorkerDelta(1, 0, 0, 0)
           /\ pc[w] = "pop" /\ stage = "uncount" => WorkerDelta(0 - 1, 0, 0, 1)
           /\ pc[w] = "uncount" /\ stage = "check" => WorkerDelta(0, 0, 0, 0 - 1)
           /\ pc[w] = "requeue" /\ stage = "recount" => WorkerDelta(0, 1, 1, 0)
           /\ pc[w] = "recount" /\ stage = "repermit" => WorkerDelta(0, 0, 0 - 1, 0)
           /\ pc[w] = "repermit" /\ stage = "sleep" => WorkerDelta(0, 0 - 1, 0, 0)
BY WorkerMove, CountsTyped DEF WorkerDelta, One

LEMMA QuietWorker ==
    ASSUME TypeOK, NEW w \in Workers, NEW stage, Goto(w, stage),
           pc[w] \notin {"pop", "recount", "repermit", "uncount"},
           stage \notin {"pop", "recount", "repermit", "uncount"}
    PROVE  WorkerDelta(0, 0, 0, 0)
BY WorkerMove, CountsTyped DEF WorkerDelta, One

LEMMA ProducerDeltas ==
    ASSUME TypeOK, NEW i \in Items, NEW stage, OfferTo(i, stage)
    PROVE  /\ offer[i] = "idle" /\ stage = "pushed" => ProducerDelta(1, 1)
           /\ offer[i] = "pushed" /\ stage = "counted" => ProducerDelta(0, 0 - 1)
           /\ offer[i] = "counted" /\ stage = "offered" => ProducerDelta(0 - 1, 0)
           /\ offer[i] = "offered" /\ stage = "idle" => ProducerDelta(0, 0)
BY ProducerMove, CountsTyped DEF ProducerDelta, One

\* Steps that leave a program counter, or the queue, alone.
LEMMA NoDelta ==
    ASSUME TypeOK
    PROVE  /\ UNCHANGED pc => WorkerDelta(0, 0, 0, 0)
           /\ UNCHANGED offer => ProducerDelta(0, 0)
           /\ UNCHANGED queueVars => QueueDelta(0, 0, 0)
<1>1. UNCHANGED pc => WorkerDelta(0, 0, 0, 0)
  BY SameCounts, CountsTyped DEF WorkerDelta
<1>2. UNCHANGED offer => ProducerDelta(0, 0)
  BY SameCounts, CountsTyped DEF ProducerDelta
<1>3. Len(lifo) \in Nat /\ permits \in Nat /\ depth \in Int
  BY LenProperties DEF TypeOK
<1>4. UNCHANGED queueVars => QueueDelta(0, 0, 0)
  BY <1>3 DEF QueueDelta, queueVars
<1> QED BY <1>1, <1>2, <1>4

\* How the steps that touch the stack, a permit or the gauge change them.
LEMMA QueueDeltas ==
    ASSUME TypeOK
    PROVE  /\ \A i \in Items : lifo' = Append(lifo, i) /\ UNCHANGED <<permits, depth>> => QueueDelta(1, 0, 0)
           /\ lifo # <<>> /\ lifo' = SubSeq(lifo, 1, Len(lifo) - 1) /\ UNCHANGED <<permits, depth>>
                => QueueDelta(0 - 1, 0, 0)
           /\ permits' = permits + 1 /\ UNCHANGED <<lifo, depth>> => QueueDelta(0, 1, 0)
           /\ permits' = permits - 1 /\ UNCHANGED <<lifo, depth>> => QueueDelta(0, 0 - 1, 0)
           /\ depth' = depth + 1 /\ UNCHANGED <<lifo, permits>> => QueueDelta(0, 0, 1)
           /\ depth' = depth - 1 /\ UNCHANGED <<lifo, permits>> => QueueDelta(0, 0, 0 - 1)
<1>1. lifo \in Seq(Items)
  BY DEF TypeOK
<1>2. Len(lifo) \in Nat /\ permits \in Nat /\ depth \in Int
  BY LenProperties DEF TypeOK
<1>3. ASSUME NEW i \in Items, lifo' = Append(lifo, i), UNCHANGED <<permits, depth>>
      PROVE  QueueDelta(1, 0, 0)
  <2>1. Len(lifo') = Len(lifo) + 1
    BY <1>1, <1>3, PushLength
  <2>2. permits' = permits /\ depth' = depth
    BY <1>3
  <2> QED BY <1>2, <2>1, <2>2 DEF QueueDelta
<1>4. ASSUME lifo # <<>>, lifo' = SubSeq(lifo, 1, Len(lifo) - 1), UNCHANGED <<permits, depth>>
      PROVE  QueueDelta(0 - 1, 0, 0)
  <2>1. Len(lifo') = Len(lifo) - 1
    BY <1>1, <1>4, PopLength
  <2>2. permits' = permits /\ depth' = depth
    BY <1>4
  <2> QED BY <1>2, <2>1, <2>2 DEF QueueDelta
<1>5. /\ permits' = permits + 1 /\ UNCHANGED <<lifo, depth>> => QueueDelta(0, 1, 0)
      /\ permits' = permits - 1 /\ UNCHANGED <<lifo, depth>> => QueueDelta(0, 0 - 1, 0)
      /\ depth' = depth + 1 /\ UNCHANGED <<lifo, permits>> => QueueDelta(0, 0, 1)
      /\ depth' = depth - 1 /\ UNCHANGED <<lifo, permits>> => QueueDelta(0, 0, 0 - 1)
  BY <1>2 DEF QueueDelta
<1> QED BY <1>3, <1>4, <1>5

\* A producer's step keeps the accounts.
LEMMA ProduceAccounting ==
    ASSUME TypeInv, Accounting, NEW i \in Items, Produce(i)
    PROVE  Accounting'
<1>0. TypeOK
  BY DEF TypeInv
<1>1. CASE Push(i)
  <2>1. QueueDelta(1, 0, 0)
    BY <1>0, <1>1, QueueDeltas DEF Push
  <2>2. WorkerDelta(0, 0, 0, 0) /\ ProducerDelta(1, 1)
    BY <1>0, <1>1, NoDelta, ProducerDeltas DEF Push, OfferTo
  <2> QED BY <1>0, <2>1, <2>2, BalancedStep
<1>2. CASE Count(i)
  <2>1. QueueDelta(0, 0, 1)
    BY <1>0, <1>2, QueueDeltas DEF Count
  <2>2. WorkerDelta(0, 0, 0, 0) /\ ProducerDelta(0, 0 - 1)
    BY <1>0, <1>2, NoDelta, ProducerDeltas DEF Count, OfferTo
  <2> QED BY <1>0, <2>1, <2>2, BalancedStep
<1>3. CASE Signal(i)
  <2>1. QueueDelta(0, 1, 0)
    BY <1>0, <1>3, QueueDeltas DEF Signal
  <2>2. WorkerDelta(0, 0, 0, 0) /\ ProducerDelta(0 - 1, 0)
    BY <1>0, <1>3, NoDelta, ProducerDeltas DEF Signal, OfferTo
  <2> QED BY <1>0, <2>1, <2>2, BalancedStep
<1> QED BY <1>1, <1>2, <1>3 DEF Produce

\* A worker's step keeps the accounts.
LEMMA WorkAccounting ==
    ASSUME TypeInv, Accounting, NEW w \in Workers, Work(w)
    PROVE  Accounting'
<1>0. TypeOK
  BY DEF TypeInv
<1>1. CASE Acquire(w)
  <2>1. QueueDelta(0, 0 - 1, 0)
    BY <1>0, <1>1, QueueDeltas DEF Acquire
  <2>2. WorkerDelta(1, 0, 0, 0) /\ ProducerDelta(0, 0)
    BY <1>0, <1>1, NoDelta, WorkerDeltas DEF Acquire
  <2> QED BY <1>0, <2>1, <2>2, BalancedStep
<1>2. CASE Pop(w)
  <2>1. QueueDelta(0 - 1, 0, 0)
    BY <1>0, <1>2, QueueDeltas DEF Pop
  <2>2. WorkerDelta(0 - 1, 0, 0, 1) /\ ProducerDelta(0, 0)
    BY <1>0, <1>2, NoDelta, WorkerDeltas DEF Pop
  <2> QED BY <1>0, <2>1, <2>2, BalancedStep
<1>3. CASE Uncount(w)
  <2>1. QueueDelta(0, 0, 0 - 1)
    BY <1>0, <1>3, QueueDeltas DEF Uncount
  <2>2. WorkerDelta(0, 0, 0, 0 - 1) /\ ProducerDelta(0, 0)
    BY <1>0, <1>3, NoDelta, WorkerDeltas DEF Uncount
  <2> QED BY <1>0, <2>1, <2>2, BalancedStep
<1>4. CASE Requeue(w)
  <2>1. held[w] \in Items
    BY <1>4 DEF Requeue, TypeInv, HeldOK, Holding
  <2>2. QueueDelta(1, 0, 0)
    BY <1>0, <1>4, <2>1, QueueDeltas DEF Requeue
  <2>3. WorkerDelta(0, 1, 1, 0) /\ ProducerDelta(0, 0)
    BY <1>0, <1>4, NoDelta, WorkerDeltas DEF Requeue
  <2> QED BY <1>0, <2>2, <2>3, BalancedStep
<1>5. CASE Recount(w)
  <2>1. QueueDelta(0, 0, 1)
    BY <1>0, <1>5, QueueDeltas DEF Recount
  <2>2. WorkerDelta(0, 0, 0 - 1, 0) /\ ProducerDelta(0, 0)
    BY <1>0, <1>5, NoDelta, WorkerDeltas DEF Recount
  <2> QED BY <1>0, <2>1, <2>2, BalancedStep
<1>6. CASE Repermit(w)
  <2>1. QueueDelta(0, 1, 0)
    BY <1>0, <1>6, QueueDeltas DEF Repermit
  <2>2. WorkerDelta(0, 0 - 1, 0, 0) /\ ProducerDelta(0, 0)
    BY <1>0, <1>6, NoDelta, WorkerDeltas DEF Repermit
  <2> QED BY <1>0, <2>1, <2>2, BalancedStep
<1>7. CASE \/ DropStale(w) \/ KeepFresh(w) \/ TakeRest(w) \/ RestFull(w) \/ TakeGrpc(w)
           \/ GrpcFull(w) \/ Wake(w) \/ BuildFails(w) \/ Built(w) \/ Send(w)
  <2>1. PICK stage : /\ Goto(w, stage)
                     /\ pc[w] \notin {"pop", "recount", "repermit", "uncount"}
                     /\ stage \notin {"pop", "recount", "repermit", "uncount"}
                     /\ UNCHANGED queueVars /\ UNCHANGED offer
    BY <1>7 DEF DropStale, KeepFresh, TakeRest, RestFull, TakeGrpc, GrpcFull, Wake,
                BuildFails, Built, Send, Settle, Grant, Refuse
  <2>2. WorkerDelta(0, 0, 0, 0)
    BY <1>0, <2>1, QuietWorker
  <2>3. QueueDelta(0, 0, 0) /\ ProducerDelta(0, 0)
    BY <1>0, <2>1, NoDelta
  <2> QED BY <1>0, <2>2, <2>3, BalancedStep
<1> QED BY <1>1, <1>2, <1>3, <1>4, <1>5, <1>6, <1>7 DEF Work

\* Time passing moves no permit and no item; a reused identity leaves and enters stages
\* that no count looks at.
LEMMA OtherAccounting ==
    ASSUME TypeInv, Accounting, Tick \/ (\E i \in Items : Recycle(i)) \/ UNCHANGED vars
    PROVE  Accounting'
<1>0. TypeOK
  BY DEF TypeInv
<1>1. UNCHANGED queueVars /\ UNCHANGED pc
  BY DEF Tick, Recycle, vars
<1>2. ProducerDelta(0, 0)
  <2>1. CASE UNCHANGED offer
    BY <1>0, <2>1, NoDelta
  <2>2. ASSUME NEW i \in Items, Recycle(i) PROVE ProducerDelta(0, 0)
    BY <1>0, <2>2, ProducerDeltas DEF Recycle, OfferTo
  <2> QED BY <2>1, <2>2 DEF Tick, vars
<1>3. QueueDelta(0, 0, 0) /\ WorkerDelta(0, 0, 0, 0)
  BY <1>0, <1>1, NoDelta
<1> QED BY <1>0, <1>2, <1>3, BalancedStep

\* The account of permits and the account of the gauge, for every number of producers and
\* workers and any reuse of identities.
THEOREM AccountsBalance == SafetyForever => [](PermitAccounting /\ GaugeAccounting)
<1>1. Init => TypeInv /\ Accounting
  BY InitTyped, InitAccounting
<1>2. TypeInv /\ Accounting /\ [NextForever]_vars => TypeInv' /\ Accounting'
  BY StepTyped, ProduceAccounting, WorkAccounting, OtherAccounting DEF NextForever, Next
<1>3. Accounting => PermitAccounting /\ GaugeAccounting
  BY DEF Accounting
<1> QED BY <1>1, <1>2, <1>3, PTL DEF SafetyForever

\* From the accounts: a woken worker finds an item, so the None branch of the worker loop
\* is dead.
THEOREM QueueIsSafe == SafetyForever => []PopFindsItem
<1>1. TypeOK /\ PermitAccounting => PopFindsItem
  <2> SUFFICES ASSUME TypeOK, PermitAccounting, NEW w \in Workers, pc[w] = "pop"
               PROVE  lifo # <<>>
    BY DEF PopFindsItem
  <2>1. Poppers # {} /\ IsFiniteSet(Poppers)
    BY FiniteAssumption, FS_Subset DEF Poppers, At
  <2>2. Cardinality(Poppers) # 0
    BY <2>1, FS_EmptySet
  <2> QED BY <2>2, CountsTyped, EmptySeq DEF TypeOK, PermitAccounting
<1> QED BY <1>1, TypeCorrect, AccountsBalance, PTL

\* From the same accounts: the gauge the reporter prints is never negative, though a push
\* counts its item after the item can be popped.
THEOREM GaugeIsSafe == SafetyForever => []GaugeNeverNegative
<1>1. TypeOK /\ PermitAccounting /\ GaugeAccounting => GaugeNeverNegative
  <2> SUFFICES ASSUME TypeOK, PermitAccounting, GaugeAccounting PROVE depth >= 0
    BY DEF GaugeNeverNegative
  <2>1. Uncounted \subseteq Unsignalled /\ Unrecounted \subseteq Unpermitted
    BY DEF Uncounted, Unsignalled, Unrecounted, Unpermitted, At, Offering
  <2>2. IsFiniteSet(Unsignalled) /\ IsFiniteSet(Unpermitted)
    BY FiniteAssumption, FS_Subset DEF Unsignalled, Unpermitted, At, Offering
  <2>3. /\ Cardinality(Uncounted) <= Cardinality(Unsignalled)
        /\ Cardinality(Unrecounted) <= Cardinality(Unpermitted)
    BY <2>1, <2>2, FS_Subset
  <2> QED BY <2>3, CountsTyped, LenProperties DEF TypeOK, PermitAccounting, GaugeAccounting
<1> QED BY <1>1, TypeCorrect, AccountsBalance, PTL

-----------------------------------------------------------------------------
(* The rate budget. *)

\* The limiter forgets no grant that is still in the window: its memory may hold more
\* (grants that nobody has swept yet), never less.
GrantsRemembered == \A c \in Channels : InWindow(c) \subseteq stamps[c]

BudgetInv == GrantsRemembered /\ BudgetRespected

\* The grants in a window are finitely many.
LEMMA WindowFinite == \A c \in Channels : IsFiniteSet(InWindow(c))
BY FiniteAssumption, FS_Subset DEF InWindow

\* A step after which no window holds a grant it did not hold keeps the budget.
LEMMA ShrinkingWindow ==
    ASSUME BudgetRespected, \A c \in Channels : InWindow(c)' \subseteq InWindow(c)
    PROVE  BudgetRespected'
<1> SUFFICES ASSUME NEW c \in Channels PROVE Cardinality(InWindow(c)') <= Max[c]
  BY DEF BudgetRespected
<1> DEFINE a == Cardinality(InWindow(c))
           b == Cardinality(InWindow(c)')
<1>1. IsFiniteSet(InWindow(c)) /\ IsFiniteSet(InWindow(c)')
  BY WindowFinite, FS_Subset
<1>2. a \in Nat /\ b \in Nat /\ b <= a
  BY <1>1, FS_Subset, FS_CardinalityType
<1>3. a <= Max[c] /\ Max[c] \in Nat
  BY LimitAssumption DEF BudgetRespected
<1> HIDE DEF a, b
<1>4. b <= Max[c]
  BY <1>2, <1>3
<1> QED BY <1>4 DEF b

\* A limiter grants only while its window has room.
LEMMA GrantInBudget ==
    ASSUME TypeInv, BudgetInv, NEW w \in Workers, NEW c \in Channels, pc[w] \in {"rest", "grpc"},
           Grant(w, c)
    PROVE  BudgetInv'
<1> DEFINE h == held[w]
<1>1. h \in Items
  BY DEF TypeInv, HeldOK, Holding
<1>2. /\ slot' = [slot EXCEPT ![h] = c] /\ slotAge' = [slotAge EXCEPT ![h] = 0]
      /\ stamps' = [stamps EXCEPT ![c] = Retained(c) \cup {h}]
  BY DEF Grant
<1>3. DOMAIN slot = Items /\ DOMAIN slotAge = Items /\ DOMAIN stamps = Channels
  BY DEF TypeInv, TypeOK
<1> HIDE DEF h
<1>4. InWindow(c)' \subseteq InWindow(c) \cup {h}
  BY <1>1, <1>2, <1>3 DEF InWindow
<1>5. \A d \in Channels \ {c} : InWindow(d)' \subseteq InWindow(d)
  BY <1>1, <1>2, <1>3 DEF InWindow
<1>6. InWindow(c) \subseteq Retained(c)
  BY DEF BudgetInv, GrantsRemembered, InWindow, Retained
<1>7. GrantsRemembered'
  BY <1>2, <1>3, <1>4, <1>5, <1>6 DEF BudgetInv, GrantsRemembered
<1>8. Cardinality(InWindow(c)') <= Max[c]
  <2>1. Retained(c) \subseteq Items
    BY DEF TypeInv, TypeOK, Retained
  <2>2. IsFiniteSet(Retained(c)) /\ IsFiniteSet(InWindow(c)')
    BY <1>4, <2>1, FiniteAssumption, WindowFinite, FS_Subset, FS_AddElement
  <2>3. InWindow(c)' \subseteq Retained(c) \cup {h}
    BY <1>4, <1>6
  <2>4. /\ IsFiniteSet(Retained(c) \cup {h})
        /\ \/ Cardinality(Retained(c) \cup {h}) = Cardinality(Retained(c))
           \/ Cardinality(Retained(c) \cup {h}) = Cardinality(Retained(c)) + 1
    BY <2>2, FS_AddElement
  <2>5. Cardinality(InWindow(c)') <= Cardinality(Retained(c) \cup {h})
    BY <2>3, <2>4, FS_Subset
  <2>6. Cardinality(Retained(c)) < Max[c] /\ Max[c] \in Nat
    BY LimitAssumption DEF Grant, HasRoom
  <2>7. Cardinality(InWindow(c)') \in Nat /\ Cardinality(Retained(c)) \in Nat
    BY <2>2, FS_CardinalityType
  <2>8. \A a, b, m, k \in Nat : (k = b \/ k = b + 1) /\ a <= k /\ b < m => a <= m
    OBVIOUS
  <2> QED BY <2>4, <2>5, <2>6, <2>7, <2>8
<1>9. ASSUME NEW d \in Channels, d # c PROVE Cardinality(InWindow(d)') <= Max[d]
  <2> DEFINE a == Cardinality(InWindow(d))
             b == Cardinality(InWindow(d)')
  <2>1. IsFiniteSet(InWindow(d)) /\ IsFiniteSet(InWindow(d)')
    BY <1>5, <1>9, WindowFinite, FS_Subset
  <2>2. a \in Nat /\ b \in Nat /\ b <= a
    BY <1>5, <1>9, <2>1, FS_Subset, FS_CardinalityType
  <2>3. a <= Max[d] /\ Max[d] \in Nat
    BY LimitAssumption DEF BudgetInv, BudgetRespected
  <2> HIDE DEF a, b
  <2>4. b <= Max[d]
    BY <2>2, <2>3
  <2> QED BY <2>4 DEF b
<1> QED BY <1>7, <1>8, <1>9 DEF BudgetInv, BudgetRespected

\* A limiter that refuses forgets only what has left the window.
LEMMA RefuseInBudget ==
    ASSUME TypeInv, BudgetInv, NEW w \in Workers, NEW c \in Channels, NEW next, Refuse(w, c, next)
    PROVE  BudgetInv'
<1>1. \A d \in Channels : InWindow(d)' = InWindow(d)
  BY DEF Refuse, InWindow
<1>2. GrantsRemembered'
  BY <1>1 DEF TypeInv, TypeOK, BudgetInv, GrantsRemembered, Refuse, Retained, InWindow
<1> QED BY <1>1, <1>2, ShrinkingWindow DEF BudgetInv

\* A step that writes no grant.
LEMMA OtherInBudget == BudgetInv /\ UNCHANGED limitVars => BudgetInv'
BY DEF BudgetInv, BudgetRespected, GrantsRemembered, InWindow, limitVars

\* Every step keeps the budget.
LEMMA StepInBudget == TypeInv /\ BudgetInv /\ [NextForever]_vars => BudgetInv'
<1> SUFFICES ASSUME TypeInv, BudgetInv, [NextForever]_vars PROVE BudgetInv'
  OBVIOUS
<1>1. CASE UNCHANGED vars
  BY <1>1, OtherInBudget DEF vars
<1>2. ASSUME NEW i \in Items, Produce(i) PROVE BudgetInv'
  BY <1>2, OtherInBudget DEF Produce, Push, Count, Signal
<1>3. ASSUME NEW w \in Workers, Work(w) PROVE BudgetInv'
  <2>1. CASE TakeRest(w) \/ TakeGrpc(w)
    BY <2>1, GrantInBudget DEF TakeRest, TakeGrpc, Channels
  <2>2. CASE RestFull(w) \/ GrpcFull(w)
    BY <2>2, RefuseInBudget DEF RestFull, GrpcFull, Channels
  <2>3. CASE UNCHANGED limitVars
    BY <2>3, OtherInBudget
  <2> QED BY <1>3, <2>1, <2>2, <2>3
          DEF Work, Acquire, Pop, Uncount, DropStale, KeepFresh, Requeue, Recount,
              Repermit, Wake, BuildFails, Built, Send, Settle
<1>4. CASE Tick
  <2>1. \A c \in Channels : InWindow(c)' \subseteq InWindow(c)
    BY <1>4, LimitAssumption DEF Tick, InWindow, TypeInv, TypeOK
  <2>2. UNCHANGED stamps
    BY <1>4 DEF Tick
  <2> QED BY <2>1, <2>2, ShrinkingWindow DEF BudgetInv, GrantsRemembered
<1>5. ASSUME NEW i \in Items, Recycle(i) PROVE BudgetInv'
  <2>1. \A c \in Channels : InWindow(c)' \subseteq InWindow(c) \ {i}
    BY <1>5 DEF Recycle, InWindow, TypeInv, TypeOK, Channels
  <2>2. \A c \in Channels : stamps'[c] = stamps[c] \ {i}
    BY <1>5 DEF Recycle
  <2> QED BY <2>1, <2>2, ShrinkingWindow DEF BudgetInv, GrantsRemembered
<1> QED BY <1>1, <1>2, <1>3, <1>4, <1>5 DEF NextForever, Next

LEMMA InitInBudget == Init => BudgetInv
<1> SUFFICES ASSUME Init PROVE BudgetInv
  OBVIOUS
<1>1. \A c \in Channels : InWindow(c) = {}
  BY DEF Init, InWindow, Channels
<1> QED BY <1>1, FS_EmptySet, LimitAssumption DEF BudgetInv, GrantsRemembered, BudgetRespected

\* In no second does a channel grant more slots than max_bundles_per_second, whatever the
\* limits, the number of workers and their interleaving.
THEOREM BudgetHolds == SafetyForever => []BudgetRespected
<1>1. Init => TypeInv /\ BudgetInv
  BY InitTyped, InitInBudget
<1>2. TypeInv /\ BudgetInv /\ [NextForever]_vars => TypeInv' /\ BudgetInv'
  BY StepTyped, StepInBudget
<1>3. BudgetInv => BudgetRespected
  BY DEF BudgetInv
<1> QED BY <1>1, <1>2, <1>3, PTL DEF SafetyForever

-----------------------------------------------------------------------------
(* Where an opportunity is. *)

Owned(i) == \E w \in Workers : held[w] = i

\* The stack holds nothing twice, no two workers hold the same item, and nobody holds what
\* is in the stack.
Apart ==
    /\ \A j, k \in 1..Len(lifo) : lifo[j] = lifo[k] => j = k
    /\ \A v, w \in Workers : held[v] \in Items /\ held[v] = held[w] => v = w
    /\ \A w \in Workers : ~Queued(held[w])

\* An opportunity is somewhere exactly while it lives, and an identity that is free is blank:
\* what is pushed next under it has neither a verdict nor a slot.
Somewhere ==
    /\ \A i \in Items : Live(i) <=> Queued(i) \/ Owned(i)
    /\ \A i \in Items : offer[i] = "idle" => verdict[i] = "none" /\ slot[i] = "none"

\* What waits has no slot; what is built or submitted has one.
SlotsOK ==
    /\ \A i \in Items : Queued(i) => slot[i] = "none"
    /\ \A w \in Workers : pc[w] \in Holding => (slot[held[w]] # "none" <=> pc[w] \in {"build", "send"})

Places == Apart /\ Somewhere /\ SlotsOK

\* What a push puts in a sequence and what a pop leaves of it.
LEMMA PushedAt ==
    ASSUME NEW s \in Seq(Items), NEW i \in Items
    PROVE  /\ Len(s) \in Nat /\ Len(Append(s, i)) = Len(s) + 1
           /\ \A k \in 1..Len(s) : Append(s, i)[k] = s[k]
           /\ Append(s, i)[Len(s) + 1] = i
BY AppendProperties, LenProperties

LEMMA PoppedAt ==
    ASSUME NEW s \in Seq(Items), s # <<>>
    PROVE  /\ Len(s) \in Nat \ {0} /\ Len(SubSeq(s, 1, Len(s) - 1)) = Len(s) - 1
           /\ \A k \in 1..(Len(s) - 1) : SubSeq(s, 1, Len(s) - 1)[k] = s[k]
           /\ \A k \in 1..Len(s) : s[k] \in Items
<1>1. Len(s) \in Nat /\ Len(s) # 0
  BY LenProperties, EmptySeq
<1>2. \A k \in 1..Len(s) : s[k] \in Items
  BY ElementOfSeq
<1>3. PICK n \in Nat : Len(s) = n + 1
  BY <1>1
<1>4. \A k \in 1..n : SubSeq(s, 1, n)[k] = s[k]
  BY <1>2, <1>3, SubSeqProperties
<1>5. Len(s) - 1 = n
  BY <1>3
<1> QED BY <1>1, <1>2, <1>4, <1>5, PopLength

\* A step that moves no item and gives no slot.
LEMMA StillPlaces ==
    ASSUME Places, UNCHANGED <<lifo, held, offer, verdict, slot>>,
           \A w \in Workers : pc'[w] \in Holding => /\ pc[w] \in Holding
                                                    /\ pc'[w] \in {"build", "send"} <=> pc[w] \in {"build", "send"}
    PROVE  Places'
<1>1. \A i : Queued(i)' <=> Queued(i)
  BY DEF Queued
<1>2. \A i : (Live(i)' <=> Live(i)) /\ (Owned(i)' <=> Owned(i))
  BY DEF Live, Owned
<1>3. Apart'
  BY <1>1 DEF Places, Apart
<1>4. Somewhere'
  BY <1>1, <1>2 DEF Places, Somewhere
<1>5. SlotsOK'
  BY <1>1 DEF Places, SlotsOK
<1> QED BY <1>3, <1>4, <1>5 DEF Places

\* A new opportunity goes on top of the stack, and is nowhere else.
LEMMA PushPlaces == ASSUME TypeInv, Places, NEW i \in Items, Push(i) PROVE Places'
<1>1. /\ lifo \in Seq(Items) /\ offer \in [Items -> OfferStages] /\ offer[i] = "idle"
      /\ lifo' = Append(lifo, i) /\ offer' = [offer EXCEPT ![i] = "pushed"]
      /\ UNCHANGED <<pc, held, slot, verdict>>
  BY DEF TypeInv, TypeOK, Push, limitVars
<1>2. /\ Len(lifo) \in Nat /\ Len(lifo') = Len(lifo) + 1 /\ lifo'[Len(lifo) + 1] = i
      /\ \A k \in 1..Len(lifo) : lifo'[k] = lifo[k]
  BY <1>1, PushedAt
<1>3. ~Live(i) /\ ~Queued(i) /\ ~Owned(i) /\ verdict[i] = "none" /\ slot[i] = "none"
  BY <1>1 DEF Places, Somewhere, Live
<1>4. \A x : Queued(x)' <=> Queued(x) \/ x = i
  BY <1>2 DEF Queued
<1>5. /\ \A x \in Items : Live(x)' <=> Live(x) \/ x = i
      /\ \A x : Owned(x)' <=> Owned(x)
  BY <1>1, <1>3 DEF Live, Owned
<1>6. Apart'
  <2>1. \A j, k \in 1..Len(lifo') : lifo'[j] = lifo'[k] => j = k
    BY <1>2, <1>3 DEF Queued, Places, Apart
  <2> QED BY <1>1, <1>3, <1>4, <2>1 DEF Owned, Places, Apart
<1>7. Somewhere'
  BY <1>1, <1>4, <1>5 DEF Places, Somewhere
<1>8. SlotsOK'
  BY <1>1, <1>3, <1>4 DEF Places, SlotsOK
<1> QED BY <1>6, <1>7, <1>8 DEF Places

\* The top of the stack changes hands.
LEMMA PopPlaces == ASSUME TypeInv, Places, NEW w \in Workers, Pop(w) PROVE Places'
<1> DEFINE n == Len(lifo)
           i == lifo[n]
<1>1. /\ lifo \in Seq(Items) /\ lifo # <<>> /\ held \in [Workers -> Items \cup {None}]
      /\ pc \in [Workers -> WorkerStages] /\ pc[w] = "pop"
      /\ lifo' = SubSeq(lifo, 1, n - 1) /\ held' = [held EXCEPT ![w] = i]
      /\ pc' = [pc EXCEPT ![w] = "uncount"] /\ UNCHANGED <<offer, slot, verdict>>
  BY DEF TypeInv, TypeOK, Pop, limitVars, Goto
<1>2. /\ n \in Nat \ {0} /\ Len(lifo') = n - 1 /\ i \in Items
      /\ \A k \in 1..(n - 1) : lifo'[k] = lifo[k]
  BY <1>1, PoppedAt
<1>3. held[w] \notin Items
  BY <1>1 DEF TypeInv, HeldOK, Holding
<1>4. Queued(i) /\ ~Owned(i)
  BY <1>2 DEF Places, Apart, Queued, Owned
<1>5. \A x : Queued(x)' <=> Queued(x) /\ x # i
  <2>1. \A k \in 1..n : lifo[k] = i => k = n
    BY <1>2 DEF Places, Apart
  <2> QED BY <1>2, <2>1 DEF Queued
<1>6. \A x \in Items : Owned(x)' <=> Owned(x) \/ x = i
  BY <1>1, <1>3 DEF Owned
<1>7. Apart'
  <2>1. \A j, k \in 1..Len(lifo') : lifo'[j] = lifo'[k] => j = k
    BY <1>2 DEF Places, Apart
  <2>2. \A u, v \in Workers : held'[u] \in Items /\ held'[u] = held'[v] => u = v
    BY <1>1, <1>4 DEF Owned, Places, Apart
  <2>3. ASSUME NEW v \in Workers PROVE ~Queued(held[v])'
    <3>1. held'[v] = i \/ (held'[v] = held[v] /\ ~Queued(held[v]))
      BY <1>1 DEF Places, Apart
    <3> QED BY <1>5, <3>1 DEF Queued
  <2> QED BY <2>1, <2>2, <2>3 DEF Apart
<1>8. Somewhere'
  BY <1>1, <1>4, <1>5, <1>6 DEF Places, Somewhere, Live
<1>9. SlotsOK'
  <2>1. slot[i] = "none"
    BY <1>2, <1>4 DEF Places, SlotsOK
  <2>2. \A v \in Workers \ {w} : pc'[v] = pc[v] /\ held'[v] = held[v]
    BY <1>1
  <2>3. pc'[w] = "uncount" /\ held'[w] = i
    BY <1>1
  <2> QED BY <1>1, <1>5, <2>1, <2>2, <2>3 DEF Places, SlotsOK
<1> QED BY <1>7, <1>8, <1>9 DEF Places

\* An item without a slot goes back on top of the stack.
LEMMA RequeuePlaces == ASSUME TypeInv, Places, NEW w \in Workers, Requeue(w) PROVE Places'
<1> DEFINE i == held[w]
<1>1. /\ lifo \in Seq(Items) /\ held \in [Workers -> Items \cup {None}] /\ i \in Items
      /\ pc \in [Workers -> WorkerStages] /\ pc[w] = "requeue"
      /\ lifo' = Append(lifo, i) /\ held' = [held EXCEPT ![w] = None]
      /\ pc' = [pc EXCEPT ![w] = "recount"] /\ UNCHANGED <<offer, slot, verdict>>
  BY DEF TypeInv, TypeOK, HeldOK, Holding, Requeue, limitVars, Goto
<1>2. /\ Len(lifo) \in Nat /\ Len(lifo') = Len(lifo) + 1 /\ lifo'[Len(lifo) + 1] = i
      /\ \A k \in 1..Len(lifo) : lifo'[k] = lifo[k]
  BY <1>1, PushedAt
<1>3. ~Queued(i) /\ Owned(i) /\ \A v \in Workers \ {w} : held[v] # i
  BY <1>1 DEF Owned, Places, Apart
<1>4. \A x : Queued(x)' <=> Queued(x) \/ x = i
  BY <1>2 DEF Queued
<1>5. \A x \in Items : Owned(x)' <=> Owned(x) /\ x # i
  BY <1>1, <1>3, NoneAssumption DEF Owned
<1>6. Apart'
  <2>1. \A j, k \in 1..Len(lifo') : lifo'[j] = lifo'[k] => j = k
    BY <1>2, <1>3 DEF Queued, Places, Apart
  <2>2. \A u, v \in Workers : held'[u] \in Items /\ held'[u] = held'[v] => u = v
    BY <1>1, NoneAssumption DEF Places, Apart
  <2>3. ~Queued(None)
    BY <1>1, ElementOfSeq, NoneAssumption DEF Queued
  <2>4. ASSUME NEW v \in Workers PROVE ~Queued(held[v])'
    <3>1. held'[v] # i /\ (held'[v] = None \/ (held'[v] = held[v] /\ ~Queued(held[v])))
      BY <1>1, <1>3, NoneAssumption DEF Places, Apart
    <3> QED BY <1>4, <2>3, <3>1 DEF Queued
  <2> QED BY <2>1, <2>2, <2>4 DEF Apart
<1>7. Somewhere'
  BY <1>1, <1>3, <1>4, <1>5 DEF Places, Somewhere, Live
<1>8. SlotsOK'
  <2>1. slot[i] = "none"
    BY <1>1 DEF Places, SlotsOK, Holding
  <2>2. \A v \in Workers \ {w} : pc'[v] = pc[v] /\ held'[v] = held[v]
    BY <1>1
  <2>3. pc'[w] \notin Holding
    BY <1>1 DEF Holding
  <2> QED BY <1>1, <1>4, <2>1, <2>2, <2>3 DEF Places, SlotsOK
<1> QED BY <1>6, <1>7, <1>8 DEF Places

\* A verdict ends the life of an item that its worker alone had.
LEMMA SettlePlaces ==
    ASSUME TypeInv, Places, NEW w \in Workers, NEW v \in Verdicts, pc[w] \in Holding, Settle(w, v)
    PROVE  Places'
<1> DEFINE i == held[w]
<1>1. /\ held \in [Workers -> Items \cup {None}] /\ i \in Items
      /\ verdict \in [Items -> Verdicts \cup {"none"}] /\ pc \in [Workers -> WorkerStages]
      /\ held' = [held EXCEPT ![w] = None] /\ verdict' = [verdict EXCEPT ![i] = v]
      /\ pc' = [pc EXCEPT ![w] = "acquire"] /\ UNCHANGED <<lifo, offer, slot>>
  BY DEF TypeInv, TypeOK, HeldOK, Settle, limitVars, queueVars, Goto
<1>2. ~Queued(i) /\ Owned(i) /\ Live(i) /\ \A u \in Workers \ {w} : held[u] # i
  BY <1>1 DEF Owned, Places, Apart, Somewhere
<1>3. \A x : Queued(x)' <=> Queued(x)
  BY <1>1 DEF Queued
<1>4. \A x \in Items : Owned(x)' <=> Owned(x) /\ x # i
  BY <1>1, <1>2, NoneAssumption DEF Owned
<1>5. \A x \in Items : Live(x)' <=> Live(x) /\ x # i
  BY <1>1 DEF Live, Verdicts, LocalDrops
<1>6. Apart'
  <2>1. ~Queued(None)
    BY ElementOfSeq, NoneAssumption DEF Queued, TypeInv, TypeOK
  <2> QED BY <1>1, <1>3, <2>1, NoneAssumption DEF Places, Apart, Queued
<1>7. Somewhere'
  BY <1>1, <1>2, <1>3, <1>4, <1>5 DEF Places, Somewhere, Live
<1>8. SlotsOK'
  <2>1. \A u \in Workers \ {w} : pc'[u] = pc[u] /\ held'[u] = held[u]
    BY <1>1
  <2>2. pc'[w] \notin Holding
    BY <1>1 DEF Holding
  <2> QED BY <1>1, <1>3, <2>1, <2>2 DEF Places, SlotsOK
<1> QED BY <1>6, <1>7, <1>8 DEF Places

\* A grant gives its slot to an item that only the worker has.
LEMMA GrantPlaces ==
    ASSUME TypeInv, Places, NEW w \in Workers, NEW c \in Channels, pc[w] \in {"rest", "grpc"}, Grant(w, c)
    PROVE  Places'
<1> DEFINE i == held[w]
<1>1. /\ i \in Items /\ slot \in [Items -> Channels \cup {"none"}] /\ pc \in [Workers -> WorkerStages]
      /\ slot' = [slot EXCEPT ![i] = c] /\ pc' = [pc EXCEPT ![w] = "build"]
      /\ c # "none" /\ UNCHANGED <<lifo, offer, held, verdict>>
  BY DEF TypeInv, TypeOK, HeldOK, Holding, Grant, queueVars, Goto, Channels
<1>2. ~Queued(i) /\ Owned(i) /\ Live(i) /\ \A u \in Workers \ {w} : held[u] # i
  BY <1>1 DEF Owned, Places, Apart, Somewhere
<1>3. \A x : (Queued(x)' <=> Queued(x)) /\ (Owned(x)' <=> Owned(x)) /\ (Live(x)' <=> Live(x))
  BY <1>1 DEF Queued, Owned, Live
<1>4. Apart'
  BY <1>1, <1>3 DEF Places, Apart, Queued
<1>5. Somewhere'
  BY <1>1, <1>2, <1>3 DEF Places, Somewhere, Live
<1>6. SlotsOK'
  <2>1. \A x \in Items : Queued(x)' => slot'[x] = "none"
    BY <1>1, <1>2, <1>3 DEF Places, SlotsOK
  <2>2. \A u \in Workers \ {w} : pc'[u] = pc[u] /\ held'[u] = held[u] /\ held'[u] # i
    BY <1>1, <1>2
  <2>3. ASSUME NEW u \in Workers, pc'[u] \in Holding
        PROVE  slot'[held'[u]] # "none" <=> pc'[u] \in {"build", "send"}
    <3>1. CASE u = w
      BY <1>1, <3>1
    <3>2. CASE u # w
      <4>1. held[u] \in Items /\ slot'[held[u]] = slot[held[u]]
        BY <1>1, <2>2, <2>3, <3>2 DEF TypeInv, HeldOK
      <4> QED BY <1>1, <2>2, <2>3, <3>2, <4>1 DEF Places, SlotsOK
    <3> QED BY <3>1, <3>2
  <2> QED BY <2>1, <2>3 DEF SlotsOK
<1> QED BY <1>4, <1>5, <1>6 DEF Places

\* Every step of a worker leaves each item in its one place.
LEMMA WorkPlaces == ASSUME TypeInv, Places, NEW w \in Workers, Work(w) PROVE Places'
<1>1. CASE Pop(w)
  BY <1>1, PopPlaces
<1>2. CASE Requeue(w)
  BY <1>2, RequeuePlaces
<1>3. CASE DropStale(w) \/ BuildFails(w) \/ Send(w)
  BY <1>3, SettlePlaces DEF DropStale, BuildFails, Send, Holding, Verdicts, LocalDrops
<1>4. CASE TakeRest(w) \/ TakeGrpc(w)
  BY <1>4, GrantPlaces DEF TakeRest, TakeGrpc, Channels
<1>5. CASE \/ Acquire(w) \/ Uncount(w) \/ KeepFresh(w) \/ RestFull(w) \/ GrpcFull(w)
           \/ Recount(w) \/ Repermit(w) \/ Wake(w) \/ Built(w)
  <2>1. PICK stage \in WorkerStages :
          /\ Goto(w, stage)
          /\ stage \in Holding => pc[w] \in Holding /\ (stage \in {"build", "send"} <=> pc[w] \in {"build", "send"})
    BY <1>5 DEF Acquire, Uncount, KeepFresh, RestFull, GrpcFull, Refuse, Recount, Repermit, Wake, Built,
                WorkerStages, Holding
  <2>2. UNCHANGED <<lifo, held, offer, verdict, slot>>
    BY <1>5 DEF Acquire, Uncount, KeepFresh, RestFull, GrpcFull, Refuse, Recount, Repermit, Wake, Built,
                queueVars, limitVars
  <2>3. \A u \in Workers : pc'[u] \in Holding => /\ pc[u] \in Holding
                                                 /\ pc'[u] \in {"build", "send"} <=> pc[u] \in {"build", "send"}
    BY <2>1 DEF Goto, TypeInv, TypeOK
  <2> QED BY <2>2, <2>3, StillPlaces
<1> QED BY <1>1, <1>2, <1>3, <1>4, <1>5 DEF Work

\* An identity is reused only when its item is nowhere, and is blank then.
LEMMA RecyclePlaces == ASSUME TypeInv, Places, NEW i \in Items, Recycle(i) PROVE Places'
<1>1. /\ offer \in [Items -> OfferStages] /\ verdict \in [Items -> Verdicts \cup {"none"}]
      /\ slot \in [Items -> Channels \cup {"none"}]
      /\ offer[i] = "offered" /\ verdict[i] # "none"
      /\ offer' = [offer EXCEPT ![i] = "idle"] /\ verdict' = [verdict EXCEPT ![i] = "none"]
      /\ slot' = [slot EXCEPT ![i] = "none"] /\ UNCHANGED <<lifo, pc, held>>
  BY DEF TypeInv, TypeOK, Recycle, queueVars
<1>2. ~Live(i) /\ ~Queued(i) /\ ~Owned(i)
  BY <1>1 DEF Places, Somewhere, Live
<1>3. /\ \A x : (Queued(x)' <=> Queued(x)) /\ (Owned(x)' <=> Owned(x))
      /\ \A x \in Items : Live(x)' <=> Live(x)
  BY <1>1 DEF Queued, Owned, Live
<1>4. Apart'
  BY <1>1, <1>3 DEF Places, Apart, Queued
<1>5. Somewhere'
  BY <1>1, <1>3 DEF Places, Somewhere
<1>6. SlotsOK'
  <2>1. \A u \in Workers : pc[u] \in Holding => held[u] \in Items /\ held[u] # i
    BY <1>2 DEF Owned, TypeInv, HeldOK
  <2> QED BY <1>1, <1>3, <2>1 DEF Places, SlotsOK
<1> QED BY <1>4, <1>5, <1>6 DEF Places

LEMMA StepPlaces == TypeInv /\ Places /\ [NextForever]_vars => Places'
<1> SUFFICES ASSUME TypeInv, Places, [NextForever]_vars PROVE Places'
  OBVIOUS
<1>1. ASSUME NEW i \in Items, Count(i) \/ Signal(i) PROVE Places'
  <2>1. /\ offer \in [Items -> OfferStages] /\ offer[i] # "idle"
        /\ \E stage \in OfferStages \ {"idle"} : offer' = [offer EXCEPT ![i] = stage]
        /\ UNCHANGED <<lifo, pc, held, slot, verdict>>
    BY <1>1 DEF Count, Signal, TypeInv, TypeOK, limitVars, OfferStages
  <2>2. \A x \in Items : (offer'[x] = "idle" <=> offer[x] = "idle") /\ (Live(x)' <=> Live(x))
    BY <2>1 DEF Live
  <2>3. \A x : (Queued(x)' <=> Queued(x)) /\ (Owned(x)' <=> Owned(x))
    BY <2>1 DEF Queued, Owned
  <2>4. Apart' /\ Somewhere' /\ SlotsOK'
    BY <2>1, <2>2, <2>3 DEF Places, Apart, Somewhere, SlotsOK, Queued
  <2> QED BY <2>4 DEF Places
<1>2. CASE UNCHANGED vars \/ Tick
  <2>1. UNCHANGED <<lifo, held, offer, verdict, slot, pc>>
    BY <1>2 DEF vars, Tick, queueVars, limitVars
  <2> QED BY <2>1, StillPlaces
<1> QED
  BY <1>1, <1>2, PushPlaces, WorkPlaces, RecyclePlaces DEF NextForever, Next, Produce

LEMMA InitPlaces == Init => Places
<1> SUFFICES ASSUME Init PROVE Places
  OBVIOUS
<1>1. \A x : ~Queued(x)
  BY DEF Init, Queued
<1>2. \A x \in Items : ~Owned(x) /\ ~Live(x)
  BY NoneAssumption DEF Init, Owned, Live
<1>3. Apart
  BY <1>1, NoneAssumption DEF Init, Apart
<1> QED BY <1>1, <1>2, <1>3 DEF Init, Places, Somewhere, SlotsOK, Holding

\* In every state and for any number of producers and workers: an opportunity that lives is
\* once in the stack or in one worker's hands, and one that has ended is nowhere, so that none
\* is lost and none submitted twice, also when its identity is used again.
THEOREM NothingDuplicated == SafetyForever => []NeverDuplicated
<1>1. Init => TypeInv /\ Places
  BY InitTyped, InitPlaces
<1>2. TypeInv /\ Places /\ [NextForever]_vars => TypeInv' /\ Places'
  BY StepTyped, StepPlaces
<1>3. Places => NeverDuplicated
  <2> SUFFICES ASSUME Places, NEW i \in Items
               PROVE  Cardinality({k \in 1..Len(lifo) : lifo[k] = i})
                        + Cardinality({w \in Workers : held[w] = i}) = IF Live(i) THEN 1 ELSE 0
    BY DEF NeverDuplicated
  <2> DEFINE S == {k \in 1..Len(lifo) : lifo[k] = i}
             H == {w \in Workers : held[w] = i}
  <2>1. Cardinality(S) = IF Queued(i) THEN 1 ELSE 0
    <3>1. CASE Queued(i)
      <4>1. PICK k \in 1..Len(lifo) : lifo[k] = i
        BY <3>1 DEF Queued
      <4>2. S = {k}
        BY <4>1 DEF Places, Apart
      <4> QED BY <3>1, <4>2, FS_Singleton
    <3>2. CASE ~Queued(i)
      <4>1. S = {}
        BY <3>2 DEF Queued
      <4> QED BY <3>2, <4>1, FS_EmptySet
    <3> QED BY <3>1, <3>2
  <2>2. Cardinality(H) = IF Owned(i) THEN 1 ELSE 0
    <3>1. CASE Owned(i)
      <4>1. PICK w \in Workers : held[w] = i
        BY <3>1 DEF Owned
      <4>2. H = {w}
        BY <4>1 DEF Places, Apart
      <4> QED BY <3>1, <4>2, FS_Singleton
    <3>2. CASE ~Owned(i)
      <4>1. H = {}
        BY <3>2 DEF Owned
      <4> QED BY <3>2, <4>1, FS_EmptySet
    <3> QED BY <3>1, <3>2
  <2>3. ~(Queued(i) /\ Owned(i)) /\ (Live(i) <=> Queued(i) \/ Owned(i))
    BY DEF Places, Apart, Somewhere, Owned
  <2> QED BY <2>1, <2>2, <2>3
<1> QED BY <1>1, <1>2, <1>3, PTL DEF SafetyForever

-----------------------------------------------------------------------------
(* The pipeline implements Dispatch. *)

\* How far an opportunity has come, as Dispatch sees it.
Phase(i) ==
    IF offer[i] = "idle" THEN "absent"
    ELSE IF verdict[i] # "none" THEN "done"
    ELSE IF slot[i] = "none" THEN "waiting" ELSE "submitting"

\* The first component of the refinement mapping.
Phases == [i \in Items |->
    CASE offer[i] = "idle" -> "absent"
      [] Live(i) /\ slot[i] = "none" -> "waiting"
      [] Live(i) /\ slot[i] # "none" -> "submitting"
      [] OTHER -> "done"]

LEMMA PhasesAre == Phases = [i \in Items |-> Phase(i)]
<1>1. ASSUME NEW i \in Items
      PROVE  Phases[i] = Phase(i)
  BY DEF Phases, Phase, Live
<1> QED BY <1>1 DEF Phases

LEMMA PhasesNext == Phases' = [i \in Items |-> Phase(i)']
<1>1. ASSUME NEW i \in Items
      PROVE  Phases'[i] = Phase(i)'
  BY DEF Phases, Phase, Live
<1> QED BY <1>1 DEF Phases

\* A step that takes one item from one phase to another.
LEMMA PhaseMove ==
    ASSUME NEW i \in Items, NEW p, NEW q, Phase(i) = p, Phase(i)' = q,
           \A x \in Items \ {i} : Phase(x)' = Phase(x)
    PROVE  Phases[i] = p /\ Phases' = [Phases EXCEPT ![i] = q]
<1>1. Phases = [x \in Items |-> Phase(x)] /\ Phases' = [x \in Items |-> Phase(x)']
  BY PhasesAre, PhasesNext
<1>2. Phases[i] = p
  BY <1>1
<1>3. [Phases EXCEPT ![i] = q] = [x \in Items |-> IF x = i THEN q ELSE Phase(x)]
  BY <1>1
<1>4. \A x \in Items : Phase(x)' = IF x = i THEN q ELSE Phase(x)
  OBVIOUS
<1> QED BY <1>1, <1>2, <1>3, <1>4

\* A step that leaves what Dispatch can see alone.
LEMMA PhaseStutter == UNCHANGED <<offer, slot, slotAge, verdict>> => UNCHANGED D!vars
BY DEF D!vars, Live

\* A step that leaves every phase alone may change whatever else the pipeline has.
LEMMA PhaseSame ==
    ASSUME UNCHANGED <<slot, slotAge, verdict>>, \A x \in Items : Phase(x)' = Phase(x)
    PROVE  UNCHANGED D!vars
<1>1. UNCHANGED Phases
  BY PhasesAre, PhasesNext
<1> QED BY <1>1 DEF D!vars, Phases

\* The first push of an item offers it.
LEMMA PushOffers == ASSUME TypeInv, Places, NEW i \in Items, Push(i) PROVE D!Offer(i)
<1>1. /\ offer \in [Items -> OfferStages] /\ offer[i] = "idle"
      /\ offer' = [offer EXCEPT ![i] = "pushed"] /\ UNCHANGED <<slot, slotAge, verdict>>
  BY DEF TypeInv, TypeOK, Push, limitVars
<1>2. verdict[i] = "none" /\ slot[i] = "none"
  BY <1>1 DEF Places, Somewhere
<1>3. Phase(i) = "absent" /\ Phase(i)' = "waiting" /\ \A x \in Items \ {i} : Phase(x)' = Phase(x)
  BY <1>1, <1>2 DEF Phase
<1>4. Phases[i] = "absent" /\ Phases' = [Phases EXCEPT ![i] = "waiting"]
  BY <1>3, PhaseMove
<1> QED BY <1>1, <1>4 DEF D!Offer, D!Move, Phases

\* What a worker owns lives.
LEMMA OwnedLives ==
    ASSUME TypeInv, Places, NEW w \in Workers, pc[w] \in Holding
    PROVE  /\ held[w] \in Items /\ offer[held[w]] # "idle" /\ verdict[held[w]] = "none"
           /\ slot[held[w]] = "none" <=> pc[w] \notin {"build", "send"}
<1>1. held[w] \in Items /\ Owned(held[w])
  BY DEF TypeInv, HeldOK, Owned
<1> QED BY <1>1 DEF Places, Somewhere, SlotsOK, Live

\* A verdict ends the phase the item is in.
LEMMA SettleEnds ==
    ASSUME TypeInv, Places, NEW w \in Workers, NEW v \in Verdicts, pc[w] \in Holding, Settle(w, v),
           NEW i \in Items, held[w] = i,
           NEW from \in {"waiting", "submitting"}, from = "waiting" <=> pc[w] \notin {"build", "send"}
    PROVE  D!End(i, from, v)
<1>1. /\ verdict \in [Items -> Verdicts \cup {"none"}] /\ v # "none"
      /\ verdict' = [verdict EXCEPT ![i] = v] /\ UNCHANGED <<offer, slot, slotAge>>
  BY DEF TypeInv, TypeOK, Settle, limitVars, Verdicts, LocalDrops
<1>2. offer[i] # "idle" /\ verdict[i] = "none" /\ (slot[i] = "none" <=> from = "waiting")
  BY OwnedLives
<1>3. Phase(i) = from /\ Phase(i)' = "done" /\ \A x \in Items \ {i} : Phase(x)' = Phase(x)
  BY <1>1, <1>2 DEF Phase
<1>4. Phases[i] = from /\ Phases' = [Phases EXCEPT ![i] = "done"]
  BY <1>3, PhaseMove
<1> QED BY <1>1, <1>4 DEF D!End, D!Move, Phases

\* A grant claims a slot while Dispatch's own count of the window has room: the limiter
\* counts at least the grants of the window.
LEMMA GrantClaims ==
    ASSUME TypeInv, Places, BudgetInv, NEW w \in Workers, NEW c \in Channels,
           pc[w] \in {"rest", "grpc"}, Grant(w, c),
           NEW i \in Items, held[w] = i
    PROVE  D!Claim(i, c)
<1>1. /\ slot \in [Items -> Channels \cup {"none"}] /\ c # "none"
      /\ slot' = [slot EXCEPT ![i] = c] /\ slotAge' = [slotAge EXCEPT ![i] = 0]
      /\ UNCHANGED <<offer, verdict>>
  BY DEF TypeInv, TypeOK, Grant, Channels
<1>2. offer[i] # "idle" /\ verdict[i] = "none" /\ slot[i] = "none"
  BY OwnedLives DEF Holding
<1>3. Phases[i] = "waiting" /\ Phases' = [Phases EXCEPT ![i] = "submitting"]
  <2>1. Phase(i) = "waiting" /\ Phase(i)' = "submitting" /\ \A x \in Items \ {i} : Phase(x)' = Phase(x)
    BY <1>1, <1>2 DEF Phase
  <2> QED BY <2>1, PhaseMove
<1>4. Cardinality(D!InWindow(c)) < Max[c]
  <2>1. D!InWindow(c) = InWindow(c)
    BY DEF D!InWindow, InWindow
  <2>2. InWindow(c) \subseteq Retained(c)
    BY DEF BudgetInv, GrantsRemembered, InWindow, Retained
  <2>3. IsFiniteSet(Retained(c))
    BY FiniteAssumption, FS_Subset DEF Retained, TypeInv, TypeOK
  <2>4. /\ Cardinality(InWindow(c)) \in Nat /\ Cardinality(Retained(c)) \in Nat
        /\ Cardinality(InWindow(c)) <= Cardinality(Retained(c))
    BY <2>2, <2>3, FS_Subset, FS_CardinalityType
  <2>5. Cardinality(Retained(c)) < Max[c] /\ Max[c] \in Nat
    BY LimitAssumption DEF Grant, HasRoom
  <2>6. \A a, b, m \in Nat : a <= b /\ b < m => a < m
    OBVIOUS
  <2> QED BY <2>1, <2>4, <2>5, <2>6
<1>5. D!Cardinality(D!InWindow(c)) = Cardinality(D!InWindow(c))
  BY DEF D!Cardinality, Cardinality
<1> QED BY <1>1, <1>3, <1>4, <1>5 DEF D!Claim, D!Move, Phases

\* An identity is forgotten once its grant has left the window.
LEMMA RecycleForgets == ASSUME TypeInv, NEW i \in Items, Recycle(i) PROVE D!Forget(i)
<1>1. /\ offer \in [Items -> OfferStages] /\ verdict \in [Items -> Verdicts \cup {"none"}]
      /\ slot \in [Items -> Channels \cup {"none"}]
      /\ offer[i] = "offered" /\ verdict[i] # "none"
      /\ offer' = [offer EXCEPT ![i] = "idle"] /\ verdict' = [verdict EXCEPT ![i] = "none"]
      /\ slot' = [slot EXCEPT ![i] = "none"] /\ slotAge' = [slotAge EXCEPT ![i] = 0]
      /\ slot[i] = "none" \/ slotAge[i] = Window
  BY DEF TypeInv, TypeOK, Recycle
<1>2. Phase(i) = "done" /\ Phase(i)' = "absent" /\ \A x \in Items \ {i} : Phase(x)' = Phase(x)
  BY <1>1 DEF Phase
<1>3. Phases[i] = "done" /\ Phases' = [Phases EXCEPT ![i] = "absent"]
  BY <1>2, PhaseMove
<1> QED BY <1>1, <1>3 DEF D!Forget, D!Move, Phases

\* A worker's step is a drop, a claim, an end, or invisible.
LEMMA WorkImplements ==
    ASSUME TypeInv, Places, BudgetInv, NEW w \in Workers, Work(w)
    PROVE  [D!Next]_(D!vars)
<1>1. CASE DropStale(w)
  <2>1. Settle(w, "stale") /\ pc[w] = "check"
    BY <1>1 DEF DropStale
  <2>2. PICK i \in Items : held[w] = i
    BY <2>1, OwnedLives DEF Holding
  <2>3. D!End(i, "waiting", "stale")
    BY <2>1, <2>2, SettleEnds DEF Holding, Verdicts, LocalDrops
  <2> QED BY <2>3 DEF D!DropStale, D!Next
<1>2. CASE BuildFails(w) \/ Send(w)
  <2>1. PICK v \in LocalDrops \cup {"sent", "send_failed"} : Settle(w, v)
    BY <1>2 DEF BuildFails, Send, LocalDrops
  <2>2. pc[w] \in {"build", "send"}
    BY <1>2 DEF BuildFails, Send
  <2>3. PICK i \in Items : held[w] = i
    BY <2>2, OwnedLives DEF Holding
  <2>4. D!End(i, "submitting", v)
    BY <2>1, <2>2, <2>3, SettleEnds DEF Holding, Verdicts, LocalDrops
  <2>5. D!Finish(i)
    BY <2>4 DEF D!Finish
  <2> QED BY <2>5 DEF D!Next
<1>3. CASE TakeRest(w) \/ TakeGrpc(w)
  <2>1. PICK c \in Channels : pc[w] \in {"rest", "grpc"} /\ Grant(w, c)
    BY <1>3 DEF TakeRest, TakeGrpc, Channels
  <2>2. PICK i \in Items : held[w] = i
    BY <2>1, OwnedLives DEF Holding
  <2>3. D!Claim(i, c)
    BY <2>1, <2>2, GrantClaims
  <2> QED BY <2>3 DEF D!Next
<1>4. CASE UNCHANGED <<offer, slot, slotAge, verdict>>
  BY <1>4, PhaseStutter
<1> QED
  BY <1>1, <1>2, <1>3, <1>4
     DEF Work, Acquire, Pop, Uncount, KeepFresh, RestFull, GrpcFull, Refuse, Requeue, Recount,
         Repermit, Wake, Built, limitVars

LEMMA StepImplements ==
    TypeInv /\ Places /\ BudgetInv /\ [NextForever]_vars => [D!Next]_(D!vars)
<1> SUFFICES ASSUME TypeInv, Places, BudgetInv, [NextForever]_vars PROVE [D!Next]_(D!vars)
  OBVIOUS
<1>1. CASE UNCHANGED vars
  BY <1>1, PhaseStutter DEF vars, limitVars
<1>2. ASSUME NEW i \in Items, Produce(i) PROVE [D!Next]_(D!vars)
  <2>1. CASE Push(i)
    BY <2>1, PushOffers DEF D!Next
  <2>2. CASE Count(i) \/ Signal(i)
    <3>1. /\ \A x \in Items : offer'[x] = "idle" <=> offer[x] = "idle"
          /\ UNCHANGED <<slot, slotAge, verdict>>
      BY <2>2 DEF Count, Signal, TypeInv, TypeOK, limitVars
    <3>2. \A x \in Items : Phase(x)' = Phase(x)
      BY <3>1 DEF Phase
    <3> QED BY <3>1, <3>2, PhaseSame
  <2> QED BY <1>2, <2>1, <2>2 DEF Produce
<1>3. CASE Tick
  <2>1. UNCHANGED <<offer, slot, verdict>>
    BY <1>3 DEF Tick
  <2>2. UNCHANGED Phases
    BY <2>1 DEF Phases, Live
  <2>3. D!Tick
    BY <1>3, <2>1, <2>2 DEF Tick, D!Tick, Phases
  <2> QED BY <2>3 DEF D!Next
<1> QED
  BY <1>1, <1>2, <1>3, WorkImplements, RecycleForgets DEF NextForever, Next, D!Next

\* For all numbers of opportunities and workers and all limits, the stack, the semaphore, the
\* requeues and the limiters do what Dispatch promises: every opportunity is offered once, is
\* dropped stale or takes one slot while its channel has one, and gets one verdict.
THEOREM DispatchImplemented == SafetyForever => ImplementsDispatch
<1>1. Init => TypeInv /\ Places /\ BudgetInv
  BY InitTyped, InitPlaces, InitInBudget
<1>2. TypeInv /\ Places /\ BudgetInv /\ [NextForever]_vars => TypeInv' /\ Places' /\ BudgetInv'
  BY StepTyped, StepPlaces, StepInBudget
<1>3. Init => D!Init
  <2> SUFFICES ASSUME Init PROVE D!Init
    OBVIOUS
  <2>1. \A i \in Items : Phase(i) = "absent"
    BY DEF Init, Phase
  <2>2. Phases = [i \in Items |-> "absent"]
    BY <2>1, PhasesAre
  <2> QED BY <2>2 DEF Init, D!Init, Phases
<1> QED BY <1>1, <1>2, <1>3, StepImplements, PTL DEF SafetyForever, ImplementsDispatch, D!Spec

-----------------------------------------------------------------------------
(* An item that is too old in the stack has had its chance. *)

\* The item waits too old in the stack, or in the hands of a worker that has still to compare
\* its age, or has ended; and it has no slot.
Overdue(i) ==
    /\ slot[i] = "none"
    /\ \/ verdict[i] # "none"
       \/ TooOld(i) /\ Queued(i)
       \/ TooOld(i) /\ \E w \in Workers : held[w] = i /\ pc[w] \in {"uncount", "check"}

\* Whoever holds an item holds it alone, and what it does to another leaves this one overdue.
LEMMA OverdueElsewhere ==
    ASSUME NEW i \in Items, Overdue(i),
           \A w \in Workers : held[w] = i => held'[w] = i /\ pc'[w] = pc[w],
           Queued(i) => Queued(i)', slot'[i] = slot[i], verdict'[i] = verdict[i], TooOld(i) => TooOld(i)'
    PROVE  Overdue(i)'
BY DEF Overdue

LEMMA ProduceOverdue ==
    ASSUME TypeInv, Places, NEW i \in Items, Overdue(i), NEW x \in Items, Produce(x)
    PROVE  Overdue(i)'
<1>1. UNCHANGED <<pc, held, slot, verdict, age>>
  BY DEF Produce, Push, Count, Signal, limitVars
<1>2. Queued(i) => Queued(i)'
  <2>1. CASE Push(x)
    BY <2>1, PushedAt DEF Push, Queued, TypeInv, TypeOK
  <2>2. CASE Count(x) \/ Signal(x)
    BY <2>2 DEF Count, Signal, Queued
  <2> QED BY <2>1, <2>2 DEF Produce
<1> QED BY <1>1, <1>2, OverdueElsewhere DEF TooOld

\* The age is compared before the limiters are asked: of a worker's steps only the popping and
\* the dropping concern an overdue item.
LEMMA WorkOverdue ==
    ASSUME TypeInv, Places, NEW i \in Items, Overdue(i), NEW w \in Workers, Work(w)
    PROVE  Overdue(i)'
<1>1. CASE Pop(w)
  <2>1. /\ lifo \in Seq(Items) /\ lifo # <<>> /\ held' = [held EXCEPT ![w] = lifo[Len(lifo)]]
        /\ held \in [Workers -> Items \cup {None}] /\ pc \in [Workers -> WorkerStages]
        /\ pc[w] = "pop" /\ pc' = [pc EXCEPT ![w] = "uncount"]
        /\ lifo' = SubSeq(lifo, 1, Len(lifo) - 1) /\ UNCHANGED <<slot, verdict, age>>
    BY <1>1 DEF Pop, Goto, TypeInv, TypeOK, limitVars
  <2>2. CASE lifo[Len(lifo)] = i
    BY <2>1, <2>2 DEF Overdue, TooOld
  <2>3. CASE lifo[Len(lifo)] # i
    <3>1. Queued(i) => Queued(i)'
      BY <2>1, <2>3, PoppedAt DEF Queued
    <3>2. held[w] # i
      BY <2>1 DEF TypeInv, HeldOK, Holding
    <3> QED BY <2>1, <3>1, <3>2, OverdueElsewhere DEF TooOld
  <2> QED BY <2>2, <2>3
<1>2. CASE DropStale(w) \/ BuildFails(w) \/ Send(w)
  <2>1. PICK v \in Verdicts : Settle(w, v)
    BY <1>2 DEF DropStale, BuildFails, Send, Verdicts, LocalDrops
  <2>2. /\ pc \in [Workers -> WorkerStages] /\ held \in [Workers -> Items \cup {None}]
        /\ held[w] \in Items /\ v # "none" /\ verdict \in [Items -> Verdicts \cup {"none"}]
        /\ age \in [Items -> 0..MaxAge + 1]
    BY <1>2 DEF DropStale, BuildFails, Send, TypeInv, TypeOK, HeldOK, Holding, Verdicts, LocalDrops
  <2>3. CASE held[w] = i
    BY <2>1, <2>2, <2>3 DEF Overdue, Settle, limitVars
  <2>4. CASE held[w] # i
    <3>1. verdict'[i] = verdict[i] /\ age'[i] = age[i] /\ UNCHANGED <<slot, lifo>>
      BY <2>1, <2>2, <2>4 DEF Settle, limitVars, queueVars
    <3>2. \A u \in Workers : held[u] = i => held'[u] = i /\ pc'[u] = pc[u]
      BY <2>1, <2>2, <2>4 DEF Settle, Goto
    <3> QED BY <3>1, <3>2, OverdueElsewhere DEF TooOld, Queued
  <2> QED BY <2>3, <2>4
<1>3. CASE Requeue(w)
  <2>1. /\ lifo \in Seq(Items) /\ held \in [Workers -> Items \cup {None}] /\ held[w] \in Items
        /\ pc \in [Workers -> WorkerStages] /\ pc[w] = "requeue"
        /\ lifo' = Append(lifo, held[w]) /\ held' = [held EXCEPT ![w] = None]
        /\ pc' = [pc EXCEPT ![w] = "recount"] /\ UNCHANGED <<slot, verdict, age>>
    BY <1>3 DEF Requeue, Goto, TypeInv, TypeOK, HeldOK, Holding, limitVars
  <2>2. Queued(i) => Queued(i)'
    BY <2>1, PushedAt DEF Queued
  <2>3. CASE held[w] = i
    <3>1. verdict[i] = "none" /\ ~Queued(i) /\ \A u \in Workers \ {w} : held[u] # i
      BY <2>1, <2>3 DEF Places, Apart, Somewhere, Owned, Live
    <3> QED BY <2>1, <2>3, <3>1 DEF Overdue
  <2>4. CASE held[w] # i
    BY <2>1, <2>2, <2>4, OverdueElsewhere DEF TooOld
  <2> QED BY <2>3, <2>4
<1>4. CASE TakeRest(w) \/ TakeGrpc(w)
  <2>1. /\ held[w] \in Items /\ pc[w] \notin {"uncount", "check"}
        /\ slot' = [slot EXCEPT ![held[w]] = slot'[held[w]]] /\ slot \in [Items -> Channels \cup {"none"}]
        /\ pc \in [Workers -> WorkerStages] /\ pc' = [pc EXCEPT ![w] = "build"]
        /\ UNCHANGED <<lifo, held, verdict, age>>
    BY <1>4 DEF TakeRest, TakeGrpc, Grant, Goto, TypeInv, TypeOK, HeldOK, Holding, queueVars
  <2>2. held[w] # i
    <3>1. verdict[held[w]] = "none" /\ ~Queued(held[w]) /\ \A u \in Workers \ {w} : held[u] # held[w]
      BY <2>1 DEF Places, Apart, Somewhere, Owned, Live
    <3> QED BY <2>1, <3>1 DEF Overdue
  <2> QED BY <2>1, <2>2, OverdueElsewhere DEF TooOld, Queued
<1>5. CASE KeepFresh(w)
  <2>1. /\ held[w] \in Items /\ pc[w] = "check" /\ ~TooOld(held[w])
        /\ pc \in [Workers -> WorkerStages] /\ pc' = [pc EXCEPT ![w] = "rest"]
        /\ UNCHANGED <<lifo, held, verdict, age, slot>>
    BY <1>5 DEF KeepFresh, Goto, TypeInv, TypeOK, HeldOK, Holding, queueVars, limitVars
  <2>2. held[w] # i
    <3>1. verdict[held[w]] = "none"
      BY <2>1 DEF Places, Somewhere, Owned, Live
    <3> QED BY <2>1, <3>1 DEF Overdue
  <2> QED BY <2>1, <2>2, OverdueElsewhere DEF TooOld, Queued
<1>6. CASE \/ Acquire(w) \/ Uncount(w) \/ RestFull(w) \/ GrpcFull(w)
           \/ Recount(w) \/ Repermit(w) \/ Wake(w) \/ Built(w)
  <2>1. PICK stage \in WorkerStages :
          /\ pc' = [pc EXCEPT ![w] = stage]
          /\ pc[w] \in {"uncount", "check"} => stage \in {"uncount", "check"}
    BY <1>6 DEF Acquire, Uncount, RestFull, GrpcFull, Refuse, Recount, Repermit, Wake, Built, Goto, WorkerStages
  <2>2. UNCHANGED <<lifo, held, verdict, slot, age>>
    BY <1>6 DEF Acquire, Uncount, RestFull, GrpcFull, Refuse, Recount, Repermit, Wake, Built,
                queueVars, limitVars
  <2> QED BY <2>1, <2>2 DEF Overdue, TooOld, Queued, TypeInv, TypeOK
<1> QED BY <1>1, <1>2, <1>3, <1>4, <1>5, <1>6 DEF Work

LEMMA StepOverdue ==
    ASSUME TypeInv, Places, NEW i \in Items, Overdue(i), [Next]_vars PROVE Overdue(i)'
<1>1. CASE UNCHANGED vars
  BY <1>1, OverdueElsewhere DEF vars, queueVars, limitVars, TooOld, Queued
<1>2. CASE Tick
  <2>1. UNCHANGED <<lifo, pc, held, slot, verdict>>
    BY <1>2 DEF Tick, queueVars
  <2>2. TooOld(i) => TooOld(i)'
    BY <1>2, LimitAssumption DEF Tick, TooOld, TypeInv, TypeOK
  <2> QED BY <2>1, <2>2, OverdueElsewhere DEF Queued
<1> QED BY <1>1, <1>2, ProduceOverdue, WorkOverdue DEF Next

\* What waits too old in the stack has no slot, and so is overdue.
LEMMA StackedOverdue ==
    ASSUME Places, NEW i \in Items, Queued(i), TooOld(i) PROVE Overdue(i)
BY DEF Overdue, Places, SlotsOK

\* For any number of items and workers and all limits: an item that has waited in the stack
\* past queue_max_age_ms never takes a slot again, however often the workers requeue it, pop
\* it and find the limiters with room.
THEOREM OverdueNeverAdmitted == Safety => OverdueNeverClaims
<1> SUFFICES ASSUME NEW i \in Items
             PROVE  Safety => [](Queued(i) /\ TooOld(i) => [](slot[i] = "none"))
  BY DEF OverdueNeverClaims
<1>1. Init => TypeInv /\ Places
  BY InitTyped, InitPlaces
<1>2. TypeInv /\ Places /\ [Next]_vars => TypeInv' /\ Places'
  BY StepTyped, StepPlaces DEF NextForever
<1>3. Places /\ Queued(i) /\ TooOld(i) => Overdue(i)
  BY StackedOverdue
<1>4. TypeInv /\ Places /\ Overdue(i) /\ [Next]_vars => Overdue(i)'
  BY StepOverdue
<1>5. Overdue(i) => slot[i] = "none"
  BY DEF Overdue
<1> QED BY <1>1, <1>2, <1>3, <1>4, <1>5, PTL DEF Safety

-----------------------------------------------------------------------------
(* What a worker's step means for the submission of its item. *)

\* A step of a worker away from "send" gives at most a local verdict; one to it leaves the
\* item with the worker; one from it ends with the answer.
LEMMA WorkSends ==
    ASSUME TypeInv, NEW w \in Workers, Work(w)
    PROVE  /\ \A u \in Workers \ {w} : pc'[u] = pc[u] /\ held'[u] = held[u]
           /\ \/ /\ pc[w] # "send" /\ pc'[w] # "send"
                 /\ \/ verdict' = verdict
                    \/ /\ held[w] \in Items
                       /\ \E v \in LocalDrops : verdict' = [verdict EXCEPT ![held[w]] = v]
              \/ pc[w] = "build" /\ pc'[w] = "send" /\ UNCHANGED <<held, verdict>>
              \/ /\ pc[w] = "send" /\ pc'[w] = "acquire" /\ held'[w] = None
                 /\ \E v \in {"sent", "send_failed"} : verdict' = [verdict EXCEPT ![held[w]] = v]
<1>1. pc \in [Workers -> WorkerStages] /\ held \in [Workers -> Items \cup {None}]
  BY DEF TypeInv, TypeOK
<1> USE <1>1 DEF Goto
<1>2. CASE DropStale(w) \/ BuildFails(w)
  BY <1>2 DEF DropStale, BuildFails, Settle, LocalDrops, TypeInv, HeldOK, Holding
<1>3. CASE Send(w)
  BY <1>3 DEF Send, Settle
<1>4. CASE Built(w)
  BY <1>4 DEF Built
<1>5. CASE TakeRest(w) \/ TakeGrpc(w) \/ RestFull(w) \/ GrpcFull(w)
  BY <1>5 DEF TakeRest, TakeGrpc, RestFull, GrpcFull, Grant, Refuse
<1>6. CASE \/ Acquire(w) \/ Pop(w) \/ Uncount(w) \/ KeepFresh(w)
           \/ Requeue(w) \/ Recount(w) \/ Repermit(w) \/ Wake(w)
  BY <1>6 DEF Acquire, Pop, Uncount, KeepFresh, Requeue, Recount, Repermit, Wake
<1> QED BY <1>2, <1>3, <1>4, <1>5, <1>6 DEF Work

-----------------------------------------------------------------------------
(* What a step never takes back, and what a verdict says. *)

\* A slot and a verdict stand until the identity is given to another opportunity, and an
\* opportunity only grows older while it lives.
Stand(i) ==
    /\ slot[i] # "none" => slot'[i] = slot[i] \/ Recycle(i)
    /\ verdict[i] # "none" => verdict'[i] = verdict[i] \/ Recycle(i)
    /\ Live(i) /\ Live(i)' => age'[i] >= age[i]

LEMMA SettleStands ==
    ASSUME TypeInv, Places, NEW w \in Workers, NEW v \in Verdicts, pc[w] \in Holding, Settle(w, v), NEW i \in Items
    PROVE  Stand(i)
<1>1. /\ verdict' = [verdict EXCEPT ![held[w]] = v] /\ age' = [age EXCEPT ![held[w]] = 0]
      /\ UNCHANGED <<slot, offer>> /\ v # "none"
      /\ verdict \in [Items -> Verdicts \cup {"none"}] /\ age \in [Items -> 0..MaxAge + 1]
  BY DEF Settle, TypeInv, TypeOK, limitVars, Verdicts, LocalDrops
<1>2. verdict[held[w]] = "none" /\ held[w] \in Items
  BY OwnedLives
<1>3. CASE i = held[w]
  BY <1>1, <1>2, <1>3 DEF Stand, Live
<1>4. CASE i # held[w]
  <2>1. verdict'[i] = verdict[i] /\ age'[i] = age[i] /\ slot'[i] = slot[i] /\ age[i] \in Int
    BY <1>1, <1>4, LimitAssumption
  <2> QED BY <2>1 DEF Stand
<1> QED BY <1>3, <1>4

LEMMA StepStands ==
    ASSUME TypeInv, Places, [NextForever]_vars, NEW i \in Items PROVE Stand(i)
<1>1. /\ age \in [Items -> 0..MaxAge + 1] /\ age[i] \in Int /\ MaxAge \in Nat
      /\ slot \in [Items -> Channels \cup {"none"}]
  BY LimitAssumption DEF TypeInv, TypeOK
<1>2. CASE UNCHANGED <<slot, verdict, age>>
  BY <1>1, <1>2 DEF Stand
<1>3. ASSUME NEW w \in Workers, DropStale(w) \/ BuildFails(w) \/ Send(w) PROVE Stand(i)
  <2>1. PICK v \in Verdicts : Settle(w, v)
    BY <1>3 DEF DropStale, BuildFails, Send, Verdicts, LocalDrops
  <2>2. pc[w] \in Holding
    BY <1>3 DEF DropStale, BuildFails, Send, Holding
  <2> QED BY <2>1, <2>2, SettleStands
<1>4. ASSUME NEW w \in Workers, TakeRest(w) \/ TakeGrpc(w) PROVE Stand(i)
  <2>1. PICK c \in Channels : pc[w] \in {"rest", "grpc"} /\ Grant(w, c)
    BY <1>4 DEF TakeRest, TakeGrpc, Channels
  <2>2. held[w] \in Items /\ slot[held[w]] = "none"
    BY <2>1, OwnedLives DEF Holding
  <2>3. slot' = [slot EXCEPT ![held[w]] = c] /\ UNCHANGED <<verdict, age>>
    BY <2>1 DEF Grant
  <2> QED BY <1>1, <2>2, <2>3 DEF Stand
<1>5. CASE Tick
  <2>1. age'[i] >= age[i] /\ UNCHANGED <<slot, verdict>>
    BY <1>1, <1>5 DEF Tick
  <2> QED BY <2>1 DEF Stand
<1>6. ASSUME NEW j \in Items, Recycle(j) PROVE Stand(i)
  <2>1. CASE i = j
    BY <1>1, <1>6, <2>1 DEF Stand, Recycle
  <2>2. CASE i # j
    <3>1. slot'[i] = slot[i] /\ verdict'[i] = verdict[i] /\ age'[i] = age[i]
      BY <1>6, <2>2 DEF Recycle, TypeInv, TypeOK
    <3> QED BY <1>1, <3>1 DEF Stand
  <2> QED BY <2>1, <2>2
<1>7. ASSUME NEW w \in Workers, Work(w)
      PROVE  UNCHANGED <<slot, verdict, age>> \/ DropStale(w) \/ BuildFails(w) \/ Send(w) \/ TakeRest(w) \/ TakeGrpc(w)
  BY <1>7 DEF Work, Acquire, Pop, Uncount, KeepFresh, RestFull, GrpcFull, Refuse, Requeue, Recount,
              Repermit, Wake, Built, limitVars
<1>8. ASSUME NEW j \in Items, Produce(j) PROVE UNCHANGED <<slot, verdict, age>>
  BY <1>8 DEF Produce, Push, Count, Signal, limitVars
<1> QED
  BY <1>2, <1>3, <1>4, <1>5, <1>6, <1>7, <1>8 DEF NextForever, Next, vars, limitVars

\* An opportunity takes one slot, of one channel, and gets one verdict, whatever the workers do
\* at the same time: a grant and a drop write to the item in hand without looking at what it
\* has. And no requeue makes it younger.
THEOREM NothingTakenBack == SafetyForever => [][\A i \in Items : Stand(i)]_vars
<1>1. Init => TypeInv /\ Places
  BY InitTyped, InitPlaces
<1>2. TypeInv /\ Places /\ [NextForever]_vars => TypeInv' /\ Places'
  BY StepTyped, StepPlaces
<1>3. TypeInv /\ Places /\ [NextForever]_vars => [\A i \in Items : Stand(i)]_vars
  BY StepStands
<1> QED BY <1>1, <1>2, <1>3, PTL DEF SafetyForever

\* An opportunity dropped for its age never took a slot; one that was built, sent or not, did.
SlotExplained ==
    \A i \in Items : /\ verdict[i] = "stale" => slot[i] = "none"
                     /\ verdict[i] \notin {"none", "stale"} => slot[i] # "none"

LEMMA StepExplained ==
    ASSUME TypeInv, Places, SlotExplained, [NextForever]_vars PROVE SlotExplained'
<1>1. CASE UNCHANGED <<slot, verdict>>
  BY <1>1 DEF SlotExplained
<1>2. ASSUME NEW w \in Workers, DropStale(w) \/ BuildFails(w) \/ Send(w) PROVE SlotExplained'
  <2>1. PICK v \in Verdicts : Settle(w, v) /\ (v = "stale" <=> pc[w] = "check")
    BY <1>2 DEF DropStale, BuildFails, Send, Verdicts, LocalDrops
  <2>2. pc[w] \in {"check", "build", "send"}
    BY <1>2 DEF DropStale, BuildFails, Send
  <2>3. held[w] \in Items /\ (slot[held[w]] = "none" <=> pc[w] = "check")
    BY <2>2, OwnedLives DEF Holding
  <2>4. verdict' = [verdict EXCEPT ![held[w]] = v] /\ UNCHANGED slot /\ verdict \in [Items -> Verdicts \cup {"none"}]
    BY <2>1 DEF Settle, TypeInv, TypeOK, limitVars
  <2> QED BY <2>1, <2>3, <2>4 DEF SlotExplained
<1>3. ASSUME NEW w \in Workers, TakeRest(w) \/ TakeGrpc(w) PROVE SlotExplained'
  <2>1. PICK c \in Channels : pc[w] \in {"rest", "grpc"} /\ Grant(w, c)
    BY <1>3 DEF TakeRest, TakeGrpc, Channels
  <2>2. held[w] \in Items /\ verdict[held[w]] = "none"
    BY <2>1, OwnedLives DEF Holding
  <2>3. slot' = [slot EXCEPT ![held[w]] = c] /\ UNCHANGED verdict /\ slot \in [Items -> Channels \cup {"none"}]
    BY <2>1 DEF Grant, TypeInv, TypeOK
  <2> QED BY <2>2, <2>3 DEF SlotExplained
<1>4. ASSUME NEW j \in Items, Recycle(j) PROVE SlotExplained'
  BY <1>4 DEF Recycle, SlotExplained, TypeInv, TypeOK
<1>5. ASSUME NEW w \in Workers, Work(w)
      PROVE  UNCHANGED <<slot, verdict>> \/ DropStale(w) \/ BuildFails(w) \/ Send(w) \/ TakeRest(w) \/ TakeGrpc(w)
  BY <1>5 DEF Work, Acquire, Pop, Uncount, KeepFresh, RestFull, GrpcFull, Refuse, Requeue, Recount,
              Repermit, Wake, Built, limitVars
<1>6. ASSUME NEW j \in Items, Produce(j) PROVE UNCHANGED <<slot, verdict>>
  BY <1>6 DEF Produce, Push, Count, Signal, limitVars
<1>7. Tick => UNCHANGED <<slot, verdict>>
  BY DEF Tick
<1> QED
  BY <1>1, <1>2, <1>3, <1>4, <1>5, <1>6, <1>7 DEF NextForever, Next, vars, limitVars

\* Nothing is built or sent without a slot, on whichever channel, and a drop for age costs none;
\* a drop for a failed build, for locks or for size has cost one.
THEOREM SlotsExplainVerdicts == SafetyForever => []SlotExplained
<1>1. Init => TypeInv /\ Places /\ SlotExplained
  BY InitTyped, InitPlaces DEF Init, SlotExplained
<1>2. TypeInv /\ Places /\ SlotExplained /\ [NextForever]_vars => TypeInv' /\ Places' /\ SlotExplained'
  BY StepTyped, StepPlaces, StepExplained
<1> QED BY <1>1, <1>2, PTL DEF SafetyForever

\* Nobody is in the middle of announcing an item, and every worker waits for a permit.
AllAsleep ==
    /\ \A i \in Items : offer[i] \in {"idle", "offered"}
    /\ \A w \in Workers : pc[w] = "acquire"
    /\ permits = 0

\* The pool never sleeps on work: when every worker waits for a permit, there is none, and no
\* task is about to release one, then the stack is empty and no opportunity is unsettled.
THEOREM NoWorkStranded ==
    SafetyForever => [](AllAsleep => lifo = <<>> /\ \A i \in Items : ~Live(i))
<1>1. Init => TypeInv /\ Places
  BY InitTyped, InitPlaces
<1>2. TypeInv /\ Places /\ [NextForever]_vars => TypeInv' /\ Places'
  BY StepTyped, StepPlaces
<1>3. TypeInv /\ Places /\ PermitAccounting /\ AllAsleep => lifo = <<>> /\ \A i \in Items : ~Live(i)
  <2> SUFFICES ASSUME TypeInv, Places, PermitAccounting, AllAsleep
               PROVE  lifo = <<>> /\ \A i \in Items : ~Live(i)
    OBVIOUS
  <2>1. Poppers = {} /\ Unsignalled = {} /\ Unpermitted = {}
    BY DEF AllAsleep, Poppers, Unsignalled, Unpermitted, At, Offering
  <2>2. Len(lifo) = 0
    BY <2>1, FS_EmptySet DEF PermitAccounting, AllAsleep
  <2>3. lifo = <<>>
    BY <2>2, EmptySeq DEF TypeInv, TypeOK
  <2>4. \A i \in Items : ~Queued(i) /\ ~Owned(i)
    <3>1. \A w \in Workers : held[w] \notin Items
      BY DEF TypeInv, HeldOK, Holding, AllAsleep
    <3> QED BY <2>2, <3>1 DEF Queued, Owned
  <2> QED BY <2>3, <2>4 DEF Places, Somewhere
<1> QED BY <1>1, <1>2, <1>3, AccountsBalance, PTL DEF SafetyForever

=============================================================================

-------------------------- MODULE SubmissionProofs --------------------------
(* Proofs about Broadcast, and about the workers that await it (Submission). *)
EXTENDS Submission, TLAPS

\* The theory of the pipeline, for bundles as items.
PP == INSTANCE PipelineProofs WITH Items <- Bundles

-----------------------------------------------------------------------------
(* A broadcast. *)

\* A region's answer says what happened there, and the worker's verdict what it was told.
HonestAnswers ==
    /\ \A b \in Bundles : \A e \in Endpoints : call[b][e] = "ok" => wire[b][e] = "landed"
    /\ \A b \in Bundles : \A e \in seen[b] : call[b][e] \in Errors
    /\ SentHasLanded
    /\ FailedEverywhere

LEMMA Inductive ==
    ASSUME TypeOK, HonestAnswers, [Next]_vars
    PROVE  TypeOK' /\ HonestAnswers'
<1> USE DEF TypeOK, HonestAnswers, SentHasLanded, FailedEverywhere, Answers, Errors
<1>1. CASE UNCHANGED vars
    BY <1>1 DEF vars
<1>2. ASSUME NEW b \in Bundles, Begin(b)  PROVE TypeOK' /\ HonestAnswers'
    BY <1>2 DEF Begin
<1>3. ASSUME NEW b \in Bundles, GiveUp(b)  PROVE TypeOK' /\ HonestAnswers'
    BY <1>3 DEF GiveUp
<1>4. ASSUME NEW b \in Bundles, NEW e \in Endpoints, TakeOk(b, e)  PROVE TypeOK' /\ HonestAnswers'
    BY <1>4 DEF TakeOk, Dropped
<1>5. ASSUME NEW b \in Bundles, NEW e \in Endpoints, TakeErr(b, e)  PROVE TypeOK' /\ HonestAnswers'
    BY <1>5 DEF TakeErr
<1>6. ASSUME NEW b \in Bundles, NEW e \in Endpoints, Launch(b, e)  PROVE TypeOK' /\ HonestAnswers'
    BY <1>6 DEF Launch
<1>7. ASSUME NEW b \in Bundles, NEW e \in Endpoints, LaunchFails(b, e)
      PROVE  TypeOK' /\ HonestAnswers'
    BY <1>7 DEF LaunchFails
<1>8. ASSUME NEW b \in Bundles, NEW e \in Endpoints, Accept(b, e)  PROVE TypeOK' /\ HonestAnswers'
    <2>1. TypeOK'
        BY <1>8 DEF Accept
    <2>2. ~(e \in seen[b]) /\ caller[b] # "failed"
        BY <1>8 DEF Accept
    <2>3. HonestAnswers'
        BY <1>8, <2>2 DEF Accept
    <2>4. QED BY <2>1, <2>3
<1>9. ASSUME NEW b \in Bundles, NEW e \in Endpoints, TimeOut(b, e)  PROVE TypeOK' /\ HonestAnswers'
    BY <1>9 DEF TimeOut
<1>10. ASSUME NEW b \in Bundles, NEW e \in Endpoints, Deliver(b, e)  PROVE TypeOK' /\ HonestAnswers'
    BY <1>10 DEF Deliver
<1>11. ASSUME NEW b \in Bundles, NEW e \in Endpoints, Refuse(b, e)  PROVE TypeOK' /\ HonestAnswers'
    <2>1. TypeOK'
        BY <1>11 DEF Refuse
    <2>2. \A c \in Bundles : \A f \in Endpoints : call'[c][f] = "ok" => wire'[c][f] = "landed"
        BY <1>11 DEF Refuse
    <2>3. HonestAnswers'
        BY <1>11, <2>2 DEF Refuse
    <2>4. QED BY <2>1, <2>3
<1>12. QED
    BY <1>1, <1>2, <1>3, <1>4, <1>5, <1>6, <1>7, <1>8, <1>9, <1>10, <1>11 DEF Next, Poll, Call

\* For any number of endpoints and workers: what is reported as sent has landed at some
\* endpoint, and what is reported as failed was refused, or not answered, by every one.
THEOREM VerdictsAreHonest == Safety => [](SentHasLanded /\ FailedEverywhere)
<1>1. Init => TypeOK /\ HonestAnswers
    BY DEF Init, TypeOK, HonestAnswers, SentHasLanded, FailedEverywhere
<1>2. TypeOK /\ HonestAnswers => SentHasLanded /\ FailedEverywhere
    BY DEF HonestAnswers
<1>3. QED
    BY <1>1, <1>2, Inductive, PTL DEF Safety

-----------------------------------------------------------------------------
(* Submission's pipeline is the pipeline of PipelineProofs. *)

LEMMA Assumptions ==
    /\ None \notin Bundles
    /\ PP!IsFiniteSet(Bundles) /\ PP!IsFiniteSet(Workers)
    /\ Max \in [PP!Channels -> Nat] /\ MaxAge \in Nat /\ Window \in Nat \ {0}
<1>1. \A S : PP!IsFiniteSet(S) <=> IsFiniteSet(S)
  BY DEF PP!IsFiniteSet, IsFiniteSet
<1> QED BY <1>1, PipelineAssumption DEF PP!Channels

LEMMA SameInit == P!Init => PP!Init
BY DEF P!Init, PP!Init, P!Channels, PP!Channels

LEMMA SameProduce == ASSUME NEW b \in Bundles, P!Produce(b) PROVE PP!Produce(b)
<1> USE DEF P!limitVars, PP!limitVars
<1>1. CASE P!Push(b)
  BY <1>1 DEF P!Push, PP!Push, PP!Produce
<1>2. CASE P!Count(b)
  BY <1>2 DEF P!Count, PP!Count, PP!Produce
<1>3. CASE P!Signal(b)
  BY <1>3 DEF P!Signal, PP!Signal, PP!Produce
<1> QED BY <1>1, <1>2, <1>3 DEF P!Produce

LEMMA SameTick == P!Tick => PP!Tick
BY DEF P!Tick, PP!Tick, P!Live, PP!Live, P!queueVars, PP!queueVars

\* The limiters keep and count the same grants.
LEMMA SameLimiter ==
    /\ \A c : P!HasRoom(c) <=> PP!HasRoom(c)
    /\ \A c : P!Retained(c) = PP!Retained(c)
BY DEF P!HasRoom, PP!HasRoom, P!Retained, PP!Retained, P!Cardinality, PP!Cardinality

LEMMA SameWork == ASSUME NEW w \in Workers, P!Work(w) PROVE PP!Work(w)
<1> USE DEF P!limitVars, PP!limitVars, P!queueVars, PP!queueVars, P!Goto, PP!Goto, PP!Work
<1>1. CASE P!Acquire(w) \/ P!Uncount(w) \/ P!Recount(w) \/ P!Repermit(w) \/ P!Wake(w) \/ P!Built(w)
  BY <1>1 DEF P!Acquire, P!Uncount, P!Recount, P!Repermit, P!Wake, P!Built,
              PP!Acquire, PP!Uncount, PP!Recount, PP!Repermit, PP!Wake, PP!Built
<1>2. CASE P!Pop(w) \/ P!Requeue(w)
  BY <1>2 DEF P!Pop, P!Requeue, PP!Pop, PP!Requeue
<1>3. CASE P!DropStale(w) \/ P!KeepFresh(w) \/ P!BuildFails(w) \/ P!Send(w)
  BY <1>3 DEF P!DropStale, P!KeepFresh, P!BuildFails, P!Send, P!Settle, P!TooOld,
              PP!DropStale, PP!KeepFresh, PP!BuildFails, PP!Send, PP!Settle, PP!TooOld
<1>4. CASE P!TakeRest(w) \/ P!TakeGrpc(w)
  BY <1>4, SameLimiter DEF P!TakeRest, P!TakeGrpc, P!Grant, PP!TakeRest, PP!TakeGrpc, PP!Grant
<1>5. CASE P!RestFull(w) \/ P!GrpcFull(w)
  BY <1>5, SameLimiter DEF P!RestFull, P!GrpcFull, P!Refuse, PP!RestFull, PP!GrpcFull, PP!Refuse
<1> QED BY <1>1, <1>2, <1>3, <1>4, <1>5 DEF P!Work

\* Every step of a submission is a step of the pipeline, or invisible to it.
LEMMA StepIsPipelines ==
    ASSUME [SubmitNext]_all PROVE [P!Next]_(P!vars) /\ [PP!Next]_(PP!vars)
<1>1. CASE UNCHANGED pipe
  BY <1>1 DEF pipe, P!vars, PP!vars, P!queueVars, PP!queueVars, P!limitVars, PP!limitVars
<1>2. CASE \E b \in Bundles : P!Produce(b)
  BY <1>2, SameProduce DEF P!Next, PP!Next
<1>3. CASE \E w \in Workers : P!Work(w)
  BY <1>3, SameWork DEF P!Next, PP!Next
<1>4. CASE P!Tick
  BY <1>4, SameTick DEF P!Next, PP!Next
<1> QED BY <1>1, <1>2, <1>3, <1>4 DEF SubmitNext, Worker, Network, all

\* The safety part of ImplementsPipeline, for any number of bundles, endpoints and workers and
\* all limits: spelling out the calls gives the pipeline no behaviour that it has not already.
THEOREM PipelineImplemented == SubmitSafety => P!Safety
<1>1. SubmitInit => P!Init
  BY DEF SubmitInit
<1>2. [SubmitNext]_all => [P!Next]_(P!vars)
  BY StepIsPipelines
<1> QED BY <1>1, <1>2, PTL DEF SubmitSafety, P!Safety

-----------------------------------------------------------------------------
(* The worker's counts. *)

\* Of a bundle that is not yet submitted nothing has left the process.
Unsent ==
    \A b \in Bundles : caller[b] = "new" =>
        seen[b] = {} /\ \A e \in Endpoints : call[b][e] = "none" /\ wire[b][e] = "none"

\* Some worker awaits the bundle's calls.
Submitting(b) == \E w \in Workers : pc[w] = "send" /\ held[w] = b

\* The pipeline and the calls agree on how far a bundle has come.
InStep ==
    \A b \in Bundles :
        /\ caller[b] # "new" <=> verdict[b] \in {"sent", "send_failed"} \/ Submitting(b)
        /\ verdict[b] = "sent" => caller[b] = "sent"
        /\ verdict[b] = "send_failed" => caller[b] = "failed"

PipeInv == PP!TypeInv /\ PP!Places
CallInv == TypeOK /\ HonestAnswers /\ Unsent
SubmitInv == PipeInv /\ CallInv /\ InStep

LEMMA SubmitInitInv == SubmitInit => SubmitInv
<1> SUFFICES ASSUME SubmitInit PROVE SubmitInv
  OBVIOUS
<1>1. PipeInv
  BY SameInit, PP!InitTyped, PP!InitPlaces, Assumptions DEF SubmitInit, PipeInv
<1>2. CallInv
  BY DEF SubmitInit, Init, CallInv, TypeOK, HonestAnswers, SentHasLanded, FailedEverywhere, Unsent
<1>3. InStep
  BY DEF SubmitInit, Init, P!Init, InStep, Submitting
<1> QED BY <1>1, <1>2, <1>3 DEF SubmitInv

LEMMA PipeStep == ASSUME PipeInv, [SubmitNext]_all PROVE PipeInv'
BY StepIsPipelines, PP!StepTyped, PP!StepPlaces, Assumptions DEF PipeInv, PP!NextForever

\* A call is made only once its bundle is submitted.
LEMMA CallStep == ASSUME CallInv, [Next]_vars PROVE CallInv'
<1>1. TypeOK' /\ HonestAnswers'
  BY Inductive DEF CallInv
<1>2. Unsent'
  <2> USE DEF CallInv, Unsent, TypeOK
  <2>1. CASE UNCHANGED vars
    BY <2>1 DEF vars
  <2>2. ASSUME NEW b \in Bundles, Begin(b) \/ Poll(b) PROVE Unsent'
    BY <2>2 DEF Begin, Poll, GiveUp, TakeOk, TakeErr
  <2>3. ASSUME NEW b \in Bundles, NEW e \in Endpoints, Call(b, e) \/ Deliver(b, e) PROVE Unsent'
    BY <2>3 DEF Call, Deliver, Launch, LaunchFails, Accept, Refuse, TimeOut
  <2> QED BY <2>1, <2>2, <2>3 DEF Next
<1> QED BY <1>1, <1>2 DEF CallInv

\* A call that its worker awaits moves on, or ends: the caller does not become new again and
\* what has been counted has ended already.
LEMMA NetworkInStep == ASSUME SubmitInv, NEW b \in Bundles, Network(b) PROVE InStep'
<1>1. UNCHANGED pipe /\ (Poll(b) \/ \E e \in Endpoints : Call(b, e) \/ Deliver(b, e))
  BY DEF Network
<1>2. \/ UNCHANGED caller
      \/ caller[b] = "waiting" /\ \E v \in {"sent", "failed"} : caller' = [caller EXCEPT ![b] = v]
  BY <1>1 DEF Poll, GiveUp, TakeOk, TakeErr, Call, Deliver, Launch, LaunchFails, Accept, Refuse, TimeOut
<1>3. UNCHANGED <<verdict, pc, held>>
  BY <1>1 DEF pipe
<1>4. \A x \in Bundles : Submitting(x)' <=> Submitting(x)
  BY <1>3 DEF Submitting
<1>5. caller \in [Bundles -> {"new", "waiting", "sent", "failed"}]
  BY DEF SubmitInv, CallInv, TypeOK
<1> QED BY <1>2, <1>3, <1>4, <1>5 DEF SubmitInv, InStep

\* The worker that begins a submission, and the one that counts its answer, has the bundle
\* to itself.
LEMMA WorkerInStep == ASSUME SubmitInv, NEW w \in Workers, Worker(w) PROVE InStep'
<1>1. PP!Work(w) /\ PP!TypeInv /\ PP!Places
  BY SameWork DEF Worker, SubmitInv, PipeInv
<1>2. /\ \A u \in Workers \ {w} : pc'[u] = pc[u] /\ held'[u] = held[u]
      /\ \/ /\ pc[w] # "send" /\ pc'[w] # "send"
            /\ \/ verdict' = verdict
               \/ /\ held[w] \in Bundles
                  /\ \E v \in PP!LocalDrops : verdict' = [verdict EXCEPT ![held[w]] = v]
         \/ pc[w] = "build" /\ pc'[w] = "send" /\ UNCHANGED <<held, verdict>>
         \/ /\ pc[w] = "send" /\ pc'[w] = "acquire" /\ held'[w] = None
            /\ \E v \in {"sent", "send_failed"} : verdict' = [verdict EXCEPT ![held[w]] = v]
  BY <1>1, PP!WorkSends, Assumptions
<1>3. /\ caller \in [Bundles -> {"new", "waiting", "sent", "failed"}]
      /\ verdict \in [Bundles -> PP!Verdicts \cup {"none"}]
  BY <1>1 DEF SubmitInv, CallInv, TypeOK, PP!TypeInv, PP!TypeOK
<1>4. ASSUME NEW b \in Bundles, held[w] = b
      PROVE  verdict[b] = "none" /\ \A u \in Workers \ {w} : held[u] # b
  BY <1>1, <1>4 DEF PP!Places, PP!Apart, PP!Somewhere, PP!Owned, PP!Live
<1>5. CASE pc[w] # "send" /\ pc'[w] # "send"
  <2>1. UNCHANGED vars
    BY <1>5 DEF Worker
  <2>2. \A b \in Bundles : Submitting(b)' <=> Submitting(b)
    BY <1>2, <1>5 DEF Submitting
  <2>3. \A b \in Bundles : \/ verdict'[b] = verdict[b]
                           \/ verdict[b] = "none" /\ verdict'[b] \in PP!LocalDrops
    BY <1>2, <1>3, <1>4, <1>5
  <2> QED BY <2>1, <2>2, <2>3 DEF vars, SubmitInv, InStep, PP!LocalDrops
<1>6. CASE pc'[w] = "send"
  <2>1. pc[w] = "build" /\ UNCHANGED <<held, verdict>>
    BY <1>2, <1>6
  <2>2. PICK b \in Bundles : held[w] = b
    BY <1>1, <2>1 DEF PP!TypeInv, PP!HeldOK, PP!Holding
  <2>3. caller[b] = "new" /\ caller' = [caller EXCEPT ![b] = "waiting"]
    BY <1>6, <2>1, <2>2 DEF Worker, Begin
  <2>4. \A x \in Bundles : Submitting(x)' <=> Submitting(x) \/ x = b
    BY <1>2, <1>6, <2>1, <2>2 DEF Submitting
  <2> QED BY <1>3, <1>4, <2>1, <2>2, <2>3, <2>4 DEF SubmitInv, InStep
<1>7. CASE pc[w] = "send"
  <2>1. PICK b \in Bundles : held[w] = b
    BY <1>1, <1>7 DEF PP!TypeInv, PP!HeldOK, PP!Holding
  <2>2. PICK v \in {"sent", "send_failed"} : verdict' = [verdict EXCEPT ![b] = v]
    BY <1>2, <1>7, <2>1
  <2>3. /\ UNCHANGED vars
        /\ \/ caller[b] = "sent" /\ v = "sent"
           \/ caller[b] = "failed" /\ v = "send_failed"
    <3>1. pc'[w] # "send" /\ verdict'[b] = v
      BY <1>2, <1>3, <1>7, <2>2
    <3>2. Answered(w) /\ UNCHANGED vars
      BY <1>7, <3>1 DEF Worker
    <3> QED BY <2>1, <3>1, <3>2 DEF Answered
  <2>4. \A x \in Bundles \ {b} : Submitting(x)' <=> Submitting(x)
    BY <1>2, <1>7, <2>1, PipelineAssumption DEF Submitting
  <2> QED BY <1>3, <2>2, <2>3, <2>4 DEF vars, SubmitInv, InStep
<1> QED BY <1>5, <1>6, <1>7

LEMMA SubmitStep == ASSUME SubmitInv, [SubmitNext]_all PROVE SubmitInv'
<1>1. PipeInv'
  BY PipeStep DEF SubmitInv
<1>2. CallInv'
  <2>1. \A w \in Workers : Worker(w) => UNCHANGED vars \/ \E b \in Bundles : Begin(b)
    <3> SUFFICES ASSUME NEW w \in Workers, Worker(w), pc'[w] = "send", Begin(held[w])
                 PROVE  \E b \in Bundles : Begin(b)
      BY DEF Worker
    <3>1. pc[w] = "build"
      BY SameWork, PP!WorkSends, Assumptions DEF Worker, SubmitInv, PipeInv
    <3>2. held[w] \in Bundles
      BY <3>1 DEF SubmitInv, PipeInv, PP!TypeInv, PP!HeldOK, PP!Holding
    <3> QED BY <3>2
  <2>2. [Next]_vars
    BY <2>1 DEF SubmitNext, Network, Next, all
  <2> QED BY <2>2, CallStep DEF SubmitInv
<1>3. InStep'
  <2>1. CASE UNCHANGED all \/ (P!Tick /\ UNCHANGED vars) \/ \E b \in Bundles : P!Produce(b) /\ UNCHANGED vars
    <3>1. UNCHANGED <<caller, verdict, pc, held>>
      BY <2>1 DEF all, vars, pipe, P!Tick, P!Produce, P!Push, P!Count, P!Signal
    <3> QED BY <3>1 DEF SubmitInv, InStep, Submitting
  <2> QED BY <2>1, WorkerInStep, NetworkInStep DEF SubmitNext
<1> QED BY <1>1, <1>2, <1>3 DEF SubmitInv

\* For any number of bundles, endpoints and workers: a bundle counted as sent has landed at some
\* endpoint, one counted as failed was refused or not answered by all of them, and of one that a
\* worker dropped nothing has left the process.
THEOREM CountsAlwaysTrue == SubmitSafety => []CountsAreTrue
<1>1. SubmitInv => CountsAreTrue
  BY DEF SubmitInv, CallInv, InStep, Unsent, HonestAnswers, SentHasLanded, FailedEverywhere, CountsAreTrue,
         P!LocalDrops, Submitting, PipeInv, PP!Places, PP!Somewhere, PP!Live, PP!Owned
<1> QED BY <1>1, SubmitInitInv, SubmitStep, PTL DEF SubmitSafety

\* The calls of the workers, and not only of Broadcast by itself, are reported honestly.
THEOREM SubmissionsAreHonest == SubmitSafety => []SentHasLanded
<1>1. SubmitInv => SentHasLanded
  BY DEF SubmitInv, CallInv, HonestAnswers
<1> QED BY <1>1, SubmitInitInv, SubmitStep, PTL DEF SubmitSafety

\* For all parameters: however long its workers are held up by their endpoints, an item that
\* has waited in the stack past queue_max_age_ms never takes a slot again.
THEOREM OverdueNeverAdmitted == SubmitSafety => OverdueNeverClaims
<1> SUFFICES ASSUME NEW i \in Bundles
             PROVE  SubmitSafety => [](P!Queued(i) /\ P!TooOld(i) => [](slot[i] = "none"))
  BY DEF OverdueNeverClaims, P!OverdueNeverClaims
<1>1. SubmitInv /\ P!Queued(i) /\ P!TooOld(i) => PP!Overdue(i)
  BY PP!StackedOverdue, Assumptions DEF SubmitInv, PipeInv, P!Queued, PP!Queued, P!TooOld, PP!TooOld
<1>2. SubmitInv /\ PP!Overdue(i) /\ [SubmitNext]_all => PP!Overdue(i)'
  BY StepIsPipelines, PP!StepOverdue, Assumptions DEF SubmitInv, PipeInv
<1>3. PP!Overdue(i) => slot[i] = "none"
  BY DEF PP!Overdue
<1> QED BY <1>1, <1>2, <1>3, SubmitInitInv, SubmitStep, PTL DEF SubmitSafety

=============================================================================

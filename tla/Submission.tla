----------------------------- MODULE Submission -----------------------------
(***************************************************************************)
(* The calc workers of arbitrage.rs (Pipeline) with the calls they await   *)
(* (Broadcast): a worker that has built its bundle runs send_bundle on the *)
(* channel whose slot it took and stays with it until that returns, while  *)
(* requests that it no longer waits for may still be under way. Pipeline   *)
(* takes submission for one step that ends; here it has to.                *)
(*                                                                         *)
(* A bundle is identified with the opportunity it is built from.           *)
(***************************************************************************)
EXTENDS Broadcast, Integers, Sequences

CONSTANTS Workers, None, Max, MaxAge, Window

ASSUME PipelineAssumption ==
    /\ None \notin Bundles /\ IsFiniteSet(Bundles) /\ IsFiniteSet(Workers)
    /\ Max \in [{"rest", "grpc"} -> Nat]
    /\ MaxAge \in Nat
    /\ Window \in Nat \ {0}

VARIABLES lifo, permits, depth, offer, pc, held, age, waited, stamps, slot, slotAge, verdict

P == INSTANCE Pipeline WITH Items <- Bundles

pipe == <<lifo, permits, depth, offer, pc, held, age, waited, stamps, slot, slotAge, verdict>>
all == <<vars, pipe>>

SubmitInit == Init /\ P!Init

\* Mutation of Answered: the answer is not looked at.
AnsweredAnyhow(w) == caller[held[w]] \in {"sent", "failed"}

\* match result { Ok(_) => jito_sent, Err(_) => jito_send_failed }
Answered(w) ==
    \/ caller[held[w]] = "sent" /\ verdict'[held[w]] = "sent"
    \/ caller[held[w]] = "failed" /\ verdict'[held[w]] = "send_failed"

\* A step of a calc worker, with send_bundle(&tx) called once the bundle is built and
\* awaited before the worker goes on.
Worker(w) ==
    /\ P!Work(w)
    /\ \/ pc'[w] # "send" /\ pc[w] # "send" /\ UNCHANGED vars
       \/ pc'[w] = "send" /\ Begin(held[w])
       \/ pc[w] = "send" /\ Answered(w) /\ UNCHANGED vars

\* The calls of one bundle and what becomes of their requests.
Network(b) ==
    /\ \/ Poll(b)
       \/ \E e \in Endpoints : Call(b, e) \/ Deliver(b, e)
    /\ UNCHANGED pipe

SubmitNext ==
    \/ \E b \in Bundles : P!Produce(b) /\ UNCHANGED vars
    \/ \E w \in Workers : Worker(w)
    \/ P!Tick /\ UNCHANGED vars
    \/ \E b \in Bundles : Network(b)

\* Every task is polled and time passes; nothing is assumed of the network, nor that a
\* submission ends.
SubmitFairness ==
    /\ \A b \in Bundles : WF_pipe(P!Count(b)) /\ WF_pipe(P!Signal(b))
    /\ \A w \in Workers : WF_all(Worker(w))
    /\ WF_pipe(P!Tick)
    /\ Fairness

SubmitSafety == SubmitInit /\ [][SubmitNext]_all
SubmitSpec == SubmitSafety /\ SubmitFairness

-----------------------------------------------------------------------------
(* Properties. *)

\* What the worker counts is what happened to the bundle on the network: a bundle counted
\* as sent has landed somewhere, one counted as failed was refused or not answered by every
\* endpoint, and of one dropped before submission nothing has left the process.
CountsAreTrue ==
    \A b \in Bundles :
        /\ verdict[b] = "sent" => \E e \in Endpoints : wire[b][e] = "landed"
        /\ verdict[b] = "send_failed" => \A e \in Endpoints : call[b][e] \in Errors
        /\ verdict[b] \in P!LocalDrops => \A e \in Endpoints : wire[b][e] = "none"

\* With finitely many opportunities each one gets its verdict, although submission takes
\* as many steps as the endpoints make it take.
EveryItemSettles == P!EveryItemSettles

\* Once an item has waited past queue_max_age_ms it never takes a slot again, however long
\* the workers have been held up by their endpoints.
OverdueNeverClaims == P!OverdueNeverClaims

\* The pipeline with its submissions spelt out implements the pipeline, its fairness
\* included: that a worker leaves send_bundle follows from the time-out of every call.
ImplementsPipeline == P!Spec

=============================================================================

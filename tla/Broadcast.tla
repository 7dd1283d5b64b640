------------------------------ MODULE Broadcast ------------------------------
(***************************************************************************)
(* send_bundle of jito.rs and of jito_grpc.rs: a worker sends its bundle   *)
(* to every endpoint (region) at once, polls the calls in a                *)
(* FuturesUnordered, returns at the first acceptance and drops the other   *)
(* calls, or returns the last error when every call has failed. A call     *)
(* that times out or is dropped may be on the wire, and land later.        *)
(***************************************************************************)
EXTENDS FiniteSets

CONSTANTS
    Bundles,   \* one per worker
    Endpoints  \* bundle_urls, or the regions that could be connected

ASSUME FiniteAssumption == IsFiniteSet(Endpoints)

VARIABLES
    caller,    \* the worker: "new", "waiting", "sent" or "failed"
    call,      \* what the worker knows of each call
    seen,      \* the errors that next() has returned
    wire       \* what has become of each request beyond the worker

vars == <<caller, call, seen, wire>>

Answers == {"ok", "refused", "timeout"}
Errors == {"refused", "timeout"}

Init ==
    /\ caller = [b \in Bundles |-> "new"]
    /\ call = [b \in Bundles |-> [e \in Endpoints |-> "none"]]
    /\ seen = [b \in Bundles |-> {}]
    /\ wire = [b \in Bundles |-> [e \in Endpoints |-> "none"]]

Begin(b) ==
    /\ caller[b] = "new"
    /\ caller' = [caller EXCEPT ![b] = "waiting"]
    /\ UNCHANGED <<call, seen, wire>>

\* A future runs when next() first polls it.
Launch(b, e) ==
    /\ caller[b] = "waiting"
    /\ call[b][e] = "none"
    /\ call' = [call EXCEPT ![b][e] = "flying"]
    /\ wire' = [wire EXCEPT ![b][e] = "request"]
    /\ UNCHANGED <<caller, seen>>

\* The token does not parse, the connection fails: nothing leaves the worker.
LaunchFails(b, e) ==
    /\ caller[b] = "waiting"
    /\ call[b][e] = "none"
    /\ call' = [call EXCEPT ![b][e] = "refused"]
    /\ UNCHANGED <<caller, seen, wire>>

\* The request lands, whether or not the worker still waits for it; one that never does
\* is lost.
Deliver(b, e) ==
    /\ wire[b][e] = "request"
    /\ wire' = [wire EXCEPT ![b][e] = "landed"]
    /\ UNCHANGED <<caller, call, seen>>

\* A success status and a bundle id.
Accept(b, e) ==
    /\ call[b][e] = "flying"
    /\ wire[b][e] = "landed"
    /\ call' = [call EXCEPT ![b][e] = "ok"]
    /\ UNCHANGED <<caller, seen, wire>>

\* An error status or an RPC error; or the answer to a bundle that landed has a bad body.
Refuse(b, e) ==
    /\ call[b][e] = "flying"
    /\ call' = [call EXCEPT ![b][e] = "refused"]
    /\ wire' = [wire EXCEPT ![b][e] = IF @ = "landed" THEN "landed" ELSE "rejected"]
    /\ UNCHANGED <<caller, seen>>

\* One second.
TimeOut(b, e) ==
    /\ call[b][e] = "flying"
    /\ call' = [call EXCEPT ![b][e] = "timeout"]
    /\ UNCHANGED <<caller, seen, wire>>

\* Dropping the FuturesUnordered drops every call with it.
Dropped(b) == [e \in Endpoints |-> IF call[b][e] \in {"none", "flying"} THEN "dropped" ELSE call[b][e]]

\* Mutations of TakeOk: a call that timed out counts as sent; an acceptance is passed over.
TakeOkOrTimeout(b, e) ==
    /\ caller[b] = "waiting"
    /\ call[b][e] \in {"ok", "timeout"}
    /\ caller' = [caller EXCEPT ![b] = "sent"]
    /\ call' = [call EXCEPT ![b] = Dropped(b)]
    /\ UNCHANGED <<seen, wire>>

TakeOkIfLast(b, e) ==
    /\ caller[b] = "waiting"
    /\ call[b][e] = "ok"
    /\ \A f \in Endpoints : call[b][f] = "ok"
    /\ caller' = [caller EXCEPT ![b] = "sent"]
    /\ call' = [call EXCEPT ![b] = Dropped(b)]
    /\ UNCHANGED <<seen, wire>>

\* Some(Ok(id)) => return Ok(id)
TakeOk(b, e) ==
    /\ caller[b] = "waiting"
    /\ call[b][e] = "ok"
    /\ caller' = [caller EXCEPT ![b] = "sent"]
    /\ call' = [call EXCEPT ![b] = Dropped(b)]
    /\ UNCHANGED <<seen, wire>>

\* Some(Err(e)) => last_err = Some(e)
TakeErr(b, e) ==
    /\ caller[b] = "waiting"
    /\ call[b][e] \in Errors
    /\ e \notin seen[b]
    /\ seen' = [seen EXCEPT ![b] = @ \cup {e}]
    /\ UNCHANGED <<caller, call, wire>>

\* None: every call has failed, or there is no endpoint.
GiveUp(b) ==
    /\ caller[b] = "waiting"
    /\ seen[b] = Endpoints
    /\ caller' = [caller EXCEPT ![b] = "failed"]
    /\ UNCHANGED <<call, seen, wire>>

-----------------------------------------------------------------------------
Poll(b) == GiveUp(b) \/ \E e \in Endpoints : TakeOk(b, e) \/ TakeErr(b, e)

Call(b, e) == Launch(b, e) \/ LaunchFails(b, e) \/ Accept(b, e) \/ Refuse(b, e) \/ TimeOut(b, e)

Next ==
    \E b \in Bundles :
        \/ Begin(b) \/ Poll(b)
        \/ \E e \in Endpoints : Call(b, e) \/ Deliver(b, e)

\* The executor polls a ready task, and a timer ends every call.
Fairness == \A b \in Bundles : WF_vars(Poll(b)) /\ \A e \in Endpoints : WF_vars(Call(b, e))

Safety == Init /\ [][Next]_vars

-----------------------------------------------------------------------------
(* Properties. *)

\* Every variable has the type of the Rust state it stands for.
TypeOK ==
    /\ caller \in [Bundles -> {"new", "waiting", "sent", "failed"}]
    /\ call \in [Bundles -> [Endpoints -> Answers \cup {"none", "flying", "dropped"}]]
    /\ seen \in [Bundles -> SUBSET Endpoints]
    /\ wire \in [Bundles -> [Endpoints -> {"none", "request", "landed", "rejected"}]]

\* A bundle reported as sent has reached some endpoint's auction: no time-out, dropped
\* call or error is taken for an acceptance.
SentHasLanded ==
    \A b \in Bundles : caller[b] = "sent" => \E e \in Endpoints : wire[b][e] = "landed"

\* A bundle is reported as failed only when every endpoint was tried and gave an error; an
\* acceptance that has arrived is not lost behind the errors of faster endpoints.
FailedEverywhere ==
    \A b \in Bundles : caller[b] = "failed" => \A e \in Endpoints : call[b][e] \in Errors

=============================================================================

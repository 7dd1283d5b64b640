------------------------------ MODULE Dispatch ------------------------------
(***************************************************************************)
(* What the pipeline of arbitrage.rs promises, with no stack, semaphore,   *)
(* worker or limiter in it: every opportunity is offered once, waits, and  *)
(* is then either dropped stale or granted one slot of one channel, after  *)
(* which it gets exactly one verdict; and in no second does a channel      *)
(* grant more slots than its configured rate.                              *)
(***************************************************************************)
EXTENDS Naturals, FiniteSets

CONSTANTS Items, Channels, Max, Window, Drops

VARIABLES
    phase,     \* "absent", "waiting", "submitting" or "done"
    slot,      \* the channel that granted the item a slot
    slotAge,   \* time since then
    verdict    \* how the item ended

vars == <<phase, slot, slotAge, verdict>>

Init ==
    /\ phase = [i \in Items |-> "absent"]
    /\ slot = [i \in Items |-> "none"]
    /\ slotAge = [i \in Items |-> 0]
    /\ verdict = [i \in Items |-> "none"]

Move(i, from, to) == phase[i] = from /\ phase' = [phase EXCEPT ![i] = to]

End(i, from, v) ==
    /\ Move(i, from, "done")
    /\ verdict' = [verdict EXCEPT ![i] = v]
    /\ UNCHANGED <<slot, slotAge>>

InWindow(c) == {i \in Items : slot[i] = c /\ slotAge[i] < Window}

Offer(i) == Move(i, "absent", "waiting") /\ UNCHANGED <<slot, slotAge, verdict>>

DropStale(i) == End(i, "waiting", "stale")

Claim(i, c) ==
    /\ Move(i, "waiting", "submitting")
    /\ Cardinality(InWindow(c)) < Max[c]
    /\ slot' = [slot EXCEPT ![i] = c]
    /\ slotAge' = [slotAge EXCEPT ![i] = 0]
    /\ UNCHANGED verdict

Finish(i) == \E v \in Drops \cup {"sent", "send_failed"} : End(i, "submitting", v)

Tick ==
    /\ slotAge' = [i \in Items |->
                     IF slot[i] # "none" /\ slotAge[i] < Window THEN slotAge[i] + 1 ELSE slotAge[i]]
    /\ UNCHANGED <<phase, slot, verdict>>

\* The identity of a finished item, its grant out of the window, names a new opportunity.
Forget(i) ==
    /\ Move(i, "done", "absent")
    /\ slot[i] = "none" \/ slotAge[i] = Window
    /\ slot' = [slot EXCEPT ![i] = "none"]
    /\ slotAge' = [slotAge EXCEPT ![i] = 0]
    /\ verdict' = [verdict EXCEPT ![i] = "none"]

Next ==
    \/ \E i \in Items : Offer(i) \/ DropStale(i) \/ Finish(i) \/ Forget(i)
    \/ \E i \in Items, c \in Channels : Claim(i, c)
    \/ Tick

Spec == Init /\ [][Next]_vars
=============================================================================

----------------------------- MODULE AccountCache -----------------------------
(***************************************************************************)
(* account_cache.rs as main.rs starts it: one task applies the updates of  *)
(* an account stream to a shared map and reconnects when the stream drops, *)
(* while the main task warms the map up with get_or_fetch, account after   *)
(* account. The state of an account is the slot that wrote it.             *)
(*                                                                         *)
(* The RPC node answers at a commitment of its own, hence with any state   *)
(* the account has had; the stream is at the processed commitment. Forks   *)
(* are left out: slots are handed out in order.                            *)
(***************************************************************************)
EXTENDS Naturals, Sequences, FiniteSetsExt

CONSTANTS
    Accounts,
    Streamed,  \* those that the subscription's filters match
    Warm,      \* the accounts to prefetch, in order
    None,      \* no update in hand
    MaxSlot    \* bound: slots in a run

ASSUME AccountAssumption ==
    /\ Streamed \subseteq Accounts /\ Warm \in Seq(Accounts)
    /\ None \notin [account : Accounts, slot : Nat]

VARIABLES
    now,       \* the latest slot
    written,   \* the slots that wrote each account
    stream,    \* "down" or "up"
    pending,   \* updates on their way to the task
    hand,      \* the update the task is applying
    cache,     \* AccountCache.inner; 0 when absent
    clock,     \* AccountCache.stream_slot
    todo,      \* what is left to prefetch
    fetching,  \* whether the first of them is being asked for
    live       \* accounts whose copy this connection put there, and none has replaced

vars == <<now, written, stream, pending, hand, cache, clock, todo, fetching, live>>
chainVars == <<now, written>>
warmVars == <<todo, fetching>>

Latest(a) == Max(written[a])

\* The slot is seeded by RPC, if that answers, before anything is spawned.
Init ==
    /\ now = 1
    /\ written = [a \in Accounts |-> {1}]
    /\ stream = "down" /\ pending = <<>> /\ hand = None /\ live = {}
    /\ cache = [a \in Accounts |-> 0]
    /\ clock \in {0, now}
    /\ todo = Warm /\ fetching = FALSE

-----------------------------------------------------------------------------
(* The cluster and the connection. *)

Write(a) ==
    /\ now < MaxSlot
    /\ now' = now + 1
    /\ written' = [written EXCEPT ![a] = @ \cup {now + 1}]
    /\ pending' = IF stream = "up" /\ a \in Streamed
                  THEN Append(pending, [account |-> a, slot |-> now + 1]) ELSE pending
    /\ UNCHANGED <<stream, hand, cache, clock, warmVars, live>>

\* Subscribe, from the present on: from_slot is None.
Connect ==
    /\ stream = "down"
    /\ stream' = "up"
    /\ UNCHANGED <<chainVars, pending, hand, cache, clock, warmVars, live>>

\* Mutation of Drop: the map is cleared, so that no stale copy is read.
DropForgets ==
    /\ stream = "up" /\ hand = None
    /\ stream' = "down"
    /\ pending' = <<>>
    /\ live' = {}
    /\ cache' = [a \in Accounts |-> 0]
    /\ UNCHANGED <<chainVars, hand, clock, warmVars>>

\* next() returns None or an error: what was not read is gone, the map stays as it is.
Drop ==
    /\ stream = "up" /\ hand = None
    /\ stream' = "down"
    /\ pending' = <<>>
    /\ live' = {}
    /\ UNCHANGED <<chainVars, hand, cache, clock, warmVars>>

-----------------------------------------------------------------------------
(* run_stream. *)

\* Mutation of Receive: the clock is left for the pings.
ReceiveOnly ==
    /\ hand = None /\ pending # <<>>
    /\ hand' = Head(pending)
    /\ pending' = Tail(pending)
    /\ UNCHANGED <<chainVars, stream, cache, clock, warmVars, live>>

\* stream_slot.store(a.slot)
Receive ==
    /\ hand = None /\ pending # <<>>
    /\ hand' = Head(pending)
    /\ pending' = Tail(pending)
    /\ clock' = Head(pending).slot
    /\ UNCHANGED <<chainVars, stream, cache, warmVars, live>>

\* Mutation of Apply: an entry that is there already is kept.
ApplyNew ==
    /\ hand # None
    /\ cache' = [cache EXCEPT ![hand.account] = IF @ = 0 THEN hand.slot ELSE @]
    /\ live' = live \cup {hand.account}
    /\ hand' = None
    /\ UNCHANGED <<chainVars, stream, pending, clock, warmVars>>

\* cache.insert(pk, account)
Apply ==
    /\ hand # None
    /\ cache' = [cache EXCEPT ![hand.account] = hand.slot]
    /\ live' = live \cup {hand.account}
    /\ hand' = None
    /\ UNCHANGED <<chainVars, stream, pending, clock, warmVars>>

-----------------------------------------------------------------------------
(* prefetch, by get_or_fetch. *)

Hit ==
    /\ todo # <<>> /\ ~fetching
    /\ cache[Head(todo)] # 0
    /\ todo' = Tail(todo)
    /\ UNCHANGED <<chainVars, stream, pending, hand, cache, clock, fetching, live>>

Miss ==
    /\ todo # <<>> /\ ~fetching
    /\ cache[Head(todo)] = 0
    /\ fetching' = TRUE
    /\ UNCHANGED <<chainVars, stream, pending, hand, cache, clock, todo, live>>

\* inner.insert, whatever the stream has put there since the miss
Fetched ==
    /\ fetching
    /\ \E slot \in written[Head(todo)] : cache' = [cache EXCEPT ![Head(todo)] = slot]
    /\ live' = live \ {Head(todo)}
    /\ todo' = Tail(todo)
    /\ fetching' = FALSE
    /\ UNCHANGED <<chainVars, stream, pending, hand, clock>>

FetchFails ==
    /\ fetching
    /\ todo' = Tail(todo)
    /\ fetching' = FALSE
    /\ UNCHANGED <<chainVars, stream, pending, hand, cache, clock, live>>

-----------------------------------------------------------------------------
Next ==
    \/ \E a \in Accounts : Write(a)
    \/ Connect \/ Drop \/ Receive \/ Apply
    \/ Hit \/ Miss \/ Fetched \/ FetchFails

Safety == Init /\ [][Next]_vars

-----------------------------------------------------------------------------
(* Properties. *)

Awaited(a) ==
    \/ hand # None /\ hand.account = a
    \/ \E k \in DOMAIN pending : pending[k].account = a

\* Once this connection has delivered an account and nothing of it is under way, the copy
\* is the latest, whatever it was before: stale from the last connection, fetched, absent.
LiveIsCurrent == \A a \in live : ~Awaited(a) => cache[a] = Latest(a)

\* The slot that a simulation takes for its clock is never behind the streamed accounts that
\* are there when it takes it (litesvm_sim.rs:191), at any point between the two stores of an
\* update; accounts that it reads later may be ahead.
ClockNotBehind == \A a \in live : cache[a] <= clock

\* What account_cache.rs:74-75 says of get_or_fetch: it serves accounts "that aren't
\* streamed over Yellowstone", so that it never sets a streamed account back. main.rs
\* prefetches streamed accounts while the stream is being applied.
StreamNeverUndone == [][\A a \in Streamed : cache'[a] >= cache[a]]_vars

=============================================================================

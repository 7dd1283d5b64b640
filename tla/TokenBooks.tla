------------------------------ MODULE TokenBooks ------------------------------
(***************************************************************************)
(* The counters that token_metrics.rs keeps of one token, between the      *)
(* quote checks of that token (quote_check of arbitrage.rs), each of which *)
(* asks for the way out and then for the way back, and the reporter, which *)
(* every 5 min swaps the counters to zero one after the other, writes the  *)
(* window to a file, adds it to an accumulator, and at the last window of  *)
(* a half hour writes and clears that too. A write that fails is logged    *)
(* and not tried again.                                                    *)
(***************************************************************************)
EXTENDS Naturals, Sequences, FiniteSets

CONSTANTS
    Checks,    \* bound: quote checks in a run
    Windows    \* windows to a summary: 6

ASSUME WindowsAssumption == Windows \in Nat \ {0}
ASSUME ChecksAssumption == IsFiniteSet(Checks)

\* In the order of the swaps.
Order == <<"q_sent", "route_ok", "route_fail", "profitable", "not_profitable">>
Counters == {Order[k] : k \in DOMAIN Order}

VARIABLES
    counter,   \* the TokenStat
    check,     \* progress of each check
    collected, \* how many counters the reporter has swapped
    snap,      \* this window
    acc,       \* the windows since the last summary
    windows,   \* how many
    filed,     \* all the windows the 5-min file has held, added up
    unfiled,   \* those that could not be written
    summed,    \* all the summaries the 30-min file has held
    unsummed,  \* those that could not be written
    booked     \* history: all the increments

vars == <<counter, check, collected, snap, acc, windows, filed, unfiled, summed, unsummed, booked>>
reportVars == <<collected, snap, acc, windows, filed, unfiled, summed, unsummed>>

Zero == [c \in Counters |-> 0]
Add(f, g) == [c \in Counters |-> f[c] + g[c]]

Init ==
    /\ counter = Zero /\ snap = Zero /\ acc = Zero /\ booked = Zero
    /\ filed = Zero /\ unfiled = Zero /\ summed = Zero /\ unsummed = Zero
    /\ check = [k \in Checks |-> "new"]
    /\ collected = 0 /\ windows = 0

-----------------------------------------------------------------------------
(* quote_check, by increment and request. *)

Step(k, from, to) == check[k] = from /\ check' = [check EXCEPT ![k] = to]
Count(c, n) ==
    /\ counter' = [counter EXCEPT ![c] = @ + n]
    /\ booked' = [booked EXCEPT ![c] = @ + n]

\* Both requests are counted before the first is sent.
Begin(k) ==
    /\ Step(k, "new", "out")
    /\ Count("q_sent", 2)
    /\ UNCHANGED reportVars

\* A positive amount comes out, and is asked the way back.
OutQuoted(k) ==
    /\ Step(k, "out", "back")
    /\ UNCHANGED <<counter, booked, reportVars>>

\* Mutation of RouteFails: a failure on the way back is not counted.
RouteFailsOnce(k) ==
    /\ \/ Step(k, "out", "done") /\ Count("route_fail", 1)
       \/ Step(k, "back", "done") /\ UNCHANGED <<counter, booked>>
    /\ UNCHANGED reportVars

\* No quote, or nothing comes out.
RouteFails(k) ==
    /\ Step(k, "out", "done") \/ Step(k, "back", "done")
    /\ Count("route_fail", 1)
    /\ UNCHANGED reportVars

BackQuoted(k) ==
    /\ Step(k, "back", "judge")
    /\ Count("route_ok", 1)
    /\ UNCHANGED reportVars

\* Too little comes back, a forbidden DEX is used, a pool is used twice; or none of these.
Judged(k) ==
    /\ Step(k, "judge", "done")
    /\ Count("not_profitable", 1) \/ Count("profitable", 1)
    /\ UNCHANGED reportVars

Check(k) == Begin(k) \/ OutQuoted(k) \/ RouteFails(k) \/ BackQuoted(k) \/ Judged(k)

-----------------------------------------------------------------------------
(* spawn_reporter. *)

\* swap(0)
Swap ==
    /\ collected < Len(Order)
    /\ LET c == Order[collected + 1]
       IN  /\ snap' = [snap EXCEPT ![c] = counter[c]]
           /\ counter' = [counter EXCEPT ![c] = 0]
    /\ collected' = collected + 1
    /\ UNCHANGED <<check, acc, windows, filed, unfiled, summed, unsummed, booked>>

\* write_json: the counts f go to what was written, or to what could not be.
WriteJson(f, written, failed) ==
    \/ written' = Add(written, f) /\ UNCHANGED failed
    \/ failed' = Add(failed, f) /\ UNCHANGED written

\* Mutation of EndWindow: a window enters the accumulator only once it is written.
EndWindowIfFiled ==
    /\ collected = Len(Order)
    /\ collected' = 0
    /\ \/ filed' = Add(filed, snap) /\ acc' = Add(acc, snap) /\ UNCHANGED unfiled
       \/ unfiled' = Add(unfiled, snap) /\ UNCHANGED <<filed, acc>>
    /\ snap' = Zero
    /\ windows' = windows + 1
    /\ UNCHANGED <<counter, check, summed, unsummed, booked>>

\* The window is added to the accumulator, then written to its file or, with no more than a
\* line on stderr, not.
EndWindow ==
    /\ collected = Len(Order)
    /\ collected' = 0
    /\ acc' = Add(acc, snap)
    /\ WriteJson(snap, filed, unfiled)
    /\ snap' = Zero
    /\ windows' = windows + 1
    /\ UNCHANGED <<counter, check, summed, unsummed, booked>>

\* Mutation of EndSummary: the accumulator is not cleared.
EndSummaryKeeps ==
    /\ windows >= Windows
    /\ WriteJson(acc, summed, unsummed)
    /\ windows' = 0
    /\ UNCHANGED <<counter, check, collected, snap, acc, filed, unfiled, booked>>

\* The last window of a summary: the accumulator is written too, or not, and cleared.
EndSummary ==
    /\ windows >= Windows
    /\ WriteJson(acc, summed, unsummed)
    /\ acc' = Zero
    /\ windows' = 0
    /\ UNCHANGED <<counter, check, collected, snap, filed, unfiled, booked>>

Reporter == (windows < Windows /\ (Swap \/ EndWindow)) \/ EndSummary

Next == (\E k \in Checks : Check(k)) \/ Reporter

Safety == Init /\ [][Next]_vars
Spec == Safety /\ WF_vars(Reporter)

-----------------------------------------------------------------------------
(* Properties. *)

Total(c) == counter[c] + snap[c] + acc[c] + summed[c] + unsummed[c]
In(stages) == Cardinality({k \in Checks : check[k] \in stages})

\* Wherever the reporter is, every two requests counted are one route that was found, was
\* not found, or is being asked for; and every route found is judged, or is about to be.
BooksBalance ==
    /\ Total("q_sent") = 2 * (Total("route_ok") + Total("route_fail") + In({"out", "back"}))
    /\ Total("route_ok") = Total("profitable") + Total("not_profitable") + In({"judge"})

\* Whichever writes fail, the summaries the 30-min file has held, those that could not be written
\* and the one being gathered hold each window once: a window missing from the 5-min file is
\* in its summary all the same, and nothing of a summary that was lost comes into the next.
SummariesAddUp == Add(filed, unfiled) = Add(acc, Add(summed, unsummed))

\* Whatever a check counts is given to a summary, once: with the checks at an end, what was
\* booked has been in the 30-min file, or was in a half hour whose write failed. It is not kept for
\* the next: a half hour that cannot be written is lost.
EveryCountEntersASummary == <>[](\A c \in Counters : summed[c] + unsummed[c] = booked[c])

=============================================================================

---------------------------- MODULE MetricsWindow ----------------------------
(***************************************************************************)
(* The counters of metrics.rs between the tasks that increment them, one   *)
(* atomic after the other as an opportunity makes its way (arbitrage.rs),  *)
(* and the reporter that every 30 s swaps each of them to zero, one after  *)
(* the other, and prints what it got as one window; the aggregate          *)
(* tx_dropped it swaps and throws away.                                    *)
(*                                                                         *)
(* From the profitable quote to the bundle: the counters of quoting and of *)
(* template hits, rate_requeued, dropped_busy (never incremented), the     *)
(* latency sums and the gauge queue_depth (module Pipeline) are left out.  *)
(***************************************************************************)
EXTENDS Naturals, Sequences, FiniteSets

CONSTANTS
    Tasks,     \* whatever increments: the scanner, Metis tasks, calc workers
    MaxEvents  \* bound: walks through a stage in a run

ASSUME TasksAssumption == IsFiniteSet(Tasks)

Failures == {"swap_ix_timeout", "swap_ix_http", "swap_ix_network", "swap_ix_parse"}
ScanDrops == {"dropped_multi_hop", "dropped_merge_fail", "dropped_no_serve"}
CalcDrops == {"dropped_stale", "tx_build_failed", "tx_too_large", "dropped_account_locks"}

\* The order in which the reporter swaps them.
SwapOrder == <<"swap_ix_ok", "ix_from_ram", "ix_from_metis", "swap_ix_failed", "swap_ix_timeout",
               "swap_ix_http", "swap_ix_network", "swap_ix_parse", "queue_in", "dropped_stale",
               "tx_build_failed", "tx_too_large", "dropped_account_locks", "calc_done",
               "jito_send_failed", "jito_sent", "tx_dropped", "dropped_multi_hop",
               "dropped_merge_fail", "dropped_no_serve">>

Metrics == {SwapOrder[k] : k \in DOMAIN SwapOrder}

\* tx_dropped is a legacy aggregate: drained each window, not shown.
Shown == Metrics \ {"tx_dropped"}

VARIABLES
    metric,    \* the atomics
    path,      \* what each task has still to increment
    events,    \* walks begun so far
    swapped,   \* how many counters the reporter has swapped for this window
    window,    \* what it got of those it shows
    printed,   \* what it has printed, added up over the windows
    discarded, \* what it has drained of tx_dropped, added up over the windows
    counted    \* history: all the increments

funnelVars == <<metric, path, events, swapped, window, printed, discarded, counted>>

NoCounts == [c \in Metrics |-> 0]
NoneShown == [c \in Shown |-> 0]

FunnelInit ==
    /\ metric = NoCounts /\ counted = NoCounts
    /\ window = NoneShown /\ printed = NoneShown /\ discarded = 0
    /\ path = [t \in Tasks |-> <<>>]
    /\ events = 0
    /\ swapped = 0

-----------------------------------------------------------------------------
\* The scanner drops the opportunity, or serves it from a template and pushes it.
ScanPaths == {<<why, "tx_dropped">> : why \in ScanDrops} \cup {<<"ix_from_ram", "swap_ix_ok", "queue_in">>}

\* Mutation of FetchPaths: a timeout is not told from the other failures.
FetchPathsUntimed ==
    {<<"swap_ix_failed", "tx_dropped", why>> : why \in Failures \ {"swap_ix_timeout"}}
        \cup {<<"swap_ix_failed", "tx_dropped">>, <<"swap_ix_ok", "ix_from_metis", "queue_in">>}

\* A task spawned for /swap-instructions fails in one of four ways, or pushes the answer.
FetchPaths ==
    {<<"swap_ix_failed", "tx_dropped", why>> : why \in Failures}
        \cup {<<"swap_ix_ok", "ix_from_metis", "queue_in">>}

\* A calc worker drops the item, or builds it and submits it.
CalcPaths ==
    {<<why, "tx_dropped">> : why \in CalcDrops}
        \cup {<<"calc_done", "jito_sent">>, <<"calc_done", "jito_send_failed", "tx_dropped">>}

Enter(t) ==
    /\ path[t] = <<>>
    /\ events < MaxEvents
    /\ events' = events + 1
    /\ \E p \in ScanPaths \cup FetchPaths \cup CalcPaths : path' = [path EXCEPT ![t] = p]
    /\ UNCHANGED <<metric, swapped, window, printed, discarded, counted>>

\* fetch_add(1)
Increment(t) ==
    /\ path[t] # <<>>
    /\ metric' = [metric EXCEPT ![Head(path[t])] = @ + 1]
    /\ counted' = [counted EXCEPT ![Head(path[t])] = @ + 1]
    /\ path' = [path EXCEPT ![t] = Tail(@)]
    /\ UNCHANGED <<events, swapped, window, printed, discarded>>

\* swap(0), into the window or, of tx_dropped, into nothing
SwapMetric ==
    /\ swapped < Len(SwapOrder)
    /\ LET c == SwapOrder[swapped + 1]
       IN  /\ metric' = [metric EXCEPT ![c] = 0]
           /\ \/ /\ c \in Shown
                 /\ window' = [window EXCEPT ![c] = metric[c]]
                 /\ UNCHANGED discarded
              \/ /\ c \notin Shown
                 /\ discarded' = discarded + metric[c]
                 /\ UNCHANGED window
    /\ swapped' = swapped + 1
    /\ UNCHANGED <<path, events, printed, counted>>

\* Mutation of Report: eprintln! before the last counters are swapped.
ReportEarly ==
    /\ swapped >= Len(SwapOrder) - 1
    /\ printed' = [c \in Shown |-> printed[c] + window[c]]
    /\ window' = NoneShown
    /\ swapped' = 0
    /\ UNCHANGED <<metric, path, events, discarded, counted>>

\* eprintln!, and on to the next window
Report ==
    /\ swapped = Len(SwapOrder)
    /\ printed' = [c \in Shown |-> printed[c] + window[c]]
    /\ window' = NoneShown
    /\ swapped' = 0
    /\ UNCHANGED <<metric, path, events, discarded, counted>>

FunnelNext == (\E t \in Tasks : Enter(t) \/ Increment(t)) \/ SwapMetric \/ Report

FunnelSafety == FunnelInit /\ [][FunnelNext]_funnelVars
FunnelSpec == FunnelSafety /\ WF_funnelVars(SwapMetric) /\ WF_funnelVars(Report)

-----------------------------------------------------------------------------
(* Properties. *)

Has(p, c) == \E k \in DOMAIN p : p[k] = c
Due(c) == Cardinality({t \in Tasks : Has(path[t], c)})

\* All that the reporter has swapped out of c.
Drained(c) == IF c \in Shown THEN window[c] + printed[c] ELSE discarded

\* All that was counted of c, and what a walk that is on its way has still to count.
Entered(c) == metric[c] + Drained(c) + Due(c)

\* Over all the windows the books of the funnel balance: whatever the reporter swaps
\* between two increments of one opportunity, every failed call has one of its four
\* reasons, everything queued came from a template or from Metis, and every built
\* transaction was sent or failed. The reasons shown for the drops make up tx_dropped, which
\* is not shown: no drop is without a reason or with two.
FunnelBalances ==
    /\ Entered("swap_ix_failed") =
            Entered("swap_ix_timeout") + Entered("swap_ix_http")
                + Entered("swap_ix_network") + Entered("swap_ix_parse")
    /\ Entered("swap_ix_ok") = Entered("ix_from_ram") + Entered("ix_from_metis")
    /\ Entered("swap_ix_ok") = Entered("queue_in")
    /\ Entered("calc_done") = Entered("jito_sent") + Entered("jito_send_failed")
    /\ Entered("tx_dropped") =
            Entered("dropped_multi_hop") + Entered("dropped_merge_fail") + Entered("dropped_no_serve")
                + Entered("dropped_stale") + Entered("tx_build_failed") + Entered("tx_too_large")
                + Entered("dropped_account_locks")
                + Entered("swap_ix_failed") + Entered("jito_send_failed")

\* No increment that is to be shown is left behind: once the tasks are quiet, all that was
\* counted has been printed, wherever the reporter was among its swaps when it was counted.
EveryShownCountIsPrinted == <>[](\A c \in Shown : printed[c] = counted[c])

=============================================================================

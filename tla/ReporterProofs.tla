--------------------------- MODULE ReporterProofs ---------------------------
(***************************************************************************)
(* The books of the two reporters, at every step of a reporter and of      *)
(* whatever it counts. TokenBooks, for any number of checks and of windows *)
(* to a summary: they balance, and the summaries add up to the windows.    *)
(* MetricsWindow, for any number of tasks: those of the funnel balance.    *)
(***************************************************************************)
EXTENDS TokenBooks, MetricsWindow, FiniteSetTheorems, TLAPS

Stages == {"new", "out", "back", "judge", "done"}

Types ==
    /\ counter \in [Counters -> Nat] /\ snap \in [Counters -> Nat] /\ acc \in [Counters -> Nat]
    /\ filed \in [Counters -> Nat] /\ unfiled \in [Counters -> Nat]
    /\ summed \in [Counters -> Nat] /\ unsummed \in [Counters -> Nat]
    /\ check \in [Checks -> Stages]
    /\ collected \in 0..Len(Order) /\ windows \in Nat

\* A counter that the reporter has not come to in this window is not in it: else the swap,
\* which overwrites, would lose it.
NotYetSwapped == \A j \in DOMAIN Order : j > collected => snap[Order[j]] = 0

\* SummariesAddUp, counter by counter.
EachAddsUp == \A c \in Counters : filed[c] + unfiled[c] = acc[c] + summed[c] + unsummed[c]

BooksInv == Types /\ NotYetSwapped /\ BooksBalance /\ SummariesAddUp

-----------------------------------------------------------------------------

LEMMA OrderIs ==
    /\ Len(Order) = 5 /\ DOMAIN Order = 1..5
    /\ Order[1] = "q_sent" /\ Order[2] = "route_ok" /\ Order[3] = "route_fail"
    /\ Order[4] = "profitable" /\ Order[5] = "not_profitable"
BY DEF Order

LEMMA CountersAre == Counters = {"q_sent", "route_ok", "route_fail", "profitable", "not_profitable"}
<1>1. \A x : x \in Counters <=> \E k \in 1..5 : x = Order[k]
  BY OrderIs DEF Counters
<1>2. \A k \in 1..5 : k = 1 \/ k = 2 \/ k = 3 \/ k = 4 \/ k = 5
  OBVIOUS
<1>3. 1 \in 1..5 /\ 2 \in 1..5 /\ 3 \in 1..5 /\ 4 \in 1..5 /\ 5 \in 1..5
  OBVIOUS
<1> QED BY <1>1, <1>2, <1>3, OrderIs

\* No counter is swapped twice in a window.
LEMMA OrderDistinct == \A j, k \in DOMAIN Order : Order[j] = Order[k] => j = k
BY OrderIs

LEMMA ZeroType == Zero \in [Counters -> Nat] /\ \A c \in Counters : Zero[c] = 0
BY DEF Zero

LEMMA AddType ==
    ASSUME NEW f \in [Counters -> Nat], NEW g \in [Counters -> Nat]
    PROVE  Add(f, g) \in [Counters -> Nat] /\ \A c \in Counters : Add(f, g)[c] = f[c] + g[c]
BY DEF Add

LEMMA AddsUpEach == Types => (SummariesAddUp <=> EachAddsUp)
<1> SUFFICES ASSUME Types PROVE SummariesAddUp <=> EachAddsUp
  OBVIOUS
<1> DEFINE L == Add(filed, unfiled)
           S == Add(summed, unsummed)
           R == Add(acc, S)
<1>1. L \in [Counters -> Nat] /\ \A c \in Counters : L[c] = filed[c] + unfiled[c]
  BY AddType DEF Types
<1>2. S \in [Counters -> Nat] /\ \A c \in Counters : S[c] = summed[c] + unsummed[c]
  BY AddType DEF Types
<1>3. R \in [Counters -> Nat] /\ \A c \in Counters : R[c] = acc[c] + S[c]
  BY <1>2, AddType DEF Types
<1>4. \A c \in Counters : R[c] = acc[c] + summed[c] + unsummed[c]
  BY <1>2, <1>3 DEF Types
<1>5. SummariesAddUp <=> L = R
  BY DEF SummariesAddUp
<1> HIDE DEF L, R
<1>6. L = R <=> \A c \in Counters : L[c] = R[c]
  BY <1>1, <1>3
<1> QED BY <1>1, <1>4, <1>5, <1>6 DEF EachAddsUp

\* A check that goes from one stage to another changes the count of a set of stages by at
\* most one.
LEMMA InStep ==
    ASSUME check \in [Checks -> Stages], NEW k \in Checks, NEW from \in Stages, NEW to \in Stages,
           Step(k, from, to), NEW stages
    PROVE  /\ In(stages) \in Nat /\ In(stages)' \in Nat /\ check' \in [Checks -> Stages]
           /\ (from \in stages <=> to \in stages) => In(stages)' = In(stages)
           /\ from \notin stages /\ to \in stages => In(stages)' = In(stages) + 1
           /\ from \in stages /\ to \notin stages => In(stages) = In(stages)' + 1
<1> DEFINE S == {i \in Checks : check[i] \in stages}
           T == {i \in Checks : check'[i] \in stages}
<1>1. IsFiniteSet(S) /\ IsFiniteSet(T)
  BY ChecksAssumption, FS_Subset
<1>2. check' \in [Checks -> Stages] /\ check[k] = from /\ check'[k] = to /\ \A i \in Checks \ {k} : check'[i] = check[i]
  BY DEF Step
<1>3. In(stages) = Cardinality(S) /\ In(stages)' = Cardinality(T)
  BY DEF In
<1>4. Cardinality(S) \in Nat /\ Cardinality(T) \in Nat
  BY <1>1, FS_CardinalityType
<1>5. (from \in stages <=> to \in stages) => S = T
  BY <1>2
<1>6. ASSUME from \notin stages, to \in stages PROVE Cardinality(T) = Cardinality(S) + 1
  <2>1. k \notin S /\ T = S \cup {k}
    BY <1>2, <1>6
  <2> HIDE DEF S, T
  <2> QED BY <1>1, <2>1, FS_AddElement
<1>7. ASSUME from \in stages, to \notin stages PROVE Cardinality(S) = Cardinality(T) + 1
  <2>1. k \notin T /\ S = T \cup {k}
    BY <1>2, <1>7
  <2> HIDE DEF S, T
  <2> QED BY <1>1, <2>1, FS_AddElement
<1> QED BY <1>2, <1>3, <1>4, <1>5, <1>6, <1>7

LEMMA InStays == ASSUME UNCHANGED check, NEW stages PROVE In(stages)' = In(stages)
BY DEF In

\* What an increment does to the totals.
LEMMA CountTotals ==
    ASSUME Types, NEW c \in Counters, NEW n \in Nat, Count(c, n), UNCHANGED reportVars
    PROVE  /\ counter' \in [Counters -> Nat]
           /\ Total(c)' = Total(c) + n /\ \A d \in Counters \ {c} : Total(d)' = Total(d)
           /\ \A d \in Counters : Total(d) \in Nat
<1>1. /\ counter \in [Counters -> Nat] /\ snap \in [Counters -> Nat] /\ acc \in [Counters -> Nat]
      /\ summed \in [Counters -> Nat] /\ unsummed \in [Counters -> Nat]
      /\ UNCHANGED <<snap, acc, summed, unsummed>>
  BY DEF Types, reportVars
<1>2. counter' \in [Counters -> Nat] /\ counter'[c] = counter[c] + n /\ \A d \in Counters \ {c} : counter'[d] = counter[d]
  BY <1>1 DEF Count
<1>3. \A d \in Counters : /\ counter[d] \in Nat /\ snap[d] \in Nat /\ acc[d] \in Nat
                          /\ summed[d] \in Nat /\ unsummed[d] \in Nat
  BY <1>1
<1> QED BY <1>1, <1>2, <1>3 DEF Total

LEMMA TotalsStay ==
    ASSUME NEW c, UNCHANGED <<counter[c], reportVars>> PROVE Total(c)' = Total(c)
BY DEF Total, reportVars

\* What the checks leave alone.
LEMMA ReportStays ==
    ASSUME BooksInv, UNCHANGED reportVars, check' \in [Checks -> Stages], counter' \in [Counters -> Nat]
    PROVE  Types' /\ NotYetSwapped' /\ SummariesAddUp'
BY DEF BooksInv, Types, NotYetSwapped, SummariesAddUp, reportVars

LEMMA Initially == ASSUME Init PROVE BooksInv
<1>1. Types /\ NotYetSwapped
  BY ZeroType, OrderIs, CountersAre DEF Init, Types, NotYetSwapped, Stages
<1>2. In({"out", "back"}) = 0 /\ In({"judge"}) = 0
  <2>1. {k \in Checks : check[k] \in {"out", "back"}} = {} /\ {k \in Checks : check[k] \in {"judge"}} = {}
    BY DEF Init
  <2> QED BY <2>1, FS_EmptySet DEF In
<1>3. BooksBalance
  BY <1>2, ZeroType, CountersAre DEF Init, BooksBalance, Total
<1>4. SummariesAddUp
  <2>1. EachAddsUp
    BY ZeroType DEF Init, EachAddsUp
  <2> QED BY <1>1, <2>1, AddsUpEach
<1> QED BY <1>1, <1>3, <1>4 DEF BooksInv

LEMMA CheckInv == ASSUME BooksInv, NEW k \in Checks, Check(k) PROVE BooksInv'
<1> DEFINE A == {"out", "back"}
           J == {"judge"}
<1>1. Types /\ BooksBalance
  BY DEF BooksInv
<1>2. UNCHANGED reportVars
  BY DEF Check, Begin, OutQuoted, RouteFails, BackQuoted, Judged
<1>3. {"new", "out", "back", "judge", "done"} \subseteq Stages /\ check \in [Checks -> Stages]
  BY <1>1 DEF Stages, Types
<1>4. \A c \in Counters : Total(c) \in Nat
  BY <1>1 DEF Types, Total
<1>5. /\ Total("q_sent") = 2 * (Total("route_ok") + Total("route_fail") + In(A))
      /\ Total("route_ok") = Total("profitable") + Total("not_profitable") + In(J)
  BY <1>1 DEF BooksBalance
<1>6. ASSUME Begin(k) PROVE BooksInv'
  <2>1. Step(k, "new", "out") /\ Count("q_sent", 2)
    BY <1>6 DEF Begin
  <2>2. In(A) \in Nat /\ In(J) \in Nat /\ In(A)' = In(A) + 1 /\ In(J)' = In(J) /\ check' \in [Checks -> Stages]
    BY <1>3, <2>1, InStep
  <2>3. counter' \in [Counters -> Nat] /\ Total("q_sent")' = Total("q_sent") + 2 /\ \A d \in Counters \ {"q_sent"} : Total(d)' = Total(d)
    BY <1>1, <1>2, <2>1, CountTotals, CountersAre
  <2>4. BooksBalance'
    BY <1>4, <1>5, <2>2, <2>3, CountersAre DEF BooksBalance
  <2> QED BY <1>2, <2>2, <2>3, <2>4, ReportStays DEF BooksInv
<1>7. ASSUME OutQuoted(k) PROVE BooksInv'
  <2>1. Step(k, "out", "back") /\ UNCHANGED counter
    BY <1>7 DEF OutQuoted
  <2>2. In(A)' = In(A) /\ In(J)' = In(J) /\ check' \in [Checks -> Stages]
    BY <1>3, <2>1, InStep
  <2>3. counter' \in [Counters -> Nat] /\ \A d \in Counters : Total(d)' = Total(d)
    BY <1>1, <1>2, <2>1, TotalsStay DEF Types
  <2>4. BooksBalance'
    BY <1>5, <2>2, <2>3, CountersAre DEF BooksBalance
  <2> QED BY <1>2, <2>2, <2>3, <2>4, ReportStays DEF BooksInv
<1>8. ASSUME RouteFails(k) PROVE BooksInv'
  <2>1. (Step(k, "out", "done") \/ Step(k, "back", "done")) /\ Count("route_fail", 1)
    BY <1>8 DEF RouteFails
  <2>2. In(A) \in Nat /\ In(A)' \in Nat /\ In(A) = In(A)' + 1 /\ In(J)' = In(J) /\ check' \in [Checks -> Stages]
    BY <1>3, <2>1, InStep
  <2>3. counter' \in [Counters -> Nat] /\ Total("route_fail")' = Total("route_fail") + 1 /\ \A d \in Counters \ {"route_fail"} : Total(d)' = Total(d)
    BY <1>1, <1>2, <2>1, CountTotals, CountersAre
  <2>4. BooksBalance'
    BY <1>4, <1>5, <2>2, <2>3, CountersAre DEF BooksBalance
  <2> QED BY <1>2, <2>2, <2>3, <2>4, ReportStays DEF BooksInv
<1>9. ASSUME BackQuoted(k) PROVE BooksInv'
  <2>1. Step(k, "back", "judge") /\ Count("route_ok", 1)
    BY <1>9 DEF BackQuoted
  <2>2. /\ In(A) \in Nat /\ In(A)' \in Nat /\ In(A) = In(A)' + 1
        /\ In(J) \in Nat /\ In(J)' = In(J) + 1 /\ check' \in [Checks -> Stages]
    BY <1>3, <2>1, InStep
  <2>3. counter' \in [Counters -> Nat] /\ Total("route_ok")' = Total("route_ok") + 1 /\ \A d \in Counters \ {"route_ok"} : Total(d)' = Total(d)
    BY <1>1, <1>2, <2>1, CountTotals, CountersAre
  <2>4. BooksBalance'
    BY <1>4, <1>5, <2>2, <2>3, CountersAre DEF BooksBalance
  <2> QED BY <1>2, <2>2, <2>3, <2>4, ReportStays DEF BooksInv
<1>10. ASSUME Judged(k) PROVE BooksInv'
  <2>1. Step(k, "judge", "done")
    BY <1>10 DEF Judged
  <2>2. In(J) \in Nat /\ In(J)' \in Nat /\ In(J) = In(J)' + 1 /\ In(A)' = In(A) /\ check' \in [Checks -> Stages]
    BY <1>3, <2>1, InStep
  <2>3. PICK c \in {"profitable", "not_profitable"} : Count(c, 1)
    BY <1>10 DEF Judged
  <2>4. counter' \in [Counters -> Nat] /\ Total(c)' = Total(c) + 1 /\ \A d \in Counters \ {c} : Total(d)' = Total(d)
    BY <1>1, <1>2, <2>3, CountTotals, CountersAre
  <2>5. BooksBalance'
    BY <1>4, <1>5, <2>2, <2>3, <2>4, CountersAre DEF BooksBalance
  <2> QED BY <1>2, <2>2, <2>4, <2>5, ReportStays DEF BooksInv
<1> QED BY <1>6, <1>7, <1>8, <1>9, <1>10 DEF Check

LEMMA SwapInv == ASSUME BooksInv, Swap PROVE BooksInv'
<1> DEFINE j == collected + 1
           c == Order[j]
<1>1. Types /\ NotYetSwapped /\ BooksBalance /\ SummariesAddUp
  BY DEF BooksInv
<1>2. j \in DOMAIN Order /\ j > collected /\ j \in 0..Len(Order) /\ collected \in Nat
  BY <1>1, OrderIs DEF Types, Swap
<1>3. c \in Counters
  BY <1>2 DEF Counters
<1>4. /\ snap' = [snap EXCEPT ![c] = counter[c]] /\ counter' = [counter EXCEPT ![c] = 0]
      /\ collected' = j /\ UNCHANGED <<check, acc, windows, filed, unfiled, summed, unsummed>>
  BY DEF Swap
<1>5. snap[c] = 0
  BY <1>1, <1>2 DEF NotYetSwapped
<1>6. \A i \in DOMAIN Order : i > j => Order[i] # c
  BY <1>2, OrderDistinct, OrderIs
<1> HIDE DEF j, c
<1>7. Types'
  BY <1>1, <1>2, <1>3, <1>4 DEF Types
<1>8. NotYetSwapped'
  BY <1>1, <1>2, <1>3, <1>4, <1>6, OrderIs DEF Types, NotYetSwapped, Counters, j
<1>9. ASSUME NEW d \in Counters PROVE Total(d)' = Total(d)
  BY <1>1, <1>3, <1>4, <1>5, <1>9 DEF Types, Total
<1>10. BooksBalance'
  BY <1>1, <1>4, <1>9, InStays, CountersAre DEF BooksBalance
<1>11. SummariesAddUp'
  BY <1>1, <1>4 DEF SummariesAddUp
<1> QED BY <1>7, <1>8, <1>10, <1>11 DEF BooksInv

LEMMA EndWindowInv == ASSUME BooksInv, EndWindow PROVE BooksInv'
<1>1. Types /\ BooksBalance /\ EachAddsUp
  BY AddsUpEach DEF BooksInv
<1>2. /\ collected' = 0 /\ acc' = Add(acc, snap) /\ snap' = Zero /\ WriteJson(snap, filed, unfiled)
      /\ windows' = windows + 1 /\ UNCHANGED <<counter, check, summed, unsummed>>
  BY DEF EndWindow
<1>3. /\ filed' \in [Counters -> Nat] /\ unfiled' \in [Counters -> Nat]
      /\ \A c \in Counters : filed'[c] + unfiled'[c] = filed[c] + unfiled[c] + snap[c]
  <2>1. (filed' = Add(filed, snap) /\ unfiled' = unfiled) \/ (unfiled' = Add(unfiled, snap) /\ filed' = filed)
    BY <1>2 DEF WriteJson
  <2>2. snap \in [Counters -> Nat] /\ filed \in [Counters -> Nat] /\ unfiled \in [Counters -> Nat]
    BY <1>1 DEF Types
  <2>3. CASE filed' = Add(filed, snap) /\ unfiled' = unfiled
    <3>1. filed' \in [Counters -> Nat] /\ \A c \in Counters : filed'[c] = filed[c] + snap[c]
      BY <2>2, <2>3, AddType
    <3> QED BY <2>2, <2>3, <3>1
  <2>4. CASE unfiled' = Add(unfiled, snap) /\ filed' = filed
    <3>1. unfiled' \in [Counters -> Nat] /\ \A c \in Counters : unfiled'[c] = unfiled[c] + snap[c]
      BY <2>2, <2>4, AddType
    <3> QED BY <2>2, <2>4, <3>1
  <2> QED BY <2>1, <2>3, <2>4
<1>4. /\ acc' \in [Counters -> Nat] /\ snap' \in [Counters -> Nat]
      /\ \A c \in Counters : acc'[c] = acc[c] + snap[c] /\ snap'[c] = 0
  <2>1. acc \in [Counters -> Nat] /\ snap \in [Counters -> Nat]
    BY <1>1 DEF Types
  <2>2. Add(acc, snap) \in [Counters -> Nat] /\ \A c \in Counters : Add(acc, snap)[c] = acc[c] + snap[c]
    BY <2>1, AddType
  <2> QED BY <1>2, <2>2, ZeroType
<1>5. Types'
  BY <1>1, <1>2, <1>3, <1>4, OrderIs DEF Types
<1>6. NotYetSwapped'
  BY <1>4 DEF NotYetSwapped, Counters
<1>7. ASSUME NEW c \in Counters PROVE Total(c)' = Total(c)
  BY <1>1, <1>2, <1>4, <1>7 DEF Types, Total
<1>8. BooksBalance'
  BY <1>1, <1>2, <1>7, InStays, CountersAre DEF BooksBalance
<1>9. EachAddsUp'
  <2> SUFFICES ASSUME NEW c \in Counters
               PROVE  filed'[c] + unfiled'[c] = acc'[c] + summed'[c] + unsummed'[c]
    BY DEF EachAddsUp
  <2>1. filed[c] + unfiled[c] = acc[c] + summed[c] + unsummed[c]
    BY <1>1 DEF EachAddsUp
  <2>2. /\ filed[c] \in Nat /\ unfiled[c] \in Nat /\ acc[c] \in Nat /\ snap[c] \in Nat
        /\ summed[c] \in Nat /\ unsummed[c] \in Nat
    BY <1>1 DEF Types
  <2>3. /\ filed'[c] + unfiled'[c] = filed[c] + unfiled[c] + snap[c] /\ acc'[c] = acc[c] + snap[c]
        /\ summed'[c] = summed[c] /\ unsummed'[c] = unsummed[c]
    BY <1>2, <1>3, <1>4
  <2> QED BY <2>1, <2>2, <2>3
<1>10. SummariesAddUp'
  <2>1. Types' => (SummariesAddUp' <=> EachAddsUp')
    BY AddsUpEach, PTL
  <2> QED BY <1>5, <1>9, <2>1
<1> QED BY <1>5, <1>6, <1>8, <1>10 DEF BooksInv

LEMMA EndSummaryInv == ASSUME BooksInv, EndSummary PROVE BooksInv'
<1>1. Types /\ NotYetSwapped /\ BooksBalance /\ EachAddsUp
  BY AddsUpEach DEF BooksInv
<1>2. /\ WriteJson(acc, summed, unsummed) /\ acc' = Zero /\ windows' = 0
      /\ UNCHANGED <<counter, check, collected, snap, filed, unfiled>>
  BY DEF EndSummary
<1>3. /\ summed' \in [Counters -> Nat] /\ unsummed' \in [Counters -> Nat]
      /\ \A c \in Counters : summed'[c] + unsummed'[c] = summed[c] + unsummed[c] + acc[c]
  <2>1. (summed' = Add(summed, acc) /\ unsummed' = unsummed) \/ (unsummed' = Add(unsummed, acc) /\ summed' = summed)
    BY <1>2 DEF WriteJson
  <2>2. acc \in [Counters -> Nat] /\ summed \in [Counters -> Nat] /\ unsummed \in [Counters -> Nat]
    BY <1>1 DEF Types
  <2>3. CASE summed' = Add(summed, acc) /\ unsummed' = unsummed
    <3>1. summed' \in [Counters -> Nat] /\ \A c \in Counters : summed'[c] = summed[c] + acc[c]
      BY <2>2, <2>3, AddType
    <3> QED BY <2>2, <2>3, <3>1
  <2>4. CASE unsummed' = Add(unsummed, acc) /\ summed' = summed
    <3>1. unsummed' \in [Counters -> Nat] /\ \A c \in Counters : unsummed'[c] = unsummed[c] + acc[c]
      BY <2>2, <2>4, AddType
    <3> QED BY <2>2, <2>4, <3>1
  <2> QED BY <2>1, <2>3, <2>4
<1>4. acc' \in [Counters -> Nat] /\ \A c \in Counters : acc'[c] = 0
  BY <1>2, ZeroType
<1>5. Types'
  BY <1>1, <1>2, <1>3, <1>4 DEF Types
<1>6. NotYetSwapped'
  BY <1>1, <1>2 DEF NotYetSwapped
<1>7. ASSUME NEW c \in Counters PROVE Total(c)' = Total(c)
  <2>1. counter' = counter /\ snap' = snap /\ acc'[c] = 0
    BY <1>2, <1>4, <1>7
  <2>2. /\ counter[c] \in Nat /\ snap[c] \in Nat /\ acc[c] \in Nat /\ summed[c] \in Nat
        /\ unsummed[c] \in Nat /\ summed'[c] \in Nat /\ unsummed'[c] \in Nat
        /\ summed'[c] + unsummed'[c] = summed[c] + unsummed[c] + acc[c]
    BY <1>1, <1>3, <1>7 DEF Types
  <2> QED BY <2>1, <2>2 DEF Total
<1>8. BooksBalance'
  BY <1>1, <1>2, <1>7, InStays, CountersAre DEF BooksBalance
<1>9. EachAddsUp'
  BY <1>1, <1>2, <1>3, <1>4 DEF Types, EachAddsUp
<1>10. SummariesAddUp'
  <2>1. Types' => (SummariesAddUp' <=> EachAddsUp')
    BY AddsUpEach, PTL
  <2> QED BY <1>5, <1>9, <2>1
<1> QED BY <1>5, <1>6, <1>8, <1>10 DEF BooksInv

LEMMA BooksStep == ASSUME BooksInv, [Next]_vars PROVE BooksInv'
<1>1. CASE UNCHANGED vars
  <2>1. UNCHANGED <<counter, check, reportVars>>
    BY <1>1 DEF vars, reportVars
  <2>2. Types /\ BooksBalance
    BY DEF BooksInv
  <2>3. Types' /\ NotYetSwapped' /\ SummariesAddUp'
    BY <2>1, <2>2, ReportStays DEF Types
  <2>4. BooksBalance'
    BY <2>1, <2>2, TotalsStay, InStays DEF BooksBalance
  <2> QED BY <2>3, <2>4 DEF BooksInv
<1> QED BY <1>1, CheckInv, SwapInv, EndWindowInv, EndSummaryInv DEF Next, Reporter

LEMMA BooksAlways == Safety => []BooksInv
BY Initially, BooksStep, PTL DEF Safety

\* Wherever the reporter is among its five swaps and however many checks are between two
\* increments, requests, routes and judgements agree.
THEOREM BooksAlwaysBalance == Safety => []BooksBalance
BY BooksAlways, PTL DEF BooksInv

\* For every number of windows to a summary, and whichever writes fail: every window is in one
\* summary, written or lost, or in the one being gathered, also if its own file was not written.
THEOREM SummariesAlwaysAddUp == Safety => []SummariesAddUp
BY BooksAlways, PTL DEF BooksInv

-----------------------------------------------------------------------------
(* MetricsWindow. *)

\* No counter is twice on what a task has still to increment.
NoRepeats(p) == \A j, k \in DOMAIN p : p[j] = p[k] => j = k

FunnelTypes ==
    /\ metric \in [Metrics -> Nat] /\ window \in [Shown -> Nat] /\ printed \in [Shown -> Nat]
    /\ discarded \in Nat
    /\ path \in [Tasks -> Seq(Metrics)] /\ \A t \in Tasks : NoRepeats(path[t])
    /\ swapped \in 0..Len(SwapOrder)

\* As NotYetSwapped: what a swap overwrites is zero.
NotYetTaken ==
    \A j \in DOMAIN SwapOrder : j > swapped /\ SwapOrder[j] \in Shown => window[SwapOrder[j]] = 0

FunnelInv == FunnelTypes /\ NotYetTaken /\ FunnelBalances

\* What a walk adds to a counter.
Adds(p, c) == IF Has(p, c) THEN 1 ELSE 0

\* A walk that is entered as a whole leaves the books balanced.
Balanced(p) ==
    /\ Adds(p, "swap_ix_failed") =
            Adds(p, "swap_ix_timeout") + Adds(p, "swap_ix_http")
                + Adds(p, "swap_ix_network") + Adds(p, "swap_ix_parse")
    /\ Adds(p, "swap_ix_ok") = Adds(p, "ix_from_ram") + Adds(p, "ix_from_metis")
    /\ Adds(p, "swap_ix_ok") = Adds(p, "queue_in")
    /\ Adds(p, "calc_done") = Adds(p, "jito_sent") + Adds(p, "jito_send_failed")
    /\ Adds(p, "tx_dropped") =
            Adds(p, "dropped_multi_hop") + Adds(p, "dropped_merge_fail") + Adds(p, "dropped_no_serve")
                + Adds(p, "dropped_stale") + Adds(p, "tx_build_failed") + Adds(p, "tx_too_large")
                + Adds(p, "dropped_account_locks")
                + Adds(p, "swap_ix_failed") + Adds(p, "jito_send_failed")

Names == {"swap_ix_ok", "ix_from_ram", "ix_from_metis", "swap_ix_failed", "swap_ix_timeout",
          "swap_ix_http", "swap_ix_network", "swap_ix_parse", "queue_in", "dropped_stale",
          "tx_build_failed", "tx_too_large", "dropped_account_locks", "calc_done",
          "jito_send_failed", "jito_sent", "tx_dropped", "dropped_multi_hop",
          "dropped_merge_fail", "dropped_no_serve"}

LEMMA SwapOrderIs ==
    /\ Len(SwapOrder) = 20 /\ DOMAIN SwapOrder = 1..20
    /\ SwapOrder[1] = "swap_ix_ok" /\ SwapOrder[2] = "ix_from_ram" /\ SwapOrder[3] = "ix_from_metis"
    /\ SwapOrder[4] = "swap_ix_failed" /\ SwapOrder[5] = "swap_ix_timeout" /\ SwapOrder[6] = "swap_ix_http"
    /\ SwapOrder[7] = "swap_ix_network" /\ SwapOrder[8] = "swap_ix_parse" /\ SwapOrder[9] = "queue_in"
    /\ SwapOrder[10] = "dropped_stale" /\ SwapOrder[11] = "tx_build_failed"
    /\ SwapOrder[12] = "tx_too_large" /\ SwapOrder[13] = "dropped_account_locks"
    /\ SwapOrder[14] = "calc_done" /\ SwapOrder[15] = "jito_send_failed" /\ SwapOrder[16] = "jito_sent"
    /\ SwapOrder[17] = "tx_dropped" /\ SwapOrder[18] = "dropped_multi_hop"
    /\ SwapOrder[19] = "dropped_merge_fail" /\ SwapOrder[20] = "dropped_no_serve"
BY DEF SwapOrder

LEMMA NamesAreMetrics == Names \subseteq Metrics
<1>1. \A k \in 1..20 : SwapOrder[k] \in Metrics
  BY SwapOrderIs DEF Metrics
<1>2. \A k \in {1, 2, 3, 4, 5, 6, 7, 8, 9, 10, 11, 12, 13, 14, 15, 16, 17, 18, 19, 20} : k \in 1..20
  OBVIOUS
<1> QED BY <1>1, <1>2, SwapOrderIs DEF Names

\* No counter is swapped twice in a window.
LEMMA SwapOrderDistinct == \A j, k \in DOMAIN SwapOrder : SwapOrder[j] = SwapOrder[k] => j = k
BY SwapOrderIs

LEMMA PairWalk ==
    ASSUME NEW a \in Metrics, NEW b \in Metrics, a # b
    PROVE  /\ <<a, b>> \in Seq(Metrics) /\ NoRepeats(<<a, b>>)
           /\ \A c : Has(<<a, b>>, c) <=> c = a \/ c = b
BY DEF NoRepeats, Has

LEMMA TripleWalk ==
    ASSUME NEW a \in Metrics, NEW b \in Metrics, NEW d \in Metrics, a # b, a # d, b # d
    PROVE  /\ <<a, b, d>> \in Seq(Metrics) /\ NoRepeats(<<a, b, d>>)
           /\ \A c : Has(<<a, b, d>>, c) <=> c = a \/ c = b \/ c = d
BY DEF NoRepeats, Has

\* Whatever walk is entered, its counters are distinct ones, and balanced.
LEMMA WalksBalanced ==
    ASSUME NEW p \in ScanPaths \cup FetchPaths \cup CalcPaths
    PROVE  p \in Seq(Metrics) /\ NoRepeats(p) /\ Balanced(p)
<1>1. Names \subseteq Metrics
  BY NamesAreMetrics
<1>2. ASSUME NEW why \in ScanDrops \cup CalcDrops, p = <<why, "tx_dropped">>
      PROVE  p \in Seq(Metrics) /\ NoRepeats(p) /\ Balanced(p)
  <2>1. why \in Metrics /\ "tx_dropped" \in Metrics /\ why # "tx_dropped"
    BY <1>1 DEF Names, ScanDrops, CalcDrops
  <2>2. p \in Seq(Metrics) /\ NoRepeats(p) /\ \A c : Has(p, c) <=> c = why \/ c = "tx_dropped"
    BY <1>2, <2>1, PairWalk
  <2>3. Balanced(p)
    BY <2>2 DEF Balanced, Adds, ScanDrops, CalcDrops
  <2> QED BY <2>2, <2>3
<1>3. ASSUME NEW why \in Failures, p = <<"swap_ix_failed", "tx_dropped", why>>
      PROVE  p \in Seq(Metrics) /\ NoRepeats(p) /\ Balanced(p)
  <2>1. why \in Metrics /\ "tx_dropped" \in Metrics /\ "swap_ix_failed" \in Metrics
        /\ why # "tx_dropped" /\ why # "swap_ix_failed"
    BY <1>1 DEF Names, Failures
  <2>2. /\ p \in Seq(Metrics) /\ NoRepeats(p)
        /\ \A c : Has(p, c) <=> c = "swap_ix_failed" \/ c = "tx_dropped" \/ c = why
    BY <1>3, <2>1, TripleWalk
  <2>3. Balanced(p)
    BY <2>2 DEF Balanced, Adds, Failures
  <2> QED BY <2>2, <2>3
<1>4. ASSUME NEW source \in {"ix_from_ram", "ix_from_metis"},
             \/ p = <<source, "swap_ix_ok", "queue_in">>
             \/ p = <<"swap_ix_ok", source, "queue_in">>
      PROVE  p \in Seq(Metrics) /\ NoRepeats(p) /\ Balanced(p)
  <2>1. source \in Metrics /\ "swap_ix_ok" \in Metrics /\ "queue_in" \in Metrics
    BY <1>1 DEF Names
  <2>2. /\ p \in Seq(Metrics) /\ NoRepeats(p)
        /\ \A c : Has(p, c) <=> c = source \/ c = "swap_ix_ok" \/ c = "queue_in"
    <3>1. source # "swap_ix_ok" /\ source # "queue_in"
      OBVIOUS
    <3>2. CASE p = <<source, "swap_ix_ok", "queue_in">>
      BY <2>1, <3>1, <3>2, TripleWalk
    <3>3. CASE p = <<"swap_ix_ok", source, "queue_in">>
      BY <2>1, <3>1, <3>3, TripleWalk
    <3> QED BY <1>4, <3>2, <3>3
  <2>3. Balanced(p)
    BY <2>2 DEF Balanced, Adds
  <2> QED BY <2>2, <2>3
<1>5. ASSUME p = <<"calc_done", "jito_sent">>
      PROVE  p \in Seq(Metrics) /\ NoRepeats(p) /\ Balanced(p)
  <2>1. "calc_done" \in Metrics /\ "jito_sent" \in Metrics
    BY <1>1 DEF Names
  <2>2. p \in Seq(Metrics) /\ NoRepeats(p) /\ \A c : Has(p, c) <=> c = "calc_done" \/ c = "jito_sent"
    BY <1>5, <2>1, PairWalk
  <2>3. Balanced(p)
    BY <2>2 DEF Balanced, Adds
  <2> QED BY <2>2, <2>3
<1>6. ASSUME p = <<"calc_done", "jito_send_failed", "tx_dropped">>
      PROVE  p \in Seq(Metrics) /\ NoRepeats(p) /\ Balanced(p)
  <2>1. "calc_done" \in Metrics /\ "jito_send_failed" \in Metrics /\ "tx_dropped" \in Metrics
    BY <1>1 DEF Names
  <2>2. /\ p \in Seq(Metrics) /\ NoRepeats(p)
        /\ \A c : Has(p, c) <=> c = "calc_done" \/ c = "jito_send_failed" \/ c = "tx_dropped"
    BY <1>6, <2>1, TripleWalk
  <2>3. Balanced(p)
    BY <2>2 DEF Balanced, Adds
  <2> QED BY <2>2, <2>3
<1> QED BY <1>2, <1>3, <1>4, <1>5, <1>6 DEF ScanPaths, FetchPaths, CalcPaths

\* How the tasks that have still to increment c change when one task does.
LEMMA DueStep ==
    ASSUME FunnelTypes, NEW t \in Tasks, NEW q, path' = [path EXCEPT ![t] = q], NEW c
    PROVE  /\ Due(c) \in Nat /\ Due(c)' \in Nat
           /\ Due(c)' + Adds(path[t], c) = Due(c) + Adds(q, c)
<1> DEFINE S == {u \in Tasks : Has(path[u], c)}
           T == {u \in Tasks : Has(path'[u], c)}
<1>1. IsFiniteSet(S) /\ IsFiniteSet(T)
  BY TasksAssumption, FS_Subset
<1>2. path'[t] = q /\ \A u \in Tasks \ {t} : path'[u] = path[u]
  BY DEF FunnelTypes
<1>3. Due(c) = Cardinality(S) /\ Due(c)' = Cardinality(T)
  BY DEF Due, Has
<1>4. Cardinality(S) \in Nat /\ Cardinality(T) \in Nat
  BY <1>1, FS_CardinalityType
<1>5. /\ t \in S <=> Has(path[t], c)
      /\ t \in T <=> Has(q, c)
      /\ S \ {t} = T \ {t}
  BY <1>2
<1> HIDE DEF S, T
<1>6. ASSUME t \notin S, t \in T PROVE Cardinality(T) = Cardinality(S) + 1
  <2>1. T = S \cup {t}
    BY <1>5, <1>6
  <2> QED BY <1>1, <1>6, <2>1, FS_AddElement
<1>7. ASSUME t \in S, t \notin T PROVE Cardinality(S) = Cardinality(T) + 1
  <2>1. S = T \cup {t}
    BY <1>5, <1>7
  <2> QED BY <1>1, <1>7, <2>1, FS_AddElement
<1>8. ASSUME t \in S <=> t \in T PROVE Cardinality(S) = Cardinality(T)
  <2>1. S = T
    BY <1>5, <1>8
  <2> QED BY <2>1
<1> QED BY <1>3, <1>4, <1>5, <1>6, <1>7, <1>8 DEF Adds

LEMMA DueStays == ASSUME UNCHANGED path, NEW c PROVE Due(c)' = Due(c)
BY DEF Due, Has

\* When every counter keeps its total, the books stay balanced.
LEMMA BalanceStays ==
    ASSUME FunnelBalances, \A c \in Metrics : Entered(c)' = Entered(c) PROVE FunnelBalances'
BY NamesAreMetrics DEF FunnelBalances, Names

LEMMA CountsType ==
    /\ NoCounts \in [Metrics -> Nat] /\ \A c \in Metrics : NoCounts[c] = 0
    /\ NoneShown \in [Shown -> Nat] /\ \A c \in Shown : NoneShown[c] = 0
BY DEF NoCounts, NoneShown

LEMMA DrainedType == ASSUME FunnelTypes PROVE \A c \in Metrics : Drained(c) \in Nat
BY DEF FunnelTypes, Drained

LEMMA EnteredType == ASSUME FunnelTypes PROVE \A c \in Metrics : Entered(c) \in Nat
<1>1. \A c : Due(c) \in Nat
  <2> SUFFICES ASSUME NEW c PROVE Due(c) \in Nat
    OBVIOUS
  <2>1. IsFiniteSet({t \in Tasks : Has(path[t], c)})
    BY TasksAssumption, FS_Subset
  <2> QED BY <2>1, FS_CardinalityType DEF Due
<1>2. \A c \in Metrics : metric[c] \in Nat /\ Drained(c) \in Nat
  BY DrainedType DEF FunnelTypes
<1> QED BY <1>1, <1>2 DEF Entered

LEMMA FunnelInitially == ASSUME FunnelInit PROVE FunnelInv
<1>1. FunnelTypes /\ NotYetTaken
  <2>1. NotYetTaken
    BY CountsType DEF FunnelInit, NotYetTaken
  <2>2. path \in [Tasks -> Seq(Metrics)] /\ \A t \in Tasks : NoRepeats(path[t])
    BY DEF FunnelInit, NoRepeats
  <2> QED BY <2>1, <2>2, CountsType, SwapOrderIs DEF FunnelInit, FunnelTypes
<1>2. \A c : Due(c) = 0
  <2> SUFFICES ASSUME NEW c PROVE Due(c) = 0
    OBVIOUS
  <2>1. {t \in Tasks : Has(path[t], c)} = {}
    BY DEF FunnelInit, Has
  <2> QED BY <2>1, FS_EmptySet DEF Due
<1>3. \A c \in Names : Entered(c) = 0
  BY <1>2, CountsType, NamesAreMetrics DEF FunnelInit, Entered, Drained
<1>4. FunnelBalances
  BY <1>3 DEF FunnelBalances, Names
<1> QED BY <1>1, <1>4 DEF FunnelInv

LEMMA EnterInv == ASSUME FunnelInv, NEW t \in Tasks, Enter(t) PROVE FunnelInv'
<1>1. FunnelTypes /\ NotYetTaken /\ FunnelBalances
  BY DEF FunnelInv
<1>2. PICK p \in ScanPaths \cup FetchPaths \cup CalcPaths : path' = [path EXCEPT ![t] = p]
  BY DEF Enter
<1>3. path[t] = <<>> /\ UNCHANGED <<metric, swapped, window, printed, discarded>>
  BY DEF Enter
<1>4. p \in Seq(Metrics) /\ NoRepeats(p) /\ Balanced(p)
  BY WalksBalanced
<1>5. FunnelTypes' /\ NotYetTaken'
  BY <1>1, <1>2, <1>3, <1>4 DEF FunnelTypes, NotYetTaken
<1>6. ASSUME NEW c \in Names
      PROVE  Entered(c) \in Nat /\ Adds(p, c) \in Nat /\ Entered(c)' = Entered(c) + Adds(p, c)
  <2>1. Due(c) \in Nat /\ Due(c)' \in Nat /\ Due(c)' + Adds(path[t], c) = Due(c) + Adds(p, c)
    BY <1>1, <1>2, DueStep
  <2>2. Adds(path[t], c) = 0 /\ Adds(p, c) \in Nat
    BY <1>3 DEF Adds, Has
  <2>3. metric[c] \in Nat /\ Drained(c) \in Nat /\ Entered(c) \in Nat
    BY <1>1, DrainedType, EnteredType, NamesAreMetrics DEF FunnelTypes
  <2>4. metric' = metric /\ Drained(c)' = Drained(c)
    BY <1>3 DEF Drained
  <2> QED BY <2>1, <2>2, <2>3, <2>4 DEF Entered
<1>7. FunnelBalances'
  <2> DEFINE N(c) == Entered(c)'
             E(c) == Entered(c)
             A(c) == Adds(p, c)
  <2>1. \A c \in Names : E(c) \in Nat /\ A(c) \in Nat /\ N(c) = E(c) + A(c)
    BY <1>6
  <2> HIDE DEF N, E, A
  <2>2. ASSUME NEW a \in Names, NEW b \in Names, E(a) = E(b), A(a) = A(b) PROVE N(a) = N(b)
    BY <2>1, <2>2
  <2>3. ASSUME NEW a \in Names, NEW b \in Names, NEW c \in Names, E(a) = E(b) + E(c), A(a) = A(b) + A(c)
        PROVE  N(a) = N(b) + N(c)
    BY <2>1, <2>3
  <2>4. N("swap_ix_ok") = N("ix_from_ram") + N("ix_from_metis") /\ N("swap_ix_ok") = N("queue_in")
    BY <1>1, <1>4, <2>2, <2>3 DEF FunnelBalances, Balanced, Names, E, A
  <2>5. N("calc_done") = N("jito_sent") + N("jito_send_failed")
    BY <1>1, <1>4, <2>3 DEF FunnelBalances, Balanced, Names, E, A
  <2>6. N("swap_ix_failed") =
            N("swap_ix_timeout") + N("swap_ix_http") + N("swap_ix_network") + N("swap_ix_parse")
    <3>1. /\ E("swap_ix_failed") =
                 E("swap_ix_timeout") + E("swap_ix_http") + E("swap_ix_network") + E("swap_ix_parse")
          /\ A("swap_ix_failed") =
                 A("swap_ix_timeout") + A("swap_ix_http") + A("swap_ix_network") + A("swap_ix_parse")
      BY <1>1, <1>4 DEF FunnelBalances, Balanced, E, A
    <3> QED BY <2>1, <3>1 DEF Names
  <2>7. N("tx_dropped") =
            N("dropped_multi_hop") + N("dropped_merge_fail") + N("dropped_no_serve")
                + N("dropped_stale") + N("tx_build_failed") + N("tx_too_large")
                + N("dropped_account_locks") + N("swap_ix_failed") + N("jito_send_failed")
    <3>1. /\ E("tx_dropped") =
                 E("dropped_multi_hop") + E("dropped_merge_fail") + E("dropped_no_serve")
                     + E("dropped_stale") + E("tx_build_failed") + E("tx_too_large")
                     + E("dropped_account_locks") + E("swap_ix_failed") + E("jito_send_failed")
          /\ A("tx_dropped") =
                 A("dropped_multi_hop") + A("dropped_merge_fail") + A("dropped_no_serve")
                     + A("dropped_stale") + A("tx_build_failed") + A("tx_too_large")
                     + A("dropped_account_locks") + A("swap_ix_failed") + A("jito_send_failed")
      BY <1>1, <1>4 DEF FunnelBalances, Balanced, E, A
    <3> QED BY <2>1, <3>1 DEF Names
  <2> QED BY <2>4, <2>5, <2>6, <2>7 DEF FunnelBalances, N
<1> QED BY <1>5, <1>7 DEF FunnelInv

LEMMA IncrementInv == ASSUME FunnelInv, NEW t \in Tasks, Increment(t) PROVE FunnelInv'
<1> DEFINE p == path[t]
           h == Head(p)
           q == Tail(p)
<1>1. FunnelTypes /\ NotYetTaken /\ FunnelBalances
  BY DEF FunnelInv
<1>2. /\ p # <<>> /\ metric' = [metric EXCEPT ![h] = @ + 1] /\ path' = [path EXCEPT ![t] = q]
      /\ UNCHANGED <<swapped, window, printed, discarded>>
  BY DEF Increment
<1>3. p \in Seq(Metrics) /\ NoRepeats(p)
  BY <1>1 DEF FunnelTypes
<1>4. /\ h \in Metrics /\ h = p[1] /\ q \in Seq(Metrics) /\ Len(p) \in Nat /\ Len(p) > 0
      /\ DOMAIN p = 1..Len(p) /\ DOMAIN q = 1..(Len(p) - 1)
      /\ \A k \in 1..(Len(p) - 1) : q[k] = p[k + 1]
  BY <1>2, <1>3
<1>5. NoRepeats(q)
  BY <1>3, <1>4 DEF NoRepeats
<1>6. Adds(p, h) = 1 /\ Adds(q, h) = 0 /\ \A c \in Metrics \ {h} : Adds(q, c) = Adds(p, c)
  <2>1. Has(p, h)
    BY <1>4 DEF Has
  <2>2. ~Has(q, h)
    BY <1>3, <1>4 DEF Has, NoRepeats
  <2>3. ASSUME NEW c \in Metrics \ {h} PROVE Has(q, c) <=> Has(p, c)
    <3>1. ASSUME NEW k \in DOMAIN p, p[k] = c PROVE Has(q, c)
      <4>1. k # 1 /\ k - 1 \in 1..(Len(p) - 1)
        BY <1>4, <3>1
      <4> QED BY <1>4, <3>1, <4>1 DEF Has
    <3>2. ASSUME NEW k \in DOMAIN q, q[k] = c PROVE Has(p, c)
      <4>1. k + 1 \in DOMAIN p
        BY <1>4
      <4> QED BY <1>4, <3>2, <4>1 DEF Has
    <3> QED BY <3>1, <3>2 DEF Has
  <2> QED BY <2>1, <2>2, <2>3 DEF Adds
<1> HIDE DEF h, q
<1>7. FunnelTypes'
  BY <1>1, <1>2, <1>4, <1>5 DEF FunnelTypes
<1>8. NotYetTaken'
  BY <1>1, <1>2 DEF NotYetTaken
<1>9. ASSUME NEW c \in Metrics PROVE Entered(c)' = Entered(c)
  <2>1. Due(c) \in Nat /\ Due(c)' \in Nat /\ Due(c)' + Adds(p, c) = Due(c) + Adds(q, c)
    BY <1>1, <1>2, DueStep
  <2>2. metric[c] \in Nat /\ Drained(c) \in Nat /\ Drained(c)' = Drained(c)
    BY <1>1, <1>2, DrainedType DEF FunnelTypes, Drained
  <2>3. CASE c = h
    <3>1. metric'[c] = metric[c] + 1 /\ Due(c)' + 1 = Due(c)
      BY <1>1, <1>2, <1>6, <2>1, <2>3 DEF FunnelTypes
    <3> QED BY <2>1, <2>2, <3>1 DEF Entered
  <2>4. CASE c # h
    <3>1. metric'[c] = metric[c] /\ Adds(q, c) = Adds(p, c) /\ Adds(p, c) \in Nat
      BY <1>1, <1>2, <1>6, <2>4 DEF FunnelTypes, Adds
    <3>2. Due(c)' = Due(c)
      BY <2>1, <3>1
    <3> QED BY <2>2, <3>1, <3>2 DEF Entered
  <2> QED BY <2>3, <2>4
<1> QED BY <1>1, <1>7, <1>8, <1>9, BalanceStays DEF FunnelInv

LEMMA SwapMetricInv == ASSUME FunnelInv, SwapMetric PROVE FunnelInv'
<1> DEFINE j == swapped + 1
           s == SwapOrder[j]
<1>1. FunnelTypes /\ NotYetTaken /\ FunnelBalances
  BY DEF FunnelInv
<1>2. j \in DOMAIN SwapOrder /\ j > swapped /\ j \in 0..Len(SwapOrder) /\ swapped \in Nat
  BY <1>1, SwapOrderIs DEF FunnelTypes, SwapMetric
<1>3. s \in Metrics
  BY <1>2 DEF Metrics
<1>4. /\ metric' = [metric EXCEPT ![s] = 0] /\ swapped' = j /\ UNCHANGED <<path, printed>>
      /\ \/ s \in Shown /\ window' = [window EXCEPT ![s] = metric[s]] /\ discarded' = discarded
         \/ s \notin Shown /\ window' = window /\ discarded' = discarded + metric[s]
  BY DEF SwapMetric
<1>5. s \in Shown => window[s] = 0
  BY <1>1, <1>2 DEF NotYetTaken
<1>6. \A i \in DOMAIN SwapOrder : i > j => SwapOrder[i] # s /\ SwapOrder[i] \in Metrics /\ i > swapped
  BY <1>2, SwapOrderDistinct, SwapOrderIs DEF Metrics
<1>7. \A c \in Metrics : c \notin Shown => c = "tx_dropped"
  BY DEF Shown
<1> HIDE DEF j, s
<1>8. FunnelTypes'
  <2>1. metric[s] \in Nat /\ metric' \in [Metrics -> Nat]
    BY <1>1, <1>3, <1>4 DEF FunnelTypes
  <2>2. window' \in [Shown -> Nat] /\ discarded' \in Nat
    BY <1>1, <1>4, <2>1 DEF FunnelTypes
  <2> QED BY <1>1, <1>2, <1>4, <2>1, <2>2 DEF FunnelTypes
<1>9. NotYetTaken'
  BY <1>1, <1>3, <1>4, <1>6 DEF FunnelTypes, NotYetTaken
<1>10. ASSUME NEW c \in Metrics PROVE Entered(c)' = Entered(c)
  <2>1. metric[c] \in Nat /\ Drained(c) \in Nat /\ metric'[c] \in Nat /\ Drained(c)' \in Nat
    <3>1. \A d \in Metrics : Drained(d)' \in Nat
      BY <1>8 DEF FunnelTypes, Drained
    <3> QED BY <1>1, <1>8, <3>1, DrainedType DEF FunnelTypes
  <2>2. metric'[c] + Drained(c)' = metric[c] + Drained(c)
    <3>1. CASE c # s
      <4>1. metric'[c] = metric[c]
        BY <1>1, <1>4, <3>1 DEF FunnelTypes
      <4>2. Drained(c)' = Drained(c)
        BY <1>1, <1>3, <1>4, <1>7, <3>1 DEF FunnelTypes, Drained
      <4> QED BY <4>1, <4>2
    <3>2. CASE c = s /\ s \in Shown
      <4>1. metric'[c] = 0 /\ window'[c] = metric[c] /\ window[c] = 0 /\ printed'[c] = printed[c]
        BY <1>1, <1>3, <1>4, <1>5, <3>2 DEF FunnelTypes
      <4>2. metric[c] \in Nat /\ printed[c] \in Nat
        BY <1>1, <3>2 DEF FunnelTypes
      <4> QED BY <3>2, <4>1, <4>2 DEF Drained
    <3>3. CASE c = s /\ s \notin Shown
      <4>1. metric'[c] = 0 /\ discarded' = discarded + metric[c]
        BY <1>1, <1>3, <1>4, <3>3 DEF FunnelTypes
      <4>2. metric[c] \in Nat /\ discarded \in Nat
        BY <1>1 DEF FunnelTypes
      <4> QED BY <3>3, <4>1, <4>2 DEF Drained
    <3> QED BY <3>1, <3>2, <3>3
  <2>3. Due(c)' = Due(c)
    BY <1>4, DueStays
  <2> QED BY <2>1, <2>2, <2>3 DEF Entered
<1> QED BY <1>1, <1>8, <1>9, <1>10, BalanceStays DEF FunnelInv

LEMMA ReportInv == ASSUME FunnelInv, Report PROVE FunnelInv'
<1>1. FunnelTypes /\ FunnelBalances
  BY DEF FunnelInv
<1>2. /\ printed' = [c \in Shown |-> printed[c] + window[c]] /\ window' = NoneShown /\ swapped' = 0
      /\ UNCHANGED <<metric, path, discarded>>
  BY DEF Report
<1>3. /\ \A c \in Shown : printed'[c] = printed[c] + window[c] /\ window'[c] = 0
      /\ \A c \in Shown : printed[c] \in Nat /\ window[c] \in Nat
  BY <1>1, <1>2, CountsType DEF FunnelTypes
<1>4. FunnelTypes'
  <2>1. printed' \in [Shown -> Nat] /\ window' \in [Shown -> Nat]
    BY <1>2, <1>3, CountsType
  <2> QED BY <1>1, <1>2, <2>1, SwapOrderIs DEF FunnelTypes
<1>5. NotYetTaken'
  BY <1>3 DEF NotYetTaken
<1>6. ASSUME NEW c \in Metrics PROVE Entered(c)' = Entered(c)
  <2>1. Drained(c)' = Drained(c)
    <3>1. CASE c \in Shown
      <4>1. printed'[c] = printed[c] + window[c] /\ window'[c] = 0 /\ printed[c] \in Nat /\ window[c] \in Nat
        BY <1>3, <3>1
      <4> QED BY <3>1, <4>1 DEF Drained
    <3>2. CASE c \notin Shown
      BY <1>2, <3>2 DEF Drained
    <3> QED BY <3>1, <3>2
  <2>2. Due(c)' = Due(c)
    BY <1>2, DueStays
  <2> QED BY <1>2, <2>1, <2>2 DEF Entered
<1> QED BY <1>1, <1>4, <1>5, <1>6, BalanceStays DEF FunnelInv

LEMMA FunnelStep == ASSUME FunnelInv, [FunnelNext]_funnelVars PROVE FunnelInv'
<1>1. ASSUME UNCHANGED funnelVars PROVE FunnelInv'
  <2>1. FunnelTypes /\ NotYetTaken /\ FunnelBalances /\ UNCHANGED <<metric, window, printed, discarded, path, swapped>>
    BY <1>1 DEF FunnelInv, funnelVars
  <2>2. FunnelTypes' /\ NotYetTaken'
    BY <2>1 DEF FunnelTypes, NotYetTaken
  <2>3. FunnelBalances'
    BY <2>1, DueStays, BalanceStays DEF Entered, Drained
  <2> QED BY <2>2, <2>3 DEF FunnelInv
<1> QED BY <1>1, EnterInv, IncrementInv, SwapMetricInv, ReportInv DEF FunnelNext

\* The books of the funnel balance over the windows, for any number of tasks, wherever the
\* reporter is among its twenty swaps and each task among the increments of its walk.
THEOREM FunnelAlwaysBalances == FunnelSafety => []FunnelBalances
<1>1. FunnelInv => FunnelBalances
  BY DEF FunnelInv
<1> QED BY <1>1, FunnelInitially, FunnelStep, PTL DEF FunnelSafety

=============================================================================

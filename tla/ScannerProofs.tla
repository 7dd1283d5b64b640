---------------------------- MODULE ScannerProofs ----------------------------
(* Proofs about Scanner, for any tokens, settings, market and number of tasks. *)
EXTENDS Scanner, FiniteSetTheorems, SequenceTheorems, WellFoundedInduction, TLAPS

-----------------------------------------------------------------------------
(* Arithmetic and induction. *)

LEMMA WellOrdered == ASSUME NEW M \in SUBSET Nat, M # {} PROVE \E x \in M : \A y \in M : x <= y
<1> DEFINE R == OpToRel(<, Nat)
<1>1. IsWellFoundedOn(R, Nat)
  BY NatLessThanWellFounded
<1>2. \A x, y \in Nat : <<x, y>> \in R <=> x < y
  BY DEF OpToRel
<1> HIDE DEF R
<1>3. PICK x \in M : \A y \in M : ~(<<y, x>> \in R)
  BY <1>1, WFMin
<1>4. \A y \in M : x \in Nat /\ y \in Nat /\ ~(y < x)
  BY <1>2, <1>3
<1>5. \A y \in M : x <= y
  BY <1>4
<1> QED BY <1>5

LEMMA InductionOnSet == ASSUME NEW S \in SUBSET Nat, 0 \in S, \A n \in S : n + 1 \in S PROVE S = Nat
<1> SUFFICES ASSUME Nat \ S # {} PROVE FALSE
  OBVIOUS
<1>1. PICK x \in Nat \ S : \A y \in Nat \ S : x <= y
  BY WellOrdered
<1>2. x # 0 /\ x - 1 \in Nat /\ x - 1 < x /\ (x - 1) + 1 = x
  BY <1>1
<1> QED BY <1>1, <1>2

LEMMA Division ==
    ASSUME NEW y \in Nat, NEW s \in Nat \ {0}
    PROVE  y = s * (y \div s) + (y % s) /\ y % s \in 0..(s - 1) /\ y \div s \in Nat
BY Z3

LEMMA Remainder == ASSUME NEW s \in Nat \ {0}, NEW q \in Nat, NEW r \in 0..(s - 1) PROVE (s * q + r) % s = r
BY Z3

LEMMA RemainderLess == ASSUME NEW y \in Nat, NEW s \in Nat \ {0}, y < s PROVE y % s = y
BY Z3

LEMMA RemainderStep == ASSUME NEW y \in Nat, NEW s \in Nat \ {0}, y >= s PROVE (y - s) % s = y % s
<1> DEFINE q == y \div s
           r == y % s
<1>1. y = s * q + r /\ r \in 0..(s - 1) /\ q \in Nat
  BY Division
<1> HIDE DEF q, r
<1>2. q # 0
  BY <1>1
<1>3. q - 1 \in Nat /\ s * (q - 1) = s * q - s
  BY <1>1, <1>2
<1>4. s * q \in Nat
  BY <1>1
<1>5. y - s = s * (q - 1) + r
  BY <1>1, <1>3, <1>4
<1>6. (s * (q - 1) + r) % s = r
  BY <1>1, <1>3, Remainder
<1> QED BY <1>5, <1>6 DEF r

-----------------------------------------------------------------------------
(* all_pairs. *)

AllChecks == [amount : Nat, token : TokenMints, direct : BOOLEAN]

\* The amounts from a on, and their checks.
AmountsFrom(c, a) == {x \in a..c.max : (x - a) % c.step = 0}
ChecksFrom(c, a) == [amount : AmountsFrom(c, a), token : TokenMints, direct : BOOLEAN]

Items(s) == {s[k] : k \in 1..Len(s)}
Distinct(s) == \A j, k \in 1..Len(s) : s[j] = s[k] => j = k

\* Every direct check comes right after the free one it belongs to.
FreeFirst(s) == \A k \in 1..Len(s) : s[k].direct => k - 1 \in 1..Len(s) /\ s[k - 1] = [s[k] EXCEPT !.direct = FALSE]

\* s lists the checks of the set S, each once, the free before the direct ones.
Lists(s, S) == s \in Seq(AllChecks) /\ Items(s) = S /\ Distinct(s) /\ FreeFirst(s)

LEMMA ConfigTypes ==
    ASSUME NEW c \in Configs
    PROVE  c.min \in Nat /\ c.max \in Nat /\ c.quotes \in Nat /\ c.step \in Nat /\ c.step \in Nat \ {0} /\ c.step > 0
BY ConfigAssumption

LEMMA AmountsAhead ==
    ASSUME NEW c \in Configs, NEW a \in Nat, a <= c.max
    PROVE  AmountsFrom(c, a) = {a} \cup AmountsFrom(c, a + c.step)
<1>1. c.max \in Nat /\ c.step \in Nat \ {0} /\ c.step \in Nat /\ c.step > 0
  BY ConfigTypes
<1>2. ASSUME NEW x \in AmountsFrom(c, a) PROVE x \in {a} \cup AmountsFrom(c, a + c.step)
  <2>1. x \in Nat /\ a <= x /\ x <= c.max /\ (x - a) % c.step = 0 /\ x - a \in Nat
    BY <1>1, <1>2 DEF AmountsFrom
  <2>2. CASE x - a < c.step
    BY <1>1, <2>1, <2>2, RemainderLess
  <2>3. CASE ~(x - a < c.step)
    <3>1. x - a >= c.step /\ (x - a) - c.step = x - (a + c.step) /\ a + c.step <= x /\ a + c.step \in Nat
      BY <1>1, <2>1, <2>3
    <3>2. (x - (a + c.step)) % c.step = 0
      BY <1>1, <2>1, <3>1, RemainderStep
    <3> QED BY <1>1, <2>1, <3>1, <3>2 DEF AmountsFrom
  <2> QED BY <2>2, <2>3
<1>3. a \in AmountsFrom(c, a)
  <2>1. a - a = 0 /\ 0 % c.step = 0
    BY <1>1, RemainderLess
  <2> QED BY <1>1, <2>1 DEF AmountsFrom
<1>4. ASSUME NEW x \in AmountsFrom(c, a + c.step) PROVE x \in AmountsFrom(c, a)
  <2>1. x \in Nat /\ a + c.step <= x /\ x <= c.max /\ (x - (a + c.step)) % c.step = 0
    BY <1>1, <1>4 DEF AmountsFrom
  <2>2. /\ x - a \in Nat /\ x - a >= c.step /\ (x - a) - c.step = x - (a + c.step)
        /\ x \in a..c.max
    BY <1>1, <2>1
  <2>3. (x - a) % c.step = 0
    BY <1>1, <2>1, <2>2, RemainderStep
  <2> QED BY <2>2, <2>3 DEF AmountsFrom
<1> QED BY <1>2, <1>3, <1>4

LEMMA Halves ==
    ASSUME NEW k \in Nat
    PROVE  /\ (k + 1) \div 2 \in Nat /\ k % 2 \in {0, 1}
           /\ k % 2 = 0 => k = 2 * ((k + 1) \div 2)
           /\ k % 2 # 0 => k + 1 = 2 * ((k + 1) \div 2)
OBVIOUS

LEMMA PairsListed ==
    ASSUME NEW a \in Nat
    PROVE  Lists(PairsOf(a), [amount : {a}, token : TokenMints, direct : BOOLEAN])
<1> DEFINE n == Len(Tokens)
           s == PairsOf(a)
           half(k) == (k + 1) \div 2
<1>1. n \in Nat /\ n > 0 /\ DOMAIN Tokens = 1..n
  BY TokenAssumption, LenProperties, EmptySeq
<1>2. \A k \in 1..n : Tokens[k] \in TokenMints
  BY <1>1 DEF TokenMints
<1>3. s = [k \in 1..(2 * n) |-> [amount |-> a, token |-> Tokens[half(k)], direct |-> k % 2 = 0]]
  BY DEF PairsOf
<1> HIDE DEF n, s
<1>4. \A k \in 1..(2 * n) : /\ half(k) \in 1..n
                            /\ k % 2 = 0 => k = 2 * half(k)
                            /\ k % 2 # 0 => k + 1 = 2 * half(k)
  BY <1>1, Halves
<1>5. ASSUME NEW i \in 1..n
      PROVE  /\ 2 * i \in 1..(2 * n) /\ half(2 * i) = i /\ (2 * i) % 2 = 0
             /\ 2 * i - 1 \in 1..(2 * n) /\ half(2 * i - 1) = i /\ (2 * i - 1) % 2 # 0
  BY <1>1
<1> HIDE DEF half
<1>6. \A k \in 1..(2 * n) : /\ s[k] \in AllChecks /\ s[k].amount = a /\ s[k].token = Tokens[half(k)]
                            /\ s[k].direct = (k % 2 = 0)
                            /\ s[k] = [amount |-> a, token |-> Tokens[half(k)], direct |-> k % 2 = 0]
  BY <1>2, <1>3, <1>4 DEF AllChecks
<1>7. s \in Seq(AllChecks) /\ Len(s) = 2 * n
  <2>1. 2 * n \in Nat
    BY <1>1
  <2>2. s \in [1..(2 * n) -> AllChecks]
    BY <1>3, <1>6
  <2> QED BY <2>1, <2>2, SeqDef, LenProperties
<1>8. Items(s) = [amount : {a}, token : TokenMints, direct : BOOLEAN]
  <2>1. ASSUME NEW x \in Items(s) PROVE x \in [amount : {a}, token : TokenMints, direct : BOOLEAN]
    <3>1. PICK k \in 1..(2 * n) : x = s[k]
      BY <1>7, <2>1 DEF Items
    <3>2. x = [amount |-> a, token |-> Tokens[half(k)], direct |-> k % 2 = 0] /\ Tokens[half(k)] \in TokenMints
      BY <1>2, <1>4, <1>6, <3>1
    <3> QED BY <3>2
  <2>2. ASSUME NEW x \in [amount : {a}, token : TokenMints, direct : BOOLEAN] PROVE x \in Items(s)
    <3>1. PICK i \in 1..n : Tokens[i] = x.token
      BY <1>1, <2>2 DEF TokenMints
    <3>2. x = [amount |-> a, token |-> Tokens[i], direct |-> x.direct] /\ x.direct \in BOOLEAN
      BY <2>2, <3>1
    <3>3. CASE x.direct = TRUE
      <4>1. s[2 * i] = [amount |-> a, token |-> Tokens[i], direct |-> TRUE]
        BY <1>5, <1>6
      <4> QED BY <1>5, <1>7, <3>2, <3>3, <4>1 DEF Items
    <3>4. CASE x.direct = FALSE
      <4>1. s[2 * i - 1] = [amount |-> a, token |-> Tokens[i], direct |-> FALSE]
        BY <1>5, <1>6
      <4> QED BY <1>5, <1>7, <3>2, <3>4, <4>1 DEF Items
    <3> QED BY <3>2, <3>3, <3>4
  <2> QED BY <2>1, <2>2
<1>9. Distinct(s)
  <2> SUFFICES ASSUME NEW j \in 1..(2 * n), NEW k \in 1..(2 * n), s[j] = s[k] PROVE j = k
    BY <1>7 DEF Distinct
  <2>1. half(j) = half(k)
    <3>1. Tokens[half(j)] = s[j].token /\ Tokens[half(k)] = s[k].token
      BY <1>6
    <3>2. half(j) \in DOMAIN Tokens /\ half(k) \in DOMAIN Tokens
      BY <1>1, <1>4
    <3> QED BY <3>1, <3>2, TokenAssumption
  <2>2. (j % 2 = 0) = (k % 2 = 0)
    BY <1>6
  <2>3. CASE j % 2 = 0
    BY <1>4, <2>1, <2>2, <2>3
  <2>4. CASE j % 2 # 0
    BY <1>4, <2>1, <2>2, <2>4
  <2> QED BY <2>3, <2>4
<1>10. FreeFirst(s)
  <2> SUFFICES ASSUME NEW k \in 1..(2 * n), s[k].direct
               PROVE  k - 1 \in 1..(2 * n) /\ s[k - 1] = [s[k] EXCEPT !.direct = FALSE]
    BY <1>7 DEF FreeFirst
  <2>1. k % 2 = 0
    BY <1>6
  <2>2. PICK i \in 1..n : i = half(k)
    BY <1>4
  <2>3. k = 2 * i
    BY <1>4, <2>1, <2>2
  <2>4. s[k] = [amount |-> a, token |-> Tokens[i], direct |-> TRUE]
    BY <1>5, <1>6, <2>3
  <2>5. s[2 * i - 1] = [amount |-> a, token |-> Tokens[i], direct |-> FALSE]
    BY <1>5, <1>6
  <2>6. [s[k] EXCEPT !.direct = FALSE] = [amount |-> a, token |-> Tokens[i], direct |-> FALSE]
    <3>1. \A v, w : [[amount |-> a, token |-> Tokens[i], direct |-> v] EXCEPT !.direct = w]
                   = [amount |-> a, token |-> Tokens[i], direct |-> w]
      OBVIOUS
    <3> QED BY <2>4, <3>1, Zenon
  <2>7. k - 1 = 2 * i - 1 /\ 2 * i - 1 \in 1..(2 * n)
    BY <1>5, <2>3
  <2> QED BY <2>5, <2>6, <2>7
<1> QED BY <1>7, <1>8, <1>9, <1>10 DEF Lists, s


\* The checks of one amount, and those of the next amounts.
LEMMA ListsOn ==
    ASSUME NEW c \in Configs, NEW a \in Nat, a <= c.max, NEW t, Lists(t, ChecksFrom(c, a + c.step))
    PROVE  Lists(PairsOf(a) \o t, ChecksFrom(c, a))
<1> DEFINE s == PairsOf(a)
           u == s \o t
           S == [amount : {a}, token : TokenMints, direct : BOOLEAN]
           Later == ChecksFrom(c, a + c.step)
<1>1. Lists(s, S)
  BY PairsListed
<1>2. c.step \in Nat /\ c.step > 0 /\ c.max \in Nat
  BY ConfigTypes
<1>3. /\ s \in Seq(AllChecks) /\ t \in Seq(AllChecks) /\ Len(s) \in Nat /\ Len(t) \in Nat
      /\ u \in Seq(AllChecks) /\ Len(u) = Len(s) + Len(t)
      /\ \A k \in 1..Len(s) : u[k] = s[k]
      /\ \A k \in 1..Len(u) : k \notin 1..Len(s) => k - Len(s) \in 1..Len(t) /\ u[k] = t[k - Len(s)]
  <2>1. s \in Seq(AllChecks) /\ t \in Seq(AllChecks)
    BY <1>1 DEF Lists
  <2> HIDE DEF s
  <2>2. /\ u \in Seq(AllChecks) /\ Len(u) = Len(s) + Len(t) /\ Len(s) \in Nat /\ Len(t) \in Nat
        /\ \A k \in 1..(Len(s) + Len(t)) : u[k] = IF k <= Len(s) THEN s[k] ELSE t[k - Len(s)]
    BY <2>1, ConcatProperties, LenProperties
  <2> QED BY <2>1, <2>2
<1>4. Items(s) = S /\ Items(t) = Later
  BY <1>1 DEF Lists
<1>5. \A x \in S : x.amount = a
  OBVIOUS
<1>6. \A x \in Later : x.amount # a
  <2>1. \A y \in AmountsFrom(c, a + c.step) : y # a
    BY <1>2 DEF AmountsFrom
  <2> QED BY <2>1 DEF ChecksFrom
<1>7. ChecksFrom(c, a) = S \cup Later
  <2>1. AmountsFrom(c, a) = {a} \cup AmountsFrom(c, a + c.step)
    BY AmountsAhead
  <2>2. ASSUME NEW x \in ChecksFrom(c, a) PROVE x \in S \cup Later
    <3>1. x.amount \in {a} \cup AmountsFrom(c, a + c.step) /\ x.token \in TokenMints /\ x.direct \in BOOLEAN
          /\ x = [amount |-> x.amount, token |-> x.token, direct |-> x.direct]
      BY <2>1, <2>2 DEF ChecksFrom
    <3> QED BY <3>1 DEF ChecksFrom
  <2>3. ASSUME NEW x \in S \cup Later PROVE x \in ChecksFrom(c, a)
    <3>1. x.amount \in {a} \cup AmountsFrom(c, a + c.step) /\ x.token \in TokenMints /\ x.direct \in BOOLEAN
          /\ x = [amount |-> x.amount, token |-> x.token, direct |-> x.direct]
      BY <2>3 DEF ChecksFrom
    <3> QED BY <2>1, <3>1 DEF ChecksFrom
  <2> QED BY <2>2, <2>3
<1>8. \A k \in 1..Len(s) : s[k] \in S
  BY <1>4 DEF Items
<1>9. \A k \in 1..Len(t) : t[k] \in Later
  BY <1>4 DEF Items
<1>10. Distinct(s) /\ Distinct(t) /\ FreeFirst(s) /\ FreeFirst(t)
  BY <1>1 DEF Lists
<1> HIDE DEF s, u, S, Later
<1>11. Items(u) = S \cup Later
  <2>1. ASSUME NEW x \in Items(u) PROVE x \in S \cup Later
    <3>1. PICK k \in 1..Len(u) : x = u[k]
      BY <2>1 DEF Items
    <3> QED BY <1>3, <1>8, <1>9, <3>1
  <2>2. ASSUME NEW x \in S PROVE x \in Items(u)
    <3>1. PICK k \in 1..Len(s) : x = s[k]
      BY <1>4, <2>2 DEF Items
    <3>2. k \in 1..Len(u) /\ u[k] = x
      BY <1>3, <3>1
    <3> QED BY <3>2 DEF Items
  <2>3. ASSUME NEW x \in Later PROVE x \in Items(u)
    <3>1. PICK k \in 1..Len(t) : x = t[k]
      BY <1>4, <2>3 DEF Items
    <3>2. k + Len(s) \in 1..Len(u) /\ k + Len(s) \notin 1..Len(s) /\ (k + Len(s)) - Len(s) = k
      BY <1>3
    <3>3. u[k + Len(s)] = x
      BY <1>3, <3>1, <3>2
    <3> QED BY <3>2, <3>3 DEF Items
  <2> QED BY <2>1, <2>2, <2>3
<1>12. Distinct(u)
  <2> SUFFICES ASSUME NEW j \in 1..Len(u), NEW k \in 1..Len(u), u[j] = u[k] PROVE j = k
    BY DEF Distinct
  <2>1. CASE j \in 1..Len(s) /\ k \in 1..Len(s)
    BY <1>3, <1>10, <2>1 DEF Distinct
  <2>2. CASE j \notin 1..Len(s) /\ k \notin 1..Len(s)
    <3>1. j - Len(s) = k - Len(s)
      BY <1>3, <1>10, <2>2 DEF Distinct
    <3> QED BY <1>3, <3>1
  <2>3. CASE j \in 1..Len(s) /\ k \notin 1..Len(s)
    BY <1>3, <1>5, <1>6, <1>8, <1>9, <2>3
  <2>4. CASE j \notin 1..Len(s) /\ k \in 1..Len(s)
    BY <1>3, <1>5, <1>6, <1>8, <1>9, <2>4
  <2> QED BY <2>1, <2>2, <2>3, <2>4
<1>13. FreeFirst(u)
  <2> SUFFICES ASSUME NEW k \in 1..Len(u), u[k].direct
               PROVE  k - 1 \in 1..Len(u) /\ u[k - 1] = [u[k] EXCEPT !.direct = FALSE]
    BY DEF FreeFirst
  <2>1. CASE k \in 1..Len(s)
    <3>1. k - 1 \in 1..Len(s) /\ s[k - 1] = [s[k] EXCEPT !.direct = FALSE]
      BY <1>3, <1>10, <2>1 DEF FreeFirst
    <3>2. u[k] = s[k] /\ u[k - 1] = s[k - 1] /\ k - 1 \in 1..Len(u)
      BY <1>3, <2>1, <3>1
    <3> QED BY <3>1, <3>2
  <2>2. CASE k \notin 1..Len(s)
    <3> DEFINE j == k - Len(s)
    <3>1. j \in 1..Len(t) /\ u[k] = t[j]
      BY <1>3, <2>2
    <3>2. j - 1 \in 1..Len(t) /\ t[j - 1] = [t[j] EXCEPT !.direct = FALSE]
      BY <1>10, <3>1 DEF FreeFirst
    <3>3. k - 1 \in 1..Len(u) /\ k - 1 \notin 1..Len(s) /\ (k - 1) - Len(s) = j - 1
      BY <1>3, <3>1, <3>2
    <3>4. u[k - 1] = t[j - 1]
      BY <1>3, <3>3
    <3> QED BY <3>1, <3>2, <3>3, <3>4
  <2> QED BY <2>1, <2>2
<1>14. Lists(u, ChecksFrom(c, a))
  BY <1>3, <1>7, <1>11, <1>12, <1>13 DEF Lists
<1> QED BY <1>14 DEF u, s


\* What the loop lists from an amount on, in g.
From(g, c) == g = [a \in Nat |-> IF a > c.max THEN <<>> ELSE PairsOf(a) \o g[a + c.step]]

\* The same for the amounts within n of the greatest.
FromNear(g, c, n) ==
    \A a \in Nat : a + n > c.max => g[a] = IF a > c.max THEN <<>> ELSE PairsOf(a) \o g[a + c.step]

LEMMA FromExists == ASSUME NEW c \in Configs PROVE \E g : From(g, c)
<1> DEFINE S == {n \in Nat : \E g : g = [a \in Nat |-> g[a]] /\ FromNear(g, c, n)}
<1>1. c.max \in Nat /\ c.step \in Nat /\ c.step > 0
  BY ConfigTypes
<1>2. 0 \in S
  <2> DEFINE g == [a \in Nat |-> <<>>]
  <2>1. g = [a \in Nat |-> g[a]] /\ FromNear(g, c, 0)
    BY <1>1 DEF FromNear
  <2> HIDE DEF g
  <2> QED BY <2>1
<1>3. ASSUME NEW n \in S PROVE n + 1 \in S
  <2>1. n \in Nat
    OBVIOUS
  <2>2. PICK g : FromNear(g, c, n)
    BY <1>3
  <2> DEFINE h == [a \in Nat |-> IF a + n > c.max THEN g[a] ELSE PairsOf(a) \o g[a + c.step]]
  <2>3. ASSUME NEW a \in Nat, a + (n + 1) > c.max
        PROVE  h[a] = IF a > c.max THEN <<>> ELSE PairsOf(a) \o h[a + c.step]
    <3>1. a + c.step \in Nat /\ (a + c.step) + n > c.max
      BY <1>1, <2>1, <2>3
    <3>2. h[a + c.step] = g[a + c.step]
      BY <3>1
    <3>3. CASE a + n > c.max
      <4>1. h[a] = g[a] /\ g[a] = IF a > c.max THEN <<>> ELSE PairsOf(a) \o g[a + c.step]
        BY <2>2, <3>3 DEF FromNear
      <4> QED BY <3>2, <4>1
    <3>4. CASE ~(a + n > c.max)
      <4>1. h[a] = PairsOf(a) \o g[a + c.step] /\ ~(a > c.max)
        BY <1>1, <2>1, <3>4
      <4> QED BY <3>2, <4>1
    <3> QED BY <3>3, <3>4
  <2>4. h = [a \in Nat |-> h[a]]
    OBVIOUS
  <2> HIDE DEF h
  <2>5. FromNear(h, c, n + 1)
    BY <2>3 DEF FromNear
  <2> QED BY <2>1, <2>4, <2>5
<1> HIDE DEF S
<1>4. S = Nat
  BY <1>2, <1>3, InductionOnSet DEF S
<1>5. c.max + 1 \in S
  BY <1>1, <1>4
<1>6. PICK g : g = [a \in Nat |-> g[a]] /\ FromNear(g, c, c.max + 1)
  BY <1>5 DEF S
<1>7. \A a \in Nat : a + (c.max + 1) > c.max
  BY <1>1
<1>8. \A a \in Nat : g[a] = IF a > c.max THEN <<>> ELSE PairsOf(a) \o g[a + c.step]
  BY <1>6, <1>7 DEF FromNear
<1> QED BY <1>6, <1>8 DEF From

\* all_pairs has every wanted check once, and every direct one right after its free one.
LEMMA AllPairsListed == ASSUME NEW c \in Configs PROVE Lists(AllPairs(c), ChecksFrom(c, c.min))
<1> DEFINE g == CHOOSE f : From(f, c)
<1>1. c.max \in Nat /\ c.min \in Nat /\ c.step \in Nat /\ c.step > 0
  BY ConfigTypes
<1>2. From(g, c)
  BY FromExists
<1>3. AllPairs(c) = g[c.min]
  BY DEF AllPairs, From
<1> HIDE DEF g
<1>4. \A a \in Nat : g[a] = IF a > c.max THEN <<>> ELSE PairsOf(a) \o g[a + c.step]
  BY <1>2 DEF From
<1>5. ASSUME NEW a \in Nat, a > c.max PROVE Lists(g[a], ChecksFrom(c, a))
  <2>1. g[a] = <<>> /\ Len(<<>>) = 0 /\ <<>> \in Seq(AllChecks)
    BY <1>4, <1>5, EmptySeq
  <2>2. AmountsFrom(c, a) = {}
    BY <1>1, <1>5 DEF AmountsFrom
  <2>3. ChecksFrom(c, a) = {}
    BY <2>2 DEF ChecksFrom
  <2>4. Items(<<>>) = {} /\ Distinct(<<>>) /\ FreeFirst(<<>>)
    BY <2>1 DEF Items, Distinct, FreeFirst
  <2> QED BY <2>1, <2>3, <2>4 DEF Lists
<1> DEFINE S == {n \in Nat : \A a \in Nat : a + n > c.max => Lists(g[a], ChecksFrom(c, a))}
<1>6. 0 \in S
  BY <1>5
<1>7. ASSUME NEW n \in S PROVE n + 1 \in S
  <2>1. n \in Nat /\ \A a \in Nat : a + n > c.max => Lists(g[a], ChecksFrom(c, a))
    BY <1>7
  <2>2. ASSUME NEW a \in Nat, a + (n + 1) > c.max PROVE Lists(g[a], ChecksFrom(c, a))
    <3>1. CASE a > c.max
      BY <1>5, <3>1
    <3>2. CASE ~(a > c.max)
      <4>1. a <= c.max /\ a + c.step \in Nat /\ (a + c.step) + n > c.max
        BY <1>1, <2>1, <2>2, <3>2
      <4>2. Lists(g[a + c.step], ChecksFrom(c, a + c.step))
        BY <2>1, <4>1
      <4>3. Lists(PairsOf(a) \o g[a + c.step], ChecksFrom(c, a))
        BY <4>1, <4>2, ListsOn
      <4> QED BY <1>4, <3>2, <4>3
    <3> QED BY <3>1, <3>2
  <2> QED BY <2>1, <2>2
<1> HIDE DEF S
<1>8. S = Nat
  BY <1>6, <1>7, InductionOnSet DEF S
<1>9. c.max + 1 \in S /\ c.min + (c.max + 1) > c.max
  BY <1>1, <1>8
<1> QED BY <1>1, <1>3, <1>9 DEF S

-----------------------------------------------------------------------------
(* The invariant. *)

\* What was taken of all_pairs, and what is left, in order.
Progress ==
    /\ config \in Configs
    /\ asked \in Seq(AllChecks) /\ todo \in Seq(AllChecks)
    /\ Len(asked) + Len(todo) = Len(AllPairs(config))
    /\ \A k \in 1..Len(asked) : asked[k] = AllPairs(config)[k]
    /\ \A k \in 1..Len(todo) : todo[k] = AllPairs(config)[Len(asked) + k]

\* The checks in flight were taken, are few enough, and wait with what they were answered.
InFlight ==
    /\ DOMAIN flying \subseteq Items(asked)
    /\ IsFiniteSet(DOMAIN flying) /\ Cardinality(DOMAIN flying) <= Larger(config.quotes, 1)
    /\ \A c \in DOMAIN flying : flying[c] # None => flying[c] \in Answers(Wsol, c.token, c.amount)

\* An opportunity: the two answers to a wanted check that the loop forwards.
Offered(o) ==
    \E c \in Wanted : \E q1 \in Answers(Wsol, c.token, c.amount) :
        \E q2 \in Answers(c.token, Wsol, q1.outAmount) :
            Profitable(c, q1, q2) /\ Forwarded(c, q1, q2) /\ o = Opportunity(c, q1, q2)

Opportunities ==
    /\ DOMAIN task = Tasks /\ \A t \in Tasks : task[t] # None => Offered(task[t])
    /\ pushed # None => Offered(pushed)

ScanInv == Progress /\ InFlight /\ Opportunities

LEMMA WantedIs == Wanted = ChecksFrom(config, config.min)
BY DEF Wanted, ChecksFrom, AmountsFrom

LEMMA OfferedStays == ASSUME NEW o, Offered(o), config' = config PROVE Offered(o)'
BY DEF Offered, Wanted

LEMMA AskedWanted == ASSUME Progress PROVE Items(asked) \subseteq Wanted /\ Items(todo) \subseteq Wanted
<1> DEFINE A == AllPairs(config)
<1>1. Lists(A, ChecksFrom(config, config.min))
  BY AllPairsListed DEF Progress
<1>2. Items(A) = Wanted /\ Len(A) \in Nat /\ Len(asked) \in Nat /\ Len(todo) \in Nat
  BY <1>1, WantedIs, LenProperties DEF Lists, Progress
<1> HIDE DEF A
<1>3. ASSUME NEW k \in 1..Len(asked) PROVE asked[k] \in Wanted
  <2>1. k \in 1..Len(A) /\ asked[k] = A[k]
    BY <1>2 DEF Progress, A
  <2> QED BY <1>2, <2>1 DEF Items
<1>4. ASSUME NEW k \in 1..Len(todo) PROVE todo[k] \in Wanted
  <2>1. Len(asked) + k \in 1..Len(A) /\ todo[k] = A[Len(asked) + k]
    BY <1>2 DEF Progress, A
  <2> QED BY <1>2, <2>1 DEF Items
<1> QED BY <1>3, <1>4 DEF Items

LEMMA OffersOffered ==
    ASSUME Progress, InFlight, NEW c \in DOMAIN flying, NEW o \in Offers(c) PROVE Offered(o)
<1>1. c \in Wanted
  BY AskedWanted DEF InFlight
<1>2. flying[c] # None /\ flying[c] \in Answers(Wsol, c.token, c.amount)
  BY DEF Offers, InFlight
<1>3. PICK q2 \in Answers(c.token, Wsol, flying[c].outAmount) :
        Profitable(c, flying[c], q2) /\ Forwarded(c, flying[c], q2) /\ o = Opportunity(c, flying[c], q2)
  BY <1>2 DEF Offers, BackAnswers
<1> QED BY <1>1, <1>2, <1>3 DEF Offered

-----------------------------------------------------------------------------
(* Steps. *)

LEMMA ListedAll ==
    ASSUME NEW c \in Configs
    PROVE  AllPairs(c) \in Seq(AllChecks) /\ Len(AllPairs(c)) \in Nat
BY AllPairsListed, LenProperties DEF Lists

LEMMA ScanInitially == ASSUME Init PROVE ScanInv
<1>1. config \in Configs /\ AllPairs(config) \in Seq(AllChecks) /\ Len(AllPairs(config)) \in Nat
  BY ListedAll DEF Init
<1>2. <<>> \in Seq(AllChecks) /\ Len(<<>>) = 0
  BY EmptySeq
<1>3. Progress
  BY <1>1, <1>2 DEF Init, Progress
<1>4. InFlight
  <2>1. DOMAIN flying = {} /\ IsFiniteSet({}) /\ Cardinality({}) = 0
    BY FS_EmptySet DEF Init
  <2>2. config.quotes \in Nat
    BY <1>1, ConfigTypes
  <2> QED BY <2>1, <2>2 DEF InFlight, Larger
<1>5. Opportunities
  BY DEF Init, Opportunities
<1> QED BY <1>3, <1>4, <1>5 DEF ScanInv

LEMMA StartInv == ASSUME ScanInv, Start PROVE ScanInv'
<1> DEFINE A == AllPairs(config)
           h == Head(todo)
<1>1. /\ asked \in Seq(AllChecks) /\ todo \in Seq(AllChecks) /\ config \in Configs
      /\ Len(asked) + Len(todo) = Len(A)
      /\ \A k \in 1..Len(asked) : asked[k] = A[k]
      /\ \A k \in 1..Len(todo) : todo[k] = A[Len(asked) + k]
      /\ Len(asked) \in Nat /\ Len(todo) \in Nat
  BY LenProperties DEF ScanInv, Progress
<1>2. /\ todo # <<>> /\ todo' = Tail(todo) /\ asked' = Append(asked, h) /\ config' = config
      /\ task' = task /\ pushed' = None
  BY DEF Start
<1>3. /\ h = todo[1] /\ h \in AllChecks /\ Tail(todo) \in Seq(AllChecks)
      /\ Len(Tail(todo)) = Len(todo) - 1 /\ Len(todo) > 0
      /\ \A k \in 1..Len(Tail(todo)) : Tail(todo)[k] = todo[k + 1]
  BY <1>1, <1>2, HeadTailProperties, EmptySeq, LenProperties
<1> HIDE DEF A, h
<1>4. /\ asked' \in Seq(AllChecks) /\ Len(asked') = Len(asked) + 1
      /\ \A k \in 1..Len(asked) : asked'[k] = asked[k]
      /\ asked'[Len(asked) + 1] = h
  BY <1>1, <1>2, <1>3, AppendProperties
<1>5. Progress'
  <2>1. Len(asked') + Len(todo') = Len(A)
    BY <1>1, <1>2, <1>3, <1>4
  <2>2. ASSUME NEW k \in 1..Len(asked') PROVE asked'[k] = A[k]
    <3>1. CASE k \in 1..Len(asked)
      BY <1>1, <1>4, <3>1
    <3>2. CASE k = Len(asked) + 1
      <4>1. todo[1] = A[Len(asked) + 1]
        BY <1>1, <1>3
      <4> QED BY <1>3, <1>4, <3>2, <4>1
    <3> QED BY <1>1, <1>4, <3>1, <3>2
  <2>3. ASSUME NEW k \in 1..Len(todo') PROVE todo'[k] = A[Len(asked') + k]
    <3>1. k + 1 \in 1..Len(todo) /\ Len(asked) + (k + 1) = Len(asked') + k
      BY <1>1, <1>2, <1>3, <1>4
    <3> QED BY <1>1, <1>2, <1>3, <3>1
  <2>4. A' = A
    BY <1>2 DEF A
  <2> QED BY <1>1, <1>2, <1>3, <1>4, <2>1, <2>2, <2>3, <2>4 DEF Progress, A
<1>6. InFlight'
  <2> DEFINE D == DOMAIN flying
  <2>1. /\ flying' = [c \in D \cup {h} |-> IF c \in D THEN flying[c] ELSE None]
        /\ ~(Cardinality(D) >= Limit(config))
    BY DEF Start, Full, h
  <2>2. /\ IsFiniteSet(D) /\ D \subseteq Items(asked) /\ Cardinality(D) \in Nat
        /\ \A c \in D : flying[c] # None => flying[c] \in Answers(Wsol, c.token, c.amount)
    BY FS_CardinalityType DEF ScanInv, InFlight
  <2>3. DOMAIN flying' = D \cup {h} /\ \A c \in D \cup {h} : flying'[c] = IF c \in D THEN flying[c] ELSE None
    BY <2>1
  <2> HIDE DEF D
  <2>4. IsFiniteSet(D \cup {h}) /\ Cardinality(D \cup {h}) <= Cardinality(D) + 1 /\ Cardinality(D \cup {h}) \in Nat
    <3>1. IsFiniteSet(D \cup {h}) /\ Cardinality(D \cup {h}) = IF h \in D THEN Cardinality(D) ELSE Cardinality(D) + 1
      BY <2>2, FS_AddElement
    <3> QED BY <2>2, <3>1
  <2>5. Cardinality(D \cup {h}) <= Larger(config.quotes, 1)
    <3>1. config.quotes \in Nat /\ Len(A) \in Nat
      BY <1>1, ConfigTypes, ListedAll DEF A
    <3>2. Limit(config) \in Nat /\ Limit(config) <= Larger(config.quotes, 1) /\ Larger(config.quotes, 1) \in Nat
      BY <3>1 DEF Limit, Smaller, Larger, A
    <3> QED BY <2>1, <2>2, <2>4, <3>2
  <2>6. Items(asked) \subseteq Items(asked') /\ h \in Items(asked')
    <3>1. \A k \in 1..Len(asked) : k \in 1..Len(asked')
      BY <1>1, <1>4
    <3>2. Len(asked) + 1 \in 1..Len(asked')
      BY <1>1, <1>4
    <3> QED BY <1>4, <3>1, <3>2 DEF Items
  <2>7. \A c \in DOMAIN flying' : flying'[c] # None => flying'[c] \in Answers(Wsol, c.token, c.amount)
    BY <2>2, <2>3
  <2>8. DOMAIN flying' \subseteq Items(asked')
    BY <2>2, <2>3, <2>6
  <2> QED BY <1>2, <2>3, <2>4, <2>5, <2>7, <2>8 DEF InFlight, Items
<1>7. Opportunities'
  BY <1>2, OfferedStays DEF ScanInv, Opportunities
<1> QED BY <1>5, <1>6, <1>7 DEF ScanInv

LEMMA NextCycleInv == ASSUME ScanInv, NextCycle PROVE ScanInv'
<1>1. /\ DOMAIN flying = {} /\ todo' = AllPairs(config) /\ asked' = <<>> /\ pushed' = None
      /\ config' = config /\ flying' = flying /\ task' = task /\ config \in Configs
  BY DEF NextCycle, ScanInv, Progress
<1>2. AllPairs(config) \in Seq(AllChecks) /\ Len(AllPairs(config)) \in Nat
  BY <1>1, ListedAll
<1>3. <<>> \in Seq(AllChecks) /\ Len(<<>>) = 0
  BY EmptySeq
<1>4. Progress'
  <2>1. AllPairs(config)' = AllPairs(config)
    BY <1>1
  <2>2. Len(asked') = 0 /\ 0 + Len(AllPairs(config)) = Len(AllPairs(config))
    BY <1>1, <1>2, <1>3
  <2>3. \A k \in 1..Len(todo') : todo'[k] = AllPairs(config)[0 + k]
    BY <1>1, <1>2
  <2> QED BY <1>1, <1>2, <1>3, <2>1, <2>2, <2>3 DEF Progress
<1>5. InFlight'
  BY <1>1 DEF ScanInv, InFlight
<1>6. Opportunities'
  BY <1>1, OfferedStays DEF ScanInv, Opportunities
<1> QED BY <1>4, <1>5, <1>6 DEF ScanInv

LEMMA FlightInv ==
    ASSUME ScanInv, NEW c \in DOMAIN flying, OutQuoted(c) \/ Ends(c)
    PROVE  Progress' /\ InFlight' /\ config' = config
<1>1. UNCHANGED <<config, todo, asked>>
  BY DEF OutQuoted, Ends
<1>2. Progress'
  BY <1>1 DEF ScanInv, Progress
<1>3. ASSUME DOMAIN flying' \subseteq DOMAIN flying,
             \A d \in DOMAIN flying' : flying'[d] # None => flying'[d] \in Answers(Wsol, d.token, d.amount)
      PROVE  InFlight'
  <2>1. /\ IsFiniteSet(DOMAIN flying) /\ Cardinality(DOMAIN flying) <= Larger(config.quotes, 1)
        /\ DOMAIN flying \subseteq Items(asked) /\ config.quotes \in Nat
    BY ConfigTypes DEF ScanInv, InFlight, Progress
  <2>2. /\ IsFiniteSet(DOMAIN flying') /\ Cardinality(DOMAIN flying') <= Cardinality(DOMAIN flying)
        /\ Cardinality(DOMAIN flying') \in Nat /\ Cardinality(DOMAIN flying) \in Nat
    BY <1>3, <2>1, FS_Subset, FS_CardinalityType
  <2>3. Larger(config.quotes, 1) \in Nat
    BY <2>1 DEF Larger
  <2>4. Cardinality(DOMAIN flying') <= Larger(config.quotes, 1)
    BY <2>1, <2>2, <2>3
  <2> QED BY <1>1, <1>3, <2>1, <2>2, <2>4 DEF InFlight, Items
<1>4. CASE OutQuoted(c)
  <2>1. PICK q \in Answers(Wsol, c.token, c.amount) : flying' = [flying EXCEPT ![c] = q]
    BY <1>4 DEF OutQuoted
  <2>2. DOMAIN flying' = DOMAIN flying /\ flying'[c] = q /\ \A d \in DOMAIN flying \ {c} : flying'[d] = flying[d]
    BY <2>1
  <2>3. \A d \in DOMAIN flying' : flying'[d] # None => flying'[d] \in Answers(Wsol, d.token, d.amount)
    BY <2>1, <2>2 DEF ScanInv, InFlight
  <2> QED BY <1>1, <1>2, <1>3, <2>2, <2>3
<1>5. CASE Ends(c)
  <2>1. flying' = [d \in DOMAIN flying \ {c} |-> flying[d]]
    BY <1>5 DEF Ends
  <2>2. DOMAIN flying' \subseteq DOMAIN flying /\ \A d \in DOMAIN flying' : flying'[d] = flying[d]
    BY <2>1
  <2>3. \A d \in DOMAIN flying' : flying'[d] # None => flying'[d] \in Answers(Wsol, d.token, d.amount)
    BY <2>2 DEF ScanInv, InFlight
  <2> QED BY <1>1, <1>2, <1>3, <2>2, <2>3
<1> QED BY <1>4, <1>5

LEMMA CheckInv == ASSUME ScanInv, NEW c \in DOMAIN flying, Check(c) PROVE ScanInv'
<1>1. Progress' /\ InFlight' /\ config' = config
  BY FlightInv DEF Check, RequestFails, Unprofitable, DropPair, ServeFromStore, DropNoServe, SpawnTask
<1>2. Opportunities /\ Progress /\ InFlight
  BY DEF ScanInv
<1>3. ASSUME UNCHANGED task, pushed' = None PROVE Opportunities'
  BY <1>1, <1>2, <1>3, OfferedStays DEF Opportunities
<1>4. ASSUME OutQuoted(c) \/ RequestFails(c) \/ Unprofitable(c) \/ DropPair(c) \/ DropNoServe(c)
      PROVE  Opportunities'
  BY <1>3, <1>4 DEF OutQuoted, RequestFails, Unprofitable, DropPair, DropNoServe
<1>5. ASSUME ServeFromStore(c) PROVE Opportunities'
  <2>1. PICK o \in Offers(c) : pushed' = o
    BY <1>5 DEF ServeFromStore
  <2>2. Offered(o)'
    BY <1>1, <1>2, OffersOffered, OfferedStays
  <2>3. UNCHANGED task
    BY <1>5 DEF ServeFromStore
  <2> QED BY <1>1, <1>2, <2>1, <2>2, <2>3, OfferedStays DEF Opportunities
<1>6. ASSUME NEW t \in Tasks, SpawnTask(c, t) PROVE Opportunities'
  <2>1. PICK o \in Offers(c) : task' = [task EXCEPT ![t] = o]
    BY <1>6 DEF SpawnTask
  <2>2. Offered(o)'
    BY <1>1, <1>2, OffersOffered, OfferedStays
  <2>3. pushed' = None
    BY <1>6 DEF SpawnTask
  <2>4. DOMAIN task' = Tasks /\ task'[t] = o /\ \A u \in Tasks \ {t} : task'[u] = task[u]
    BY <1>2, <2>1 DEF Opportunities
  <2>5. ASSUME NEW u \in Tasks, task'[u] # None PROVE Offered(task[u])'
    <3>1. CASE u = t
      BY <2>2, <2>4, <3>1
    <3>2. CASE u # t
      <4>1. PICK p : p = task[u]
        OBVIOUS
      <4>2. Offered(p)'
        BY <1>1, <1>2, <2>4, <2>5, <3>2, <4>1, OfferedStays DEF Opportunities
      <4> QED BY <2>4, <3>2, <4>1, <4>2
    <3> QED BY <3>1, <3>2
  <2> QED BY <2>3, <2>4, <2>5 DEF Opportunities
<1>7. Opportunities'
  BY <1>4, <1>5, <1>6 DEF Check
<1> QED BY <1>1, <1>7 DEF ScanInv

LEMMA TaskInv == ASSUME ScanInv, NEW t \in Tasks, Task(t) PROVE ScanInv'
<1>1. /\ UNCHANGED <<config, todo, flying, asked>> /\ task[t] # None
      /\ task' = [task EXCEPT ![t] = None] /\ (pushed' = None \/ pushed' = task[t])
  BY DEF Task, TaskPushes, TaskFails
<1>2. Progress' /\ InFlight'
  BY <1>1 DEF ScanInv, Progress, InFlight
<1>3. Opportunities /\ DOMAIN task' = Tasks /\ task'[t] = None /\ \A u \in Tasks \ {t} : task'[u] = task[u]
  BY <1>1 DEF ScanInv, Opportunities
<1>4. ASSUME NEW u \in Tasks, task[u] # None PROVE \E o : o = task[u] /\ Offered(o)'
  BY <1>1, <1>3, <1>4, OfferedStays DEF Opportunities
<1>5. ASSUME NEW u \in Tasks, task'[u] # None PROVE Offered(task[u])'
  <2>1. PICK o : o = task[u] /\ Offered(o)'
    BY <1>3, <1>4, <1>5
  <2> QED BY <1>3, <1>5, <2>1
<1>6. pushed' # None => Offered(pushed)'
  <2>1. PICK o : o = task[t] /\ Offered(o)'
    BY <1>1, <1>4
  <2> QED BY <1>1, <2>1
<1> QED BY <1>2, <1>3, <1>5, <1>6 DEF ScanInv, Opportunities

LEMMA ScanStep == ASSUME ScanInv, [Next]_vars PROVE ScanInv'
<1>1. CASE UNCHANGED vars
  <2>1. UNCHANGED <<config, todo, flying, task, pushed, asked>>
    BY <1>1 DEF vars
  <2>2. Progress' /\ InFlight'
    BY <2>1 DEF ScanInv, Progress, InFlight
  <2>3. Opportunities'
    BY <2>1, OfferedStays DEF ScanInv, Opportunities
  <2> QED BY <2>2, <2>3 DEF ScanInv
<1> QED BY <1>1, StartInv, NextCycleInv, CheckInv, TaskInv DEF Next

LEMMA ScanAlways == Safety => []ScanInv
BY ScanInitially, ScanStep, PTL DEF Safety

-----------------------------------------------------------------------------
(* What the invariant says of the cycle. *)

\* Type correctness; no more checks are in flight than max_concurrent_quotes, or one, whatever
\* the settings and the order in which requests end.
THEOREM TypeCorrect == Safety => []TypeOK
<1>1. ASSUME ScanInv PROVE TypeOK
  <2>1. Items(asked) \subseteq Wanted /\ Items(todo) \subseteq Wanted
    BY <1>1, AskedWanted DEF ScanInv
  <2>2. DOMAIN todo = 1..Len(todo)
    BY <1>1, LenProperties DEF ScanInv, Progress
  <2>3. \A k \in DOMAIN todo : todo[k] \in Wanted
    BY <2>1, <2>2 DEF Items
  <2>4. ASSUME NEW t \in Tasks, task[t] # None PROVE task[t].check \in Wanted
    BY <1>1, <2>4 DEF ScanInv, Opportunities, Offered, Opportunity
  <2> QED BY <1>1, <2>1, <2>3, <2>4 DEF ScanInv, Progress, InFlight, TypeOK
<1> QED BY <1>1, ScanAlways, PTL

\* For every range of amounts, step, list of tokens and concurrency, a cycle that ends has asked
\* every wanted check, and none of them twice.
THEOREM EveryPairAlwaysOnce == Safety => []EveryPairOnce
<1>1. ASSUME ScanInv, todo = <<>> PROVE {asked[k] : k \in DOMAIN asked} = Wanted /\ Len(asked) = Cardinality(Wanted)
  <2> DEFINE A == AllPairs(config)
  <2>1. Lists(A, Wanted)
    BY <1>1, AllPairsListed, WantedIs DEF ScanInv, Progress
  <2>2. /\ Len(asked) = Len(A) /\ DOMAIN asked = 1..Len(asked) /\ Len(A) \in Nat
        /\ \A k \in 1..Len(asked) : asked[k] = A[k]
    BY <1>1, <2>1, LenProperties, EmptySeq DEF ScanInv, Progress, Lists
  <2>3. Items(A) = Wanted /\ Distinct(A)
    BY <2>1 DEF Lists
  <2> HIDE DEF A
  <2>4. {asked[k] : k \in DOMAIN asked} = Wanted
    BY <2>2, <2>3 DEF Items
  <2>5. Len(A) = Cardinality(Wanted)
    <3> DEFINE f == [k \in 1..Len(A) |-> A[k]]
    <3>1. f \in Bijection(1..Len(A), Wanted)
      BY <2>3 DEF Items, Distinct, Bijection, Injection, Surjection, IsInjective
    <3>2. ExistsBijection(1..Len(A), Wanted)
      BY <3>1 DEF ExistsBijection
    <3> QED BY <2>2, <3>2, FS_CountingElements
  <2> QED BY <2>2, <2>4, <2>5
<1>2. ScanInv => EveryPairOnce
  BY <1>1 DEF EveryPairOnce
<1> QED BY <1>2, ScanAlways, PTL

\* A direct check in flight never has its free check still to start behind it.
THEOREM FreeNeverBehind == Safety => []FreeNotBehindDirect
<1>1. ASSUME ScanInv, NEW c \in DOMAIN flying, c.direct, NEW k \in DOMAIN todo,
             todo[k] = [c EXCEPT !.direct = FALSE]
      PROVE  FALSE
  <2> DEFINE A == AllPairs(config)
             n == Len(asked)
  <2>1. Lists(A, Wanted)
    BY <1>1, AllPairsListed, WantedIs DEF ScanInv, Progress
  <2>2. /\ n \in Nat /\ Len(todo) \in Nat /\ n + Len(todo) = Len(A) /\ DOMAIN todo = 1..Len(todo)
        /\ \A j \in 1..n : asked[j] = A[j]
        /\ \A j \in 1..Len(todo) : todo[j] = A[n + j]
    BY <1>1, LenProperties DEF ScanInv, Progress
  <2>3. PICK j \in 1..n : c = asked[j]
    BY <1>1 DEF ScanInv, InFlight, Items
  <2>4. Distinct(A) /\ FreeFirst(A)
    BY <2>1 DEF Lists
  <2> HIDE DEF A, n
  <2>5. c = A[j] /\ j \in 1..Len(A) /\ k \in 1..Len(todo) /\ n + k \in 1..Len(A)
    BY <1>1, <2>2, <2>3
  <2>6. j - 1 \in 1..Len(A) /\ A[j - 1] = [c EXCEPT !.direct = FALSE]
    BY <1>1, <2>4, <2>5 DEF FreeFirst
  <2>7. A[n + k] = A[j - 1]
    BY <1>1, <2>2, <2>5, <2>6
  <2>8. n + k = j - 1
    BY <2>4, <2>5, <2>6, <2>7 DEF Distinct
  <2> QED BY <2>2, <2>3, <2>5, <2>8
<1>2. ScanInv => FreeNotBehindDirect
  BY <1>1 DEF FreeNotBehindDirect
<1> QED BY <1>2, ScanAlways, PTL

-----------------------------------------------------------------------------
(* What is pushed. *)

\* The hops of a plan, and a plan as a sequence of them.
HopsOf(plan) == {plan[k] : k \in DOMAIN plan}

LEMMA RouteLen ==
    ASSUME NEW p, NEW a, NEW b, IsRoute(p, a, b)
    PROVE  p \in Seq(HopsOf(p)) /\ Len(p) \in Nat /\ Len(p) > 0 /\ DOMAIN p = 1..Len(p)
<1>1. p \in Seq(HopsOf(p)) /\ p # <<>>
  BY DEF IsRoute, HopsOf
<1> HIDE DEF HopsOf
<1> QED BY <1>1, LenProperties, EmptySeq

\* RoundTrip, of a plan, for a token b.
ThereAndBack(r, a, b) ==
    /\ r[1].inMint = a /\ r[Len(r)].outMint = a
    /\ \A k \in DOMAIN r : k + 1 \in DOMAIN r => r[k].outMint = r[k + 1].inMint
    /\ \E k \in DOMAIN r : r[k].outMint = b
    /\ \A j, k \in DOMAIN r : j # k => r[j].ammKey # r[k].ammKey

\* Two legs that share no pool are one route there and back.
LEMMA MergedRoute ==
    ASSUME NEW p, NEW q, NEW a, NEW b, IsRoute(p, a, b), IsRoute(q, b, a),
           \A j \in DOMAIN p, k \in DOMAIN q : p[j].ammKey # q[k].ammKey
    PROVE  Len(p \o q) = Len(p) + Len(q) /\ ThereAndBack(p \o q, a, b)
<1> DEFINE m == Len(p)
           n == Len(q)
           S == HopsOf(p) \cup HopsOf(q)
           r == p \o q
<1>1. /\ p \in Seq(HopsOf(p)) /\ m \in Nat /\ m > 0 /\ DOMAIN p = 1..m
      /\ q \in Seq(HopsOf(q)) /\ n \in Nat /\ n > 0 /\ DOMAIN q = 1..n
  BY RouteLen
<1>2. p \in Seq(S) /\ q \in Seq(S)
  <2> HIDE DEF HopsOf
  <2>1. ASSUME NEW A, NEW B, NEW s \in Seq(A), A \subseteq B PROVE s \in Seq(B)
    BY <2>1, SeqDef
  <2> QED BY <1>1, <2>1
<1>3. /\ r \in Seq(S) /\ Len(r) = m + n
      /\ \A k \in 1..(m + n) : r[k] = IF k <= m THEN p[k] ELSE q[k - m]
  <2> HIDE DEF S
  <2> QED BY <1>1, <1>2, ConcatProperties
<1>4. DOMAIN r = 1..(m + n)
  BY <1>3, LenProperties
<1>5. /\ p[1].inMint = a /\ p[m].outMint = b /\ q[1].inMint = b /\ q[n].outMint = a
      /\ \A k \in 1..m : k + 1 \in 1..m => p[k].outMint = p[k + 1].inMint
      /\ \A k \in 1..n : k + 1 \in 1..n => q[k].outMint = q[k + 1].inMint
      /\ \A j, k \in 1..m : p[j].ammKey = p[k].ammKey => j = k
      /\ \A j, k \in 1..n : q[j].ammKey = q[k].ammKey => j = k
      /\ \A j \in 1..m, k \in 1..n : p[j].ammKey # q[k].ammKey
  BY <1>1 DEF IsRoute
<1> HIDE DEF m, n, r, S
<1>6. r[1] = p[1] /\ r[m] = p[m] /\ r[m + n] = q[n] /\ r[m + 1] = q[1]
  <2>1. /\ 1 \in 1..(m + n) /\ m \in 1..(m + n) /\ m + n \in 1..(m + n) /\ m + 1 \in 1..(m + n)
        /\ 1 <= m /\ m <= m /\ ~(m + n <= m) /\ ~(m + 1 <= m) /\ (m + n) - m = n /\ (m + 1) - m = 1
    BY <1>1
  <2> QED BY <1>3, <2>1
<1>7. ASSUME NEW k \in 1..(m + n), k + 1 \in 1..(m + n) PROVE r[k].outMint = r[k + 1].inMint
  <2>1. CASE k + 1 <= m
    <3>1. k \in 1..m /\ k + 1 \in 1..m /\ k <= m
      BY <1>1, <2>1
    <3> QED BY <1>3, <1>5, <1>7, <2>1, <3>1
  <2>2. CASE k = m
    BY <1>5, <1>6, <2>2
  <2>3. CASE k > m
    <3>1. /\ ~(k <= m) /\ ~(k + 1 <= m) /\ k - m \in 1..n /\ (k - m) + 1 \in 1..n /\ (k + 1) - m = (k - m) + 1
      BY <1>1, <1>7, <2>3
    <3>2. r[k] = q[k - m] /\ r[k + 1] = q[(k - m) + 1]
      BY <1>3, <1>7, <3>1
    <3> QED BY <1>5, <3>1, <3>2
  <2> QED BY <1>1, <2>1, <2>2, <2>3
<1>8. ASSUME NEW j \in 1..(m + n), NEW k \in 1..(m + n), j # k PROVE r[j].ammKey # r[k].ammKey
  <2>1. /\ j <= m => j \in 1..m /\ r[j] = p[j]
        /\ ~(j <= m) => j - m \in 1..n /\ r[j] = q[j - m]
        /\ k <= m => k \in 1..m /\ r[k] = p[k]
        /\ ~(k <= m) => k - m \in 1..n /\ r[k] = q[k - m]
        /\ j - m # k - m
    BY <1>1, <1>3, <1>8
  <2> QED BY <1>5, <1>8, <2>1
<1>9. \E k \in 1..(m + n) : r[k].outMint = b
  BY <1>1, <1>5, <1>6
<1> QED BY <1>3, <1>4, <1>5, <1>6, <1>7, <1>8, <1>9 DEF m, n, r, ThereAndBack

LEMMA WantedTypes ==
    ASSUME config \in Configs, NEW c \in Wanted
    PROVE  c.amount \in Nat /\ c.token \in TokenMints /\ c.direct \in BOOLEAN
BY ConfigTypes DEF Wanted

\* The two legs of an opportunity, as Metis planned them, meet in no pool.
LEMMA LegsMeet ==
    ASSUME NEW t \in TokenMints, NEW m, NEW n,
           NEW q1 \in Answers(Wsol, t, m), NEW q2 \in Answers(t, Wsol, n),
           CanMerge(q1, q2), ~SharePool(q1, q2)
    PROVE  /\ IsRoute(q1.plan, Wsol, t) /\ IsRoute(q2.plan, t, Wsol)
           /\ \A j \in DOMAIN q1.plan, k \in DOMAIN q2.plan : q1.plan[j].ammKey # q2.plan[k].ammKey
           /\ q1.inAmount = m /\ q2.outAmount \in Nat
<1>1. /\ q1.plan \in Plans[<<Wsol, t>>] \ {NotArray} /\ q2.plan \in Plans[<<t, Wsol>>] \ {NotArray}
      /\ q1.inAmount = m /\ q2.outAmount \in Outs[Wsol]
  BY DEF Answers, CanMerge
<1>2. IsRoute(q1.plan, Wsol, t) /\ IsRoute(q2.plan, t, Wsol) /\ q2.outAmount \in Nat
  BY <1>1, PlanAssumption
<1>3. ASSUME NEW j \in DOMAIN q1.plan, NEW k \in DOMAIN q2.plan, q1.plan[j].ammKey = q2.plan[k].ammKey
      PROVE  FALSE
  <2>1. HopList(q1.plan) = q1.plan /\ HopList(q2.plan) = q2.plan
    BY <1>1 DEF HopList
  <2>2. q1.plan[j].ammKey # NoKey
    BY <1>2 DEF IsRoute
  <2>3. q1.plan[j] \in HopInfos(q1) /\ q2.plan[k] \in HopInfos(q2)
    BY <2>1 DEF HopInfos
  <2>4. q1.plan[j].ammKey \in Pools(q1) /\ q1.plan[j].ammKey \in Pools(q2)
    BY <1>3, <2>2, <2>3 DEF Pools
  <2> QED BY <2>4 DEF SharePool
<1> QED BY <1>1, <1>2, <1>3

\* What is pushed, taken apart.
LEMMA PushedIs ==
    ASSUME ScanInv, pushed # None
    PROVE  \E c, q1, q2 :
               /\ pushed = Opportunity(c, q1, q2) /\ c.amount \in Nat
               /\ IsRoute(q1.plan, Wsol, c.token) /\ IsRoute(q2.plan, c.token, Wsol)
               /\ \A j \in DOMAIN q1.plan, k \in DOMAIN q2.plan : q1.plan[j].ammKey # q2.plan[k].ammKey
               /\ q1.plan # NotArray /\ q2.plan # NotArray
               /\ q1.inAmount = c.amount /\ q2.outAmount \in Nat
               /\ q2.outAmount > c.amount + MinProfit
               /\ c.direct => HopCount(q1, q2) = 2
<1>1. PICK c \in Wanted : \E q1 \in Answers(Wsol, c.token, c.amount) : \E q2 \in Answers(c.token, Wsol, q1.outAmount) :
          Profitable(c, q1, q2) /\ Forwarded(c, q1, q2) /\ pushed = Opportunity(c, q1, q2)
  BY DEF ScanInv, Opportunities, Offered
<1>2. PICK q1 \in Answers(Wsol, c.token, c.amount) : \E q2 \in Answers(c.token, Wsol, q1.outAmount) :
          Profitable(c, q1, q2) /\ Forwarded(c, q1, q2) /\ pushed = Opportunity(c, q1, q2)
  BY <1>1
<1>3. PICK q2 \in Answers(c.token, Wsol, q1.outAmount) :
          Profitable(c, q1, q2) /\ Forwarded(c, q1, q2) /\ pushed = Opportunity(c, q1, q2)
  BY <1>2
<1>4. c.amount \in Nat /\ c.token \in TokenMints
  BY WantedTypes DEF ScanInv, Progress
<1>5. CanMerge(q1, q2) /\ ~SharePool(q1, q2) /\ q2.outAmount > c.amount + MinProfit /\ (c.direct => HopCount(q1, q2) = 2)
  BY <1>3 DEF Profitable, Pays, Forwarded
<1>6. /\ IsRoute(q1.plan, Wsol, c.token) /\ IsRoute(q2.plan, c.token, Wsol)
      /\ \A j \in DOMAIN q1.plan, k \in DOMAIN q2.plan : q1.plan[j].ammKey # q2.plan[k].ammKey
      /\ q1.inAmount = c.amount /\ q2.outAmount \in Nat
  BY <1>4, <1>5, LegsMeet
<1> QED BY <1>3, <1>4, <1>5, <1>6 DEF CanMerge

\* Whatever Metis answers, in whatever order requests end: what is pushed, from the store or by
\* a task, goes from Wsol to the token and back, hop by hop, and through no pool twice. Of Metis
\* only that each leg by itself is such a chain (PlanAssumption).
THEOREM AlwaysRoundTrip == Safety => []RoundTrip
<1>1. ASSUME ScanInv, pushed # None
      PROVE  LET plan == pushed.merged.plan
                 hops == DOMAIN plan
             IN  /\ plan[1].inMint = Wsol /\ plan[Len(plan)].outMint = Wsol
                 /\ \A k \in hops : k + 1 \in hops => plan[k].outMint = plan[k + 1].inMint
                 /\ \E k \in hops : plan[k].outMint = pushed.check.token
                 /\ \A j, k \in hops : j # k => plan[j].ammKey # plan[k].ammKey
  <2>1. PICK c, q1, q2 :
               /\ pushed = Opportunity(c, q1, q2)
               /\ IsRoute(q1.plan, Wsol, c.token) /\ IsRoute(q2.plan, c.token, Wsol)
               /\ \A j \in DOMAIN q1.plan, k \in DOMAIN q2.plan : q1.plan[j].ammKey # q2.plan[k].ammKey
    BY <1>1, PushedIs
  <2>2. pushed.merged.plan = q1.plan \o q2.plan /\ pushed.check.token = c.token
    BY <2>1 DEF Opportunity, Merge
  <2>3. ThereAndBack(q1.plan \o q2.plan, Wsol, c.token)
    BY <2>1, MergedRoute
  <2>4. ThereAndBack(pushed.merged.plan, Wsol, pushed.check.token)
    BY <2>2, <2>3
  <2> QED BY <2>4 DEF ThereAndBack
<1>2. ScanInv => RoundTrip
  BY <1>1 DEF RoundTrip
<1> QED BY <1>2, ScanAlways, PTL

\* For every pair of legs: the hops that are counted are the hops that are swapped.
THEOREM AlwaysAsCounted == Safety => []HopsAsCounted
<1>1. ASSUME ScanInv, pushed # None
      PROVE  /\ pushed.hopCount = Len(pushed.merged.plan)
             /\ pushed.check.direct => Len(pushed.merged.plan) = 2
  <2>1. PICK c, q1, q2 :
               /\ pushed = Opportunity(c, q1, q2)
               /\ IsRoute(q1.plan, Wsol, c.token) /\ IsRoute(q2.plan, c.token, Wsol)
               /\ \A j \in DOMAIN q1.plan, k \in DOMAIN q2.plan : q1.plan[j].ammKey # q2.plan[k].ammKey
               /\ q1.plan # NotArray /\ q2.plan # NotArray
               /\ c.direct => HopCount(q1, q2) = 2
    BY <1>1, PushedIs
  <2>2. /\ pushed.merged.plan = q1.plan \o q2.plan /\ pushed.check.direct = c.direct
        /\ pushed.hopCount = HopCount(q1, q2)
    BY <2>1 DEF Opportunity, Merge
  <2>3. Len(q1.plan \o q2.plan) = Len(q1.plan) + Len(q2.plan)
    BY <2>1, MergedRoute
  <2>4. HopCount(q1, q2) = Len(q1.plan) + Len(q2.plan)
    BY <2>1 DEF HopCount, Legs
  <2> QED BY <2>1, <2>2, <2>3, <2>4
<1>2. ScanInv => HopsAsCounted
  BY <1>1 DEF HopsAsCounted
<1> QED BY <1>2, ScanAlways, PTL

\* For every amount, tip, fee and least profit: where the least profit covers tip and fee, what
\* was quoted is above the floor that the transaction is sent with, and the floor covers the cost.
THEOREM AlwaysAboveFloor == Safety => []QuotedAboveFloor
<1>1. ASSUME ScanInv, pushed # None, MinProfit >= Costs
      PROVE  /\ pushed.quoted > pushed.merged.outAmount
             /\ pushed.merged.outAmount >= pushed.merged.inAmount + Costs
             /\ pushed.merged.inAmount = pushed.check.amount
  <2>1. PICK c, q1, q2 :
               /\ pushed = Opportunity(c, q1, q2) /\ c.amount \in Nat
               /\ q1.inAmount = c.amount /\ q2.outAmount \in Nat
               /\ q2.outAmount > c.amount + MinProfit
    BY <1>1, PushedIs
  <2>2. /\ pushed.quoted = q2.outAmount /\ pushed.check = c
        /\ pushed.merged.outAmount = c.amount + Costs /\ pushed.merged.inAmount = q1.inAmount
    BY <2>1 DEF Opportunity, Merge, Floor
  <2> QED BY <1>1, <2>1, <2>2, CostsAssumption, ProfitAssumption
<1>2. ScanInv => QuotedAboveFloor
  BY <1>1 DEF QuotedAboveFloor
<1> QED BY <1>2, ScanAlways, PTL

-----------------------------------------------------------------------------
(* Signatures: what the template store may take them for. *)

\* The fields of a hop that its key is made of.
KeyFields == {"label", "ammKey", "inMint", "outMint", "flag"}

\* A route plan as Metis writes it: not an array, or hops that have these fields.
IsPlan(plan) == plan = NotArray \/ \A k \in DOMAIN plan : KeyFields \subseteq DOMAIN plan[k]

\* The signature of a hop has every field but the amounts.
LEMMA SigField ==
    ASSUME NEW plan, NEW k \in DOMAIN HopList(plan), NEW f \in DOMAIN plan[k], f # "amounts"
    PROVE  f \in DOMAIN RouteSig(plan)[k] /\ RouteSig(plan)[k][f] = plan[k][f]
BY DEF RouteSig

LEMMA SigHop ==
    ASSUME NEW p, NEW q, IsPlan(p), IsPlan(q), RouteSig(p) = RouteSig(q), NEW k \in DOMAIN HopList(p)
    PROVE  k \in DOMAIN HopList(q) /\ \A f \in KeyFields : p[k][f] = q[k][f]
<1>1. DOMAIN RouteSig(p) = DOMAIN HopList(p) /\ DOMAIN RouteSig(q) = DOMAIN HopList(q)
  BY DEF RouteSig
<1>2. k \in DOMAIN HopList(q)
  BY <1>1
<1>3. KeyFields \subseteq DOMAIN p[k] /\ KeyFields \subseteq DOMAIN q[k]
  BY <1>2 DEF IsPlan, HopList
<1>4. ASSUME NEW f \in KeyFields PROVE p[k][f] = q[k][f]
  <2>1. f # "amounts"
    BY DEF KeyFields
  <2>2. RouteSig(p)[k][f] = p[k][f] /\ RouteSig(q)[k][f] = q[k][f]
    BY <1>2, <1>3, <2>1, SigField
  <2> QED BY <2>2
<1> QED BY <1>2, <1>4

\* Two plans with one signature have the same hop keys: a template that is found by its signature
\* swaps through the pools, the mints and the directions of the route asked for, whatever else a
\* hop of either holds. The store's table of hops by route (HopsOf) is a function because of it.
THEOREM SignatureDecidesHops ==
    \A p, q : IsPlan(p) /\ IsPlan(q) /\ RouteSig(p) = RouteSig(q) => HopKeys(p) = HopKeys(q)
<1> SUFFICES ASSUME NEW p, NEW q, IsPlan(p), IsPlan(q), RouteSig(p) = RouteSig(q)
             PROVE  HopKeys(p) = HopKeys(q)
  OBVIOUS
<1>1. DOMAIN HopList(p) = DOMAIN HopList(q)
  <2>1. DOMAIN RouteSig(p) = DOMAIN HopList(p) /\ DOMAIN RouteSig(q) = DOMAIN HopList(q)
    BY DEF RouteSig
  <2> QED BY <2>1
<1>2. ASSUME NEW k \in DOMAIN HopList(p) PROVE HopKey(p[k]) = HopKey(q[k])
  <2>1. \A f \in KeyFields : p[k][f] = q[k][f]
    BY <1>2, SigHop
  <2>2. /\ p[k].label = q[k].label /\ p[k].flag = q[k].flag /\ p[k].ammKey = q[k].ammKey
        /\ p[k].inMint = q[k].inMint /\ p[k].outMint = q[k].outMint
    BY <2>1 DEF KeyFields
  <2>3. DexKind(p[k].label) = DexKind(q[k].label)
    BY <2>2
  <2>4. Direction(p[k]) = Direction(q[k])
    BY <2>2, <2>3 DEF Direction
  <2> QED BY <2>2, <2>3, <2>4 DEF HopKey
<1>3. HopKeys(p) = [k \in DOMAIN HopList(p) |-> HopKey(p[k])]
  BY DEF HopKeys
<1>4. HopKeys(q) = [k \in DOMAIN HopList(p) |-> HopKey(q[k])]
  BY <1>1 DEF HopKeys
<1> QED BY <1>2, <1>3, <1>4

=============================================================================

--------------------------- MODULE AltTablesProofs ---------------------------
(* Proofs about AltTables, for all accounts, tables and builders. *)
EXTENDS AltTables, FiniteSetTheorems, SequenceTheorems, WellFoundedInduction, TLAPS

-----------------------------------------------------------------------------
(* Induction, for sets: the well-ordering of the natural numbers. *)

LEMMA Least == ASSUME NEW T \in SUBSET Nat, T # {} PROVE \E x \in T : \A y \in T : x <= y
<1> DEFINE R == OpToRel(<, Nat)
<1>1. IsWellFoundedOn(R, Nat)
  BY NatLessThanWellFounded
<1>2. \A x, y \in Nat : <<x, y>> \in R <=> x < y
  BY DEF OpToRel
<1> HIDE DEF R
<1>3. PICK x \in T : \A y \in T : ~(<<y, x>> \in R)
  BY <1>1, WFMin
<1>4. \A y \in T : x \in Nat /\ y \in Nat /\ ~(y < x)
  BY <1>2, <1>3
<1>5. \A y \in T : x <= y
  BY <1>4
<1> QED BY <1>5

LEMMA Induction == ASSUME NEW S \in SUBSET Nat, 0 \in S, \A n \in S : n + 1 \in S PROVE S = Nat
<1> SUFFICES ASSUME Nat \ S # {} PROVE FALSE
  OBVIOUS
<1>1. PICK x \in Nat \ S : \A y \in Nat \ S : x <= y
  BY Least
<1>2. x # 0 /\ x - 1 \in Nat /\ x - 1 < x /\ (x - 1) + 1 = x
  BY <1>1
<1>3. x - 1 \in S
  BY <1>1, <1>2
<1> QED BY <1>1, <1>2, <1>3

-----------------------------------------------------------------------------
(* The tables on chain, the copies in the cache and in the builders' hands, and the built
   transactions. *)

\* The table is open and its owner never listed a tip account.
Plain(t) == chain[t] # Closed /\ Range(chain[t]) \cap Tips = {}

\* A copy of a table has no tip account, and is the beginning of the table as long as that is
\* open and had none to take out.
Copy(t, s) ==
    /\ s \in Seq(Accounts \ Tips)
    /\ Plain(t) => Len(s) <= Len(chain[t]) /\ \A k \in 1..Len(s) : s[k] = chain[t][k]

ChainOK == chain \in [Tables -> Seq(Accounts) \cup {Closed}]

CacheOK == \A t \in DOMAIN cache : t \in Tables /\ Copy(t, cache[t])

Fields == {"stage", "tip", "tables", "got", "static", "lookups"}

\* What a builder got are copies of the tables it was given, in their order.
GotOK(b) ==
    /\ build[b].tables \in Seq(Tables) /\ build[b].got \in Seq(Seq(Accounts))
    /\ Len(build[b].got) <= Len(build[b].tables)
    /\ \A k \in 1..Len(build[b].got) : Copy(build[b].tables[k], build[b].got[k])
    /\ build[b].stage = "fetch" => Len(build[b].got) < Len(build[b].tables)
    /\ build[b].stage = "store" => Len(build[b].got) > 0

\* A position that is named stands for its account.
LookupsOK(b) ==
    \A l \in build[b].lookups :
        l.table \in Tables /\ l.index \in Nat \ {0} /\ (Plain(l.table) => Stands(l))

BuiltOK(b) == build[b].stage = "built" => build[b].tip \subseteq build[b].static

AltInv ==
    /\ ChainOK /\ CacheOK
    /\ DOMAIN build = Builders
    /\ \A b \in Builders : DOMAIN build[b] = Fields /\ GotOK(b) /\ LookupsOK(b) /\ BuiltOK(b)

-----------------------------------------------------------------------------
(* What retain leaves. *)

\* g holds what is kept of the first n addresses of s, for each n up to the length given.
Keeps(g, s, n) ==
    g = [k \in 0..n |-> IF k = 0 THEN <<>>
                        ELSE IF s[k] \in Tips THEN g[k - 1] ELSE Append(g[k - 1], s[k])]

LEMMA KeepsAt ==
    ASSUME NEW g, NEW s, NEW n, Keeps(g, s, n), NEW k \in 0..n
    PROVE  g[k] = IF k = 0 THEN <<>> ELSE IF s[k] \in Tips THEN g[k - 1] ELSE Append(g[k - 1], s[k])
BY DEF Keeps

LEMMA KeepsExists == ASSUME NEW s, NEW n \in Nat PROVE \E g : Keeps(g, s, n)
<1> DEFINE S == {m \in Nat : \E g : Keeps(g, s, m)}
<1>1. 0 \in S
  <2>1. Keeps([k \in 0..0 |-> <<>>], s, 0)
    BY DEF Keeps
  <2> QED BY <2>1
<1>2. ASSUME NEW m \in S PROVE m + 1 \in S
  <2>1. m \in Nat
    OBVIOUS
  <2>2. PICK g : Keeps(g, s, m)
    BY <1>2
  <2> DEFINE next == IF s[m + 1] \in Tips THEN g[m] ELSE Append(g[m], s[m + 1])
             h == [k \in 0..(m + 1) |-> IF k = m + 1 THEN next ELSE g[k]]
  <2>3. ASSUME NEW k \in 0..(m + 1)
        PROVE  h[k] = IF k = 0 THEN <<>>
                      ELSE IF s[k] \in Tips THEN h[k - 1] ELSE Append(h[k - 1], s[k])
    <3>1. CASE k = m + 1
      <4>1. h[k] = next /\ k - 1 = m /\ k # 0
        BY <2>1, <3>1
      <4>2. h[m] = g[m]
        BY <2>1
      <4> QED BY <3>1, <4>1, <4>2
    <3>2. CASE k \in 0..m
      <4>1. h[k] = g[k] /\ (k # 0 => h[k - 1] = g[k - 1])
        BY <2>1, <3>2
      <4>2. g[k] = IF k = 0 THEN <<>> ELSE IF s[k] \in Tips THEN g[k - 1] ELSE Append(g[k - 1], s[k])
        BY <2>2, <3>2, KeepsAt
      <4> QED BY <4>1, <4>2
    <3> QED BY <2>1, <3>1, <3>2
  <2>4. h = [k \in 0..(m + 1) |-> h[k]]
    OBVIOUS
  <2> HIDE DEF h
  <2>5. Keeps(h, s, m + 1)
    BY <2>3, <2>4 DEF Keeps
  <2> QED BY <2>1, <2>5
<1> HIDE DEF S
<1>3. S = Nat
  BY <1>1, <1>2, Induction DEF S
<1> QED BY <1>3 DEF S

LEMMA RetainedIs == ASSUME NEW s \in Seq(Accounts) PROVE \E g : Keeps(g, s, Len(s)) /\ Retained(s) = g[Len(s)]
<1> DEFINE f == CHOOSE g : Keeps(g, s, Len(s))
<1>1. Keeps(f, s, Len(s))
  BY KeepsExists, LenProperties
<1>2. Retained(s) = f[Len(s)]
  BY DEF Retained, Keeps
<1> QED BY <1>1, <1>2

\* A retained list has no tip account; one of a table that had none is the table.
LEMMA RetainedProperties ==
    ASSUME NEW s \in Seq(Accounts)
    PROVE  /\ Retained(s) \in Seq(Accounts \ Tips)
           /\ Range(s) \cap Tips = {} => Len(Retained(s)) = Len(s) /\ \A k \in 1..Len(s) : Retained(s)[k] = s[k]
<1> DEFINE N == Len(s)
<1>1. PICK g : Keeps(g, s, N) /\ Retained(s) = g[N]
  BY RetainedIs
<1>2. /\ N \in Nat /\ \A k \in 1..N : s[k] \in Accounts
      /\ \A k \in 1..N : s[k] \in Range(s)
  BY LenProperties, ElementOfSeq DEF Range
<1>3. /\ g[0] = <<>>
      /\ \A k \in 1..N : g[k] = IF s[k] \in Tips THEN g[k - 1] ELSE Append(g[k - 1], s[k])
  <2>1. ASSUME NEW k \in 0..N
        PROVE  g[k] = IF k = 0 THEN <<>> ELSE IF s[k] \in Tips THEN g[k - 1] ELSE Append(g[k - 1], s[k])
    BY <1>1, KeepsAt
  <2>2. 0 \in 0..N /\ \A k \in 1..N : k \in 0..N /\ k # 0
    BY <1>2
  <2> QED BY <2>1, <2>2
<1> HIDE DEF N
<1>4. g[N] \in Seq(Accounts \ Tips)
  <2> DEFINE S == {n \in Nat : n <= N => g[n] \in Seq(Accounts \ Tips)}
  <2>1. 0 \in S
    BY <1>2, <1>3, EmptySeq
  <2>2. ASSUME NEW n \in S PROVE n + 1 \in S
    <3> SUFFICES ASSUME n + 1 <= N PROVE g[n + 1] \in Seq(Accounts \ Tips)
      OBVIOUS
    <3>1. n + 1 \in 1..N /\ (n + 1) - 1 = n /\ g[n] \in Seq(Accounts \ Tips)
      BY <1>2
    <3>2. CASE s[n + 1] \in Tips
      BY <1>3, <3>1, <3>2
    <3>3. CASE s[n + 1] \notin Tips
      <4>1. g[n + 1] = Append(g[n], s[n + 1]) /\ s[n + 1] \in Accounts \ Tips
        BY <1>2, <1>3, <3>1, <3>3
      <4> QED BY <3>1, <4>1, AppendProperties
    <3> QED BY <3>2, <3>3
  <2> HIDE DEF S
  <2>3. S = Nat
    BY <2>1, <2>2, Induction DEF S
  <2> QED BY <1>2, <2>3 DEF S
<1>5. ASSUME Range(s) \cap Tips = {}
      PROVE  Len(g[N]) = N /\ \A k \in 1..N : g[N][k] = s[k]
  <2> DEFINE S == {n \in Nat : n <= N => /\ g[n] \in Seq(Accounts) /\ Len(g[n]) = n
                                         /\ \A k \in 1..n : g[n][k] = s[k]}
  <2>1. 0 \in S
    <3>1. g[0] \in Seq(Accounts) /\ Len(g[0]) = 0 /\ \A k \in 1..0 : g[0][k] = s[k]
      BY <1>3, EmptySeq
    <3> QED BY <3>1
  <2>2. ASSUME NEW n \in S PROVE n + 1 \in S
    <3> SUFFICES ASSUME n + 1 <= N
                 PROVE  /\ g[n + 1] \in Seq(Accounts) /\ Len(g[n + 1]) = n + 1
                        /\ \A k \in 1..(n + 1) : g[n + 1][k] = s[k]
      OBVIOUS
    <3>1. /\ n + 1 \in 1..N /\ (n + 1) - 1 = n /\ n \in Nat
          /\ g[n] \in Seq(Accounts) /\ Len(g[n]) = n /\ \A k \in 1..n : g[n][k] = s[k]
      BY <1>2
    <3>2. g[n + 1] = Append(g[n], s[n + 1]) /\ s[n + 1] \in Accounts
      BY <1>2, <1>3, <1>5, <3>1
    <3>3. /\ g[n + 1] \in Seq(Accounts) /\ Len(g[n + 1]) = n + 1
          /\ \A k \in 1..n : g[n + 1][k] = g[n][k]
          /\ g[n + 1][n + 1] = s[n + 1]
      BY <3>1, <3>2, AppendProperties
    <3>4. \A k \in 1..(n + 1) : k \in 1..n \/ k = n + 1
      BY <3>1
    <3>5. \A k \in 1..(n + 1) : g[n + 1][k] = s[k]
      BY <3>1, <3>3, <3>4
    <3> QED BY <3>3, <3>5
  <2> HIDE DEF S
  <2>3. S = Nat
    BY <2>1, <2>2, Induction DEF S
  <2> QED BY <1>2, <2>3 DEF S
<1> QED BY <1>1, <1>4, <1>5 DEF N

-----------------------------------------------------------------------------
(* The chain: tables grow, or close for good. *)

LEMMA ChainGrows ==
    ASSUME ChainOK, Chain
    PROVE  /\ ChainOK'
           /\ \A t \in Tables : Plain(t)' =>
                /\ Plain(t) /\ chain[t] \in Seq(Accounts) /\ chain'[t] \in Seq(Accounts)
                /\ Len(chain[t]) <= Len(chain'[t])
                /\ \A k \in 1..Len(chain[t]) : chain'[t][k] = chain[t][k]
<1>1. PICK t \in Tables : Close(t) \/ \E a \in Listable : Extend(t, a)
  BY DEF Chain
<1>2. CASE Close(t)
  BY <1>2, LenProperties DEF Close, ChainOK, Plain
<1>3. ASSUME NEW a \in Listable, Extend(t, a)
      PROVE  /\ ChainOK'
             /\ \A u \in Tables : Plain(u)' =>
                  /\ Plain(u) /\ chain[u] \in Seq(Accounts) /\ chain'[u] \in Seq(Accounts)
                  /\ Len(chain[u]) <= Len(chain'[u])
                  /\ \A k \in 1..Len(chain[u]) : chain'[u][k] = chain[u][k]
  <2>1. /\ chain[t] # Closed /\ chain[t] \in Seq(Accounts) /\ a \in Accounts
        /\ chain' = [chain EXCEPT ![t] = Append(chain[t], a)]
        /\ chain \in [Tables -> Seq(Accounts) \cup {Closed}]
    BY <1>3, TipAssumption DEF Extend, ChainOK
  <2>2. /\ Append(chain[t], a) \in Seq(Accounts) /\ Len(chain[t]) \in Nat
        /\ Len(Append(chain[t], a)) = Len(chain[t]) + 1
        /\ \A k \in 1..Len(chain[t]) : Append(chain[t], a)[k] = chain[t][k]
    BY <2>1, AppendProperties, LenProperties
  <2>3. chain'[t] = Append(chain[t], a) /\ \A u \in Tables \ {t} : chain'[u] = chain[u]
    BY <2>1
  <2>4. ChainOK'
    BY <2>1, <2>2 DEF ChainOK
  <2>5. Range(chain[t]) \subseteq Range(chain'[t])
    <3>1. /\ DOMAIN chain[t] = 1..Len(chain[t])
          /\ DOMAIN Append(chain[t], a) = 1..(Len(chain[t]) + 1)
      BY <2>1, <2>2, LenProperties
    <3>2. \A k \in 1..Len(chain[t]) : k \in 1..(Len(chain[t]) + 1)
      BY <2>2
    <3> QED BY <2>2, <2>3, <3>1, <3>2 DEF Range
  <2>6. Plain(t)' => Plain(t)
    BY <2>1, <2>5 DEF Plain
  <2>7. ASSUME NEW u \in Tables, u # t, Plain(u)'
        PROVE  /\ Plain(u) /\ chain[u] \in Seq(Accounts) /\ chain'[u] = chain[u] /\ Len(chain[u]) \in Nat
    <3>1. chain'[u] = chain[u]
      BY <2>3, <2>7
    <3>2. Plain(u)
      BY <2>7, <3>1 DEF Plain
    <3>3. chain[u] \in Seq(Accounts)
      BY <2>1, <3>2 DEF Plain
    <3> QED BY <3>1, <3>2, <3>3, LenProperties
  <2> QED BY <2>1, <2>2, <2>3, <2>4, <2>6, <2>7
<1> QED BY <1>1, <1>2, <1>3

\* What a table's growth leaves of a copy, and of a position.
LEMMA CopyStays ==
    ASSUME ChainOK, Chain, NEW t \in Tables, NEW s, Copy(t, s) PROVE Copy(t, s)'
<1>1. s \in Seq(Accounts \ Tips) /\ Len(s) \in Nat
  BY LenProperties DEF Copy
<1>2. ASSUME Plain(t)' PROVE Len(s) <= Len(chain'[t]) /\ \A k \in 1..Len(s) : s[k] = chain'[t][k]
  <2>1. /\ Plain(t) /\ Len(chain[t]) <= Len(chain'[t]) /\ Len(chain[t]) \in Nat /\ Len(chain'[t]) \in Nat
        /\ \A k \in 1..Len(chain[t]) : chain'[t][k] = chain[t][k]
    BY <1>2, ChainGrows, LenProperties
  <2>2. Len(s) <= Len(chain[t]) /\ \A k \in 1..Len(s) : s[k] = chain[t][k]
    BY <2>1 DEF Copy
  <2>3. \A k \in 1..Len(s) : k \in 1..Len(chain[t])
    BY <1>1, <2>1, <2>2
  <2> QED BY <1>1, <2>1, <2>2, <2>3
<1> QED BY <1>1, <1>2 DEF Copy

LEMMA PositionStays ==
    ASSUME ChainOK, Chain, NEW l, l.table \in Tables, Plain(l.table) => Stands(l), Plain(l.table)'
    PROVE  Stands(l)'
<1> DEFINE t == l.table
<1>1. /\ Plain(t) /\ chain[t] \in Seq(Accounts) /\ chain'[t] \in Seq(Accounts)
      /\ Len(chain[t]) <= Len(chain'[t])
      /\ \A k \in 1..Len(chain[t]) : chain'[t][k] = chain[t][k]
  BY ChainGrows
<1>2. /\ Len(chain[t]) \in Nat /\ Len(chain'[t]) \in Nat
      /\ DOMAIN chain[t] = 1..Len(chain[t]) /\ DOMAIN chain'[t] = 1..Len(chain'[t])
  BY <1>1, LenProperties
<1>3. l.index \in 1..Len(chain[t]) /\ chain[t][l.index] = l.account
  BY <1>1, <1>2 DEF Stands, Plain
<1>4. l.index \in 1..Len(chain'[t])
  BY <1>1, <1>2, <1>3
<1> QED BY <1>1, <1>2, <1>3, <1>4 DEF Stands

LEMMA ChainInv == ASSUME AltInv, Chain PROVE AltInv'
<1>1. UNCHANGED <<cache, build>>
  BY DEF Chain, Close, Extend
<1>2. ChainOK'
  BY ChainGrows DEF AltInv
<1>3. CacheOK'
  BY <1>1, CopyStays DEF AltInv, CacheOK
<1>4. ASSUME NEW b \in Builders PROVE GotOK(b)' /\ LookupsOK(b)' /\ BuiltOK(b)'
  <2>1. GotOK(b)'
    <3>1. ASSUME NEW k \in 1..Len(build[b].got) PROVE Copy(build[b].tables[k], build[b].got[k])'
      <4>1. /\ build[b].tables \in Seq(Tables) /\ build[b].got \in Seq(Seq(Accounts))
            /\ Len(build[b].got) <= Len(build[b].tables) /\ Copy(build[b].tables[k], build[b].got[k])
        BY DEF AltInv, GotOK
      <4>2. k \in 1..Len(build[b].tables)
        BY <4>1, LenProperties
      <4>3. PICK t \in Tables : t = build[b].tables[k]
        BY <4>1, <4>2, ElementOfSeq
      <4>4. PICK s : s = build[b].got[k]
        OBVIOUS
      <4>5. Copy(t, s)'
        BY <4>1, <4>3, <4>4, CopyStays DEF AltInv
      <4> QED BY <1>1, <4>3, <4>4, <4>5 DEF Copy, Plain
    <3> QED BY <1>1, <3>1 DEF AltInv, GotOK, Copy, Plain
  <2>2. LookupsOK(b)'
    BY <1>1, PositionStays DEF AltInv, LookupsOK
  <2> QED BY <1>1, <2>1, <2>2 DEF AltInv, BuiltOK
<1> QED BY <1>1, <1>2, <1>3, <1>4 DEF AltInv

-----------------------------------------------------------------------------
(* A builder's step disturbs its own progress only. *)

LEMMA OneBuilder ==
    ASSUME AltInv, NEW b \in Builders, NEW r, build' = [build EXCEPT ![b] = r], DOMAIN r = Fields,
           chain' = chain, CacheOK', GotOK(b)', LookupsOK(b)', BuiltOK(b)'
    PROVE  AltInv'
<1>1. DOMAIN build' = Builders /\ build'[b] = r /\ \A c \in Builders \ {b} : build'[c] = build[c]
  BY DEF AltInv
<1>2. ChainOK'
  BY DEF AltInv, ChainOK
<1>3. ASSUME NEW c \in Builders \ {b}
      PROVE  DOMAIN build'[c] = Fields /\ GotOK(c)' /\ LookupsOK(c)' /\ BuiltOK(c)'
  <2>1. build'[c] = build[c] /\ DOMAIN build[c] = Fields /\ GotOK(c) /\ LookupsOK(c) /\ BuiltOK(c)
    BY <1>1 DEF AltInv
  <2>2. GotOK(c)'
    BY <2>1 DEF GotOK, Copy, Plain
  <2>3. LookupsOK(c)'
    BY <2>1 DEF LookupsOK, Stands, Plain
  <2>4. BuiltOK(c)'
    BY <2>1 DEF BuiltOK
  <2> QED BY <2>1, <2>2, <2>3, <2>4
<1> QED BY <1>1, <1>2, <1>3 DEF AltInv

LEMMA CopySame == ASSUME NEW t, NEW s, chain' = chain, Copy(t, s) PROVE Copy(t, s)'
BY DEF Copy, Plain

LEMMA CacheSame == ASSUME AltInv, UNCHANGED <<chain, cache>> PROVE CacheOK'
BY DEF AltInv, CacheOK, Copy, Plain

LEMMA RestingFields ==
    /\ DOMAIN Resting = Fields /\ Resting.stage = "idle" /\ Resting.lookups = {}
    /\ Resting.tables = <<>> /\ Resting.got = <<>> /\ Resting.tables \in Seq(Tables)
    /\ Resting.got \in Seq(Seq(Accounts)) /\ Len(Resting.got) = 0 /\ Len(Resting.tables) = 0
<1>1. <<>> \in Seq(Tables) /\ <<>> \in Seq(Seq(Accounts)) /\ Len(<<>>) = 0
  BY EmptySeq
<1> QED BY <1>1 DEF Resting, Fields

\* A builder that gives up, or is done, is at rest.
LEMMA RestInv ==
    ASSUME AltInv, NEW b \in Builders, build' = [build EXCEPT ![b] = Resting], UNCHANGED <<chain, cache>>
    PROVE  AltInv'
<1>1. build'[b] = Resting
  BY DEF AltInv
<1>2. GotOK(b)'
  <2>1. PICK r : r = Resting
    OBVIOUS
  <2>2. r.tables \in Seq(Tables) /\ r.got \in Seq(Seq(Accounts)) /\ Len(r.got) = 0 /\ Len(r.tables) = 0 /\ r.stage = "idle"
    BY <2>1, RestingFields
  <2> QED BY <1>1, <2>1, <2>2 DEF GotOK
<1>3. LookupsOK(b)' /\ BuiltOK(b)'
  BY <1>1, RestingFields DEF LookupsOK, BuiltOK
<1> QED BY <1>2, <1>3, CacheSame, OneBuilder, RestingFields

LEMMA BeginInv ==
    ASSUME AltInv, NEW b \in Builders, NEW tables \in TableLists, Begin(b, tables) PROVE AltInv'
<1> DEFINE r == [Resting EXCEPT !.stage = "lookup", !.tables = tables]
<1>1. build' = [build EXCEPT ![b] = r] /\ UNCHANGED <<chain, cache>> /\ build'[b] = r
  BY DEF Begin, AltInv
<1>2. /\ DOMAIN r = Fields /\ r.stage = "lookup" /\ r.lookups = {} /\ r.tables = tables
      /\ r.got \in Seq(Seq(Accounts)) /\ Len(r.got) = 0
  BY RestingFields DEF Fields
<1>3. tables \in Seq(Tables) /\ Len(tables) \in Nat
  <2>1. PICK n \in 0..Cardinality(Tables) : tables \in [1..n -> Tables]
    BY DEF TableLists
  <2>2. n \in Nat
    BY <2>1, FiniteAssumption, FS_CardinalityType
  <2> QED BY <2>1, <2>2, SeqDef, LenProperties
<1> HIDE DEF r
<1>4. GotOK(b)'
  BY <1>1, <1>2, <1>3 DEF GotOK
<1>5. LookupsOK(b)' /\ BuiltOK(b)'
  BY <1>1, <1>2 DEF LookupsOK, BuiltOK
<1> QED BY <1>1, <1>2, <1>4, <1>5, CacheSame, OneBuilder

-----------------------------------------------------------------------------
(* get_or_fetch. *)

LEMMA WantedIs ==
    ASSUME AltInv, NEW b \in Builders, Len(build[b].got) < Len(build[b].tables)
    PROVE  Wanted(b) \in Tables
<1>1. build[b].tables \in Seq(Tables) /\ build[b].got \in Seq(Seq(Accounts))
  BY DEF AltInv, GotOK
<1>2. Len(build[b].tables) \in Nat /\ Len(build[b].got) \in Nat
  BY <1>1, LenProperties
<1>3. Len(build[b].got) + 1 \in 1..Len(build[b].tables)
  BY <1>2
<1> QED BY <1>1, <1>3, ElementOfSeq DEF Wanted

LEMMA NotAllGot ==
    ASSUME AltInv, NEW b \in Builders, ~AllGot(b) PROVE Len(build[b].got) < Len(build[b].tables)
<1>1. /\ build[b].tables \in Seq(Tables) /\ build[b].got \in Seq(Seq(Accounts))
      /\ Len(build[b].got) <= Len(build[b].tables)
  BY DEF AltInv, GotOK
<1>2. Len(build[b].tables) \in Nat /\ Len(build[b].got) \in Nat
  BY <1>1, LenProperties
<1> QED BY <1>1, <1>2 DEF AllGot

\* One more copy, of the table wanted.
LEMMA GotInv ==
    ASSUME AltInv, NEW b \in Builders, NEW s, NEW stage \in {"lookup", "store"},
           Len(build[b].got) < Len(build[b].tables), Copy(Wanted(b), s), Got(b, s, stage),
           UNCHANGED <<chain, cache>>
    PROVE  AltInv'
<1> DEFINE g == build[b].got
           h == Append(g, s)
           r == [build[b] EXCEPT !.stage = stage, !.got = h]
<1>1. DOMAIN build[b] = Fields /\ GotOK(b) /\ LookupsOK(b)
  BY DEF AltInv
<1>2. build' = [build EXCEPT ![b] = r] /\ build'[b] = r
  BY DEF Got, AltInv
<1>3. /\ DOMAIN r = Fields /\ r.stage = stage /\ r.got = h
      /\ r.tables = build[b].tables /\ r.lookups = build[b].lookups
  BY <1>1 DEF Fields
<1>4. /\ build[b].tables \in Seq(Tables) /\ g \in Seq(Seq(Accounts)) /\ s \in Seq(Accounts)
      /\ Len(build[b].tables) \in Nat /\ Len(g) \in Nat
      /\ \A k \in 1..Len(g) : Copy(build[b].tables[k], g[k])
  <2>1. s \in Seq(Accounts \ Tips)
    BY DEF Copy
  <2>2. s \in Seq(Accounts)
    BY <2>1, SeqMonotonic
  <2> QED BY <1>1, <2>2, LenProperties DEF GotOK
<1>5. /\ h \in Seq(Seq(Accounts)) /\ Len(h) = Len(g) + 1
      /\ \A k \in 1..Len(g) : h[k] = g[k]
      /\ h[Len(g) + 1] = s
  BY <1>4, AppendProperties
<1>6. Wanted(b) = build[b].tables[Len(g) + 1]
  BY DEF Wanted
<1> HIDE DEF g, h, r
<1>7. \A k \in 1..Len(h) : Copy(build[b].tables[k], h[k])
  <2>1. \A k \in 1..Len(h) : k \in 1..Len(g) \/ k = Len(g) + 1
    BY <1>4, <1>5
  <2> QED BY <1>4, <1>5, <1>6, <2>1
<1>8. GotOK(b)'
  <2>1. Len(h) <= Len(build[b].tables) /\ Len(h) > 0
    BY <1>4, <1>5 DEF g
  <2>2. /\ r.tables \in Seq(Tables) /\ r.got \in Seq(Seq(Accounts)) /\ Len(r.got) <= Len(r.tables)
        /\ \A k \in 1..Len(r.got) : Copy(r.tables[k], r.got[k])
        /\ r.stage # "fetch" /\ Len(r.got) > 0
    BY <1>3, <1>4, <1>5, <1>7, <2>1
  <2>3. ASSUME NEW k \in 1..Len(r.got) PROVE Copy(build[b].tables[k], build[b].got[k])'
    <3>1. PICK t, u : t = r.tables[k] /\ u = r.got[k]
      OBVIOUS
    <3>2. Copy(t, u)'
      BY <2>2, <3>1, CopySame
    <3> QED BY <1>2, <3>1, <3>2
  <2> QED BY <1>2, <2>2, <2>3 DEF GotOK
<1>9. LookupsOK(b)' /\ BuiltOK(b)'
  BY <1>1, <1>2, <1>3 DEF LookupsOK, BuiltOK, Stands, Plain
<1> QED BY <1>2, <1>3, <1>8, <1>9, CacheSame, OneBuilder

\* The builder goes to another stage.
LEMMA StageInv ==
    ASSUME AltInv, NEW b \in Builders, NEW stage \in {"lookup", "fetch"},
           build' = [build EXCEPT ![b].stage = stage], chain' = chain, CacheOK',
           stage = "fetch" => Len(build[b].got) < Len(build[b].tables)
    PROVE  AltInv'
<1> DEFINE r == [build[b] EXCEPT !.stage = stage]
<1>1. DOMAIN build[b] = Fields /\ GotOK(b) /\ LookupsOK(b)
  BY DEF AltInv
<1>2. build' = [build EXCEPT ![b] = r] /\ build'[b] = r
  BY DEF AltInv
<1>3. /\ DOMAIN r = Fields /\ r.stage = stage /\ r.got = build[b].got
      /\ r.tables = build[b].tables /\ r.lookups = build[b].lookups
  BY <1>1 DEF Fields
<1> HIDE DEF r
<1>4. GotOK(b)'
  BY <1>1, <1>2, <1>3 DEF GotOK, Copy, Plain
<1>5. LookupsOK(b)' /\ BuiltOK(b)'
  BY <1>1, <1>2, <1>3 DEF LookupsOK, BuiltOK, Stands, Plain
<1> QED BY <1>2, <1>3, <1>4, <1>5, OneBuilder

LEMMA HitInv == ASSUME AltInv, NEW b \in Builders, Hit(b) PROVE AltInv'
<1>1. Len(build[b].got) < Len(build[b].tables)
  BY NotAllGot DEF Hit
<1>2. Copy(Wanted(b), cache[Wanted(b)])
  BY DEF Hit, AltInv, CacheOK
<1> QED BY <1>1, <1>2, GotInv DEF Hit

LEMMA MissInv == ASSUME AltInv, NEW b \in Builders, Miss(b) PROVE AltInv'
<1>1. Len(build[b].got) < Len(build[b].tables)
  BY NotAllGot DEF Miss
<1> QED BY <1>1, StageInv, CacheSame DEF Miss

LEMMA FetchInv == ASSUME AltInv, NEW b \in Builders, Fetch(b) PROVE AltInv'
<1>1. Len(build[b].got) < Len(build[b].tables)
  BY DEF Fetch, AltInv, GotOK
<1>2. PICK t \in Tables : t = Wanted(b)
  BY <1>1, WantedIs
<1>3. chain[t] \in Seq(Accounts) /\ Len(chain[t]) \in Nat
  <2>1. chain[t] # Closed
    BY <1>2 DEF Fetch
  <2> QED BY <2>1, LenProperties DEF AltInv, ChainOK
<1>4. Copy(t, Retained(chain[t]))
  BY <1>3, RetainedProperties DEF Copy, Plain
<1> QED BY <1>1, <1>2, <1>4, GotInv DEF Fetch

LEMMA StoreInv == ASSUME AltInv, NEW b \in Builders, Store(b) PROVE AltInv'
<1> DEFINE n == Len(build[b].got)
           t == build[b].tables[n]
           s == build[b].got[n]
<1>1. t \in Tables /\ Copy(t, s)
  <2>1. /\ build[b].tables \in Seq(Tables) /\ build[b].got \in Seq(Seq(Accounts))
        /\ n <= Len(build[b].tables) /\ n > 0
        /\ \A k \in 1..n : Copy(build[b].tables[k], build[b].got[k])
    BY DEF Store, AltInv, GotOK
  <2>2. n \in 1..n /\ n \in 1..Len(build[b].tables)
    BY <2>1, LenProperties
  <2> QED BY <2>1, <2>2, ElementOfSeq
<1>2. /\ cache' = [k \in DOMAIN cache \cup {t} |-> IF k = t THEN s ELSE cache[k]]
      /\ build' = [build EXCEPT ![b].stage = "lookup"] /\ chain' = chain
  BY DEF Store
<1> HIDE DEF t, s
<1>3. ASSUME NEW k \in DOMAIN cache' PROVE k \in Tables /\ Copy(k, cache'[k])
  <2>1. k \in DOMAIN cache \cup {t} /\ cache'[k] = IF k = t THEN s ELSE cache[k]
    BY <1>2
  <2> QED BY <1>1, <2>1 DEF AltInv, CacheOK
<1>4. CacheOK'
  <2>1. ASSUME NEW k \in DOMAIN cache' PROVE Copy(k, cache[k])'
    <3>1. PICK u : u = cache'[k]
      OBVIOUS
    <3>2. Copy(k, u)'
      BY <1>2, <1>3, <3>1, CopySame
    <3> QED BY <3>1, <3>2
  <2> QED BY <1>3, <2>1 DEF CacheOK
<1> QED BY <1>2, <1>4, StageInv

-----------------------------------------------------------------------------
(* try_compile. *)

LEMMA PositionIs ==
    ASSUME NEW s \in Seq(Accounts), NEW a \in Range(s)
    PROVE  Position(s, a) \in 1..Len(s) /\ s[Position(s, a)] = a
<1> DEFINE T == {n \in 1..Len(s) : s[n] = a}
<1>1. DOMAIN s = 1..Len(s) /\ Len(s) \in Nat
  BY LenProperties
<1>2. T # {} /\ T \in SUBSET Nat
  BY <1>1 DEF Range
<1>3. PICK n \in T : \A m \in T : n <= m
  BY <1>2, Least
<1>4. \A m \in 1..(n - 1) : s[m] # a
  <2> SUFFICES ASSUME NEW m \in 1..(n - 1), s[m] = a PROVE FALSE
    OBVIOUS
  <2>1. m \in 1..Len(s) /\ ~(n <= m)
    BY <1>1, <1>3
  <2> QED BY <1>3, <2>1
<1>5. \E k \in DOMAIN s : s[k] = a /\ \A m \in 1..(k - 1) : s[m] # a
  BY <1>1, <1>3, <1>4
<1> QED BY <1>1, <1>5 DEF Position

LEMMA LookupIs ==
    ASSUME NEW b \in Builders, NEW used, NEW l \in Lookups(b, used)
    PROVE  \E k \in 1..Len(build[b].got) :
             /\ l = [table |-> build[b].tables[k], index |-> Position(build[b].got[k], l.account), account |-> l.account]
             /\ l.account \in used /\ FoundIn(b, k, l.account)
BY DEF Lookups

\* A position found in a copy stands for its account in the table, and is not a tip account's.
LEMMA LookupStands ==
    ASSUME AltInv, NEW b \in Builders, NEW used, NEW l \in Lookups(b, used)
    PROVE  /\ l.table \in Tables /\ l.index \in Nat \ {0} /\ l.account \in used \ Tips
           /\ Plain(l.table) => Stands(l)
<1>1. PICK k \in 1..Len(build[b].got) :
        /\ l = [table |-> build[b].tables[k], index |-> Position(build[b].got[k], l.account), account |-> l.account]
        /\ l.account \in used /\ FoundIn(b, k, l.account)
  BY LookupIs
<1> DEFINE s == build[b].got[k]
           t == build[b].tables[k]
<1>2. /\ build[b].tables \in Seq(Tables) /\ build[b].got \in Seq(Seq(Accounts))
      /\ Len(build[b].got) <= Len(build[b].tables) /\ Copy(t, s)
  BY DEF AltInv, GotOK
<1>3. Len(build[b].tables) \in Nat /\ Len(build[b].got) \in Nat
  BY <1>2, LenProperties
<1>4. k \in 1..Len(build[b].tables)
  BY <1>2, <1>3
<1>5. t \in Tables /\ s \in Seq(Accounts)
  BY <1>2, <1>4, ElementOfSeq
<1>6. l.table = t /\ l.index = Position(s, l.account) /\ l.account \in Range(s)
  BY <1>1 DEF FoundIn, Lists
<1> HIDE DEF s, t
<1>7. l.index \in 1..Len(s) /\ s[l.index] = l.account /\ Len(s) \in Nat
  BY <1>5, <1>6, PositionIs, LenProperties
<1>8. l.account \notin Tips
  <2>1. s \in Seq(Accounts \ Tips)
    BY <1>2 DEF Copy
  <2>2. s[l.index] \in Accounts \ Tips
    BY <1>7, <2>1, ElementOfSeq
  <2> QED BY <1>7, <2>2
<1>9. ASSUME Plain(t) PROVE Stands(l)
  <2>1. chain[t] \in Seq(Accounts)
    BY <1>5, <1>9 DEF AltInv, ChainOK, Plain
  <2>2. Len(s) <= Len(chain[t]) /\ \A m \in 1..Len(s) : s[m] = chain[t][m]
    BY <1>2, <1>9 DEF Copy
  <2>3. DOMAIN chain[t] = 1..Len(chain[t]) /\ Len(chain[t]) \in Nat
    BY <2>1, LenProperties
  <2>4. l.index \in 1..Len(chain[t])
    BY <1>7, <2>2, <2>3
  <2> QED BY <1>6, <1>7, <2>2, <2>3, <2>4 DEF Stands
<1> QED BY <1>1, <1>5, <1>6, <1>7, <1>8, <1>9

LEMMA CompileInv ==
    ASSUME AltInv, NEW b \in Builders, NEW uses \in SUBSET (Accounts \ Tips), NEW tip \in Tips,
           Compile(b, uses, tip)
    PROVE  AltInv'
<1> DEFINE used == uses \cup {tip}
           found == Lookups(b, used)
           r == [Resting EXCEPT !.stage = "built", !.tip = {tip}, !.lookups = found,
                                !.static = used \ {l.account : l \in found}]
<1>1. build' = [build EXCEPT ![b] = r] /\ UNCHANGED <<chain, cache>>
  BY DEF Compile
<1>2. build'[b] = r
  BY <1>1 DEF AltInv
<1>3. /\ DOMAIN r = Fields /\ r.stage = "built" /\ r.tip = {tip} /\ r.lookups = found
      /\ r.static = used \ {l.account : l \in found}
      /\ r.tables \in Seq(Tables) /\ r.got \in Seq(Seq(Accounts)) /\ Len(r.tables) = 0 /\ Len(r.got) = 0
  BY RestingFields DEF Resting, Fields
<1>4. \A l \in found : /\ l.table \in Tables /\ l.index \in Nat \ {0} /\ l.account \notin Tips
                       /\ Plain(l.table) => Stands(l)
  BY LookupStands
<1>5. tip \in used \ {l.account : l \in found}
  BY <1>4
<1> HIDE DEF found, r
<1>7. GotOK(b)'
  BY <1>2, <1>3 DEF GotOK
<1>8. LookupsOK(b)'
  BY <1>1, <1>2, <1>3, <1>4 DEF LookupsOK, Stands, Plain
<1>9. BuiltOK(b)'
  BY <1>2, <1>3, <1>5 DEF BuiltOK
<1> QED BY <1>1, <1>3, <1>7, <1>8, <1>9, CacheSame, OneBuilder

-----------------------------------------------------------------------------
LEMMA AltInitially == ASSUME Init PROVE AltInv
<1>1. ChainOK
  BY EmptySeq DEF Init, ChainOK
<1>2. CacheOK
  BY DEF Init, CacheOK
<1>3. ASSUME NEW b \in Builders PROVE DOMAIN build[b] = Fields /\ GotOK(b) /\ LookupsOK(b) /\ BuiltOK(b)
  <2>1. PICK r : r = Resting
    OBVIOUS
  <2>2. /\ DOMAIN r = Fields /\ r.stage = "idle" /\ r.lookups = {}
        /\ r.tables \in Seq(Tables) /\ r.got \in Seq(Seq(Accounts)) /\ Len(r.got) = 0 /\ Len(r.tables) = 0
    BY <2>1, RestingFields
  <2>3. build[b] = r
    BY <2>1 DEF Init
  <2> QED BY <2>2, <2>3 DEF GotOK, LookupsOK, BuiltOK
<1> QED BY <1>1, <1>2, <1>3 DEF AltInv, Init

LEMMA AltStep == ASSUME AltInv, [Next]_vars PROVE AltInv'
<1>1. CASE Chain
  BY <1>1, ChainInv
<1>2. ASSUME NEW b \in Builders, Builder(b) PROVE AltInv'
  <2>1. ASSUME NEW tables \in TableLists, Begin(b, tables) PROVE AltInv'
    BY <2>1, BeginInv
  <2>2. CASE Hit(b)
    BY <2>2, HitInv
  <2>3. CASE Miss(b)
    BY <2>3, MissInv
  <2>4. CASE Fetch(b)
    BY <2>4, FetchInv
  <2>5. CASE FetchFails(b)
    BY <2>5, RestInv DEF FetchFails
  <2>6. CASE Store(b)
    BY <2>6, StoreInv
  <2>7. ASSUME NEW uses \in SUBSET (Accounts \ Tips), NEW tip \in Tips, Compile(b, uses, tip) PROVE AltInv'
    BY <2>7, CompileInv
  <2>8. ASSUME NEW uses \in SUBSET (Accounts \ Tips), NEW tip \in Tips, CompileFails(b, uses, tip) PROVE AltInv'
    BY <2>8, RestInv DEF CompileFails
  <2>9. CASE Finish(b)
    BY <2>9, RestInv DEF Finish
  <2> QED BY <1>2, <2>1, <2>2, <2>3, <2>4, <2>5, <2>6, <2>7, <2>8, <2>9 DEF Builder
<1>3. CASE UNCHANGED vars
  <2>1. chain' = chain /\ cache' = cache /\ build' = build
    BY <1>3 DEF vars
  <2>2. ChainOK' /\ CacheOK'
    BY <2>1, CacheSame DEF AltInv, ChainOK
  <2>3. ASSUME NEW b \in Builders PROVE GotOK(b)' /\ LookupsOK(b)' /\ BuiltOK(b)'
    <3>0. GotOK(b)
      BY DEF AltInv
    <3>1. GotOK(b)'
      BY <2>1, <3>0 DEF GotOK, Copy, Plain
    <3>2. LookupsOK(b)'
      BY <2>1 DEF AltInv, LookupsOK, Stands, Plain
    <3> QED BY <2>1, <3>1, <3>2 DEF AltInv, BuiltOK
  <2> QED BY <2>1, <2>2, <2>3 DEF AltInv
<1> QED BY <1>1, <1>2, <1>3 DEF Next

LEMMA AltAlways == Safety => []AltInv
BY AltInitially, AltStep, PTL DEF Safety

\* Every position that a built transaction names stands for the account it was compiled from, in
\* every table that is still open and lists no tip account: whatever the tables, the number of
\* builders that share the cache and the order in which they fetch and store.
THEOREM PositionsResolve == Safety => []ResolvesAsBuilt
<1>1. AltInv => ResolvesAsBuilt
  BY DEF AltInv, LookupsOK, ResolvesAsBuilt, Plain
<1> QED BY <1>1, AltAlways, PTL

\* The tip account of a built transaction is always a static key, never a position in a table,
\* also when a table lists it.
THEOREM TipAlwaysStatic == Safety => []TipIsStatic
<1>1. AltInv => TipIsStatic
  BY DEF AltInv, BuiltOK, TipIsStatic
<1> QED BY <1>1, AltAlways, PTL

-----------------------------------------------------------------------------
(* When no owner lists a tip account. *)

OnlyListable == \A t \in Tables : chain[t] # Closed => Range(chain[t]) \subseteq Listable

LEMMA OnlyListableStep == ASSUME ChainOK, OnlyListable, [Next]_vars PROVE OnlyListable'
<1>1. CASE UNCHANGED chain
  BY <1>1 DEF OnlyListable
<1>2. ASSUME NEW t \in Tables, Close(t) PROVE OnlyListable'
  BY <1>2 DEF Close, ChainOK, OnlyListable
<1>3. ASSUME NEW t \in Tables, NEW a \in Listable, Extend(t, a) PROVE OnlyListable'
  <2>1. /\ chain[t] \in Seq(Accounts) /\ a \in Accounts /\ chain[t] # Closed
        /\ chain'[t] = Append(chain[t], a) /\ \A u \in Tables \ {t} : chain'[u] = chain[u]
    BY <1>3, TipAssumption DEF Extend, ChainOK
  <2>2. /\ Append(chain[t], a) \in Seq(Accounts) /\ Len(Append(chain[t], a)) = Len(chain[t]) + 1
        /\ \A k \in 1..Len(chain[t]) : Append(chain[t], a)[k] = chain[t][k]
        /\ Append(chain[t], a)[Len(chain[t]) + 1] = a
    BY <2>1, AppendProperties
  <2>3. /\ Len(chain[t]) \in Nat /\ DOMAIN chain[t] = 1..Len(chain[t])
        /\ DOMAIN Append(chain[t], a) = 1..(Len(chain[t]) + 1)
    BY <2>1, <2>2, LenProperties
  <2>4. \A k \in 1..(Len(chain[t]) + 1) : k \in 1..Len(chain[t]) \/ k = Len(chain[t]) + 1
    BY <2>3
  <2>5. \A k \in 1..Len(chain[t]) : chain[t][k] \in Listable
    BY <2>1, <2>3 DEF OnlyListable, Range
  <2>6. Range(chain'[t]) \subseteq Listable
    BY <2>1, <2>2, <2>3, <2>4, <2>5 DEF Range
  <2> QED BY <2>1, <2>6 DEF OnlyListable
<1>4. Next => Chain \/ UNCHANGED chain
  BY DEF Next, Builder, Begin, Hit, Miss, Fetch, FetchFails, Store, Compile, CompileFails, Finish
<1> QED BY <1>1, <1>2, <1>3, <1>4 DEF Chain, vars

\* What the comment of build_arb_transaction says of every transaction is true as long as no
\* table lists a tip account, for all tables and builders: the run that refutes it needs one.
THEOREM ResolvesWithoutTips == ASSUME Listable \cap Tips = {} PROVE Safety => []ResolvesAlways
<1>1. Init => OnlyListable
  BY EmptySeq DEF Init, OnlyListable, Range
<1>2. AltInv /\ OnlyListable /\ [Next]_vars => OnlyListable'
  BY OnlyListableStep DEF AltInv
<1>3. AltInv /\ OnlyListable => ResolvesAlways
  BY DEF AltInv, LookupsOK, Plain, OnlyListable, ResolvesAlways, Stands
<1> QED BY <1>1, <1>2, <1>3, AltAlways, PTL DEF Safety

-----------------------------------------------------------------------------
(* How far a tip account shifts what is listed behind it. *)

\* A copy is short of the table by the tip accounts ahead of each address.
CameWhole(t, s) == \A k \in 1..Len(s) : Came(t, s[k], k)

ShiftInv ==
    /\ \A t \in DOMAIN cache : CameWhole(t, cache[t])
    /\ \A b \in Builders :
         /\ \A j \in 1..Len(build[b].got) : CameWhole(build[b].tables[j], build[b].got[j])
         /\ \A l \in build[b].lookups : Came(l.table, l.account, l.index)

LEMMA AheadIs ==
    ASSUME NEW s, NEW n \in Nat \ {0}
    PROVE  /\ Ahead(s, n) \in Nat /\ Ahead(s, 1) = 0
           /\ Ahead(s, n + 1) = Ahead(s, n) + (IF s[n] \in Tips THEN 1 ELSE 0)
<1> DEFINE T(i) == {m \in 1..(i - 1) : s[m] \in Tips}
<1>1. IsFiniteSet(1..(n - 1)) /\ T(n) \in SUBSET (1..(n - 1))
  BY FS_Interval
<1>2. IsFiniteSet(T(n)) /\ Cardinality(T(n)) \in Nat
  BY <1>1, FS_Subset, FS_CardinalityType
<1>3. T(1) = {} /\ Cardinality({}) = 0
  BY FS_EmptySet
<1>4. CASE s[n] \in Tips
  <2>1. T(n + 1) = T(n) \cup {n} /\ n \notin T(n)
    BY <1>4
  <2> HIDE DEF T
  <2>2. Cardinality(T(n) \cup {n}) = Cardinality(T(n)) + 1
    BY <1>2, <2>1, FS_AddElement
  <2>3. Cardinality(T(n + 1)) = Cardinality(T(n)) + 1
    BY <2>1, <2>2
  <2> QED BY <1>2, <1>3, <1>4, <2>3 DEF Ahead, T
<1>5. CASE s[n] \notin Tips
  <2>1. T(n + 1) = T(n)
    BY <1>5
  <2> HIDE DEF T
  <2>2. Cardinality(T(n + 1)) = Cardinality(T(n)) + 0
    BY <1>2, <2>1
  <2> QED BY <1>2, <1>3, <1>5, <2>2 DEF Ahead, T
<1> QED BY <1>4, <1>5

\* retain moves an address forward by the tip accounts that it drops ahead of it.
LEMMA RetainedShift ==
    ASSUME NEW s \in Seq(Accounts), NEW k \in 1..Len(Retained(s))
    PROVE  \E n \in 1..Len(s) : s[n] = Retained(s)[k] /\ n = k + Ahead(s, n)
<1> DEFINE N == Len(s)
<1>1. PICK g : Keeps(g, s, N) /\ Retained(s) = g[N]
  BY RetainedIs
<1>2. N \in Nat /\ \A i \in 1..N : s[i] \in Accounts
  BY LenProperties, ElementOfSeq
<1>3. /\ g[0] = <<>>
      /\ \A i \in 1..N : g[i] = IF s[i] \in Tips THEN g[i - 1] ELSE Append(g[i - 1], s[i])
  <2>1. ASSUME NEW i \in 0..N
        PROVE  g[i] = IF i = 0 THEN <<>> ELSE IF s[i] \in Tips THEN g[i - 1] ELSE Append(g[i - 1], s[i])
    BY <1>1, KeepsAt
  <2>2. 0 \in 0..N /\ \A i \in 1..N : i \in 0..N /\ i # 0
    BY <1>2
  <2> QED BY <2>1, <2>2
<1> HIDE DEF N
<1> DEFINE Shifted(m) == /\ g[m] \in Seq(Accounts) /\ m = Len(g[m]) + Ahead(s, m + 1)
                         /\ \A i \in 1..Len(g[m]) : \E n \in 1..m : s[n] = g[m][i] /\ n = i + Ahead(s, n)
           S == {m \in Nat : m <= N => Shifted(m)}
<1>4. 0 \in S
  <2>1. g[0] \in Seq(Accounts) /\ Len(g[0]) = 0 /\ Ahead(s, 0 + 1) = 0
    BY <1>3, EmptySeq, AheadIs
  <2>2. \A i \in 1..Len(g[0]) : \E n \in 1..0 : s[n] = g[0][i] /\ n = i + Ahead(s, n)
    BY <2>1
  <2>3. 0 = Len(g[0]) + Ahead(s, 0 + 1)
    BY <2>1
  <2> QED BY <2>1, <2>2, <2>3
<1>5. ASSUME NEW m \in S PROVE m + 1 \in S
  <2> SUFFICES ASSUME m + 1 <= N PROVE Shifted(m + 1)
    OBVIOUS
  <2>1. m \in Nat /\ m + 1 \in 1..N /\ (m + 1) - 1 = m /\ m <= N
    BY <1>2
  <2>2. Shifted(m)
    BY <2>1
  <2>3. PICK p, e : p = g[m] /\ e = s[m + 1]
    OBVIOUS
  <2>4. /\ p \in Seq(Accounts) /\ Len(p) \in Nat /\ e \in Accounts /\ m = Len(p) + Ahead(s, m + 1)
        /\ \A i \in 1..Len(p) : \E n \in 1..m : s[n] = p[i] /\ n = i + Ahead(s, n)
    BY <1>2, <2>1, <2>2, <2>3, LenProperties
  <2>5. /\ Ahead(s, m + 1) \in Nat
        /\ Ahead(s, (m + 1) + 1) = Ahead(s, m + 1) + (IF e \in Tips THEN 1 ELSE 0)
    <3>1. m + 1 \in Nat \ {0}
      BY <2>1
    <3> QED BY <2>3, <3>1, AheadIs
  <2>6. \A n \in 1..m : n \in 1..(m + 1)
    BY <2>1
  <2>7. CASE e \in Tips
    <3>1. g[m + 1] = p
      BY <1>3, <2>1, <2>3, <2>7
    <3>2. m + 1 = Len(p) + Ahead(s, (m + 1) + 1)
      BY <2>1, <2>4, <2>5, <2>7
    <3>3. \A i \in 1..Len(p) : \E n \in 1..(m + 1) : s[n] = p[i] /\ n = i + Ahead(s, n)
      BY <2>4, <2>6
    <3> QED BY <2>4, <3>1, <3>2, <3>3
  <2>8. CASE e \notin Tips
    <3>1. g[m + 1] = Append(p, e)
      BY <1>3, <2>1, <2>3, <2>8
    <3>2. PICK q : q = Append(p, e)
      OBVIOUS
    <3>3. /\ q \in Seq(Accounts) /\ Len(q) = Len(p) + 1 /\ q[Len(p) + 1] = e
          /\ \A i \in 1..Len(p) : q[i] = p[i]
      BY <2>4, <3>2, AppendProperties
    <3>4. m + 1 = Len(q) + Ahead(s, (m + 1) + 1)
      <4>1. Ahead(s, (m + 1) + 1) = Ahead(s, m + 1) + 0
        BY <2>5, <2>8
      <4>2. m \in Nat /\ Len(p) \in Nat /\ Ahead(s, m + 1) \in Nat /\ m = Len(p) + Ahead(s, m + 1)
        BY <2>1, <2>4, <2>5
      <4>3. m + 1 = (Len(p) + 1) + (Ahead(s, m + 1) + 0)
        BY <4>2
      <4> QED BY <3>3, <4>1, <4>3
    <3>5. ASSUME NEW i \in 1..Len(q) PROVE \E n \in 1..(m + 1) : s[n] = q[i] /\ n = i + Ahead(s, n)
      <4>1. i \in 1..Len(p) \/ i = Len(p) + 1
        BY <2>4, <3>3
      <4>2. CASE i \in 1..Len(p)
        BY <2>4, <2>6, <3>3, <4>2
      <4>3. CASE i = Len(p) + 1
        <5>1. m + 1 = i + Ahead(s, m + 1) /\ m + 1 \in 1..(m + 1)
          BY <2>1, <2>4, <2>5, <4>3
        <5> QED BY <2>3, <3>3, <4>3, <5>1
      <4> QED BY <4>1, <4>2, <4>3
    <3>6. q \in Seq(Accounts) /\ g[m + 1] = q
      BY <3>1, <3>2, <3>3
    <3> HIDE DEF Shifted
    <3>7. Shifted(m + 1) <=>
            /\ g[m + 1] \in Seq(Accounts) /\ m + 1 = Len(g[m + 1]) + Ahead(s, (m + 1) + 1)
            /\ \A i \in 1..Len(g[m + 1]) : \E n \in 1..(m + 1) : s[n] = g[m + 1][i] /\ n = i + Ahead(s, n)
      BY DEF Shifted
    <3> QED BY <3>4, <3>5, <3>6, <3>7
  <2> QED BY <2>7, <2>8
<1>6. Shifted(N)
  <2> HIDE DEF S, Shifted
  <2>1. S = Nat
    BY <1>4, <1>5, Induction DEF S
  <2> QED BY <1>2, <2>1 DEF S
<1> QED BY <1>1, <1>6 DEF N

\* Whatever a step does, a table that is open after it begins as it did before.
LEMMA OpenGrows ==
    ASSUME ChainOK, [Next]_vars, NEW t \in Tables, chain'[t] # Closed
    PROVE  /\ chain[t] # Closed /\ chain[t] \in Seq(Accounts) /\ chain'[t] \in Seq(Accounts)
           /\ Len(chain[t]) <= Len(chain'[t])
           /\ \A k \in 1..Len(chain[t]) : chain'[t][k] = chain[t][k]
<1>1. CASE UNCHANGED chain
  BY <1>1, LenProperties DEF ChainOK
<1>2. ASSUME NEW u \in Tables, Close(u)
      PROVE  chain[t] # Closed /\ chain[t] \in Seq(Accounts) /\ chain'[t] = chain[t]
  BY <1>2 DEF Close, ChainOK
<1>3. ASSUME NEW u \in Tables, NEW a \in Listable, Extend(u, a)
      PROVE  /\ chain[t] # Closed /\ chain[t] \in Seq(Accounts)
             /\ chain'[t] = chain[t] \/ (chain'[t] = Append(chain[t], a) /\ a \in Accounts)
  BY <1>3, TipAssumption DEF Extend, ChainOK
<1>4. Next => Chain \/ UNCHANGED chain
  BY DEF Next, Builder, Begin, Hit, Miss, Fetch, FetchFails, Store, Compile, CompileFails, Finish
<1>5. CASE Chain
  <2>1. chain[t] # Closed /\ chain[t] \in Seq(Accounts)
    BY <1>2, <1>3, <1>5 DEF Chain
  <2>2. CASE chain'[t] = chain[t]
    BY <2>1, <2>2, LenProperties
  <2>3. ASSUME NEW a \in Accounts, chain'[t] = Append(chain[t], a)
        PROVE  /\ chain'[t] \in Seq(Accounts) /\ Len(chain[t]) <= Len(chain'[t])
               /\ \A k \in 1..Len(chain[t]) : chain'[t][k] = chain[t][k]
    BY <2>1, <2>3, AppendProperties, LenProperties
  <2> QED BY <1>2, <1>3, <1>5, <2>1, <2>2, <2>3 DEF Chain
<1> QED BY <1>1, <1>4, <1>5 DEF vars

LEMMA CameStays ==
    ASSUME ChainOK, [Next]_vars, NEW t \in Tables, NEW a, NEW k, Came(t, a, k) PROVE Came(t, a, k)'
<1> SUFFICES ASSUME chain'[t] # Closed
             PROVE  \E n \in 1..Len(chain'[t]) : chain'[t][n] = a /\ n = k + Ahead(chain'[t], n)
  BY DEF Came, Ahead
<1>1. /\ chain[t] # Closed /\ Len(chain[t]) \in Nat /\ Len(chain'[t]) \in Nat
      /\ Len(chain[t]) <= Len(chain'[t])
      /\ \A m \in 1..Len(chain[t]) : chain'[t][m] = chain[t][m]
  BY OpenGrows, LenProperties
<1>2. PICK n \in 1..Len(chain[t]) : chain[t][n] = a /\ n = k + Ahead(chain[t], n)
  BY <1>1 DEF Came
<1>3. n \in 1..Len(chain'[t]) /\ \A m \in 1..(n - 1) : m \in 1..Len(chain[t])
  BY <1>1
<1>4. {m \in 1..(n - 1) : chain'[t][m] \in Tips} = {m \in 1..(n - 1) : chain[t][m] \in Tips}
  BY <1>1, <1>3
<1>5. Ahead(chain'[t], n) = Ahead(chain[t], n)
  BY <1>4 DEF Ahead
<1> QED BY <1>1, <1>2, <1>3, <1>5

LEMMA WholeStays ==
    ASSUME ChainOK, [Next]_vars, NEW t \in Tables, NEW s, CameWhole(t, s) PROVE CameWhole(t, s)'
<1>1. ASSUME NEW k \in 1..Len(s) PROVE Came(t, s[k], k)'
  <2>1. PICK a : a = s[k]
    OBVIOUS
  <2>2. Came(t, a, k)'
    BY <2>1, CameStays DEF CameWhole
  <2> QED BY <2>1, <2>2
<1> QED BY <1>1 DEF CameWhole

\* The tables that a builder's copies are of.
LEMMA GotTables ==
    ASSUME AltInv, NEW b \in Builders
    PROVE  /\ Len(build[b].got) \in Nat
           /\ \A j \in 1..Len(build[b].got) : build[b].tables[j] \in Tables /\ build[b].got[j] \in Seq(Accounts)
<1>1. /\ build[b].tables \in Seq(Tables) /\ build[b].got \in Seq(Seq(Accounts))
      /\ Len(build[b].got) <= Len(build[b].tables)
  BY DEF AltInv, GotOK
<1>2. Len(build[b].tables) \in Nat /\ Len(build[b].got) \in Nat
  BY <1>1, LenProperties
<1>3. \A j \in 1..Len(build[b].got) : j \in 1..Len(build[b].tables)
  BY <1>1, <1>2
<1> QED BY <1>1, <1>2, <1>3, ElementOfSeq

LEMMA CacheShift == ASSUME AltInv, ShiftInv, [Next]_vars PROVE \A t \in DOMAIN cache' : CameWhole(t, cache'[t])
<1> SUFFICES ASSUME NEW t \in DOMAIN cache' PROVE CameWhole(t, cache'[t])
  OBVIOUS
<1>1. CASE UNCHANGED cache
  BY <1>1 DEF ShiftInv
<1>2. ASSUME NEW b \in Builders, Store(b) PROVE CameWhole(t, cache'[t])
  <2> DEFINE n == Len(build[b].got)
             u == build[b].tables[n]
  <2>1. n \in 1..n
    BY <1>2, GotTables DEF Store, AltInv, GotOK
  <2>2. CameWhole(u, build[b].got[n])
    BY <2>1 DEF ShiftInv
  <2>3. cache' = [k \in DOMAIN cache \cup {u} |-> IF k = u THEN build[b].got[n] ELSE cache[k]]
    BY <1>2 DEF Store
  <2> HIDE DEF u
  <2>4. CASE t = u
    BY <2>2, <2>3, <2>4
  <2>5. CASE t # u
    BY <2>3, <2>5 DEF ShiftInv
  <2> QED BY <2>4, <2>5
<1>3. Next => UNCHANGED cache \/ \E b \in Builders : Store(b)
  BY DEF Next, Chain, Close, Extend, Builder, Begin, Hit, Miss, Fetch, FetchFails, Compile, CompileFails, Finish
<1> QED BY <1>1, <1>2, <1>3 DEF vars

\* What a builder comes to hold: what it held, nothing, or one more table as the cache or the
\* chain has it.
LEMMA GotShift ==
    ASSUME AltInv, ShiftInv, [Next]_vars, NEW b \in Builders, NEW j \in 1..Len(build'[b].got)
    PROVE  CameWhole(build'[b].tables[j], build'[b].got[j])
<1>0. /\ DOMAIN build = Builders /\ DOMAIN build[b] = Fields /\ Len(build[b].got) \in Nat
      /\ build[b].got \in Seq(Seq(Accounts))
  BY GotTables DEF AltInv, GotOK
<1>1. CASE build'[b].got = build[b].got /\ build'[b].tables = build[b].tables
  BY <1>1 DEF ShiftInv
<1>2. CASE Len(build'[b].got) = 0
  BY <1>2
<1>3. ASSUME NEW s \in Seq(Accounts), NEW stage, Got(b, s, stage), CameWhole(Wanted(b), s)
      PROVE  CameWhole(build'[b].tables[j], build'[b].got[j])
  <2>1. build'[b].got = Append(build[b].got, s) /\ build'[b].tables = build[b].tables
    BY <1>0, <1>3 DEF Got, Fields
  <2>2. /\ Len(build'[b].got) = Len(build[b].got) + 1
        /\ \A k \in 1..Len(build[b].got) : build'[b].got[k] = build[b].got[k]
        /\ build'[b].got[Len(build[b].got) + 1] = s
    BY <1>0, <2>1, AppendProperties
  <2>3. j \in 1..Len(build[b].got) \/ j = Len(build[b].got) + 1
    BY <1>0, <2>2
  <2> QED BY <1>3, <2>1, <2>2, <2>3 DEF Wanted, ShiftInv
<1>4. CASE Hit(b)
  <2>1. Wanted(b) \in DOMAIN cache /\ Got(b, cache[Wanted(b)], "lookup")
    BY <1>4 DEF Hit
  <2>2. cache[Wanted(b)] \in Seq(Accounts) /\ CameWhole(Wanted(b), cache[Wanted(b)])
    <3>1. cache[Wanted(b)] \in Seq(Accounts \ Tips)
      BY <2>1 DEF AltInv, CacheOK, Copy
    <3> QED BY <2>1, <3>1, SeqMonotonic DEF ShiftInv
  <2>3. PICK s : s = cache[Wanted(b)]
    OBVIOUS
  <2> QED BY <1>3, <2>1, <2>2, <2>3
<1>5. CASE Fetch(b)
  <2>1. PICK t, s : t = Wanted(b) /\ s = Retained(chain[t])
    OBVIOUS
  <2>2. chain[t] \in Seq(Accounts) /\ Got(b, s, "store")
    <3>1. Len(build[b].got) < Len(build[b].tables)
      BY <1>5 DEF Fetch, AltInv, GotOK
    <3>2. t \in Tables /\ chain[t] # Closed
      BY <1>5, <2>1, <3>1, WantedIs DEF Fetch
    <3> QED BY <1>5, <2>1, <3>2 DEF Fetch, AltInv, ChainOK
  <2>3. s \in Seq(Accounts)
    <3>1. s \in Seq(Accounts \ Tips)
      BY <2>1, <2>2, RetainedProperties
    <3> QED BY <3>1, SeqMonotonic
  <2>4. CameWhole(t, s)
    <3>1. ASSUME NEW k \in 1..Len(s)
          PROVE  \E n \in 1..Len(chain[t]) : chain[t][n] = s[k] /\ n = k + Ahead(chain[t], n)
      BY <2>1, <2>2, RetainedShift
    <3> QED BY <3>1 DEF CameWhole, Came
  <2> QED BY <1>3, <2>1, <2>2, <2>3, <2>4
<1>6. ASSUME build' = [build EXCEPT ![b] = Resting] PROVE Len(build'[b].got) = 0
  <2>1. build'[b] = Resting
    BY <1>0, <1>6
  <2> QED BY <2>1, RestingFields
<1>7. ASSUME NEW tables, Begin(b, tables) PROVE Len(build'[b].got) = 0
  <2>1. build'[b].got = Resting.got
    BY <1>0, <1>7 DEF Begin, Resting
  <2> QED BY <2>1, RestingFields
<1>8. ASSUME NEW uses, NEW tip, Compile(b, uses, tip) PROVE Len(build'[b].got) = 0
  <2>1. build'[b].got = Resting.got
    BY <1>0, <1>8 DEF Compile, Resting
  <2> QED BY <2>1, RestingFields
<1>9. CASE Miss(b) \/ Store(b)
  BY <1>0, <1>1, <1>9 DEF Miss, Store, Fields
<1>10. ASSUME NEW c \in Builders \ {b}, Builder(c) PROVE build'[b] = build[b]
  BY <1>0, <1>10
     DEF Builder, Begin, Hit, Miss, Fetch, Got, FetchFails, Store, Compile, CompileFails, Finish
<1>11. CASE Builder(b)
  BY <1>2, <1>4, <1>5, <1>6, <1>7, <1>8, <1>9, <1>11 DEF Builder, FetchFails, CompileFails, Finish
<1>12. CASE UNCHANGED build
  BY <1>1, <1>12
<1>13. Chain => UNCHANGED build
  BY DEF Chain, Close, Extend
<1> QED BY <1>1, <1>10, <1>11, <1>12, <1>13 DEF Next, vars

LEMMA LookupCame ==
    ASSUME AltInv, ShiftInv, NEW b \in Builders, NEW used, NEW l \in Lookups(b, used)
    PROVE  Came(l.table, l.account, l.index)
<1>1. PICK k \in 1..Len(build[b].got) :
        /\ l = [table |-> build[b].tables[k], index |-> Position(build[b].got[k], l.account), account |-> l.account]
        /\ l.account \in used /\ FoundIn(b, k, l.account)
  BY LookupIs
<1>2. PICK s, a : s = build[b].got[k] /\ a = l.account
  OBVIOUS
<1>3. s \in Seq(Accounts) /\ a \in Range(s) /\ CameWhole(build[b].tables[k], s)
  BY <1>1, <1>2, GotTables DEF FoundIn, Lists, ShiftInv
<1>4. Position(s, a) \in 1..Len(s) /\ s[Position(s, a)] = a
  BY <1>3, PositionIs
<1>5. Came(build[b].tables[k], a, Position(s, a))
  BY <1>3, <1>4 DEF CameWhole
<1>6. l.table = build[b].tables[k] /\ l.index = Position(s, a)
  BY <1>1, <1>2
<1> QED BY <1>2, <1>5, <1>6

LEMMA LookupsShift ==
    ASSUME AltInv, ShiftInv, [Next]_vars, NEW b \in Builders, NEW l \in build'[b].lookups
    PROVE  l.table \in Tables /\ Came(l.table, l.account, l.index)
<1>0. DOMAIN build = Builders /\ DOMAIN build[b] = Fields
  BY DEF AltInv
<1>1. CASE build'[b].lookups = build[b].lookups
  BY <1>1 DEF AltInv, LookupsOK, ShiftInv
<1>2. ASSUME NEW uses \in SUBSET (Accounts \ Tips), NEW tip \in Tips, Compile(b, uses, tip)
      PROVE  l.table \in Tables /\ Came(l.table, l.account, l.index)
  <2>1. build'[b].lookups = Lookups(b, uses \cup {tip})
    BY <1>0, <1>2 DEF Compile, Resting
  <2> QED BY <2>1, LookupCame, LookupStands
<1>3. ASSUME build' = [build EXCEPT ![b] = Resting] PROVE FALSE
  <2>1. build'[b] = Resting
    BY <1>0, <1>3
  <2> QED BY <2>1, RestingFields
<1>4. ASSUME NEW tables, Begin(b, tables) PROVE FALSE
  <2>1. build'[b].lookups = Resting.lookups
    BY <1>0, <1>4 DEF Begin, Resting
  <2> QED BY <2>1, RestingFields
<1>5. CASE Hit(b) \/ Miss(b) \/ Fetch(b) \/ Store(b)
  BY <1>0, <1>1, <1>5 DEF Hit, Miss, Fetch, Store, Got, Fields
<1>6. ASSUME NEW c \in Builders \ {b}, Builder(c) PROVE build'[b] = build[b]
  BY <1>0, <1>6
     DEF Builder, Begin, Hit, Miss, Fetch, Got, FetchFails, Store, Compile, CompileFails, Finish
<1>7. CASE Builder(b)
  BY <1>2, <1>3, <1>4, <1>5, <1>7 DEF Builder, FetchFails, CompileFails, Finish
<1>8. Chain => UNCHANGED build
  BY DEF Chain, Close, Extend
<1> QED BY <1>1, <1>6, <1>7, <1>8 DEF Next, vars

LEMMA ShiftStep == ASSUME AltInv, AltInv', ShiftInv, [Next]_vars PROVE ShiftInv'
<1>0. ChainOK
  BY DEF AltInv
<1>1. ASSUME NEW t \in DOMAIN cache' PROVE CameWhole(t, cache[t])'
  <2>1. PICK s : s = cache'[t]
    OBVIOUS
  <2>2. t \in Tables /\ CameWhole(t, s)
    BY <2>1, CacheShift DEF AltInv, CacheOK
  <2>3. CameWhole(t, s)'
    BY <1>0, <2>2, WholeStays
  <2> QED BY <2>1, <2>3
<1>2. ASSUME NEW b \in Builders, NEW j \in 1..Len(build'[b].got)
      PROVE  CameWhole(build[b].tables[j], build[b].got[j])'
  <2>1. PICK t, s : t = build'[b].tables[j] /\ s = build'[b].got[j]
    OBVIOUS
  <2>2. t \in Tables
    <3>1. /\ build'[b].tables \in Seq(Tables) /\ build'[b].got \in Seq(Seq(Accounts))
          /\ Len(build'[b].got) <= Len(build'[b].tables)
      BY DEF AltInv, GotOK
    <3>2. j \in 1..Len(build'[b].tables)
      BY <3>1, LenProperties
    <3> QED BY <2>1, <3>1, <3>2, ElementOfSeq
  <2>3. CameWhole(t, s)
    BY <2>1, GotShift
  <2>4. CameWhole(t, s)'
    BY <1>0, <2>2, <2>3, WholeStays
  <2> QED BY <2>1, <2>4
<1>3. ASSUME NEW b \in Builders, NEW l \in build'[b].lookups PROVE Came(l.table, l.account, l.index)'
  <2>1. PICK t, a, k : t = l.table /\ a = l.account /\ k = l.index
    OBVIOUS
  <2>2. t \in Tables /\ Came(t, a, k)
    BY <2>1, LookupsShift
  <2>3. Came(t, a, k)'
    BY <1>0, <2>2, CameStays
  <2> QED BY <2>1, <2>3 DEF Came
<1> QED BY <1>1, <1>2, <1>3 DEF ShiftInv

LEMMA ShiftInit == Init => ShiftInv
<1> SUFFICES ASSUME Init PROVE ShiftInv
  OBVIOUS
<1>1. DOMAIN cache = {}
  BY DEF Init
<1>2. ASSUME NEW b \in Builders PROVE Len(build[b].got) = 0 /\ build[b].lookups = {}
  BY RestingFields DEF Init
<1>3. ASSUME NEW b \in Builders, NEW j \in 1..Len(build[b].got) PROVE FALSE
  BY <1>2, <1>3
<1> QED BY <1>1, <1>2, <1>3 DEF ShiftInv

\* However the table has grown, and however many builders have stored copies of it, a position is
\* short of its account's place in the open table by exactly the tip accounts ahead of it.
THEOREM ShiftIsTipsAhead == Safety => []ShiftedByTips
<1>1. AltInv /\ ShiftInv /\ [Next]_vars => ShiftInv'
  BY AltStep, ShiftStep
<1>2. ShiftInv => ShiftedByTips
  BY DEF ShiftInv, ShiftedByTips
<1> QED BY <1>1, <1>2, ShiftInit, AltAlways, PTL DEF Safety

\* No tip account up to the position.
TiplessUpTo(t, k) == \A n \in 1..k : chain[t][n] \notin Tips

\* Of a table that lists tip accounts, the positions before the first of them stand still.
StandsBeforeTips ==
    \A b \in Builders : \A l \in build[b].lookups :
        chain[l.table] # Closed /\ TiplessUpTo(l.table, l.index) => Stands(l)

LEMMA AheadBound ==
    ASSUME NEW s, NEW k \in Nat \ {0}, NEW n \in Nat, k < n, \A m \in 1..k : s[m] \notin Tips
    PROVE  Ahead(s, n) < n - k
<1> DEFINE T == {m \in 1..(n - 1) : s[m] \in Tips}
<1>1. T \subseteq (k + 1)..(n - 1)
  OBVIOUS
<1>2. CASE k + 1 > n - 1
  <2>1. T = {}
    BY <1>1, <1>2
  <2> QED BY <2>1, FS_EmptySet DEF Ahead
<1>3. CASE ~(k + 1 > n - 1)
  <2> HIDE DEF T
  <2>1. /\ IsFiniteSet((k + 1)..(n - 1)) /\ Cardinality((k + 1)..(n - 1)) = n - 1 - k
    BY <1>3, FS_Interval
  <2>2. Cardinality(T) <= Cardinality((k + 1)..(n - 1))
    BY <1>1, <2>1, FS_Subset
  <2>3. Cardinality(T) \in Nat
    BY <1>1, <2>1, FS_Subset, FS_CardinalityType
  <2> QED BY <2>1, <2>2, <2>3 DEF Ahead, T
<1> QED BY <1>2, <1>3

\* A transaction is wrong only at or behind a tip account: for all tables, copies and builders,
\* a position of an open table with no tip account up to it stands for its account.
THEOREM PositionsBeforeTipsStand == Safety => []StandsBeforeTips
<1>1. ASSUME AltInv, ShiftedByTips PROVE StandsBeforeTips
  <2> SUFFICES ASSUME NEW b \in Builders, NEW l \in build[b].lookups,
                      chain[l.table] # Closed, TiplessUpTo(l.table, l.index)
               PROVE  Stands(l)
    BY DEF StandsBeforeTips
  <2>1. PICK s, k : s = chain[l.table] /\ k = l.index
    OBVIOUS
  <2>2. s \in Seq(Accounts) /\ k \in Nat \ {0} /\ Len(s) \in Nat /\ DOMAIN s = 1..Len(s)
    <3>1. s \in Seq(Accounts)
      BY <1>1, <2>1 DEF AltInv, LookupsOK, ChainOK
    <3> QED BY <1>1, <2>1, <3>1, LenProperties DEF AltInv, LookupsOK
  <2>3. PICK n \in 1..Len(s) : s[n] = l.account /\ n = k + Ahead(s, n)
    BY <1>1, <2>1 DEF ShiftedByTips, Came
  <2>4. Ahead(s, n) \in Nat
    BY <2>3, AheadIs
  <2>5. ~(k < n)
    <3> SUFFICES ASSUME k < n PROVE FALSE
      OBVIOUS
    <3>1. \A m \in 1..k : s[m] \notin Tips
      BY <2>1 DEF TiplessUpTo
    <3>2. n \in Nat
      BY <2>2, <2>3
    <3>3. Ahead(s, n) < n - k
      BY <2>2, <3>1, <3>2, AheadBound
    <3> QED BY <2>2, <2>3, <2>4, <3>2, <3>3
  <2>6. n = k
    BY <2>2, <2>3, <2>4, <2>5
  <2> QED BY <2>1, <2>2, <2>3, <2>6 DEF Stands
<1> QED BY <1>1, AltAlways, ShiftIsTipsAhead, PTL

=============================================================================

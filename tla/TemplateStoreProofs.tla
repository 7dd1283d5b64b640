------------------------- MODULE TemplateStoreProofs -------------------------
(* Proofs about TemplateStore and the bytes it patches (AmountPatch), for any routes,
   layouts, amounts, tasks, capacity, switches, byte size and width. *)
EXTENDS TemplateStore, FiniteSetTheorems, SequenceTheorems, TLAPS

-----------------------------------------------------------------------------
(* discover_offsets and patch_amounts_b64. *)

\* The members of instruction data. (That the bytes of an amount are numbers below Base
\* takes an induction over the width, and is not needed.)
ByteValues == Nat \cup {Bytes(x[1])[x[2]] : x \in Nat \X (1..Width)}

\* The arguments of the two functions: some data, with the two amounts that Metis wrote
\* into it at position p, one after the other.
Written(data, p, inAmount, out) ==
    /\ data \in Seq(ByteValues)
    /\ p \in Starts(data)
    /\ Holds(data, p, inAmount)
    /\ Holds(data, p + Width, out)

-----------------------------------------------------------------------------
LEMMA BytesType == ASSUME NEW n \in Nat PROVE Bytes(n) \in Seq(ByteValues) /\ Len(Bytes(n)) = Width
<1>1. ASSUME NEW k \in 1..Width PROVE Bytes(n)[k] \in ByteValues
  <2>1. <<n, k>> \in Nat \X (1..Width)
    OBVIOUS
  <2> QED BY <2>1 DEF ByteValues
<1>2. Bytes(n) \in [1..Width -> ByteValues]
  BY <1>1 DEF Bytes
<1> QED BY <1>2, WidthAssumption

\* A unique match is that element, and otherwise there is no offset.
LEMMA UniqueOf ==
    ASSUME NEW S, NEW p \in S
    PROVE  Unique(S) \in {p, NoOffset}
<1>1. CASE \E q \in S : S = {q}
  BY <1>1 DEF Unique
<1>2. CASE ~ \E q \in S : S = {q}
  BY <1>2 DEF Unique
<1> QED BY <1>1, <1>2

\* discover_offsets finds the amounts where Metis wrote them, or nothing, in the case that
\* its first pass is for: Metis wrote the quoted amount it was given.
LEMMA DiscoverExact ==
    ASSUME NEW data, NEW p, NEW inAmount, NEW quotedOut, Written(data, p, inAmount, quotedOut)
    PROVE  DiscoverOffsets(data, inAmount, quotedOut) \in {p, NoOffset}
<1>1. p \in PairAt(data, inAmount, quotedOut)
  BY DEF Written, PairAt
<1> QED BY <1>1, UniqueOf DEF DiscoverOffsets

\* And in the case of the second pass: Metis wrote something else, and the pair that was
\* looked for does not occur by accident.
LEMMA DiscoverOther ==
    ASSUME NEW data, NEW p, NEW inAmount, NEW quotedOut, NEW out, Written(data, p, inAmount, out),
           PairAt(data, inAmount, quotedOut) = {}
    PROVE  DiscoverOffsets(data, inAmount, quotedOut) \in {p, NoOffset}
<1>1. p \in AmountAt(data, inAmount)
  BY DEF Written, AmountAt
<1> QED BY <1>1, UniqueOf DEF DiscoverOffsets

\* The code's comment "collisions ... are effectively impossible", as the second pass needs it.
NoAccident(data, inAmount, quotedOut, out) ==
    out = quotedOut \/ PairAt(data, inAmount, quotedOut) = {}

\* discover_offsets of template_cache.rs never points anywhere but at the two amounts that
\* Metis wrote, whatever else is in the data: an ambiguous search is given up.
THEOREM DiscoverSound ==
    ASSUME NEW data, NEW p, NEW inAmount, NEW quotedOut, NEW out,
           Written(data, p, inAmount, out), NoAccident(data, inAmount, quotedOut, out)
    PROVE  DiscoverOffsets(data, inAmount, quotedOut) \in {p, NoOffset}
BY DiscoverExact, DiscoverOther DEF NoAccident

-----------------------------------------------------------------------------
\* The result of patch_amounts_b64 at p holds the two new amounts there, and differs from
\* the data nowhere else.
LEMMA PatchHolds ==
    ASSUME NEW data \in Seq(ByteValues), NEW p \in Starts(data), NEW newIn, NEW newOut
    PROVE  LET new == PatchAmounts(data, p, newIn, newOut)
           IN  /\ DOMAIN new = DOMAIN data
               /\ Holds(new, p, newIn) /\ Holds(new, p + Width, newOut)
               /\ \A k \in DOMAIN data : k \notin p..(p + 2 * Width - 1) => new[k] = data[k]
<1> DEFINE new == PatchAmounts(data, p, newIn, newOut)
<1>1. /\ Width \in Nat /\ 1 <= Width
      /\ p \in Nat /\ 1 <= p /\ p + 2 * Width - 1 <= Len(data)
      /\ DOMAIN data = 1..Len(data) /\ Len(data) \in Nat
  BY WidthAssumption DEF Starts
<1>2. DOMAIN new = DOMAIN data
  BY DEF PatchAmounts
<1>3. ASSUME NEW k \in 1..Width PROVE new[p + k - 1] = Bytes(newIn)[k]
  <2> DEFINE j == p + k - 1
  <2>1. j \in DOMAIN data /\ j - p \in 0..(Width - 1) /\ j - p + 1 = k
    BY <1>1
  <2> HIDE DEF j
  <2>2. new[j] = Bytes(newIn)[j - p + 1]
    BY <2>1 DEF PatchAmounts
  <2> QED BY <2>1, <2>2 DEF j
<1>4. ASSUME NEW k \in 1..Width PROVE new[p + Width + k - 1] = Bytes(newOut)[k]
  <2> DEFINE j == p + Width + k - 1
  <2>1. /\ j \in DOMAIN data /\ j - p \notin 0..(Width - 1) /\ j - p \in Width..(2 * Width - 1)
        /\ j - p - Width + 1 = k
    BY <1>1
  <2> HIDE DEF j
  <2>2. new[j] = Bytes(newOut)[j - p - Width + 1]
    BY <2>1 DEF PatchAmounts
  <2> QED BY <2>1, <2>2 DEF j
<1>5. ASSUME NEW k \in DOMAIN data, k \notin p..(p + 2 * Width - 1) PROVE new[k] = data[k]
  <2>1. k - p \notin 0..(Width - 1) /\ k - p \notin Width..(2 * Width - 1)
    BY <1>1, <1>5
  <2> QED BY <2>1 DEF PatchAmounts
<1> HIDE DEF new
<1>6. Holds(new, p, newIn)
  BY <1>3 DEF Holds
<1>7. Holds(new, p + Width, newOut)
  BY <1>4 DEF Holds
<1> QED BY <1>2, <1>5, <1>6, <1>7 DEF new

-----------------------------------------------------------------------------
(* The two segments. *)

\* The segments and the files hold finitely many routes: their sizes can be compared.
FiniteStore ==
    /\ IsFiniteSet(DOMAIN hot) /\ IsFiniteSet(DOMAIN cold)
    /\ IsFiniteSet(DOMAIN flush.routes) /\ IsFiniteSet(DOMAIN disk.routes)
    /\ boot \in Nat
    /\ DOMAIN flush = {"stage", "routes", "pairs", "hops"}
    /\ DOMAIN disk = {"routes", "pairs", "hops"}

\* The two bounds are inductive together with the disjointness that a promotion relies on.
Segments == FiniteStore /\ SegmentsDisjoint /\ SegmentsBounded

\* The variables that Segments is about.
segVars == <<hot, cold, flush, disk, boot>>

-----------------------------------------------------------------------------
LEMMA Unmoved == Segments /\ UNCHANGED segVars => Segments'
BY DEF Segments, FiniteStore, SegmentsDisjoint, SegmentsBounded, segVars

\* The store starts empty.
LEMMA InitSegments == Init => Segments
<1> SUFFICES ASSUME Init PROVE Segments
  OBVIOUS
<1>1. DOMAIN hot = {} /\ DOMAIN cold = {} /\ DOMAIN flush.routes = {} /\ DOMAIN disk.routes = {}
  BY DEF Init, NoFlush, Empty
<1>2. IsFiniteSet({}) /\ Cardinality({}) = 0
  BY FS_EmptySet
<1>3. /\ DOMAIN flush = {"stage", "routes", "pairs", "hops"}
      /\ DOMAIN disk = {"routes", "pairs", "hops"}
  BY DEF Init, NoFlush
<1>4. boot = 0 /\ Larger(Cap, boot) \in Nat
  BY CapAssumption DEF Init, Larger
<1> QED BY <1>1, <1>2, <1>3, <1>4 DEF Segments, FiniteStore, SegmentsDisjoint, SegmentsBounded

LEMMA LargerOf == ASSUME NEW a \in Nat, NEW b \in Nat
                  PROVE  Larger(a, b) \in Nat /\ a <= Larger(a, b) /\ b <= Larger(a, b)
BY DEF Larger

\* Making a route hot: a full segment becomes the cold one and the route starts a new one,
\* so neither segment grows past its bound and the route is in one of them.
LEMMA PushSegments ==
    ASSUME Segments, NEW r, NEW t, NEW c, PushHot(r, t, c),
           r \notin DOMAIN hot, r \notin DOMAIN c, DOMAIN c \subseteq DOMAIN cold,
           UNCHANGED <<flush, disk, boot>>
    PROVE  Segments'
<1> DEFINE bound == Larger(Cap, boot)
<1>1. bound \in Nat /\ Cap <= bound /\ Cap \in Nat /\ 1 <= Cap
  BY LargerOf, CapAssumption DEF Segments, FiniteStore
<1>2. IsFiniteSet(DOMAIN c) /\ Cardinality(DOMAIN c) <= Cardinality(DOMAIN cold)
  BY FS_Subset DEF Segments, FiniteStore
<1>3. /\ Cardinality(DOMAIN hot) \in Nat /\ Cardinality(DOMAIN cold) \in Nat
      /\ Cardinality(DOMAIN c) \in Nat
  BY <1>2, FS_CardinalityType DEF Segments, FiniteStore
<1>4. Cardinality(DOMAIN hot) <= bound /\ Cardinality(DOMAIN cold) <= bound
  BY DEF Segments, SegmentsBounded
<1> HIDE DEF bound
<1>5. CASE Full(hot)
  <2>1. hot' = Put(Empty, r, t) /\ cold' = hot
    BY <1>5 DEF PushHot
  <2>2. DOMAIN hot' = {r}
    BY <2>1 DEF Put, Empty
  <2>3. IsFiniteSet(DOMAIN hot') /\ Cardinality(DOMAIN hot') = 1
    BY <2>2, FS_Singleton
  <2>4. Cardinality(DOMAIN hot') <= bound /\ Cardinality(DOMAIN cold') <= bound
    BY <1>1, <1>4, <2>1, <2>3
  <2> QED BY <2>1, <2>2, <2>3, <2>4
          DEF Segments, FiniteStore, SegmentsDisjoint, SegmentsBounded, bound
<1>6. CASE ~Full(hot)
  <2>1. hot' = Put(hot, r, t) /\ cold' = c
    BY <1>6 DEF PushHot
  <2>2. DOMAIN hot' = DOMAIN hot \cup {r}
    BY <2>1 DEF Put
  <2>3. IsFiniteSet(DOMAIN hot') /\ Cardinality(DOMAIN hot') = Cardinality(DOMAIN hot) + 1
    BY <2>2, FS_AddElement DEF Segments, FiniteStore
  <2>4. Cardinality(DOMAIN hot') <= bound
    BY <1>1, <1>3, <1>6, <2>3 DEF Full
  <2>5. Cardinality(DOMAIN cold') <= bound
    BY <1>1, <1>2, <1>3, <1>4, <2>1
  <2> QED BY <1>2, <2>1, <2>2, <2>3, <2>4, <2>5
          DEF Segments, FiniteStore, SegmentsDisjoint, SegmentsBounded, bound
<1> QED BY <1>5, <1>6

\* The scanner touches the segments only to promote.
LEMMA ScanSegments == Segments /\ Scan => Segments'
<1> SUFFICES ASSUME Segments, Scan PROVE Segments'
  OBVIOUS
<1>1. CASE Promote
  <2>1. scan.target \in DOMAIN cold /\ scan.target \notin DOMAIN hot
    BY <1>1 DEF Promote, Segments, SegmentsDisjoint
  <2>2. DOMAIN Remove(cold, scan.target) = DOMAIN cold \ {scan.target}
    BY DEF Remove
  <2>3. PushHot(scan.target, cold[scan.target], Remove(cold, scan.target))
        /\ UNCHANGED <<flush, disk, boot>>
    BY <1>1 DEF Promote
  <2> QED BY <2>1, <2>2, <2>3, PushSegments
<1>2. CASE UNCHANGED segVars
  BY <1>2, Unmoved
<1> QED
  BY <1>1, <1>2 DEF Scan, Begin, ReadHot, ReadCold, ReadMiss, PromoteGone, CheckHops, LookupPair,
                    NoPair, DropNoServe, SpawnTask, segVars, memVars

\* A Metis task inserts a route that is in neither segment, or changes a template in place.
LEMMA LearnSegments == ASSUME Segments, NEW t \in Tasks, Learn(t) PROVE Segments'
<1>1. CASE InsertNew(t)
  <2> DEFINE r == task[t].route
  <2>1. r \notin DOMAIN hot /\ r \notin DOMAIN cold
    BY <1>1 DEF InsertNew, Live
  <2>2. PushHot(r, NewTemplate(t), cold) /\ UNCHANGED <<flush, disk, boot>>
    BY <1>1 DEF InsertNew
  <2> HIDE DEF r
  <2> QED BY <2>1, <2>2, PushSegments
<1>2. CASE InsertKnown(t)
  <2>1. DOMAIN hot' = DOMAIN hot /\ DOMAIN cold' = DOMAIN cold
    BY <1>2 DEF InsertKnown
  <2>2. UNCHANGED <<flush, disk, boot>>
    BY <1>2 DEF InsertKnown
  <2> QED BY <2>1, <2>2 DEF Segments, FiniteStore, SegmentsDisjoint, SegmentsBounded
<1>3. CASE UNCHANGED segVars
  BY <1>3, Unmoved
<1> QED
  BY <1>1, <1>2, <1>3 DEF Learn, FetchEnds, RecordHops, segVars, memVars

\* The flush copies the routes of both segments.
LEMMA FlushSegments == Segments /\ Flush => Segments'
<1> SUFFICES ASSUME Segments, Flush PROVE Segments'
  OBVIOUS
<1>1. UNCHANGED <<hot, cold, boot>>
  BY DEF Flush, FlushRoutes, SaveRoutes, SaveRoutesFails, FlushHops, SaveSomeHops, SaveHops,
         FlushDone, memVars
<1>2. /\ DOMAIN flush = {"stage", "routes", "pairs", "hops"}
      /\ DOMAIN disk = {"routes", "pairs", "hops"}
  BY DEF Segments, FiniteStore
<1>3. /\ \/ flush'.routes = flush.routes
         \/ flush'.routes = Snapshot
         \/ flush'.routes = Empty
      /\ \/ disk'.routes = disk.routes
         \/ disk'.routes = flush.routes
      /\ DOMAIN flush' = DOMAIN flush /\ DOMAIN disk' = DOMAIN disk
  <2>1. CASE FlushRoutes
    BY <1>2, <2>1 DEF FlushRoutes, NoFlush
  <2>2. CASE SaveRoutes
    BY <1>2, <2>2 DEF SaveRoutes, NoFlush
  <2>3. CASE SaveRoutesFails
    BY <1>2, <2>3 DEF SaveRoutesFails, NoFlush
  <2>4. CASE FlushHops
    BY <1>2, <2>4 DEF FlushHops, NoFlush
  <2>5. CASE FlushDone
    BY <1>2, <2>5 DEF FlushDone, NoFlush
  <2>6. ASSUME NEW d, SaveHops(d)
        PROVE  /\ flush'.routes = flush.routes /\ disk'.routes = disk.routes
               /\ DOMAIN flush' = DOMAIN flush /\ DOMAIN disk' = DOMAIN disk
    BY <1>2, <2>6 DEF SaveHops
  <2> QED BY <2>1, <2>2, <2>3, <2>4, <2>5, <2>6 DEF Flush, SaveSomeHops
<1>4. IsFiniteSet(DOMAIN Snapshot) /\ IsFiniteSet(DOMAIN Empty)
  <2>1. DOMAIN Snapshot = DOMAIN hot \cup DOMAIN cold /\ DOMAIN Empty = {}
    BY DEF Snapshot, Live, Empty
  <2>2. IsFiniteSet(DOMAIN hot \cup DOMAIN cold)
    BY FS_Union DEF Segments, FiniteStore
  <2> QED BY <2>1, <2>2, FS_EmptySet
<1>5. FiniteStore'
  BY <1>1, <1>3, <1>4 DEF Segments, FiniteStore
<1> QED BY <1>1, <1>5 DEF Segments, SegmentsDisjoint, SegmentsBounded

\* A restart loads the file into the hot segment, whatever its size.
LEMMA RestartSegments == ASSUME Segments, NEW m \in Modes, Restart(m) PROVE Segments'
<1>1. DOMAIN hot' = DOMAIN disk.routes \/ DOMAIN hot' = {}
  BY DEF Restart, Empty
<1>2. /\ DOMAIN cold' = {} /\ DOMAIN flush'.routes = {} /\ UNCHANGED disk
      /\ DOMAIN flush' = {"stage", "routes", "pairs", "hops"}
  BY DEF Restart, NoFlush, Empty
<1>3. boot' = Cardinality(DOMAIN hot')
  BY DEF Restart
<1>4. IsFiniteSet({}) /\ Cardinality({}) = 0
  BY FS_EmptySet
<1>5. IsFiniteSet(DOMAIN hot') /\ boot' \in Nat
  BY <1>1, <1>3, <1>4, FS_CardinalityType DEF Segments, FiniteStore
<1>6. Larger(Cap, boot') \in Nat /\ boot' <= Larger(Cap, boot')
  BY <1>5, LargerOf, CapAssumption
<1>7. FiniteStore'
  BY <1>2, <1>4, <1>5 DEF Segments, FiniteStore
<1>8. SegmentsDisjoint'
  BY <1>2 DEF SegmentsDisjoint
<1>9. SegmentsBounded'
  BY <1>2, <1>3, <1>4, <1>6 DEF SegmentsBounded
<1> QED BY <1>7, <1>8, <1>9 DEF Segments

LEMMA SegmentsStep == Segments /\ [Next]_vars => Segments'
<1> SUFFICES ASSUME Segments, [Next]_vars PROVE Segments'
  OBVIOUS
<1>1. CASE UNCHANGED vars
  BY <1>1, Unmoved DEF vars, memVars, segVars
<1> QED BY <1>1, ScanSegments, LearnSegments, FlushSegments, RestartSegments DEF Next

\* In every interleaving of the scanner, the Metis tasks, the flush and restarts, a route
\* is in one segment.
THEOREM SegmentsAlwaysDisjoint == Safety => []SegmentsDisjoint
<1>1. Segments => SegmentsDisjoint
  BY DEF Segments
<1> QED BY <1>1, InitSegments, SegmentsStep, PTL DEF Safety

\* No segment outgrows the capacity, or what its process loaded: push_hot_route turns a full
\* one over before it inserts, also when a promotion or a Metis task fills it in between.
THEOREM SegmentsAlwaysBounded == Safety => []SegmentsBounded
<1>1. Segments => SegmentsBounded
  BY DEF Segments
<1> QED BY <1>1, InitSegments, SegmentsStep, PTL DEF Safety

-----------------------------------------------------------------------------
(* What is served. *)

\* Where the amounts are in the data of a route's instructions.
Position(r) == Len(Layout[r].head) + 1

TemplateFields == {"base", "inAmount", "quotedOut", "offset", "variants"}

\* A template of route r holds Metis's answers for r, and offsets that point at the amounts.
Sound(r, t) ==
    /\ DOMAIN t = TemplateFields
    /\ t.inAmount \in Amounts /\ t.quotedOut = Floor(t.inAmount)
    /\ t.base = MetisIx[r][t.inAmount]
    /\ t.offset \in {Position(r), NoOffset}
    /\ \A a \in DOMAIN t.variants : a \in Amounts /\ t.variants[a] = MetisIx[r][a]

SoundMap(f) == \A r \in DOMAIN f : r \in Routes /\ Sound(r, f[r])

\* An index leads from a hop pair to a route of those hops.
SoundIndex(f) == \A p \in DOMAIN f : f[p] \in Routes /\ HopsOf[f[p]] = p

\* Every route of two hops has its pair indexed.
Covers(f, pairs) == \A r \in DOMAIN f : Paired(r) => HopsOf[r] \in DOMAIN pairs

SoundMemory ==
    /\ SoundMap(hot) /\ SoundMap(cold) /\ SoundIndex(index)
    /\ Covers(hot, index) /\ Covers(cold, index)

SoundFiles ==
    /\ DOMAIN flush = {"stage", "routes", "pairs", "hops"}
    /\ DOMAIN disk = {"routes", "pairs", "hops"}
    /\ SoundMap(flush.routes) /\ SoundIndex(flush.pairs) /\ Covers(flush.routes, flush.pairs)
    /\ SoundMap(disk.routes) /\ SoundIndex(disk.pairs) /\ Covers(disk.routes, disk.pairs)

SoundScan ==
    /\ DOMAIN scan = {"stage", "tier", "route", "amount", "target"}
    /\ scan.stage # "idle" =>
         /\ scan.route \in Routes /\ scan.target \in Routes /\ scan.amount \in Amounts
         /\ HopsOf[scan.target] = HopsOf[scan.route]

SoundTask(t) ==
    /\ DOMAIN task[t] = {"stage", "route", "amount"}
    /\ task[t].stage # "idle" => task[t].route \in Routes /\ task[t].amount \in Amounts

SoundTasks == DOMAIN task = Tasks /\ \A t \in Tasks : SoundTask(t)

Serving == SoundMemory /\ SoundFiles /\ SoundScan /\ SoundTasks /\ ServedAsAsked

-----------------------------------------------------------------------------
(* What is served of a sound template. *)

LEMMA ConcatAt ==
    ASSUME NEW S, NEW s \in Seq(S), NEW t \in Seq(S)
    PROVE  /\ s \o t \in Seq(S)
           /\ Len(s) \in Nat /\ Len(t) \in Nat
           /\ Len(s \o t) = Len(s) + Len(t)
           /\ \A k \in 1..Len(s \o t) :
                (s \o t)[k] = IF k <= Len(s) THEN s[k] ELSE t[k - Len(s)]
OBVIOUS

\* The data of an instruction, position by position.
DataAt(r, a, out) ==
    LET n == Len(Layout[r].head)
    IN  [k \in 1..(n + 2 * Width + Len(Layout[r].tail)) |->
            IF k <= n THEN Layout[r].head[k]
            ELSE IF k - n <= Width THEN Bytes(a)[k - n]
            ELSE IF k - n <= 2 * Width THEN Bytes(out)[k - n - Width]
            ELSE Layout[r].tail[k - n - 2 * Width]]

LEMMA EncodedAt ==
    ASSUME NEW r \in Routes, NEW a \in Nat, NEW out \in Nat
    PROVE  /\ Encoded(r, a, out).data \in Seq(ByteValues)
           /\ Encoded(r, a, out).data = DataAt(r, a, out)
<1> DEFINE head == Layout[r].head
           tail == Layout[r].tail
           x == Bytes(a)
           y == Bytes(out)
<1>1. head \in Seq(ByteValues) /\ tail \in Seq(ByteValues)
  <2>1. head \in Seq(Nat) /\ tail \in Seq(Nat)
    BY LayoutAssumption
  <2>2. Nat \subseteq ByteValues
    BY DEF ByteValues
  <2> QED BY <2>1, <2>2
<1>2. x \in Seq(ByteValues) /\ y \in Seq(ByteValues) /\ Len(x) = Width /\ Len(y) = Width
  BY BytesType
<1>3. Encoded(r, a, out).data = head \o x \o y \o tail
  BY DEF Encoded
<1>4. Width \in Nat
  BY WidthAssumption
<1> DEFINE given == DataAt(r, a, out)
<1>5. given = [k \in 1..(Len(head) + 2 * Width + Len(tail)) |->
                 IF k <= Len(head) THEN head[k]
                 ELSE IF k - Len(head) <= Width THEN x[k - Len(head)]
                 ELSE IF k - Len(head) <= 2 * Width THEN y[k - Len(head) - Width]
                 ELSE tail[k - Len(head) - 2 * Width]]
  BY DEF DataAt
<1> HIDE DEF head, tail, x, y, given
<1> DEFINE hx == head \o x
           hxy == hx \o y
           all == hxy \o tail
<1>6. /\ hx \in Seq(ByteValues) /\ Len(head) \in Nat /\ Len(hx) = Len(head) + Width
      /\ \A k \in 1..Len(hx) : hx[k] = IF k <= Len(head) THEN head[k] ELSE x[k - Len(head)]
  BY <1>1, <1>2, ConcatAt
<1> HIDE DEF hx
<1>7. /\ hxy \in Seq(ByteValues) /\ Len(hxy) = Len(hx) + Width
      /\ \A k \in 1..Len(hxy) : hxy[k] = IF k <= Len(hx) THEN hx[k] ELSE y[k - Len(hx)]
  BY <1>6, <1>2, ConcatAt
<1> HIDE DEF hxy
<1>8. /\ all \in Seq(ByteValues) /\ Len(tail) \in Nat /\ Len(all) = Len(hxy) + Len(tail)
      /\ \A k \in 1..Len(all) : all[k] = IF k <= Len(hxy) THEN hxy[k] ELSE tail[k - Len(hxy)]
  BY <1>7, <1>1, ConcatAt
<1> HIDE DEF all
<1>9. Len(hxy) = Len(head) + 2 * Width /\ Len(all) = Len(head) + 2 * Width + Len(tail)
  BY <1>4, <1>6, <1>7, <1>8
<1>10. ASSUME NEW k \in 1..Len(all) PROVE all[k] = given[k]
  <2>1. CASE k <= Len(head)
    <3>1. k \in 1..Len(hxy) /\ k \in 1..Len(hx)
      BY <1>4, <1>6, <1>9, <2>1
    <3>2. all[k] = hxy[k]
      BY <1>8, <3>1
    <3>3. hxy[k] = hx[k] /\ hx[k] = head[k]
      BY <1>6, <1>7, <2>1, <3>1
    <3>4. given[k] = head[k]
      BY <1>5, <1>9, <2>1
    <3> QED BY <3>2, <3>3, <3>4
  <2>2. CASE k > Len(head) /\ k - Len(head) <= Width
    <3>1. k \in 1..Len(hxy) /\ k \in 1..Len(hx) /\ ~(k <= Len(head))
      BY <1>4, <1>6, <1>9, <2>2
    <3>2. all[k] = hxy[k]
      BY <1>8, <3>1
    <3>3. hxy[k] = hx[k] /\ hx[k] = x[k - Len(head)]
      BY <1>6, <1>7, <3>1
    <3>4. given[k] = x[k - Len(head)]
      BY <1>5, <1>9, <2>2, <3>1
    <3> QED BY <3>2, <3>3, <3>4
  <2>3. CASE k > Len(head) /\ k - Len(head) > Width /\ k - Len(head) <= 2 * Width
    <3>1. /\ k \in 1..Len(hxy) /\ ~(k <= Len(hx))
          /\ k - Len(hx) = k - Len(head) - Width
      BY <1>4, <1>6, <1>9, <2>3
    <3>2. all[k] = hxy[k]
      BY <1>8, <3>1
    <3>3. hxy[k] = y[k - Len(hx)]
      BY <1>7, <3>1
    <3>4. ~(k <= Len(head)) /\ ~(k - Len(head) <= Width)
      BY <1>4, <1>6, <2>3
    <3>5. given[k] = y[k - Len(head) - Width]
      BY <1>5, <1>9, <2>3, <3>4
    <3> QED BY <3>1, <3>2, <3>3, <3>5
  <2>4. CASE k > Len(head) /\ k - Len(head) > Width /\ k - Len(head) > 2 * Width
    <3>1. k - Len(hxy) = k - Len(head) - 2 * Width /\ ~(k <= Len(hxy))
      BY <1>4, <1>6, <1>8, <1>9, <2>4
    <3>2. all[k] = tail[k - Len(hxy)]
      BY <1>8, <3>1
    <3>3. ~(k <= Len(head)) /\ ~(k - Len(head) <= Width) /\ ~(k - Len(head) <= 2 * Width)
      BY <1>4, <1>6, <1>8, <1>9, <2>4
    <3>4. given[k] = tail[k - Len(head) - 2 * Width]
      BY <1>5, <1>9, <3>3
    <3> QED BY <3>1, <3>2, <3>4
  <2> QED BY <1>4, <1>6, <2>1, <2>2, <2>3, <2>4
<1>11. all = given
  <2>1. all = [k \in 1..Len(all) |-> all[k]]
    BY <1>8
  <2>2. given = [k \in 1..Len(all) |-> given[k]]
    BY <1>5, <1>9
  <2> QED BY <1>10, <2>1, <2>2
<1>12. Encoded(r, a, out).data = all
  BY <1>3 DEF all, hxy, hx
<1> QED BY <1>8, <1>11, <1>12 DEF given

\* Metis's data is as discover_offsets expects it.
LEMMA EncodedIsWritten ==
    ASSUME NEW r \in Routes, NEW a \in Nat, NEW out \in Nat
    PROVE  Written(Encoded(r, a, out).data, Position(r), a, out)
<1> DEFINE n == Len(Layout[r].head)
           m == Len(Layout[r].tail)
<1>1. n \in Nat /\ m \in Nat /\ Width \in Nat /\ 1 <= Width
  BY LayoutAssumption, WidthAssumption
<1> DEFINE data == DataAt(r, a, out)
<1>2. data = [k \in 1..(n + 2 * Width + m) |->
                IF k <= n THEN Layout[r].head[k]
                ELSE IF k - n <= Width THEN Bytes(a)[k - n]
                ELSE IF k - n <= 2 * Width THEN Bytes(out)[k - n - Width]
                ELSE Layout[r].tail[k - n - 2 * Width]]
  BY DEF DataAt
<1>3. data \in Seq(ByteValues) /\ Encoded(r, a, out).data = data
  BY EncodedAt
<1> HIDE DEF n, m, data
<1>4. Len(data) = n + 2 * Width + m
  BY <1>1, <1>2, <1>3
<1>5. ASSUME NEW k \in 1..Width
      PROVE  data[n + 1 + k - 1] = Bytes(a)[k] /\ data[n + 1 + Width + k - 1] = Bytes(out)[k]
  <2> DEFINE i == n + 1 + k - 1
             j == n + 1 + Width + k - 1
  <2>1. i \in 1..(n + 2 * Width + m) /\ ~(i <= n) /\ i - n <= Width /\ i - n = k
    BY <1>1
  <2>2. /\ j \in 1..(n + 2 * Width + m) /\ ~(j <= n) /\ ~(j - n <= Width) /\ j - n <= 2 * Width
        /\ j - n - Width = k
    BY <1>1
  <2> HIDE DEF i, j
  <2>3. data[i] = Bytes(a)[i - n]
    BY <1>2, <2>1
  <2>4. data[j] = Bytes(out)[j - n - Width]
    BY <1>2, <2>2
  <2> QED BY <2>1, <2>2, <2>3, <2>4 DEF i, j
<1>6. n + 1 \in Starts(data)
  <2>1. n + 1 \in 1..Len(data) /\ n + 1 + 2 * Width - 1 <= Len(data)
    BY <1>1, <1>4
  <2> QED BY <2>1 DEF Starts
<1>7. Holds(data, n + 1, a) /\ Holds(data, n + 1 + Width, out)
  BY <1>5 DEF Holds
<1> QED BY <1>6, <1>7, <1>3 DEF Written, Position, n

\* Patching the amounts of an instruction gives the instruction of the new amounts.
LEMMA PatchEncoded ==
    ASSUME NEW r \in Routes, NEW a \in Nat, NEW out \in Nat, NEW b \in Nat, NEW new \in Nat
    PROVE  PatchAmounts(Encoded(r, a, out).data, Position(r), b, new) = Encoded(r, b, new).data
<1> DEFINE n == Len(Layout[r].head)
           m == Len(Layout[r].tail)
           before == DataAt(r, a, out)
           after == DataAt(r, b, new)
           patched == PatchAmounts(before, n + 1, b, new)
<1>1. n \in Nat /\ m \in Nat /\ Width \in Nat
  BY LayoutAssumption, WidthAssumption
<1>2. DOMAIN before = 1..(n + 2 * Width + m)
  BY DEF DataAt
<1>3. ASSUME NEW k \in 1..(n + 2 * Width + m) PROVE patched[k] = after[k]
  <2>1. patched[k] = IF k - (n + 1) \in 0..(Width - 1) THEN Bytes(b)[k - (n + 1) + 1]
                     ELSE IF k - (n + 1) \in Width..(2 * Width - 1)
                          THEN Bytes(new)[k - (n + 1) - Width + 1]
                          ELSE before[k]
    BY <1>2 DEF PatchAmounts
  <2>2. k - (n + 1) + 1 = k - n /\ k - (n + 1) - Width + 1 = k - n - Width
    BY <1>1
  <2> HIDE DEF patched
  <2>4. before[k] = IF k <= n THEN Layout[r].head[k]
                    ELSE IF k - n <= Width THEN Bytes(a)[k - n]
                    ELSE IF k - n <= 2 * Width THEN Bytes(out)[k - n - Width]
                    ELSE Layout[r].tail[k - n - 2 * Width]
    BY DEF DataAt
  <2>5. after[k] = IF k <= n THEN Layout[r].head[k]
                   ELSE IF k - n <= Width THEN Bytes(b)[k - n]
                   ELSE IF k - n <= 2 * Width THEN Bytes(new)[k - n - Width]
                   ELSE Layout[r].tail[k - n - 2 * Width]
    BY DEF DataAt
  <2> HIDE DEF before, after, n, m
  <2>3. /\ (k - (n + 1) \in 0..(Width - 1)) <=> (~(k <= n) /\ k - n <= Width)
        /\ (k - (n + 1) \in Width..(2 * Width - 1)) <=>
              (~(k <= n) /\ ~(k - n <= Width) /\ k - n <= 2 * Width)
    BY <1>1
  <2> QED BY <2>1, <2>2, <2>3, <2>4, <2>5
<1>4. patched = [k \in 1..(n + 2 * Width + m) |-> patched[k]]
  BY <1>2 DEF PatchAmounts
<1>5. after = [k \in 1..(n + 2 * Width + m) |-> after[k]]
  BY DEF DataAt
<1> HIDE DEF patched, after, before
<1>6. patched = after
  BY <1>3, <1>4, <1>5
<1> QED BY <1>6, EncodedAt DEF patched, after, before, Position

-----------------------------------------------------------------------------
(* What is served of a sound template, and what keeps one sound. *)

\* A patched instruction is that of the amount asked for and its floor.
LEMMA PatchedIs ==
    ASSUME NEW r \in Routes, NEW t, Sound(r, t), NEW a \in Amounts, t.offset # NoOffset
    PROVE  Patched(t, a) = Encoded(r, a, Floor(a))
<1> DEFINE b == t.inAmount
           data == Encoded(r, b, Embeds[r][b]).data
<1>1. a \in Nat /\ b \in Amounts /\ b \in Nat /\ Costs \in Nat /\ Embeds[r][b] \in Nat
  BY LayoutAssumption DEF Sound
<1>2. t.base = Encoded(r, b, Embeds[r][b]) /\ t.offset = Position(r)
  BY <1>1 DEF Sound, MetisIx
<1>3. a + (t.quotedOut - t.inAmount) = Floor(a)
  <2>1. a + ((b + Costs) - b) = a + Costs
    BY <1>1
  <2> QED BY <2>1 DEF Sound, Floor
<1>4. Patched(t, a) = [route |-> r, data |-> PatchAmounts(data, Position(r), a, Floor(a))]
  BY <1>2, <1>3 DEF Patched, Encoded
<1>5. Floor(a) \in Nat
  BY <1>1 DEF Floor
<1>6. PatchAmounts(data, Position(r), a, Floor(a)) = Encoded(r, a, Floor(a)).data
  BY <1>1, <1>5, PatchEncoded
<1> QED BY <1>4, <1>6 DEF Encoded

LEMMA ServedSound ==
    ASSUME NEW r \in Routes, NEW t, Sound(r, t), NEW a \in Amounts
    PROVE  \/ Served(t, a) = None
           \/ \E out \in Outs(r, a) : Served(t, a) = Encoded(r, a, out)
<1>1. CASE a \in DOMAIN t.variants
  <2>1. Served(t, a) = MetisIx[r][a]
    BY <1>1 DEF Served, Sound
  <2> QED BY <2>1 DEF MetisIx, Outs
<1>2. CASE a \notin DOMAIN t.variants /\ t.offset = NoOffset
  BY <1>2 DEF Served
<1>3. CASE a \notin DOMAIN t.variants /\ t.offset # NoOffset
  BY <1>3, PatchedIs DEF Served, Outs
<1> QED BY <1>1, <1>2, <1>3

LEMMA NewSound ==
    ASSUME NEW t \in Tasks, task[t].route \in Routes, task[t].amount \in Amounts
    PROVE  Sound(task[t].route, NewTemplate(t))
<1> DEFINE r == task[t].route
           a == task[t].amount
           data == Encoded(r, a, Embeds[r][a]).data
<1>1. a \in Nat /\ Floor(a) \in Nat /\ Embeds[r][a] \in Nat
  <2> HIDE DEF r, a
  <2>1. r \in Routes /\ a \in Amounts
    BY DEF r, a
  <2>2. a \in Nat /\ Costs \in Nat
    BY <2>1, LayoutAssumption
  <2> QED BY <2>1, <2>2, LayoutAssumption DEF Floor
<1>2. Written(data, Position(r), a, Embeds[r][a])
  BY <1>1, EncodedIsWritten
<1>3. MetisIx[r][a] = Encoded(r, a, Embeds[r][a])
  BY DEF MetisIx
<1>4. NoAccident(data, a, Floor(a), Embeds[r][a])
  BY <1>3, NoAccidentAssumption DEF NoAccident
<1>5. DiscoverOffsets(data, a, Floor(a)) \in {Position(r), NoOffset}
  BY <1>2, <1>4, DiscoverSound
<1>6. OffsetOf[r][a] \in {Position(r), NoOffset}
  BY <1>3, <1>5 DEF OffsetOf
<1>7. DOMAIN Put(Empty, a, Fetched(t)) = {a} /\ Put(Empty, a, Fetched(t))[a] = MetisIx[r][a]
  BY DEF Put, Empty, Fetched
<1> QED BY <1>6, <1>7 DEF Sound, NewTemplate, Fetched, TemplateFields

LEMMA LearntSound ==
    ASSUME NEW t \in Tasks, NEW r \in Routes, task[t].route = r, task[t].amount \in Amounts,
           NEW f, Sound(r, f)
    PROVE  Sound(r, Learnt(f, task[t].amount, Fetched(t)))
<1> DEFINE a == task[t].amount
           more == Put(f.variants, a, Fetched(t))
<1>1. CASE a \in DOMAIN f.variants
  BY <1>1 DEF Learnt
<1>2. CASE a \notin DOMAIN f.variants
  <2>1. \A z \in DOMAIN more : z \in Amounts /\ more[z] = MetisIx[r][z]
    BY DEF Put, Fetched, Sound
  <2> HIDE DEF more
  <2>2. Learnt(f, a, Fetched(t)) = [f EXCEPT !.variants = more]
    BY <1>2 DEF Learnt, more
  <2> QED BY <2>1, <2>2 DEF Sound, TemplateFields
<1> QED BY <1>1, <1>2

LEMMA RecordSound ==
    ASSUME NEW r, NEW t, Sound(r, t)
    PROVE  Sound(r, Record(t))
BY DEF Sound, Record, TemplateFields, Empty

LEMMA PutSound ==
    ASSUME NEW f, SoundMap(f), NEW r \in Routes, NEW t, Sound(r, t)
    PROVE  SoundMap(Put(f, r, t)) /\ DOMAIN Put(f, r, t) = DOMAIN f \cup {r}
BY DEF SoundMap, Put

LEMMA EmptySound == SoundMap(Empty) /\ SoundIndex(Empty) /\ Covers(Empty, Empty)
BY DEF SoundMap, SoundIndex, Covers, Empty

\* What a lookup answers.
LEMMA AnswerServes ==
    ASSUME Serving, NEW ix, Answer(ix), scan.stage # "idle",
           \/ ix = None
           \/ \E out \in Outs(scan.target, scan.amount) : ix = Encoded(scan.target, scan.amount, out)
    PROVE  SoundScan' /\ ServedAsAsked'
<1>1. SoundScan
  BY DEF Serving
<1>2. SoundScan'
  BY <1>1 DEF SoundScan, Answer, Resting
<1>3. outcome' = [route |-> scan.route, target |-> scan.target, amount |-> scan.amount, ix |-> ix]
  BY DEF Answer
<1>4. ServedAsAsked'
  <2>1. CASE ix = None
    BY <1>3, <2>1 DEF ServedAsAsked
  <2>2. CASE ix # None
    <3>1. PICK out \in Outs(scan.target, scan.amount) : ix = Encoded(scan.target, scan.amount, out)
      BY <2>2
    <3>2. scan.target \in Routes /\ HopsOf[scan.target] = HopsOf[scan.route]
      BY <1>1 DEF SoundScan
    <3> QED BY <1>3, <3>1, <3>2 DEF ServedAsAsked
  <2> QED BY <2>1, <2>2
<1> QED BY <1>2, <1>4

-----------------------------------------------------------------------------
(* Steps. *)

LEMMA ServingInit == Init => Serving
<1> SUFFICES ASSUME Init PROVE Serving
  OBVIOUS
<1>1. SoundMemory /\ SoundFiles
  BY EmptySound DEF Init, SoundMemory, SoundFiles, NoFlush
<1>2. SoundScan /\ SoundTasks
  BY DEF Init, SoundScan, SoundTasks, SoundTask, Resting, NoTask
<1>3. ServedAsAsked
  BY DEF Init, ServedAsAsked, NoOutcome
<1> QED BY <1>1, <1>2, <1>3 DEF Serving

\* push_hot_route of a sound template keeps the segments sound.
LEMMA PushSound ==
    ASSUME SoundMap(hot), NEW c, SoundMap(c), NEW r \in Routes, NEW t, Sound(r, t), PushHot(r, t, c)
    PROVE  /\ SoundMap(hot') /\ SoundMap(cold')
           /\ DOMAIN hot' \cup DOMAIN cold' \subseteq DOMAIN hot \cup DOMAIN c \cup {r}
<1>1. CASE Full(hot)
  <2>1. hot' = Put(Empty, r, t) /\ cold' = hot
    BY <1>1 DEF PushHot
  <2>2. SoundMap(Put(Empty, r, t)) /\ DOMAIN Put(Empty, r, t) = DOMAIN Empty \cup {r}
    BY EmptySound, PutSound
  <2> QED BY <2>1, <2>2 DEF Empty
<1>2. CASE ~Full(hot)
  <2>1. hot' = Put(hot, r, t) /\ cold' = c
    BY <1>2 DEF PushHot
  <2>2. SoundMap(Put(hot, r, t)) /\ DOMAIN Put(hot, r, t) = DOMAIN hot \cup {r}
    BY PutSound
  <2> QED BY <2>1, <2>2
<1> QED BY <1>1, <1>2

\* Coverage is about the routes of both segments together.
LEMMA CoversLive ==
    ASSUME NEW f, NEW g, NEW pairs, \A r \in DOMAIN f \cup DOMAIN g : Paired(r) => HopsOf[r] \in DOMAIN pairs
    PROVE  Covers(f, pairs) /\ Covers(g, pairs)
BY DEF Covers

LEMMA ScanServing ==
    ASSUME Serving, Scan
    PROVE  SoundMemory' /\ SoundScan' /\ SoundTasks' /\ ServedAsAsked'
<1> USE DEF Serving
<1>1. ASSUME UNCHANGED memVars PROVE SoundMemory'
  BY <1>1 DEF SoundMemory, memVars
<1>2. ASSUME UNCHANGED task PROVE SoundTasks'
  BY <1>2 DEF SoundTasks, SoundTask
<1>3. ASSUME UNCHANGED outcome PROVE ServedAsAsked'
  BY <1>3 DEF ServedAsAsked
<1>4. ASSUME NEW r \in Routes, NEW a \in Amounts, Begin(r, a)
      PROVE  SoundMemory' /\ SoundScan' /\ SoundTasks' /\ ServedAsAsked'
  <2>1. SoundScan'
    BY <1>4 DEF Begin, SoundScan
  <2>2. ServedAsAsked'
    BY <1>4 DEF Begin, ServedAsAsked, NoOutcome
  <2> QED BY <1>1, <1>2, <1>4, <2>1, <2>2 DEF Begin
<1>5. CASE ReadHot
  <2>1. scan.stage # "idle" /\ scan.amount \in Amounts
    BY <1>5 DEF ReadHot, SoundScan
  <2>2. scan.target \in Routes /\ Sound(scan.target, hot[scan.target])
    BY <1>5 DEF ReadHot, SoundMemory, SoundMap
  <2>3. SoundScan' /\ ServedAsAsked'
    BY <1>5, <2>1, <2>2, ServedSound, AnswerServes DEF ReadHot
  <2> QED BY <1>1, <1>2, <1>5, <2>3 DEF ReadHot
<1>6. CASE ReadCold
  <2>1. SoundScan'
    BY <1>6 DEF ReadCold, SoundScan
  <2> QED BY <1>1, <1>2, <1>3, <1>6, <2>1 DEF ReadCold
<1>7. CASE ReadMiss
  <2>1. SoundScan' /\ ServedAsAsked'
    BY <1>7, AnswerServes DEF ReadMiss
  <2> QED BY <1>1, <1>2, <1>7, <2>1 DEF ReadMiss
<1>8. CASE Promote
  <2> DEFINE r == scan.target
             t == cold[scan.target]
             rest == Remove(cold, scan.target)
  <2>1. scan.stage # "idle" /\ scan.amount \in Amounts
    BY <1>8 DEF Promote, SoundScan
  <2>2. r \in DOMAIN cold /\ r \in Routes /\ Sound(r, t)
    BY <1>8 DEF Promote, SoundMemory, SoundMap
  <2>3. SoundScan' /\ ServedAsAsked'
    BY <1>8, <2>1, <2>2, ServedSound, AnswerServes DEF Promote
  <2>4. SoundMap(rest) /\ DOMAIN rest \subseteq DOMAIN cold
    BY DEF SoundMemory, SoundMap, Remove
  <2>5. /\ SoundMap(hot') /\ SoundMap(cold')
        /\ DOMAIN hot' \cup DOMAIN cold' \subseteq DOMAIN hot \cup DOMAIN rest \cup {r}
    BY <1>8, <2>2, <2>4, PushSound DEF Promote, SoundMemory
  <2>6. Covers(hot', index) /\ Covers(cold', index)
    BY <2>2, <2>4, <2>5 DEF SoundMemory, Covers
  <2>7. SoundMemory'
    BY <1>8, <2>5, <2>6 DEF Promote, SoundMemory
  <2> QED BY <1>2, <1>8, <2>3, <2>7 DEF Promote
<1>9. CASE PromoteGone
  <2>1. scan.stage # "idle" /\ scan.amount \in Amounts
    BY <1>9 DEF PromoteGone, SoundScan
  <2>2. CASE scan.target \in DOMAIN hot
    <3>1. scan.target \in Routes /\ Sound(scan.target, hot[scan.target])
      BY <2>2 DEF SoundMemory, SoundMap
    <3>2. SoundScan' /\ ServedAsAsked'
      BY <1>9, <2>1, <2>2, <3>1, ServedSound, AnswerServes DEF PromoteGone
    <3> QED BY <1>1, <1>2, <1>9, <3>2 DEF PromoteGone
  <2>3. CASE scan.target \notin DOMAIN hot
    <3>1. SoundScan' /\ ServedAsAsked'
      BY <1>9, <2>1, <2>3, AnswerServes DEF PromoteGone
    <3> QED BY <1>1, <1>2, <1>9, <3>1 DEF PromoteGone
  <2> QED BY <2>2, <2>3
<1>10. CASE CheckHops
  <2>1. SoundScan'
    BY <1>10 DEF CheckHops, SoundScan
  <2> QED BY <1>1, <1>2, <1>3, <1>10, <2>1 DEF CheckHops
<1>11. CASE LookupPair
  <2>1. scan.stage # "idle" /\ index[HopsOf[scan.route]] \in Routes
        /\ HopsOf[index[HopsOf[scan.route]]] = HopsOf[scan.route]
    BY <1>11 DEF LookupPair, SoundMemory, SoundIndex
  <2>2. SoundScan'
    BY <1>11, <2>1 DEF LookupPair, SoundScan
  <2> QED BY <1>1, <1>2, <1>3, <1>11, <2>2 DEF LookupPair
<1>12. CASE NoPair
  <2>1. SoundScan'
    BY <1>12 DEF NoPair, SoundScan
  <2> QED BY <1>1, <1>2, <1>3, <1>12, <2>1 DEF NoPair
<1>13. CASE DropNoServe
  <2>1. SoundScan'
    BY <1>13 DEF DropNoServe, SoundScan, Resting
  <2> QED BY <1>1, <1>2, <1>3, <1>13, <2>1 DEF DropNoServe
<1>14. ASSUME NEW t \in Tasks, SpawnTask(t)
       PROVE  SoundMemory' /\ SoundScan' /\ SoundTasks' /\ ServedAsAsked'
  <2>1. SoundScan'
    BY <1>14 DEF SpawnTask, SoundScan, Resting
  <2>2. SoundTasks'
    <3>1. scan.route \in Routes /\ scan.amount \in Amounts
      BY <1>14 DEF SpawnTask, SoundScan
    <3> QED BY <1>14, <3>1 DEF SpawnTask, SoundTasks, SoundTask
  <2> QED BY <1>1, <1>3, <1>14, <2>1, <2>2 DEF SpawnTask
<1> QED
  BY <1>4, <1>5, <1>6, <1>7, <1>8, <1>9, <1>10, <1>11, <1>12, <1>13, <1>14 DEF Scan

LEMMA LearnServing ==
    ASSUME Serving, NEW t \in Tasks, Learn(t)
    PROVE  SoundMemory' /\ SoundTasks'
<1> USE DEF Serving
<1>1. CASE FetchEnds(t)
  BY <1>1 DEF FetchEnds, SoundMemory, memVars, SoundTasks, SoundTask, NoTask
<1>2. CASE InsertKnown(t)
  <2> DEFINE r == task[t].route
             learn(f) == IF r \in DOMAIN f
                         THEN [f EXCEPT ![r] = Learnt(@, task[t].amount, Fetched(t))] ELSE f
  <2>1. r \in Routes /\ task[t].amount \in Amounts
    BY <1>2 DEF InsertKnown, Saves, SoundTasks, SoundTask
  <2>2. ASSUME NEW f, SoundMap(f) PROVE SoundMap(learn(f)) /\ DOMAIN learn(f) = DOMAIN f
    <3>1. CASE r \in DOMAIN f
      <4>1. Sound(r, Learnt(f[r], task[t].amount, Fetched(t)))
        BY <2>1, <2>2, <3>1, LearntSound DEF SoundMap
      <4> QED BY <2>2, <3>1, <4>1 DEF SoundMap
    <3> QED BY <2>2, <3>1
  <2>3. /\ SoundMap(hot') /\ SoundMap(cold')
        /\ DOMAIN hot' = DOMAIN hot /\ DOMAIN cold' = DOMAIN cold
    BY <1>2, <2>2 DEF InsertKnown, SoundMemory
  <2>4. SoundMemory'
    BY <1>2, <2>3 DEF InsertKnown, SoundMemory, Covers
  <2>5. SoundTasks'
    BY <1>2, <2>1 DEF InsertKnown, SoundTasks, SoundTask
  <2> QED BY <2>4, <2>5
<1>3. CASE InsertNew(t)
  <2> DEFINE r == task[t].route
  <2>1. r \in Routes /\ task[t].amount \in Amounts
    BY <1>3 DEF InsertNew, Saves, SoundTasks, SoundTask
  <2>2. /\ SoundMap(hot') /\ SoundMap(cold')
        /\ DOMAIN hot' \cup DOMAIN cold' \subseteq DOMAIN hot \cup DOMAIN cold \cup {r}
    BY <1>3, <2>1, NewSound, PushSound DEF InsertNew, SoundMemory
  <2>3. /\ SoundIndex(index')
        /\ DOMAIN index \subseteq DOMAIN index'
        /\ Paired(r) => HopsOf[r] \in DOMAIN index'
    BY <1>3, <2>1 DEF InsertNew, SoundMemory, SoundIndex, Put
  <2>4. Covers(hot', index') /\ Covers(cold', index')
    BY <2>2, <2>3 DEF SoundMemory, Covers
  <2>5. SoundTasks'
    BY <1>3, <2>1 DEF InsertNew, SoundTasks, SoundTask
  <2> QED BY <2>2, <2>3, <2>4, <2>5 DEF SoundMemory
<1>4. CASE RecordHops(t)
  BY <1>4 DEF RecordHops, SoundMemory, SoundTasks, SoundTask, NoTask
<1> QED BY <1>1, <1>2, <1>3, <1>4 DEF Learn

\* The snapshot of a flush holds the sound records of both segments.
LEMMA SnapshotSound ==
    ASSUME SoundMemory
    PROVE  SoundMap(Snapshot) /\ Covers(Snapshot, index)
<1>1. SoundMap(Snapshot)
  BY RecordSound DEF SoundMemory, SoundMap, Snapshot, Live
<1>2. Covers(Snapshot, index)
  BY DEF SoundMemory, Covers, Snapshot, Live
<1> QED BY <1>1, <1>2

LEMMA FlushServing == ASSUME Serving, Flush PROVE SoundFiles'
<1> USE DEF Serving
<1>1. CASE FlushRoutes
  <2>1. SoundMap(Snapshot) /\ Covers(Snapshot, index) /\ SoundIndex(index)
    BY SnapshotSound DEF SoundMemory
  <2> QED BY <1>1, <2>1 DEF FlushRoutes, SoundFiles, NoFlush
<1>2. CASE SaveRoutes
  BY <1>2, EmptySound DEF SaveRoutes, SoundFiles, NoFlush
<1>3. CASE SaveRoutesFails
  BY <1>3, EmptySound DEF SaveRoutesFails, SoundFiles, NoFlush
<1>4. CASE FlushHops
  BY <1>4, EmptySound DEF FlushHops, SoundFiles, NoFlush
<1>5. CASE SaveSomeHops
  <2>1. PICK d : SaveHops(d)
    BY <1>5 DEF SaveSomeHops
  <2> QED BY <2>1 DEF SaveHops, SoundFiles
<1>6. CASE FlushDone
  BY <1>6, EmptySound DEF FlushDone, SoundFiles, NoFlush
<1> QED BY <1>1, <1>2, <1>3, <1>4, <1>5, <1>6 DEF Flush

LEMMA RestartServing == ASSUME Serving, NEW m \in Modes, Restart(m) PROVE Serving'
<1> USE DEF Serving
<1>1. SoundMemory'
  <2>1. \/ hot' = disk.routes /\ index' = disk.pairs
        \/ hot' = Empty /\ index' = Empty
    BY DEF Restart
  <2>2. SoundMap(hot') /\ SoundIndex(index') /\ Covers(hot', index')
    BY <2>1, EmptySound DEF SoundFiles
  <2>3. cold' = Empty /\ SoundMap(cold') /\ Covers(cold', index')
    BY EmptySound DEF Restart, Covers, Empty
  <2> QED BY <2>2, <2>3 DEF SoundMemory
<1>2. SoundFiles'
  BY EmptySound DEF Restart, SoundFiles, NoFlush
<1>3. SoundScan' /\ SoundTasks'
  BY DEF Restart, SoundScan, SoundTasks, SoundTask, Resting, NoTask
<1>4. ServedAsAsked'
  BY DEF Restart, ServedAsAsked, NoOutcome
<1> QED BY <1>1, <1>2, <1>3, <1>4

LEMMA ServingStep == Serving /\ [Next]_vars => Serving'
<1> SUFFICES ASSUME Serving, [Next]_vars PROVE Serving'
  OBVIOUS
<1>1. ASSUME UNCHANGED <<flush, disk>> PROVE SoundFiles'
  BY <1>1 DEF Serving, SoundFiles
<1>2. ASSUME UNCHANGED memVars PROVE SoundMemory'
  BY <1>2 DEF Serving, SoundMemory, memVars
<1>3. ASSUME UNCHANGED scan PROVE SoundScan'
  BY <1>3 DEF Serving, SoundScan
<1>4. ASSUME UNCHANGED task PROVE SoundTasks'
  BY <1>4 DEF Serving, SoundTasks, SoundTask
<1>5. ASSUME UNCHANGED outcome PROVE ServedAsAsked'
  BY <1>5 DEF Serving, ServedAsAsked
<1>6. CASE Scan
  <2>1. UNCHANGED <<flush, disk>>
    BY <1>6 DEF Scan, Begin, ReadHot, ReadCold, ReadMiss, Promote, PromoteGone, CheckHops,
                LookupPair, NoPair, DropNoServe, SpawnTask
  <2> QED BY <1>1, <1>6, <2>1, ScanServing DEF Serving
<1>7. ASSUME NEW t \in Tasks, Learn(t) PROVE Serving'
  <2>1. UNCHANGED <<flush, disk, scan, outcome>>
    BY <1>7 DEF Learn, FetchEnds, InsertKnown, InsertNew, RecordHops
  <2> QED BY <1>1, <1>3, <1>5, <1>7, <2>1, LearnServing DEF Serving
<1>8. CASE Flush
  <2>1. UNCHANGED <<memVars, scan, outcome, task>>
    BY <1>8 DEF Flush, FlushRoutes, SaveRoutes, SaveRoutesFails, FlushHops, SaveSomeHops, SaveHops,
                FlushDone
  <2> QED BY <1>2, <1>3, <1>4, <1>5, <1>8, <2>1, FlushServing DEF Serving
<1>9. ASSUME NEW m \in Modes, Restart(m) PROVE Serving'
  BY <1>9, RestartServing
<1>10. CASE UNCHANGED vars
  BY <1>1, <1>2, <1>3, <1>4, <1>5, <1>10 DEF vars, Serving
<1> QED BY <1>6, <1>7, <1>8, <1>9, <1>10 DEF Next

-----------------------------------------------------------------------------
\* Whatever the routes, the layout of their instructions, the capacity and the tasks, an
\* instruction served from the store is, byte for byte, that of the hops and amount asked for
\* (get_route, serve_route, insert_route, discover_offsets, patch_amounts_b64).
THEOREM ServedAsAskedAlways == Safety => []ServedAsAsked
<1>1. Serving => ServedAsAsked
  BY DEF Serving
<1> QED BY <1>1, ServingInit, ServingStep, PTL DEF Safety

\* The hop-pair index leads to every live and every saved route of two hops
\* (insert_route, push_hot_route, flush_routes_to_disk, load_routes_from_disk).
THEOREM PairsIndexedAlways == Safety => []PairsIndexed
<1>1. Serving => PairsIndexed
  BY DEF Serving, SoundMemory, SoundFiles, SoundIndex, Covers, PairsIndexed, Live
<1> QED BY <1>1, ServingInit, ServingStep, PTL DEF Safety

-----------------------------------------------------------------------------
(* The store implements RouteTable. *)

\* The refinement mapping, by the names of RouteTable's variables.
TableNow == Abstract(Known)
AnswerNow == [route |-> outcome.target, amount |-> outcome.amount, ix |-> outcome.ix]
PendingNow == Abstract(flush.routes)
SavedNow == Abstract(disk.routes)

ExactIx == [r \in Routes |-> [a \in Amounts |-> Encoded(r, a, Floor(a))]]
PatchablePairs == {x \in Routes \X Amounts : OffsetOf[x[1]][x[2]] # NoOffset}

LEMMA NoRoutes == ASSUME NEW f \in [{} -> {}] PROVE f = <<>>
<1>1. f \in [1..0 -> {}]
  OBVIOUS
<1>2. f \in Seq({})
  BY <1>1, SeqDef
<1> QED BY <1>2, EmptySeq, LenProperties

LEMMA AbstractEmpty == ASSUME NEW f, DOMAIN f = {} PROVE Abstract(f) = <<>>
<1>1. Abstract(f) \in [{} -> {}]
  BY DEF Abstract
<1> QED BY <1>1, NoRoutes

LEMMA KnownIs ==
    /\ DOMAIN Known = Live /\ DOMAIN TableNow = Live
    /\ \A r \in Live : Known[r] = IF r \in DOMAIN hot THEN hot[r] ELSE cold[r]
    /\ \A r \in Live : TableNow[r] = View(Known[r])
BY DEF Known, TableNow, Abstract

\* What happens to a template shows in the table.
LEMMA TableSame == UNCHANGED <<hot, cold>> => UNCHANGED TableNow
BY DEF TableNow, Abstract, Known, Live

LEMMA SoundKnown == ASSUME Serving, NEW r \in Live PROVE r \in Routes /\ Sound(r, Known[r])
BY KnownIs DEF Serving, SoundMemory, SoundMap, Live

\* serve_route gives what the table would, bytes included.
LEMMA ServedByTable ==
    ASSUME NEW r \in Routes, NEW t, Sound(r, t), NEW a \in Amounts
    PROVE  Served(t, a) = IF a \in DOMAIN View(t).variants THEN View(t).variants[a]
                          ELSE IF View(t).patchable THEN ExactIx[r][a] ELSE None
<1>1. /\ View(t).variants = t.variants /\ View(t).patchable = (t.offset # NoOffset)
      /\ ExactIx[r][a] = Encoded(r, a, Floor(a))
  BY DEF View, ExactIx
<1>2. ASSUME a \notin DOMAIN t.variants, t.offset # NoOffset PROVE Served(t, a) = Encoded(r, a, Floor(a))
  <2>1. Served(t, a) = Patched(t, a)
    BY <1>2 DEF Served
  <2> QED BY <1>2, <2>1, PatchedIs
<1> QED BY <1>1, <1>2 DEF Served

LEMMA TableAsks ==
    ASSUME Serving, NEW r \in Live, NEW a \in Amounts
    PROVE  T!Serve(r, TableNow[r], a) = Served(Known[r], a) /\ r \in Routes
<1>1. r \in Routes /\ Sound(r, Known[r]) /\ TableNow[r] = View(Known[r])
  BY SoundKnown, KnownIs
<1>2. Served(Known[r], a) = IF a \in DOMAIN TableNow[r].variants THEN TableNow[r].variants[a]
                            ELSE IF TableNow[r].patchable THEN ExactIx[r][a] ELSE None
  BY <1>1, ServedByTable
<1> QED BY <1>1, <1>2 DEF T!Serve, ExactIx

\* A lookup whose answer is a template's, while other routes may be lost.
LEMMA AskKnown ==
    ASSUME Serving, NEW r \in Live, NEW a \in Amounts,
           outcome'.target = r, outcome'.amount = a, outcome'.ix = Served(Known[r], a),
           UNCHANGED <<flush, disk>>, NEW K \in SUBSET Live, r \in K, TableNow' = [x \in K |-> TableNow[x]]
    PROVE  T!Ask(r, a) /\ r \in Routes
<1>1. r \in Routes /\ T!Serve(r, TableNow[r], a) = Served(Known[r], a)
  BY TableAsks
<1>2. AnswerNow' = [route |-> r, amount |-> a, ix |-> T!Serve(r, TableNow[r], a)]
  BY <1>1 DEF AnswerNow
<1>3. r \in DOMAIN TableNow /\ K \in T!Kept(r) /\ TableNow' = T!Only(K)
  BY KnownIs DEF T!Kept, T!Only, TableNow
<1>4. UNCHANGED <<PendingNow, SavedNow>>
  BY DEF PendingNow, SavedNow
<1> QED BY <1>1, <1>2, <1>3, <1>4 DEF T!Ask, TableNow, AnswerNow, PendingNow, SavedNow

LEMMA AskUnknown ==
    ASSUME NEW r \in Routes, r \notin Live, NEW a \in Amounts,
           outcome'.target = r, outcome'.amount = a, outcome'.ix = None, UNCHANGED <<hot, cold, flush, disk>>
    PROVE  T!Ask(r, a)
<1>1. r \notin DOMAIN TableNow /\ UNCHANGED TableNow
  BY KnownIs, TableSame
<1>2. AnswerNow' = [route |-> r, amount |-> a, ix |-> None]
  BY DEF AnswerNow
<1>3. UNCHANGED <<PendingNow, SavedNow>>
  BY DEF PendingNow, SavedNow
<1> QED BY <1>1, <1>2, <1>3 DEF T!Ask, TableNow, AnswerNow, PendingNow, SavedNow

LEMMA TableStutter == UNCHANGED <<hot, cold, outcome>> /\ flush'.routes = flush.routes /\ disk'.routes = disk.routes
                        => UNCHANGED T!vars
<1> SUFFICES ASSUME UNCHANGED <<hot, cold, outcome>>, flush'.routes = flush.routes, disk'.routes = disk.routes
             PROVE  UNCHANGED T!vars
  OBVIOUS
<1>1. UNCHANGED TableNow
  BY TableSame
<1>2. UNCHANGED <<AnswerNow, PendingNow, SavedNow>>
  BY DEF AnswerNow, PendingNow, SavedNow, Abstract
<1> QED BY <1>1, <1>2 DEF T!vars, TableNow, AnswerNow, PendingNow, SavedNow

\* Making a route hot keeps its template, and what is left of the others.
LEMMA PushedTable ==
    ASSUME NEW r, NEW t, NEW c, PushHot(r, t, c), r \notin DOMAIN hot, r \notin DOMAIN c,
           DOMAIN hot \cap DOMAIN cold = {}, DOMAIN c \subseteq DOMAIN cold,
           \A x \in DOMAIN c : c[x] = cold[x]
    PROVE  /\ r \in Live' /\ Live' \ {r} \in SUBSET Live /\ TableNow'[r] = View(t)
           /\ TableNow' = [x \in Live' |-> IF x = r THEN View(t) ELSE TableNow[x]]
<1>1. /\ DOMAIN hot' = (IF Full(hot) THEN {r} ELSE DOMAIN hot \cup {r})
      /\ cold' = (IF Full(hot) THEN hot ELSE c)
      /\ hot'[r] = t
      /\ ~Full(hot) => \A x \in DOMAIN hot : hot'[x] = hot[x]
  BY DEF PushHot, Put, Empty
<1>2. r \in Live' /\ Live' \ {r} \in SUBSET Live
  BY <1>1 DEF Live
<1>3. TableNow' = [x \in Live' |-> View(IF x \in DOMAIN hot' THEN hot'[x] ELSE cold'[x])]
  BY DEF TableNow, Abstract, Known
<1>4. \A x \in Live : TableNow[x] = View(IF x \in DOMAIN hot THEN hot[x] ELSE cold[x])
  BY KnownIs
<1>5. ASSUME NEW x \in Live'
      PROVE  View(IF x \in DOMAIN hot' THEN hot'[x] ELSE cold'[x]) = IF x = r THEN View(t) ELSE TableNow[x]
  <2>1. CASE x = r
    BY <1>1, <2>1
  <2>2. CASE x # r
    <3>1. x \in Live /\ TableNow[x] = View(IF x \in DOMAIN hot THEN hot[x] ELSE cold[x])
      BY <1>2, <1>4, <2>2
    <3>2. CASE Full(hot)
      BY <1>1, <2>2, <3>1, <3>2 DEF Live
    <3>3. CASE ~Full(hot)
      BY <1>1, <2>2, <3>1, <3>3 DEF Live
    <3> QED BY <3>2, <3>3
  <2> QED BY <2>1, <2>2
<1> QED BY <1>2, <1>3, <1>5

LEMMA PromotedTable ==
    ASSUME Segments, NEW r \in DOMAIN cold, PushHot(r, Known[r], Remove(cold, r))
    PROVE  r \in Live' /\ Live' \in SUBSET Live /\ TableNow' = [x \in Live' |-> TableNow[x]]
<1>1. /\ r \notin DOMAIN hot /\ DOMAIN hot \cap DOMAIN cold = {} /\ r \in Live
      /\ TableNow[r] = View(Known[r])
  BY KnownIs DEF Segments, SegmentsDisjoint, Live
<1>2. /\ r \notin DOMAIN Remove(cold, r) /\ DOMAIN Remove(cold, r) \subseteq DOMAIN cold
      /\ \A x \in DOMAIN Remove(cold, r) : Remove(cold, r)[x] = cold[x]
  BY DEF Remove
<1>3. PICK t, c : t = Known[r] /\ c = Remove(cold, r)
  OBVIOUS
<1>4. /\ r \in Live' /\ Live' \ {r} \in SUBSET Live
      /\ TableNow' = [x \in Live' |-> IF x = r THEN View(t) ELSE TableNow[x]]
  BY <1>1, <1>2, <1>3, PushedTable
<1> QED BY <1>1, <1>3, <1>4

\* The scanner's steps: a lookup, the end of one, or nothing that the table has.
LEMMA ScanTable == ASSUME Serving, Segments, Scan PROVE T!Next \/ UNCHANGED T!vars
<1>1. ASSUME NEW r \in Routes, NEW a \in Amounts, Begin(r, a) PROVE T!NextOpportunity
  <2>1. UNCHANGED <<TableNow, PendingNow, SavedNow>>
    BY <1>1, TableSame DEF Begin, memVars, PendingNow, SavedNow
  <2>2. AnswerNow' = [route |-> None, amount |-> None, ix |-> None]
    BY <1>1 DEF Begin, NoOutcome, AnswerNow
  <2> QED BY <2>1, <2>2 DEF T!NextOpportunity, T!NoAnswer, TableNow, AnswerNow, PendingNow, SavedNow
<1>2. ASSUME scan.stage # "idle"
      PROVE  scan.target \in Routes /\ scan.amount \in Amounts
  BY <1>2 DEF Serving, SoundScan
<1>3. ASSUME NEW ix, Answer(ix)
      PROVE  outcome'.target = scan.target /\ outcome'.amount = scan.amount /\ outcome'.ix = ix
  BY <1>3 DEF Answer
<1>4. ASSUME UNCHANGED <<hot, cold>> PROVE TableNow' = [x \in Live |-> TableNow[x]]
  <2>1. TableNow = [x \in Live |-> TableNow[x]]
    BY DEF TableNow, Abstract, Known
  <2> QED BY <1>4, <2>1, TableSame
<1>5. ASSUME scan.stage # "idle", scan.target \in Live, Answer(Served(Known[scan.target], scan.amount)),
             UNCHANGED <<hot, cold, flush, disk>>
      PROVE  T!Next
  <2>1. T!Ask(scan.target, scan.amount)
    BY <1>2, <1>3, <1>4, <1>5, AskKnown
  <2> QED BY <1>2, <1>5, <2>1 DEF T!Next
<1>6. ASSUME scan.stage # "idle", scan.target \notin Live, Answer(None), UNCHANGED <<hot, cold, flush, disk>>
      PROVE  T!Next
  <2>1. T!Ask(scan.target, scan.amount)
    BY <1>2, <1>3, <1>6, AskUnknown
  <2> QED BY <1>2, <1>6, <2>1 DEF T!Next
<1>7. CASE ReadHot
  BY <1>5, <1>7, KnownIs DEF ReadHot, Live, memVars
<1>8. CASE ReadMiss
  BY <1>6, <1>8 DEF ReadMiss, memVars
<1>9. CASE PromoteGone
  <2>1. CASE scan.target \in DOMAIN hot
    BY <1>5, <1>9, <2>1, KnownIs DEF PromoteGone, Live, memVars
  <2>2. CASE scan.target \notin DOMAIN hot
    BY <1>6, <1>9, <2>2 DEF PromoteGone, Live, memVars
  <2> QED BY <2>1, <2>2
<1>10. CASE Promote
  <2> DEFINE r == scan.target
             K == Live'
  <2>1. /\ r \in DOMAIN cold /\ r \notin DOMAIN hot /\ r \in Live /\ Known[r] = cold[r]
        /\ UNCHANGED <<flush, disk>> /\ scan.stage # "idle"
    BY <1>10, KnownIs DEF Promote, Segments, SegmentsDisjoint, Live
  <2>2. PushHot(r, Known[r], Remove(cold, r))
    BY <1>10, <2>1 DEF Promote
  <2>3. r \in K /\ K \in SUBSET Live /\ TableNow' = [x \in K |-> TableNow[x]]
    BY <2>1, <2>2, PromotedTable
  <2>4. outcome'.target = r /\ outcome'.amount = scan.amount /\ outcome'.ix = Served(Known[r], scan.amount)
    BY <1>3, <1>10, <2>1 DEF Promote
  <2>5. T!Ask(r, scan.amount) /\ r \in Routes
    BY <1>2, <2>1, <2>3, <2>4, AskKnown
  <2> QED BY <1>2, <2>1, <2>5 DEF T!Next
<1>11. CASE UNCHANGED <<hot, cold, outcome, flush, disk>>
  BY <1>11, TableStutter
<1> QED BY <1>1, <1>7, <1>8, <1>9, <1>10, <1>11
        DEF Scan, T!Next, ReadCold, CheckHops, LookupPair, NoPair, DropNoServe, SpawnTask, memVars

\* What a known template gains, the table sees.
LEMMA LearntView ==
    ASSUME NEW r \in Routes, NEW a \in Amounts, NEW t, Sound(r, t)
    PROVE  View(Learnt(t, a, MetisIx[r][a])) = T!Gained(r, View(t), a)
<1>1. DOMAIN t = TemplateFields
  BY DEF Sound
<1>2. CASE a \in DOMAIN t.variants
  BY <1>2 DEF Learnt, T!Gained, View
<1>3. CASE a \notin DOMAIN t.variants
  <2> DEFINE more == Put(t.variants, a, MetisIx[r][a])
  <2>1. Learnt(t, a, MetisIx[r][a]) = [t EXCEPT !.variants = more]
    BY <1>3 DEF Learnt
  <2> HIDE DEF more
  <2>2. View([t EXCEPT !.variants = more]) = [base |-> t.base, patchable |-> t.offset # NoOffset, variants |-> more]
    BY <1>1 DEF View, TemplateFields
  <2>3. T!Gained(r, View(t), a) = [View(t) EXCEPT !.variants = more]
    BY <1>3 DEF T!Gained, View, more, Put
  <2>4. [View(t) EXCEPT !.variants = more] = [base |-> t.base, patchable |-> t.offset # NoOffset, variants |-> more]
    BY DEF View
  <2> QED BY <2>1, <2>2, <2>3, <2>4
<1> QED BY <1>2, <1>3

\* A Metis task teaches the table one amount of its route.
LEMMA LearnTable == ASSUME Serving, Segments, NEW t \in Tasks, Learn(t) PROVE T!Next \/ UNCHANGED T!vars
<1> DEFINE r == task[t].route
           a == task[t].amount
<1>1. ASSUME Saves(t) PROVE r \in Routes /\ a \in Amounts /\ Fetched(t) = MetisIx[r][a]
  BY <1>1 DEF Saves, Serving, SoundTasks, SoundTask, Fetched
<1>2. CASE InsertKnown(t)
  <2>1. Saves(t) /\ r \in Live /\ UNCHANGED <<outcome, flush, disk>>
    BY <1>2 DEF InsertKnown
  <2>2. r \in Routes /\ a \in Amounts /\ Fetched(t) = MetisIx[r][a] /\ Sound(r, Known[r])
    BY <1>1, <2>1, SoundKnown
  <2> DEFINE new == Learnt(Known[r], a, MetisIx[r][a])
  <2>3. /\ hot' = (IF r \in DOMAIN hot THEN [hot EXCEPT ![r] = Learnt(hot[r], a, Fetched(t))] ELSE hot)
        /\ cold' = (IF r \in DOMAIN hot THEN cold
                    ELSE IF r \in DOMAIN cold THEN [cold EXCEPT ![r] = Learnt(cold[r], a, Fetched(t))] ELSE cold)
    BY <1>2 DEF InsertKnown
  <2>4. PICK x, b : x = r /\ b = a
    OBVIOUS
  <2> HIDE DEF r, a
  <2>5. DOMAIN hot' = DOMAIN hot /\ DOMAIN cold' = DOMAIN cold /\ Live' = Live
    BY <2>3 DEF Live
  <2>6. TableNow' = [y \in Live |-> View(IF y \in DOMAIN hot' THEN hot'[y] ELSE cold'[y])]
    BY <2>5 DEF TableNow, Abstract, Known
  <2>7. ASSUME NEW y \in Live
        PROVE  View(IF y \in DOMAIN hot' THEN hot'[y] ELSE cold'[y]) = IF y = r THEN View(new) ELSE TableNow[y]
    <3>1. TableNow[y] = View(Known[y]) /\ Known[y] = IF y \in DOMAIN hot THEN hot[y] ELSE cold[y]
      BY KnownIs
    <3>2. CASE y = r
      <4>1. (IF y \in DOMAIN hot' THEN hot'[y] ELSE cold'[y]) = new
        BY <2>1, <2>2, <2>3, <2>5, <3>1, <3>2 DEF Live
      <4> QED BY <3>2, <4>1
    <3>3. CASE y # r
      <4>1. (IF y \in DOMAIN hot' THEN hot'[y] ELSE cold'[y]) = Known[y]
        BY <2>3, <2>5, <3>1, <3>3 DEF Live
      <4> QED BY <3>1, <3>3, <4>1
    <3> QED BY <3>2, <3>3
  <2>8. View(new) = T!Gained(r, TableNow[r], a)
    BY <2>1, <2>2, LearntView, KnownIs
  <2> HIDE DEF new
  <2>9. TableNow = [y \in Live |-> TableNow[y]] /\ DOMAIN TableNow = Live
    BY DEF TableNow, Abstract, Known
  <2>10. TableNow' = [TableNow EXCEPT ![r] = T!Gained(r, TableNow[r], a)]
    BY <2>1, <2>6, <2>7, <2>8, <2>9
  <2>11. UNCHANGED <<AnswerNow, PendingNow, SavedNow>>
    BY <2>1 DEF AnswerNow, PendingNow, SavedNow
  <2>12. T!Learn(x, b)
    BY <2>1, <2>4, <2>9, <2>10, <2>11 DEF T!Learn, TableNow, AnswerNow, PendingNow, SavedNow
  <2> QED BY <2>2, <2>4, <2>12 DEF T!Next
<1>3. CASE InsertNew(t)
  <2>1. Saves(t) /\ r \notin Live /\ UNCHANGED <<outcome, flush, disk>> /\ PushHot(r, NewTemplate(t), cold)
    BY <1>3 DEF InsertNew
  <2>2. r \in Routes /\ a \in Amounts /\ Fetched(t) = MetisIx[r][a]
    BY <1>1, <2>1
  <2>3. PICK x, b, n, c : x = r /\ b = a /\ n = NewTemplate(t) /\ c = cold
    OBVIOUS
  <2>4. x \in Routes /\ b \in Amounts /\ x \notin Live
    BY <2>1, <2>2, <2>3
  <2>5. View(n) = [base |-> MetisIx[x][b], patchable |-> <<x, b>> \in PatchablePairs,
                   variants |-> [y \in {b} |-> MetisIx[x][b]]]
    <3>1. n = [base |-> MetisIx[x][b], inAmount |-> b, quotedOut |-> Floor(b),
               offset |-> OffsetOf[x][b], variants |-> Put(Empty, b, MetisIx[x][b])]
      BY <2>2, <2>3 DEF NewTemplate
    <3>2. Put(Empty, b, MetisIx[x][b]) = [y \in {b} |-> MetisIx[x][b]]
      BY DEF Put, Empty
    <3>3. (OffsetOf[x][b] # NoOffset) = (<<x, b>> \in PatchablePairs)
      BY <2>4 DEF PatchablePairs
    <3> QED BY <3>1, <3>2, <3>3 DEF View
  <2>6. /\ x \in Live' /\ Live' \ {x} \in SUBSET Live
        /\ TableNow' = [y \in Live' |-> IF y = x THEN View(n) ELSE TableNow[y]]
    <3>1. x \notin DOMAIN hot /\ x \notin DOMAIN c /\ DOMAIN hot \cap DOMAIN cold = {}
      BY <2>3, <2>4 DEF Live, Segments, SegmentsDisjoint
    <3>2. PushHot(x, n, c)
      BY <2>1, <2>3
    <3> QED BY <2>3, <3>1, <3>2, PushedTable
  <2>7. PICK K : K = Live' \ {x}
    OBVIOUS
  <2>8. DOMAIN TableNow = Live
    BY KnownIs
  <2>9. K \in T!Kept(x)
    BY <2>4, <2>6, <2>7, <2>8 DEF T!Kept, TableNow
  <2>10. TableNow' = [y \in K \cup {x} |-> IF y = x THEN View(n) ELSE TableNow[y]]
    BY <2>6, <2>7
  <2>11. UNCHANGED <<AnswerNow, PendingNow, SavedNow>>
    BY <2>1 DEF AnswerNow, PendingNow, SavedNow
  <2>12. T!Learn(x, b)
    BY <2>4, <2>5, <2>8, <2>9, <2>10, <2>11
       DEF T!Learn, TableNow, AnswerNow, PendingNow, SavedNow, PatchablePairs
  <2> QED BY <2>4, <2>12 DEF T!Next
<1>4. CASE FetchEnds(t) \/ RecordHops(t)
  BY <1>4, TableStutter DEF FetchEnds, RecordHops, memVars
<1> QED BY <1>2, <1>3, <1>4 DEF Learn

\* The flush: a moment of the table is taken, and is saved or not.
LEMMA FlushTable == ASSUME Serving, Segments, Flush PROVE T!Next \/ UNCHANGED T!vars
<1>1. /\ UNCHANGED <<TableNow, AnswerNow>>
      /\ DOMAIN flush = {"stage", "routes", "pairs", "hops"} /\ DOMAIN disk = {"routes", "pairs", "hops"}
  <2>1. UNCHANGED <<hot, cold, outcome>>
    BY DEF Flush, FlushRoutes, SaveRoutes, SaveRoutesFails, FlushHops, SaveSomeHops, SaveHops, FlushDone, memVars
  <2> QED BY <2>1, TableSame DEF AnswerNow, Segments, FiniteStore
<1>2. CASE FlushRoutes
  <2>1. flush'.routes = Snapshot /\ disk' = disk
    BY <1>2 DEF FlushRoutes, NoFlush
  <2>2. ASSUME NEW r \in Live PROVE View(Snapshot[r]) = T!Bare(TableNow[r])
    <3>1. TableNow[r] = View(Known[r]) /\ Snapshot[r] = Record(Known[r]) /\ DOMAIN Known[r] = TemplateFields
      BY KnownIs, SoundKnown DEF Snapshot, Sound
    <3>2. PICK k : k = Known[r]
      OBVIOUS
    <3>3. View(Record(k)) = [base |-> k.base, patchable |-> k.offset # NoOffset, variants |-> Empty]
      BY <3>1, <3>2 DEF View, Record, TemplateFields
    <3>4. T!Bare(View(k)) = [base |-> k.base, patchable |-> k.offset # NoOffset, variants |-> Empty]
      BY DEF T!Bare, T!Empty, View, Empty
    <3> QED BY <3>1, <3>2, <3>3, <3>4
  <2>3. PendingNow' = [r \in Live |-> View(Snapshot[r])]
    BY <2>1 DEF PendingNow, Abstract, Snapshot
  <2>4. PendingNow' = [r \in DOMAIN TableNow |-> T!Bare(TableNow[r])]
    BY <2>2, <2>3, KnownIs
  <2>5. UNCHANGED SavedNow
    BY <2>1 DEF SavedNow
  <2>6. T!BeginSave
    BY <1>1, <2>4, <2>5 DEF T!BeginSave, TableNow, AnswerNow, PendingNow, SavedNow
  <2> QED BY <2>6 DEF T!Next
<1>3. ASSUME flush'.routes = Empty, disk'.routes = flush.routes \/ disk'.routes = disk.routes
      PROVE  T!Next
  <2>1. PendingNow' = <<>>
    <3>1. DOMAIN flush'.routes = {}
      BY <1>3 DEF Empty
    <3>2. Abstract(flush'.routes) = <<>>
      BY <3>1, AbstractEmpty
    <3> QED BY <3>2 DEF PendingNow, Abstract
  <2>2. SavedNow' \in {PendingNow, SavedNow}
    BY <1>3 DEF PendingNow, SavedNow, Abstract
  <2>3. T!EndSave
    BY <1>1, <2>1, <2>2 DEF T!EndSave, T!Empty, TableNow, AnswerNow, PendingNow, SavedNow
  <2> QED BY <2>3 DEF T!Next
<1>4. CASE SaveRoutes
  BY <1>1, <1>3, <1>4 DEF SaveRoutes, NoFlush
<1>5. CASE SaveRoutesFails \/ FlushHops \/ FlushDone
  <2>1. flush'.routes = Empty /\ disk' = disk
    <3>1. CASE SaveRoutesFails
      BY <3>1 DEF SaveRoutesFails, NoFlush
    <3>2. CASE FlushHops
      BY <3>2 DEF FlushHops, NoFlush
    <3>3. CASE FlushDone
      BY <3>3 DEF FlushDone, NoFlush
    <3> QED BY <1>5, <3>1, <3>2, <3>3
  <2> QED BY <1>3, <2>1
<1>6. CASE SaveSomeHops
  BY <1>1, <1>6, TableStutter DEF SaveSomeHops, SaveHops, memVars
<1> QED BY <1>2, <1>4, <1>5, <1>6 DEF Flush

\* A restart goes back to what was saved, or to nothing.
LEMMA RestartTable == ASSUME NEW m \in Modes, Restart(m) PROVE T!Next
<1>1. /\ hot' = disk.routes \/ hot' = Empty
      /\ cold' = Empty /\ outcome' = NoOutcome /\ flush' = NoFlush /\ UNCHANGED disk
  BY DEF Restart
<1>2. TableNow' = Abstract(hot')
  <2>1. DOMAIN cold' = {} /\ Live' = DOMAIN hot'
    BY <1>1 DEF Empty, Live
  <2>2. Known' = [r \in DOMAIN hot' |-> hot'[r]]
    BY <2>1 DEF Known
  <2>3. DOMAIN Known' = DOMAIN hot' /\ \A r \in DOMAIN hot' : Known'[r] = hot'[r]
    BY <2>2
  <2> QED BY <2>3 DEF TableNow, Abstract
<1>3. TableNow' \in {SavedNow, <<>>}
  <2>1. CASE hot' = disk.routes
    BY <1>2, <2>1 DEF SavedNow
  <2>2. CASE hot' = Empty
    <3>1. DOMAIN hot' = {}
      BY <2>2 DEF Empty
    <3> QED BY <1>2, <3>1, AbstractEmpty
  <2> QED BY <1>1, <2>1, <2>2
<1>4. PendingNow' = <<>>
  <2>1. DOMAIN flush'.routes = {}
    BY <1>1 DEF NoFlush, Empty
  <2>2. Abstract(flush'.routes) = <<>>
    BY <2>1, AbstractEmpty
  <2> QED BY <2>2 DEF PendingNow, Abstract
<1>5. UNCHANGED SavedNow /\ AnswerNow' = [route |-> None, amount |-> None, ix |-> None]
  BY <1>1 DEF SavedNow, AnswerNow, NoOutcome
<1>6. T!Restart
  BY <1>3, <1>4, <1>5 DEF T!Restart, T!Empty, T!NoAnswer, TableNow, AnswerNow, PendingNow, SavedNow
<1> QED BY <1>6 DEF T!Next

\* For all routes, tasks, capacities and switches, the two segments with their promotions and
\* evictions, the patched bytes, the flush and the restarts do what RouteTable promises: one
\* table whose lookups are atomic, whose templates are never overwritten and only gain
\* variants, and whose file holds one moment of it.
THEOREM TableImplemented == Safety => ImplementsTable
<1>1. Init => T!Init
  <2> SUFFICES ASSUME Init PROVE T!Init
    OBVIOUS
  <2>1. DOMAIN Known = {} /\ DOMAIN flush.routes = {} /\ DOMAIN disk.routes = {}
    BY DEF Init, Known, Live, NoFlush, Empty
  <2>2. TableNow = <<>> /\ PendingNow = <<>> /\ SavedNow = <<>>
    BY <2>1, AbstractEmpty DEF TableNow, PendingNow, SavedNow
  <2>3. AnswerNow = [route |-> None, amount |-> None, ix |-> None]
    BY DEF Init, NoOutcome, AnswerNow
  <2> QED BY <2>2, <2>3 DEF T!Init, T!Empty, T!NoAnswer, TableNow, AnswerNow, PendingNow, SavedNow
<1>2. Init => Serving /\ Segments
  BY ServingInit, InitSegments
<1>3. Serving /\ Segments /\ [Next]_vars => Serving' /\ Segments'
  BY ServingStep, SegmentsStep
<1>4. Serving /\ Segments /\ [Next]_vars => [T!Next]_T!vars
  <2> SUFFICES ASSUME Serving, Segments, [Next]_vars PROVE T!Next \/ UNCHANGED T!vars
    OBVIOUS
  <2>1. CASE UNCHANGED vars
    BY <2>1, TableStutter DEF vars, memVars
  <2> QED BY <2>1, ScanTable, LearnTable, FlushTable, RestartTable DEF Next
<1> QED BY <1>1, <1>2, <1>3, <1>4, PTL DEF Safety, ImplementsTable, T!Spec

-----------------------------------------------------------------------------
(* Types: what Serving leaves open. *)

VariantMaps(f) == \A r \in DOMAIN f : IsMap(f[r].variants, Amounts, Instructions)

TypedMemory ==
    /\ VariantMaps(hot) /\ VariantMaps(cold)
    /\ IsMap(index, Pairs, Routes) /\ hops \subseteq Hops

TypedFiles ==
    /\ flush.stage \in {"idle", "save", "hops", "files"}
    /\ VariantMaps(flush.routes) /\ VariantMaps(disk.routes)
    /\ IsMap(flush.pairs, Pairs, Routes) /\ IsMap(disk.pairs, Pairs, Routes)
    /\ flush.hops \subseteq Hops /\ disk.hops \subseteq Hops

TypedScan ==
    /\ scan.stage \in {"idle", "read", "promote", "hops", "index", "metis"} /\ scan.tier \in {1, 2}
    /\ outcome.ix # None => outcome.amount \in Amounts

TypedTasks == \A t \in Tasks : task[t].stage \in {"idle", "fetch", "record"}

TypedProcess == mode \in Modes /\ boot \in 0..Cardinality(Routes)

Typed == TypedMemory /\ TypedFiles /\ TypedScan /\ TypedTasks /\ TypedProcess

LEMMA EmptyTyped == VariantMaps(Empty) /\ \A S, U : IsMap(Empty, S, U)
BY DEF VariantMaps, IsMap, Empty

LEMMA MetisTyped == ASSUME NEW r \in Routes, NEW a \in Amounts PROVE MetisIx[r][a] \in Instructions
<1>1. MetisIx[r][a] = Encoded(r, a, Embeds[r][a])
  BY DEF MetisIx
<1>2. Embeds[r][a] \in UNION {Outs(s, b) : s \in Routes, b \in Amounts}
  <2>1. Embeds[r][a] \in Outs(r, a)
    BY DEF Outs
  <2> QED BY <2>1
<1>3. <<r, a>> \in Routes \X Amounts /\ <<r, a>>[1] = r /\ <<r, a>>[2] = a
  OBVIOUS
<1> QED BY <1>1, <1>2, <1>3 DEF Instructions

LEMMA PutMap ==
    ASSUME NEW f, NEW S, NEW U, IsMap(f, S, U), NEW x \in S, NEW y \in U
    PROVE  IsMap(Put(f, x, y), S, U)
BY DEF IsMap, Put

LEMMA PutVariants ==
    ASSUME NEW f, VariantMaps(f), NEW r, NEW t, IsMap(t.variants, Amounts, Instructions)
    PROVE  VariantMaps(Put(f, r, t))
BY DEF VariantMaps, Put

LEMMA PushTyped ==
    ASSUME VariantMaps(hot), NEW c, VariantMaps(c), NEW r, NEW t, PushHot(r, t, c),
           IsMap(t.variants, Amounts, Instructions)
    PROVE  VariantMaps(hot') /\ VariantMaps(cold')
BY EmptyTyped, PutVariants DEF PushHot

LEMMA TypedInit == Init => Typed
<1> SUFFICES ASSUME Init PROVE Typed
  OBVIOUS
<1>1. TypedMemory /\ TypedFiles
  BY EmptyTyped DEF Init, TypedMemory, TypedFiles, NoFlush
<1>2. TypedScan /\ TypedTasks
  BY DEF Init, TypedScan, TypedTasks, Resting, NoOutcome, NoTask
<1>3. TypedProcess
  BY FiniteAssumption, FS_CardinalityType DEF Init, TypedProcess
<1> QED BY <1>1, <1>2, <1>3 DEF Typed

LEMMA AnswerTyped ==
    ASSUME Serving, Typed, NEW ix, Answer(ix), scan.stage # "idle" PROVE TypedScan'
<1>1. DOMAIN scan = {"stage", "tier", "route", "amount", "target"} /\ scan.amount \in Amounts /\ TypedScan
  BY DEF Serving, SoundScan, Typed
<1>2. outcome'.amount = scan.amount
  BY DEF Answer
<1>3. scan' = Resting \/ \E s \in {"hops", "metis"} : scan' = [scan EXCEPT !.stage = s]
  BY DEF Answer
<1> QED BY <1>1, <1>2, <1>3 DEF TypedScan, Resting

LEMMA ScanTyped ==
    ASSUME Serving, Typed, Scan PROVE TypedMemory' /\ TypedScan' /\ TypedTasks'
<1>1. SoundScan /\ SoundTasks /\ TypedMemory /\ TypedScan /\ TypedTasks
  BY DEF Serving, Typed
<1>2. ASSUME UNCHANGED memVars PROVE TypedMemory'
  BY <1>1, <1>2 DEF TypedMemory, memVars
<1>3. ASSUME UNCHANGED task PROVE TypedTasks'
  BY <1>1, <1>3 DEF TypedTasks
<1>4. ASSUME NEW r \in Routes, NEW a \in Amounts, Begin(r, a) PROVE TypedScan'
  BY <1>4 DEF Begin, TypedScan, NoOutcome
<1>5. ASSUME ReadHot \/ ReadMiss \/ Promote \/ PromoteGone PROVE TypedScan'
  BY <1>5, AnswerTyped DEF ReadHot, ReadMiss, Promote, PromoteGone
<1>6. ASSUME ReadCold \/ CheckHops \/ LookupPair \/ NoPair PROVE TypedScan'
  <2>1. UNCHANGED outcome
    BY <1>6 DEF ReadCold, CheckHops, LookupPair, NoPair
  <2>2. scan'.stage \in {"promote", "index", "metis", "read"} /\ scan'.tier \in {1, 2}
    BY <1>1, <1>6 DEF ReadCold, CheckHops, LookupPair, NoPair, SoundScan, TypedScan
  <2> QED BY <1>1, <2>1, <2>2 DEF TypedScan
<1>7. ASSUME DropNoServe \/ \E t \in Tasks : SpawnTask(t) PROVE TypedScan'
  BY <1>1, <1>7 DEF DropNoServe, SpawnTask, TypedScan, Resting
<1>8. ASSUME NEW t \in Tasks, SpawnTask(t) PROVE TypedTasks'
  BY <1>1, <1>8 DEF SpawnTask, SoundTasks, TypedTasks
<1>9. ASSUME Promote PROVE TypedMemory'
  <2>1. VariantMaps(Remove(cold, scan.target)) /\ IsMap(cold[scan.target].variants, Amounts, Instructions)
    BY <1>1, <1>9 DEF Promote, TypedMemory, VariantMaps, Remove
  <2>2. VariantMaps(hot') /\ VariantMaps(cold')
    BY <1>1, <1>9, <2>1, PushTyped DEF Promote, TypedMemory
  <2> QED BY <1>1, <1>9, <2>2 DEF Promote, TypedMemory
<1>10. TypedMemory'
  BY <1>2, <1>9 DEF Scan, Begin, ReadHot, ReadCold, ReadMiss, PromoteGone, CheckHops, LookupPair, NoPair,
                    DropNoServe, SpawnTask
<1>11. TypedTasks'
  BY <1>3, <1>8 DEF Scan, Begin, ReadHot, ReadCold, ReadMiss, Promote, PromoteGone, CheckHops, LookupPair,
                    NoPair, DropNoServe
<1>12. TypedScan'
  BY <1>4, <1>5, <1>6, <1>7 DEF Scan
<1> QED BY <1>10, <1>11, <1>12

LEMMA LearnTyped ==
    ASSUME Serving, Typed, NEW t \in Tasks, Learn(t) PROVE TypedMemory' /\ TypedTasks'
<1> DEFINE r == task[t].route
           a == task[t].amount
<1>1. SoundTasks /\ TypedMemory /\ TypedTasks
  BY DEF Serving, Typed
<1>2. TypedTasks'
  BY <1>1 DEF Learn, FetchEnds, InsertKnown, InsertNew, RecordHops, NoTask, SoundTasks, SoundTask, TypedTasks
<1>3. task[t].stage # "idle" => r \in Routes /\ a \in Amounts
  BY <1>1 DEF SoundTasks, SoundTask
<1>4. task[t].stage # "idle" => Fetched(t) \in Instructions
  BY <1>3, MetisTyped DEF Fetched
<1>5. CASE FetchEnds(t)
  BY <1>1, <1>2, <1>5 DEF FetchEnds, TypedMemory, memVars
<1>6. CASE InsertKnown(t)
  <2>1. task[t].stage # "idle"
    BY <1>6 DEF InsertKnown, Saves
  <2>2. ASSUME NEW m, DOMAIN m = TemplateFields, IsMap(m.variants, Amounts, Instructions)
        PROVE  IsMap(Learnt(m, a, Fetched(t)).variants, Amounts, Instructions)
    <3> HIDE DEF a
    <3>1. IsMap(Put(m.variants, a, Fetched(t)), Amounts, Instructions)
      BY <1>3, <1>4, <2>1, <2>2, PutMap
    <3> QED BY <2>2, <3>1 DEF Learnt, TemplateFields
  <2> DEFINE learn(f) == IF r \in DOMAIN f THEN [f EXCEPT ![r] = Learnt(@, a, Fetched(t))] ELSE f
  <2>3. ASSUME NEW f, VariantMaps(f), SoundMap(f) PROVE VariantMaps(learn(f))
    <3>1. CASE r \in DOMAIN f
      <4>1. DOMAIN f[r] = TemplateFields
        BY <2>3, <3>1 DEF SoundMap, Sound
      <4>2. IsMap(Learnt(f[r], a, Fetched(t)).variants, Amounts, Instructions)
        BY <2>2, <2>3, <3>1, <4>1 DEF VariantMaps
      <4> QED BY <2>3, <3>1, <4>2 DEF VariantMaps
    <3> QED BY <2>3, <3>1
  <2>4. SoundMap(hot) /\ SoundMap(cold)
    BY DEF Serving, SoundMemory
  <2>5. VariantMaps(hot') /\ VariantMaps(cold')
    BY <1>1, <1>6, <2>3, <2>4 DEF InsertKnown, TypedMemory
  <2>6. UNCHANGED <<index, hops>>
    BY <1>6 DEF InsertKnown
  <2> QED BY <1>1, <1>2, <2>5, <2>6 DEF TypedMemory
<1>7. CASE InsertNew(t)
  <2>1. task[t].stage # "idle"
    BY <1>7 DEF InsertNew, Saves
  <2>2. IsMap(NewTemplate(t).variants, Amounts, Instructions)
    <3>1. IsMap(Put(Empty, a, Fetched(t)), Amounts, Instructions)
      BY <1>3, <1>4, <2>1, PutMap, EmptyTyped
    <3> QED BY <3>1 DEF NewTemplate
  <2>3. VariantMaps(hot') /\ VariantMaps(cold')
    BY <1>1, <1>7, <2>2, PushTyped DEF InsertNew, TypedMemory
  <2>4. IsMap(index', Pairs, Routes)
    <3>1. CASE Paired(r) /\ HopsOf[r] \notin DOMAIN index
      <4>1. HopsOf[r] \in Pairs /\ r \in Routes
        BY <1>3, <2>1, <3>1 DEF Pairs
      <4>2. IsMap(Put(index, HopsOf[r], r), Pairs, Routes)
        BY <1>1, <4>1, PutMap DEF TypedMemory
      <4> QED BY <1>7, <3>1, <4>2 DEF InsertNew
    <3>2. CASE ~(Paired(r) /\ HopsOf[r] \notin DOMAIN index)
      BY <1>1, <1>7, <3>2 DEF InsertNew, TypedMemory
    <3> QED BY <3>1, <3>2
  <2>5. UNCHANGED hops
    BY <1>7 DEF InsertNew
  <2> QED BY <1>1, <1>2, <2>3, <2>4, <2>5 DEF TypedMemory
<1>8. CASE RecordHops(t)
  <2>1. r \in Routes
    BY <1>3, <1>8 DEF RecordHops
  <2>2. HopsIn(r) \subseteq Hops
    <3>1. HopsOf[r] \in Seq(Hops)
      BY <2>1, RouteAssumption
    <3>2. \A k \in 1..Len(HopsOf[r]) : HopsOf[r][k] \in Hops
      BY <3>1, ElementOfSeq
    <3> QED BY <3>2 DEF HopsIn
  <2> QED BY <1>1, <1>2, <1>8, <2>2 DEF RecordHops, TypedMemory
<1> QED BY <1>5, <1>6, <1>7, <1>8 DEF Learn

LEMMA FlushTyped == ASSUME Serving, Typed, Flush PROVE TypedFiles'
<1>1. /\ DOMAIN flush = {"stage", "routes", "pairs", "hops"} /\ DOMAIN disk = {"routes", "pairs", "hops"}
      /\ TypedFiles /\ TypedMemory /\ SoundMap(hot) /\ SoundMap(cold)
  BY DEF Serving, SoundFiles, SoundMemory, Typed
<1>2. CASE FlushRoutes
  <2>1. VariantMaps(Snapshot)
    <3>1. ASSUME NEW m, DOMAIN m = TemplateFields PROVE IsMap(Record(m).variants, Amounts, Instructions)
      BY <3>1, EmptyTyped DEF Record, TemplateFields
    <3>2. ASSUME NEW s \in Live PROVE IsMap(Snapshot[s].variants, Amounts, Instructions)
      BY <1>1, <3>1 DEF Snapshot, Live, SoundMap, Sound
    <3> QED BY <3>2 DEF VariantMaps, Snapshot
  <2> HIDE DEF Snapshot
  <2> QED BY <1>1, <1>2, <2>1, EmptyTyped DEF FlushRoutes, TypedFiles, TypedMemory, NoFlush
<1>3. CASE SaveRoutes
  BY <1>1, <1>3, EmptyTyped DEF SaveRoutes, TypedFiles, NoFlush
<1>4. CASE SaveRoutesFails
  BY <1>1, <1>4, EmptyTyped DEF SaveRoutesFails, TypedFiles, NoFlush
<1>5. CASE FlushHops
  BY <1>1, <1>5, EmptyTyped DEF FlushHops, TypedFiles, TypedMemory, NoFlush
<1>6. CASE SaveSomeHops
  <2>1. PICK d : SaveHops(d)
    BY <1>6 DEF SaveSomeHops
  <2> QED BY <1>1, <2>1 DEF SaveHops, TypedFiles
<1>7. CASE FlushDone
  BY <1>1, <1>7, EmptyTyped DEF FlushDone, TypedFiles, NoFlush
<1> QED BY <1>2, <1>3, <1>4, <1>5, <1>6, <1>7 DEF Flush

LEMMA RestartTyped == ASSUME Serving, Typed, NEW m \in Modes, Restart(m) PROVE Typed'
<1>1. TypedFiles /\ SoundMap(disk.routes) /\ UNCHANGED disk
  BY DEF Serving, SoundFiles, Typed, Restart
<1>2. TypedMemory'
  BY <1>1, EmptyTyped DEF Restart, TypedMemory, TypedFiles
<1>3. TypedFiles'
  BY <1>1, EmptyTyped DEF Restart, TypedFiles, NoFlush
<1>4. TypedScan' /\ TypedTasks'
  BY DEF Restart, TypedScan, TypedTasks, Resting, NoOutcome, NoTask
<1>5. TypedProcess'
  <2>1. DOMAIN hot' \subseteq Routes
    BY <1>1 DEF Restart, SoundMap, Empty
  <2>2. /\ Cardinality(DOMAIN hot') <= Cardinality(Routes) /\ IsFiniteSet(DOMAIN hot')
    BY <2>1, FiniteAssumption, FS_Subset
  <2>3. Cardinality(DOMAIN hot') \in 0..Cardinality(Routes)
    BY <2>2, FiniteAssumption, FS_CardinalityType
  <2> QED BY <2>3 DEF Restart, TypedProcess
<1> QED BY <1>2, <1>3, <1>4, <1>5 DEF Typed

LEMMA TypedStep == Serving /\ Typed /\ [Next]_vars => Typed'
<1> SUFFICES ASSUME Serving, Typed, [Next]_vars PROVE Typed'
  OBVIOUS
<1>1. ASSUME UNCHANGED <<flush, disk>> PROVE TypedFiles'
  BY <1>1 DEF Typed, TypedFiles
<1>2. ASSUME UNCHANGED memVars PROVE TypedMemory'
  BY <1>2 DEF Typed, TypedMemory, memVars
<1>3. ASSUME UNCHANGED <<scan, outcome>> PROVE TypedScan'
  BY <1>3 DEF Typed, TypedScan
<1>4. ASSUME UNCHANGED task PROVE TypedTasks'
  BY <1>4 DEF Typed, TypedTasks
<1>5. ASSUME UNCHANGED <<mode, boot>> PROVE TypedProcess'
  BY <1>5 DEF Typed, TypedProcess
<1>6. CASE Scan
  <2>1. UNCHANGED <<flush, disk, mode, boot>>
    BY <1>6 DEF Scan, Begin, ReadHot, ReadCold, ReadMiss, Promote, PromoteGone, CheckHops,
                LookupPair, NoPair, DropNoServe, SpawnTask
  <2> QED BY <1>1, <1>5, <1>6, <2>1, ScanTyped DEF Typed
<1>7. ASSUME NEW t \in Tasks, Learn(t) PROVE Typed'
  <2>1. UNCHANGED <<flush, disk, scan, outcome, mode, boot>>
    BY <1>7 DEF Learn, FetchEnds, InsertKnown, InsertNew, RecordHops
  <2> QED BY <1>1, <1>3, <1>5, <1>7, <2>1, LearnTyped DEF Typed
<1>8. CASE Flush
  <2>1. UNCHANGED <<memVars, scan, outcome, task, mode, boot>>
    BY <1>8 DEF Flush, FlushRoutes, SaveRoutes, SaveRoutesFails, FlushHops, SaveSomeHops, SaveHops,
                FlushDone
  <2> QED BY <1>2, <1>3, <1>4, <1>5, <1>8, <2>1, FlushTyped DEF Typed
<1>9. ASSUME NEW m \in Modes, Restart(m) PROVE Typed'
  BY <1>9, RestartTyped
<1>10. CASE UNCHANGED vars
  BY <1>1, <1>2, <1>3, <1>4, <1>5, <1>10 DEF vars, Typed
<1> QED BY <1>6, <1>7, <1>8, <1>9, <1>10 DEF Next

\* A sound template is a template: its offset points into its data.
LEMMA SoundTyped ==
    ASSUME NEW f, SoundMap(f), VariantMaps(f) PROVE IsTemplateMap(f)
<1>1. ASSUME NEW r \in DOMAIN f PROVE IsTemplate(f[r])
  <2> DEFINE a == f[r].inAmount
             n == Len(Layout[r].head)
             m == Len(Layout[r].tail)
  <2>1. r \in Routes /\ Sound(r, f[r]) /\ a \in Amounts
    BY DEF SoundMap, Sound
  <2>2. f[r].base \in Instructions /\ f[r].base = Encoded(r, a, Embeds[r][a])
    BY <2>1, MetisTyped DEF Sound, MetisIx
  <2> HIDE DEF a
  <2>3. a \in Nat /\ Embeds[r][a] \in Nat /\ n \in Nat /\ m \in Nat /\ Width \in Nat /\ Width > 0
    BY <2>1, LayoutAssumption, WidthAssumption
  <2>4. f[r].base.data = DataAt(r, a, Embeds[r][a]) /\ f[r].base.data \in Seq(ByteValues)
    BY <2>1, <2>2, <2>3, EncodedAt
  <2>5. DOMAIN f[r].base.data = 1..(n + 2 * Width + m)
    BY <2>4 DEF DataAt
  <2> HIDE DEF n, m
  <2>6. Len(f[r].base.data) = n + 2 * Width + m
    <3>1. \A d \in Seq(ByteValues), k \in Nat : DOMAIN d = 1..k => Len(d) = k
      BY LenProperties
    <3>2. n + 2 * Width + m \in Nat
      BY <2>3
    <3> QED BY <2>4, <2>5, <3>1, <3>2
  <2>7. f[r].offset \in 0..Len(f[r].base.data)
    <3>1. f[r].offset = n + 1 \/ f[r].offset = 0
      BY <2>1 DEF Sound, Position, NoOffset, n
    <3>2. n + 1 \in 0..(n + 2 * Width + m) /\ 0 \in 0..(n + 2 * Width + m)
      BY <2>3
    <3> QED BY <2>6, <3>1, <3>2
  <2> QED BY <2>1, <2>2, <2>7 DEF Sound, IsTemplate, VariantMaps
<1> QED BY <1>1 DEF IsTemplateMap, SoundMap

\* Type correctness, for all routes, layouts and tasks: every template kept in memory or on disk
\* has an offset within its data, and what is served is an instruction of the model.
THEOREM TypeCorrect == Safety => []TypeOK
<1>1. ASSUME Serving, Typed PROVE TypeOK
  <2>1. IsTemplateMap(hot) /\ IsTemplateMap(cold) /\ IsTemplateMap(flush.routes) /\ IsTemplateMap(disk.routes)
    BY <1>1, SoundTyped DEF Serving, SoundMemory, SoundFiles, Typed, TypedMemory, TypedFiles
  <2>2. outcome.ix \in Instructions \cup {None}
    <3>1. ASSUME outcome.ix # None PROVE outcome.ix \in Instructions
      <4>1. PICK r \in Routes : \E out \in Outs(r, outcome.amount) : outcome.ix = Encoded(r, outcome.amount, out)
        BY <1>1, <3>1 DEF Serving, ServedAsAsked
      <4>2. PICK out \in Outs(r, outcome.amount) : outcome.ix = Encoded(r, outcome.amount, out)
        BY <4>1
      <4>3. outcome.amount \in Amounts
        BY <1>1, <3>1 DEF Typed, TypedScan
      <4>4. out \in UNION {Outs(s, b) : s \in Routes, b \in Amounts}
        BY <4>2, <4>3
      <4>5. <<r, outcome.amount>> \in Routes \X Amounts
        BY <4>3
      <4> QED BY <4>2, <4>4, <4>5 DEF Instructions
    <3> QED BY <3>1
  <2>3. /\ scan.stage \in {"idle", "read", "promote", "hops", "index", "metis"}
        /\ scan.stage # "idle" =>
             scan.tier \in {1, 2} /\ scan.route \in Routes /\ scan.target \in Routes /\ scan.amount \in Amounts
    BY <1>1 DEF Serving, SoundScan, Typed, TypedScan
  <2>4. \A t \in Tasks :
          /\ task[t].stage \in {"idle", "fetch", "record"}
          /\ task[t].stage # "idle" => task[t].route \in Routes /\ task[t].amount \in Amounts
    BY <1>1 DEF Serving, SoundTasks, SoundTask, Typed, TypedTasks
  <2> QED BY <1>1, <2>1, <2>2, <2>3, <2>4 DEF Typed, TypedMemory, TypedFiles, TypedProcess, TypeOK
<1> QED BY <1>1, ServingInit, ServingStep, TypedInit, TypedStep, PTL DEF Safety

-----------------------------------------------------------------------------
(* What a live template may become. *)

\* The same base at the same offset, with at least the amounts it had.
Enriched(t, u) ==
    /\ u.base = t.base /\ u.inAmount = t.inAmount /\ u.quotedOut = t.quotedOut /\ u.offset = t.offset
    /\ DOMAIN t.variants \subseteq DOMAIN u.variants
    /\ \A a \in DOMAIN t.variants : u.variants[a] = t.variants[a]

\* The routes that a step leaves live keep what is known of them.
LiveKept == \A r \in Live : r \in Live' => Enriched(Known[r], Known'[r])

LEMMA EnrichedSame == \A t : Enriched(t, t)
BY DEF Enriched

LEMMA KnownNext == \A r \in Live' : Known'[r] = IF r \in DOMAIN hot' THEN hot'[r] ELSE cold'[r]
BY DEF Known

LEMMA KeptSame == UNCHANGED <<hot, cold>> => LiveKept
<1> SUFFICES ASSUME UNCHANGED <<hot, cold>> PROVE LiveKept
  OBVIOUS
<1>1. \A r \in Live : Known'[r] = Known[r]
  BY DEF Known, Live
<1> QED BY <1>1, EnrichedSame DEF LiveKept

\* push_hot_route loses routes, and changes none that it does not lose.
LEMMA PushKept ==
    ASSUME SegmentsDisjoint, NEW r, NEW t, NEW c, PushHot(r, t, c), r \notin DOMAIN hot, r \notin DOMAIN c,
           DOMAIN c \subseteq DOMAIN cold, \A x \in DOMAIN c : c[x] = cold[x]
    PROVE  /\ \A x \in Live : x \in Live' /\ x # r => Known'[x] = Known[x]
           /\ r \in Live' /\ Known'[r] = t
<1>1. /\ DOMAIN hot' = (IF Full(hot) THEN {r} ELSE DOMAIN hot \cup {r})
      /\ cold' = (IF Full(hot) THEN hot ELSE c)
      /\ hot'[r] = t
      /\ ~Full(hot) => \A x \in DOMAIN hot : hot'[x] = hot[x]
  BY DEF PushHot, Put, Empty
<1>2. r \in Live' /\ Known'[r] = t
  BY <1>1, KnownNext DEF Live
<1>3. ASSUME NEW x \in Live, x \in Live', x # r PROVE Known'[x] = Known[x]
  <2>1. /\ Known'[x] = IF x \in DOMAIN hot' THEN hot'[x] ELSE cold'[x]
        /\ Known[x] = IF x \in DOMAIN hot THEN hot[x] ELSE cold[x]
    BY <1>3, KnownIs, KnownNext
  <2>2. CASE Full(hot)
    BY <1>1, <1>3, <2>1, <2>2 DEF Live
  <2>3. CASE ~Full(hot)
    BY <1>1, <1>3, <2>1, <2>3 DEF Live, SegmentsDisjoint
  <2> QED BY <2>2, <2>3
<1> QED BY <1>2, <1>3

LEMMA PromoteKept == ASSUME Segments, Promote PROVE LiveKept
<1> DEFINE r == scan.target
<1>1. /\ r \in DOMAIN cold /\ r \notin DOMAIN hot /\ Known[r] = cold[r] /\ SegmentsDisjoint
      /\ PushHot(r, cold[r], Remove(cold, r))
  BY KnownIs DEF Promote, Segments, SegmentsDisjoint, Live
<1>2. /\ r \notin DOMAIN Remove(cold, r) /\ DOMAIN Remove(cold, r) \subseteq DOMAIN cold
      /\ \A x \in DOMAIN Remove(cold, r) : Remove(cold, r)[x] = cold[x]
  BY DEF Remove
<1>3. PICK x, t, c : x = r /\ t = cold[r] /\ c = Remove(cold, r)
  OBVIOUS
<1> HIDE DEF r
<1>4. /\ \A y \in Live : y \in Live' /\ y # x => Known'[y] = Known[y]
      /\ Known'[x] = t
  BY <1>1, <1>2, <1>3, PushKept
<1> QED BY <1>1, <1>3, <1>4, EnrichedSame DEF LiveKept

LEMMA InsertNewKept == ASSUME Segments, NEW t \in Tasks, InsertNew(t) PROVE LiveKept
<1>1. PICK r, n, c : r = task[t].route /\ n = NewTemplate(t) /\ c = cold
  OBVIOUS
<1>2. r \notin Live /\ PushHot(r, n, c) /\ SegmentsDisjoint
  BY <1>1 DEF InsertNew, Segments
<1>3. \A x \in Live : x \in Live' /\ x # r => Known'[x] = Known[x]
  BY <1>1, <1>2, PushKept DEF Live
<1> QED BY <1>2, <1>3, EnrichedSame DEF LiveKept

\* What Metis answered joins the variants, and replaces none.
LEMMA LearntEnriched == ASSUME NEW t, DOMAIN t = TemplateFields, NEW a, NEW ix PROVE Enriched(t, Learnt(t, a, ix))
<1>1. CASE a \in DOMAIN t.variants
  BY <1>1, EnrichedSame DEF Learnt
<1>2. CASE a \notin DOMAIN t.variants
  <2>1. PICK more : more = Put(t.variants, a, ix)
    OBVIOUS
  <2>2. DOMAIN t.variants \subseteq DOMAIN more /\ \A b \in DOMAIN t.variants : more[b] = t.variants[b]
    BY <1>2, <2>1 DEF Put
  <2>3. Learnt(t, a, ix) = [t EXCEPT !.variants = more]
    BY <1>2, <2>1 DEF Learnt
  <2>4. PICK u : u = [t EXCEPT !.variants = more]
    OBVIOUS
  <2>5. /\ u.base = t.base /\ u.inAmount = t.inAmount /\ u.quotedOut = t.quotedOut /\ u.offset = t.offset
        /\ u.variants = more
    BY <2>4 DEF TemplateFields
  <2> QED BY <2>2, <2>3, <2>4, <2>5 DEF Enriched
<1> QED BY <1>1, <1>2

LEMMA InsertKnownKept == ASSUME Serving, Segments, NEW t \in Tasks, InsertKnown(t) PROVE LiveKept
<1>1. PICK r, a, ix : r = task[t].route /\ a = task[t].amount /\ ix = Fetched(t)
  OBVIOUS
<1>2. /\ r \in Live
      /\ hot' = (IF r \in DOMAIN hot THEN [hot EXCEPT ![r] = Learnt(hot[r], a, ix)] ELSE hot)
      /\ cold' = (IF r \in DOMAIN hot THEN cold
                  ELSE IF r \in DOMAIN cold THEN [cold EXCEPT ![r] = Learnt(cold[r], a, ix)] ELSE cold)
  BY <1>1 DEF InsertKnown
<1>3. DOMAIN hot' = DOMAIN hot /\ DOMAIN cold' = DOMAIN cold /\ Live' = Live
  BY <1>2 DEF Live
<1>4. ASSUME NEW x \in Live PROVE Known'[x] = IF x = r THEN Learnt(Known[x], a, ix) ELSE Known[x]
  <2>1. /\ Known'[x] = IF x \in DOMAIN hot' THEN hot'[x] ELSE cold'[x]
        /\ Known[x] = IF x \in DOMAIN hot THEN hot[x] ELSE cold[x]
    BY <1>3, KnownIs, KnownNext
  <2> QED BY <1>2, <1>3, <2>1 DEF Live
<1>5. \A x \in Live : DOMAIN Known[x] = TemplateFields
  BY SoundKnown DEF Sound
<1> QED BY <1>4, <1>5, EnrichedSame, LearntEnriched DEF LiveKept

\* After a restart, the table is what the file held, or empty where the switches load nothing.
Reloaded ==
    /\ \E m \in Modes : Restart(m)
    /\ Live' \in {DOMAIN disk.routes, {}}
    /\ \A r \in Live' : Known'[r] = disk.routes[r]

LEMMA RestartReloads == ASSUME NEW m \in Modes, Restart(m) PROVE Reloaded
<1>1. hot' = disk.routes \/ DOMAIN hot' = {}
  BY DEF Restart, Empty
<1>2. DOMAIN cold' = {} /\ Live' = DOMAIN hot'
  BY DEF Restart, Empty, Live
<1> QED BY <1>1, <1>2, KnownNext DEF Reloaded

LEMMA StepKept == Serving /\ Segments /\ [Next]_vars => [Reloaded \/ LiveKept]_vars
<1> SUFFICES ASSUME Serving, Segments, Next PROVE Reloaded \/ LiveKept
  OBVIOUS
<1>1. ASSUME Scan PROVE LiveKept
  <2>1. CASE Promote
    BY <2>1, PromoteKept
  <2>2. CASE UNCHANGED <<hot, cold>>
    BY <2>2, KeptSame
  <2> QED BY <1>1, <2>1, <2>2
          DEF Scan, Begin, ReadHot, ReadCold, ReadMiss, PromoteGone, CheckHops, LookupPair, NoPair,
              DropNoServe, SpawnTask, memVars
<1>2. ASSUME NEW t \in Tasks, Learn(t) PROVE LiveKept
  <2>1. CASE FetchEnds(t) \/ RecordHops(t)
    BY <2>1, KeptSame DEF FetchEnds, RecordHops, memVars
  <2> QED BY <1>2, <2>1, InsertKnownKept, InsertNewKept DEF Learn
<1>3. ASSUME Flush PROVE LiveKept
  BY <1>3, KeptSame
     DEF Flush, FlushRoutes, SaveRoutes, SaveRoutesFails, FlushHops, SaveSomeHops, SaveHops, FlushDone, memVars
<1> QED BY <1>1, <1>2, <1>3, RestartReloads DEF Next

\* A template stays what it was as long as its route stays live and the process lives: promotion
\* moves it, a Metis task adds amounts to it, and no interleaving of the scanner's two locks with
\* the tasks' puts another base, offset or older copy in its place. A restart brings back the
\* templates of the file and no others.
THEOREM OnlyEnriched == Safety => [][Reloaded \/ LiveKept]_vars
<1>1. Init => Serving /\ Segments
  BY ServingInit, InitSegments
<1>2. Serving /\ Segments /\ [Next]_vars => Serving' /\ Segments'
  BY ServingStep, SegmentsStep
<1> QED BY <1>1, <1>2, StepKept, PTL DEF Safety

=============================================================================

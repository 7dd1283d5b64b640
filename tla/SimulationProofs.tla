-------------------------- MODULE SimulationProofs --------------------------
(* Proofs about AccountCache and the simulators that read it (Simulation). *)
EXTENDS Simulation, FiniteSetTheorems, SequenceTheorems, TLAPS

-----------------------------------------------------------------------------
(* The account cache. *)

Update == [account : Streamed, slot : Nat \ {0}]

CacheType ==
    /\ now \in Nat
    /\ written \in [Accounts -> SUBSET (1..now)]
    /\ pending \in Seq(Update)
    /\ hand \in Update \cup {None}
    /\ cache \in [Accounts -> Nat]
    /\ clock \in Nat
    /\ live \subseteq Streamed

\* What is under way, and what it has put in the map, belongs to a connection.
Connected == stream # "up" => pending = <<>> /\ hand = None /\ live = {}

\* The last update of an account that is under way is its latest write, and with none under
\* way the copy is.
Delivers ==
    /\ \A k \in 1..Len(pending) :
          \/ pending[k].slot = Latest(pending[k].account)
          \/ \E j \in 1..Len(pending) : k < j /\ pending[j].account = pending[k].account
    /\ hand # None =>
          \/ hand.slot = Latest(hand.account)
          \/ \E j \in 1..Len(pending) : pending[j].account = hand.account
    /\ LiveIsCurrent

\* Updates come in the order of their slots, the clock between those applied and those to come.
Ordered ==
    /\ clock <= now
    /\ \A k \in 1..Len(pending) : clock <= pending[k].slot /\ pending[k].slot <= now
    /\ \A j, k \in 1..Len(pending) : j < k => pending[j].slot <= pending[k].slot
    /\ hand # None => hand.slot <= clock
    /\ ClockNotBehind

CacheInv == CacheType /\ Connected /\ Delivers /\ Ordered

\* The cache never loses an account it once had.
Kept == \A a \in Accounts : cache[a] # 0 => cache'[a] # 0

LEMMA NoneNotUpdate == None \notin Update
BY AccountAssumption DEF Update

LEMMA Appended ==
    ASSUME NEW s \in Seq(Update), NEW u \in Update
    PROVE  /\ Append(s, u) \in Seq(Update)
           /\ Len(s) \in Nat /\ Len(Append(s, u)) = Len(s) + 1
           /\ \A k \in 1..Len(s) : Append(s, u)[k] = s[k]
           /\ Append(s, u)[Len(s) + 1] = u
BY AppendProperties, LenProperties

LEMMA Tailed ==
    ASSUME NEW S, NEW s \in Seq(S), s # <<>>
    PROVE  /\ Head(s) = s[1] /\ Head(s) \in S
           /\ Tail(s) \in Seq(S)
           /\ Len(s) \in Nat \ {0} /\ Len(Tail(s)) = Len(s) - 1
           /\ \A k \in 1..(Len(s) - 1) : Tail(s)[k] = s[k + 1]
<1>1. Len(s) \in Nat \ {0}
  BY LenProperties, EmptySeq
<1>2. Head(s) = s[1] /\ Head(s) \in S /\ Tail(s) \in Seq(S) /\ Len(Tail(s)) = Len(s) - 1
  BY <1>1, HeadTailProperties
<1>3. \A k \in 1..(Len(s) - 1) : Tail(s)[k] = s[k + 1]
  BY <1>2, HeadTailProperties
<1> QED BY <1>1, <1>2, <1>3

\* A sequence's positions, as Awaited looks at them.
LEMMA Awaits ==
    ASSUME CacheType, NEW a
    PROVE  Awaited(a) <=> \/ hand # None /\ hand.account = a
                          \/ \E k \in 1..Len(pending) : pending[k].account = a
<1>1. DOMAIN pending = 1..Len(pending)
  BY LenProperties DEF CacheType
<1> QED BY <1>1 DEF Awaited

LEMMA CacheInit == Init => CacheInv
<1> SUFFICES ASSUME Init PROVE CacheInv
  OBVIOUS
<1>1. CacheType
  BY EmptySeq DEF Init, CacheType
<1>2. Len(pending) = 0
  BY DEF Init
<1> QED BY <1>1, <1>2 DEF CacheInv, Connected, Delivers, Ordered, LiveIsCurrent, ClockNotBehind, Init

\* A step that leaves the map and the stream alone.
LEMMA Still ==
    ASSUME CacheInv, UNCHANGED <<chainVars, stream, pending, hand, cache, clock, live>>
    PROVE  CacheInv' /\ Kept
<1>1. Kept
  BY DEF Kept
<1>2. \A a : (Latest(a)' = Latest(a)) /\ (Awaited(a)' <=> Awaited(a))
  BY DEF Latest, Awaited, chainVars
<1>3. Delivers'
  BY <1>2 DEF CacheInv, Delivers, LiveIsCurrent, Latest, chainVars
<1> QED BY <1>1, <1>3 DEF CacheInv, CacheType, Connected, Ordered, ClockNotBehind, chainVars

\* A fetched copy is of a slot that wrote the account, and is no longer the stream's.
LEMMA FetchedInv ==
    ASSUME CacheInv, NEW a, NEW slot, a \in Accounts => slot \in written[a],
           cache' = [cache EXCEPT ![a] = slot], live' = live \ {a},
           UNCHANGED <<chainVars, stream, pending, hand, clock>>
    PROVE  CacheInv' /\ Kept
<1>1. cache \in [Accounts -> Nat] /\ live \subseteq Accounts /\ (a \in Accounts => slot \in Nat \ {0})
  BY AccountAssumption DEF CacheInv, CacheType
<1>2. /\ cache' \in [Accounts -> Nat]
      /\ \A b \in Accounts : b # a => cache'[b] = cache[b]
      /\ a \in Accounts => cache'[a] = slot
  BY <1>1
<1>3. Kept
  BY <1>1, <1>2 DEF Kept
<1>4. CacheType'
  BY <1>2 DEF CacheInv, CacheType, chainVars
<1>5. \A b : (Latest(b)' = Latest(b)) /\ (Awaited(b)' <=> Awaited(b))
  BY DEF Latest, Awaited, chainVars
<1>6. LiveIsCurrent'
  BY <1>1, <1>2, <1>5 DEF CacheInv, Delivers, LiveIsCurrent, Latest, chainVars
<1>7. ClockNotBehind'
  BY <1>1, <1>2 DEF CacheInv, Ordered, ClockNotBehind
<1>8. Delivers'
  BY <1>5, <1>6 DEF CacheInv, Delivers, Latest, chainVars
<1> QED BY <1>3, <1>4, <1>7, <1>8 DEF CacheInv, Connected, Ordered, chainVars

\* A new write is the latest, and the stream has it if it has the account at all.
LEMMA WriteInv == ASSUME CacheInv, NEW a \in Accounts, Write(a) PROVE CacheInv' /\ Kept
<1>1. /\ now \in Nat /\ now' = now + 1 /\ written \in [Accounts -> SUBSET (1..now)]
      /\ written' = [written EXCEPT ![a] = @ \cup {now + 1}]
      /\ pending \in Seq(Update) /\ UNCHANGED <<stream, hand, cache, clock, live>>
  BY DEF CacheInv, CacheType, Write
<1>2. Kept
  BY <1>1 DEF Kept
<1>3. \A b \in Accounts : b # a => Latest(b)' = Latest(b)
  BY <1>1 DEF Latest
<1>4. Latest(a)' = now + 1
  <2>1. /\ now + 1 \in written'[a]
        /\ \A y \in written'[a] : now + 1 >= y
        /\ \A x \in written'[a] : (\A y \in written'[a] : x >= y) => x = now + 1
    BY <1>1
  <2> QED BY <2>1 DEF Latest, Max
<1>5. written' \in [Accounts -> SUBSET (1..now')]
  BY <1>1
<1>6. CASE stream = "up" /\ a \in Streamed
  <2> DEFINE u == [account |-> a, slot |-> now + 1]
             n == Len(pending)
  <2>1. u \in Update /\ pending' = Append(pending, u) /\ u.account = a /\ u.slot = now + 1
    BY <1>1, <1>6 DEF Write, Update
  <2> HIDE DEF u
  <2>2. /\ pending' \in Seq(Update) /\ n \in Nat /\ Len(pending') = n + 1
        /\ \A k \in 1..n : pending'[k] = pending[k]
        /\ pending'[n + 1] = u
    BY <1>1, <2>1, Appended
  <2>3. \A k \in 1..n : pending[k] \in Update
    BY <1>1, ElementOfSeq
  <2>4. CacheType'
    BY <1>1, <1>5, <2>2 DEF CacheInv, CacheType
  <2>5. Connected'
    BY <1>1, <1>6 DEF CacheInv, Connected
  <2>6. ASSUME NEW k \in 1..Len(pending')
        PROVE  \/ pending'[k].slot = Latest(pending[k].account)'
               \/ \E j \in 1..Len(pending') : k < j /\ pending'[j].account = pending'[k].account
    <3>1. CASE k = n + 1
      BY <1>4, <2>1, <2>2, <3>1 DEF Latest
    <3>2. CASE k \in 1..n /\ pending[k].account = a
      BY <2>1, <2>2, <3>2
    <3>3. CASE k \in 1..n /\ pending[k].account # a
      <4>1. pending[k].account \in Accounts /\ pending'[k] = pending[k]
        BY <2>2, <2>3, <3>3, AccountAssumption DEF Update
      <4>2. Latest(pending[k].account) = Max(written'[pending[k].account])
        BY <1>1, <3>3, <4>1 DEF Latest
      <4>3. \/ pending[k].slot = Latest(pending[k].account)
            \/ \E j \in 1..n : k < j /\ pending[j].account = pending[k].account
        BY <3>3 DEF CacheInv, Delivers
      <4> QED BY <2>2, <3>3, <4>1, <4>2, <4>3 DEF Latest
    <3> QED BY <2>2, <3>1, <3>2, <3>3
  <2>7. ASSUME hand # None
        PROVE  \/ hand'.slot = Latest(hand.account)'
               \/ \E j \in 1..Len(pending') : pending'[j].account = hand'.account
    <3>1. CASE hand.account = a
      BY <1>1, <2>1, <2>2, <3>1
    <3>2. CASE hand.account # a
      <4>1. hand.account \in Accounts
        BY <2>7, AccountAssumption DEF CacheInv, CacheType, Update
      <4>2. Latest(hand.account) = Max(written'[hand.account])
        BY <1>1, <3>2, <4>1 DEF Latest
      <4> QED BY <1>1, <2>2, <2>7, <4>2 DEF CacheInv, Delivers, Latest
    <3> QED BY <3>1, <3>2
  <2>8. LiveIsCurrent'
    <3> SUFFICES ASSUME NEW b \in live, ~Awaited(b)' PROVE cache[b] = Latest(b)'
      BY <1>1 DEF LiveIsCurrent
    <3>1. b # a /\ ~Awaited(b)
      <4>1. DOMAIN pending' = 1..(n + 1)
        BY <2>2, LenProperties
      <4>2. Awaited(a)'
        BY <2>1, <2>2, <4>1 DEF Awaited
      <4>3. Awaited(b) => Awaited(b)'
        BY <1>1, <2>2, <4>1, Awaits DEF CacheInv, Awaited
      <4> QED BY <4>2, <4>3
    <3>2. b \in Accounts
      BY AccountAssumption DEF CacheInv, CacheType
    <3> QED BY <1>3, <3>1, <3>2 DEF CacheInv, Delivers, LiveIsCurrent
  <2>9. Ordered'
    <3>1. \A k \in 1..n : pending[k].slot \in Nat
      BY <2>3 DEF Update
    <3>2. clock \in Nat /\ clock <= now
      BY DEF CacheInv, CacheType, Ordered
    <3>3. \A k \in 1..Len(pending') : clock <= pending'[k].slot /\ pending'[k].slot <= now'
      BY <1>1, <2>1, <2>2, <3>1, <3>2 DEF CacheInv, Ordered
    <3>4. ASSUME NEW j \in 1..Len(pending'), NEW k \in 1..Len(pending'), j < k
          PROVE  pending'[j].slot <= pending'[k].slot
      <4>1. j \in 1..n /\ pending'[j] = pending[j] /\ pending[j].slot <= now
        BY <2>2, <3>4 DEF CacheInv, Ordered
      <4>2. CASE k = n + 1
        BY <1>1, <2>1, <2>2, <3>1, <4>1, <4>2
      <4>3. CASE k \in 1..n
        BY <2>2, <3>4, <4>1, <4>3 DEF CacheInv, Ordered
      <4> QED BY <2>2, <4>2, <4>3
    <3> QED BY <1>1, <3>2, <3>3, <3>4 DEF CacheInv, Ordered, ClockNotBehind
  <2> QED BY <1>1, <1>2, <2>4, <2>5, <2>6, <2>7, <2>8, <2>9 DEF CacheInv, Delivers, Latest
<1>7. CASE ~(stream = "up" /\ a \in Streamed)
  <2>1. UNCHANGED pending
    BY <1>7 DEF Write
  <2>2. ASSUME NEW b \in Streamed, stream = "up" PROVE b \in Accounts /\ Latest(b)' = Latest(b)
    BY <1>3, <1>7, <2>2, AccountAssumption
  <2>3. \A k \in 1..Len(pending) : pending[k] \in Update
    BY <1>1, ElementOfSeq
  <2>4. Delivers'
    <3>1. CASE stream = "up"
      <4>1. \A k \in 1..Len(pending) : Max(written'[pending[k].account]) = Max(written[pending[k].account])
        BY <2>2, <2>3, <3>1 DEF Update, Latest
      <4>2. hand # None => Max(written'[hand.account]) = Max(written[hand.account])
        BY <2>2, <3>1 DEF CacheInv, CacheType, Update, Latest
      <4>3. \A b \in live : Max(written'[b]) = Max(written[b])
        BY <2>2, <3>1 DEF CacheInv, CacheType, Latest
      <4> QED BY <1>1, <2>1, <4>1, <4>2, <4>3 DEF CacheInv, Delivers, LiveIsCurrent, Latest, Awaited
    <3>2. CASE stream # "up"
      BY <1>1, <2>1, <3>2 DEF CacheInv, Connected, Delivers, LiveIsCurrent
    <3> QED BY <3>1, <3>2
  <2>5. Ordered'
    <3>1. clock \in Nat /\ \A k \in 1..Len(pending) : pending[k].slot \in Nat
      BY <2>3 DEF CacheInv, CacheType, Update
    <3> QED BY <1>1, <2>1, <3>1 DEF CacheInv, Ordered, ClockNotBehind
  <2> QED BY <1>1, <1>2, <1>5, <2>1, <2>4, <2>5 DEF CacheInv, CacheType, Connected
<1> QED BY <1>6, <1>7

\* The clock moves to the slot of the update in hand, which is before those still to come.
LEMMA ReceiveInv == ASSUME CacheInv, Receive PROVE CacheInv' /\ Kept
<1> DEFINE n == Len(pending)
<1>1. /\ pending \in Seq(Update) /\ pending # <<>> /\ hand = None /\ hand' = Head(pending)
      /\ pending' = Tail(pending) /\ clock' = Head(pending).slot
      /\ UNCHANGED <<chainVars, stream, cache, live>>
  BY DEF CacheInv, CacheType, Receive
<1>2. /\ Head(pending) = pending[1] /\ pending[1] \in Update /\ pending' \in Seq(Update)
      /\ n \in Nat \ {0} /\ Len(pending') = n - 1
      /\ \A k \in 1..(n - 1) : pending'[k] = pending[k + 1]
  BY <1>1, Tailed
<1>3. hand' = pending[1] /\ hand' # None /\ clock' = pending[1].slot /\ clock' \in Nat
  BY <1>1, <1>2, NoneNotUpdate DEF Update
<1>4. Kept
  BY <1>1 DEF Kept
<1>5. CacheType'
  BY <1>1, <1>2, <1>3 DEF CacheInv, CacheType, chainVars
<1>6. \A k \in 1..n : pending[k].slot \in Nat
  <2>1. \A k \in 1..n : pending[k] \in Update
    BY <1>1, ElementOfSeq
  <2> QED BY <2>1 DEF Update
<1>7. Delivers'
  <2>1. ASSUME NEW k \in 1..Len(pending')
        PROVE  \/ pending'[k].slot = Latest(pending'[k].account)
               \/ \E j \in 1..Len(pending') : k < j /\ pending'[j].account = pending'[k].account
    <3>1. k \in Nat /\ k + 1 \in 1..n /\ pending'[k] = pending[k + 1]
      BY <1>2
    <3>2. CASE pending[k + 1].slot = Latest(pending[k + 1].account)
      BY <3>1, <3>2
    <3>3. CASE \E j \in 1..n : k + 1 < j /\ pending[j].account = pending[k + 1].account
      <4>1. PICK j \in 1..n : k + 1 < j /\ pending[j].account = pending[k + 1].account
        BY <3>3
      <4>2. j - 1 \in 1..Len(pending') /\ k < j - 1 /\ pending'[j - 1] = pending[j]
        BY <1>2, <3>1, <4>1
      <4> QED BY <3>1, <4>1, <4>2
    <3> QED BY <3>1, <3>2, <3>3 DEF CacheInv, Delivers
  <2>2. \/ hand'.slot = Latest(hand'.account)
        \/ \E j \in 1..Len(pending') : pending'[j].account = hand'.account
    <3>1. CASE \E j \in 1..n : 1 < j /\ pending[j].account = pending[1].account
      <4>1. PICK j \in 1..n : 1 < j /\ pending[j].account = pending[1].account
        BY <3>1
      <4>2. j - 1 \in 1..Len(pending') /\ pending'[j - 1] = pending[j]
        BY <1>2, <4>1
      <4> QED BY <1>3, <4>1, <4>2
    <3> QED BY <1>2, <1>3, <3>1 DEF CacheInv, Delivers
  <2>3. LiveIsCurrent'
    <3>1. ASSUME NEW b, Awaited(b) PROVE Awaited(b)'
      <4>1. PICK k \in 1..n : pending[k].account = b
        BY <1>1, <3>1, Awaits DEF CacheInv
      <4>2. CASE k = 1
        BY <1>3, <4>1, <4>2 DEF Awaited
      <4>3. CASE k # 1
        <5>1. k - 1 \in 1..Len(pending') /\ pending'[k - 1] = pending[k]
          BY <1>2, <4>3
        <5>2. DOMAIN pending' = 1..Len(pending')
          BY <1>2, LenProperties
        <5> QED BY <4>1, <5>1, <5>2 DEF Awaited
      <4> QED BY <4>2, <4>3
    <3> QED BY <1>1, <3>1 DEF CacheInv, Delivers, LiveIsCurrent, Latest, chainVars
  <2> QED BY <1>1, <2>1, <2>2, <2>3 DEF Delivers, Latest, chainVars
<1>8. Ordered'
  <2>1. /\ \A k \in 1..n : pending[1].slot <= pending[k].slot /\ pending[k].slot <= now
        /\ clock <= pending[1].slot /\ clock \in Nat
    BY <1>2, <1>6 DEF CacheInv, Ordered, CacheType
  <2>2. \A k \in 1..Len(pending') : clock' <= pending'[k].slot /\ pending'[k].slot <= now
    <3>1. \A k \in 1..Len(pending') : k + 1 \in 1..n /\ pending'[k] = pending[k + 1]
      BY <1>2
    <3> QED BY <1>3, <2>1, <3>1
  <2>3. \A j, k \in 1..Len(pending') : j < k => pending'[j].slot <= pending'[k].slot
    BY <1>2 DEF CacheInv, Ordered
  <2>4. ClockNotBehind'
    <3>1. \A b \in live : cache[b] \in Nat /\ cache[b] <= clock
      BY AccountAssumption DEF CacheInv, CacheType, Ordered, ClockNotBehind
    <3> QED BY <1>1, <1>3, <2>1, <3>1 DEF ClockNotBehind
  <2>5. clock' <= now /\ hand'.slot <= clock'
    <3>1. 1 \in 1..n
      BY <1>2
    <3> QED BY <1>3, <2>1, <3>1
  <2> QED BY <1>1, <2>2, <2>3, <2>4, <2>5 DEF Ordered, chainVars
<1>9. Connected'
  BY <1>1 DEF CacheInv, Connected
<1> QED BY <1>4, <1>5, <1>7, <1>8, <1>9 DEF CacheInv

\* With nothing more of the account under way, the update in hand is its latest write.
LEMMA ApplyInv == ASSUME CacheInv, Apply PROVE CacheInv' /\ Kept
<1> DEFINE a == hand.account
           s == hand.slot
<1>1. /\ hand \in Update /\ hand # None /\ hand' = None /\ cache \in [Accounts -> Nat] /\ a \in Accounts
      /\ a \in Streamed /\ s \in Nat \ {0} /\ cache' = [cache EXCEPT ![a] = s] /\ live' = live \cup {a}
      /\ UNCHANGED <<chainVars, stream, pending, clock>>
  BY AccountAssumption DEF CacheInv, CacheType, Apply, Update
<1> HIDE DEF a, s
<1>2. /\ cache' \in [Accounts -> Nat] /\ cache'[a] = s
      /\ \A b \in Accounts : b # a => cache'[b] = cache[b]
  BY <1>1
<1>3. Kept
  BY <1>1, <1>2 DEF Kept
<1>4. live \subseteq Streamed /\ live \subseteq Accounts
  BY AccountAssumption DEF CacheInv, CacheType
<1>5. CacheType'
  BY <1>1, <1>2, <1>4 DEF CacheInv, CacheType, chainVars
<1>6. LiveIsCurrent'
  <2> SUFFICES ASSUME NEW b \in live', ~Awaited(b)' PROVE cache'[b] = Latest(b)
    BY <1>1 DEF LiveIsCurrent, Latest, chainVars
  <2>1. ~\E k \in 1..Len(pending) : pending[k].account = b
    <3>1. DOMAIN pending' = 1..Len(pending)
      BY <1>1, LenProperties DEF CacheInv, CacheType
    <3> QED BY <1>1, <3>1 DEF Awaited
  <2>2. CASE b = a
    BY <1>1, <1>2, <2>1, <2>2 DEF CacheInv, Delivers, a, s
  <2>3. CASE b # a
    <3>1. b \in live /\ ~Awaited(b)
      BY <1>1, <2>1, <2>3, Awaits DEF CacheInv, a
    <3> QED BY <1>2, <1>4, <2>3, <3>1 DEF CacheInv, Delivers, LiveIsCurrent
  <2> QED BY <2>2, <2>3
<1>7. ClockNotBehind'
  <2>1. s <= clock
    BY <1>1 DEF CacheInv, Ordered, s
  <2> QED BY <1>1, <1>2, <1>4, <2>1 DEF CacheInv, Ordered, ClockNotBehind
<1>8. Delivers'
  BY <1>1, <1>6 DEF CacheInv, Delivers, Latest, chainVars
<1>9. Connected' /\ Ordered'
  BY <1>1, <1>7 DEF CacheInv, Connected, Ordered, chainVars
<1> QED BY <1>3, <1>5, <1>8, <1>9 DEF CacheInv

\* A connection begins with nothing under way and ends with nothing it vouches for.
LEMMA ConnectionInv == ASSUME CacheInv, Connect \/ Drop PROVE CacheInv' /\ Kept
<1>1. CASE Connect
  <2>1. \A a : (Latest(a)' = Latest(a)) /\ (Awaited(a)' <=> Awaited(a))
    BY <1>1 DEF Connect, Latest, Awaited, chainVars
  <2>2. Delivers'
    BY <1>1, <2>1 DEF Connect, CacheInv, Delivers, LiveIsCurrent, Latest, chainVars
  <2> QED BY <1>1, <2>2 DEF Connect, CacheInv, CacheType, Connected, Ordered, ClockNotBehind, chainVars, Kept
<1>2. CASE Drop
  <2>1. pending' = <<>> /\ Len(pending') = 0 /\ pending' \in Seq(Update) /\ hand' = None /\ live' = {}
        /\ UNCHANGED <<now, written, cache, clock>>
    BY <1>2, EmptySeq DEF Drop, chainVars
  <2>2. CacheType' /\ Kept
    BY <2>1 DEF CacheInv, CacheType, Kept
  <2>3. Delivers' /\ Connected'
    BY <2>1 DEF Delivers, LiveIsCurrent, Connected
  <2>4. Ordered'
    BY <2>1 DEF CacheInv, Ordered, ClockNotBehind
  <2> QED BY <2>2, <2>3, <2>4 DEF CacheInv
<1> QED BY <1>1, <1>2

LEMMA CacheStep == ASSUME CacheInv, [Next]_vars PROVE CacheInv' /\ Kept
<1>1. CASE UNCHANGED vars
  BY <1>1, Still DEF vars, chainVars
<1>2. CASE Hit \/ Miss \/ FetchFails
  BY <1>2, Still DEF Hit, Miss, FetchFails
<1>3. CASE Fetched
  <2>1. PICK slot \in written[Head(todo)] : cache' = [cache EXCEPT ![Head(todo)] = slot]
    BY <1>3 DEF Fetched
  <2> QED BY <1>3, <2>1, FetchedInv DEF Fetched
<1> QED BY <1>1, <1>2, <1>3, WriteInv, ReceiveInv, ApplyInv, ConnectionInv DEF Next

-----------------------------------------------------------------------------
(* The simulators. *)

Fields == {"stage", "tx", "on", "rest", "saw", "answer"}

\* Each caller's progress is a record, and what it saw a function of accounts.
Shaped ==
    /\ DOMAIN sim = Callers
    /\ \A c \in Callers : DOMAIN sim[c] = Fields
    /\ svm \in [Pool -> [clock : Nat, account : [Accounts -> Nat]]]

\* Callers that have a machine to themselves.
Inside(c) == sim[c].stage \in {"inject", "run"}

\* A machine is one caller's at a time.
Exclusive == \A c, d \in Callers : Inside(c) /\ Inside(d) /\ sim[c].on = sim[d].on => c = d

\* No machine has an account that the cache lacks, nor the data of a program.
NoLeftover ==
    \A s \in Pool : \A a \in Accounts : svm[s].account[a] # 0 => cache[a] # 0 /\ a \notin Executable

\* What a caller still has to inject are accounts; with those it has injected they cover its
\* transaction, and the machine has the latter as the caller read them.
Injected(c) ==
    /\ sim[c].on \in Pool /\ sim[c].tx \in Txs /\ sim[c].rest \in Seq(Accounts)
    /\ DOMAIN sim[c].saw \subseteq Accounts
    /\ \A a \in Collected(sim[c].tx) :
          a \in DOMAIN sim[c].saw \/ \E k \in 1..Len(sim[c].rest) : sim[c].rest[k] = a
    /\ \A a \in DOMAIN sim[c].saw :
          svm[sim[c].on].account[a] = IF a \in Executable THEN 0 ELSE sim[c].saw[a]

\* Before that it has read nothing.
Waiting(c) ==
    sim[c].stage \in {"lazy", "fetch", "lock"} =>
        sim[c].on \in Pool /\ sim[c].tx \in Txs /\ sim[c].saw = <<>>

SimInv ==
    /\ CacheInv /\ next \in Pool /\ Shaped /\ Exclusive /\ NoLeftover
    /\ \A c \in Callers : /\ Waiting(c)
                          /\ Inside(c) => Injected(c)
                          /\ sim[c].stage = "run" => sim[c].rest = <<>>

\* The pool has a machine, and the round-robin stays in it.
LEMMA PoolSize == Size \in Nat \ {0} /\ 0 \in Pool /\ \A n \in Pool : (n + 1) % Size \in Pool
<1>1. Size \in Nat \ {0}
  <2>1. Workers \in Nat
    BY PoolAssumption
  <2>2. CASE Workers = 0
    <3>1. \A x \in {Workers, 1} : (\A y \in {Workers, 1} : x >= y) <=> x = 1
      BY <2>2
    <3> QED BY <3>1 DEF Size, Max
  <2>3. CASE Workers # 0
    <3>1. \A x \in {Workers, 1} : (\A y \in {Workers, 1} : x >= y) <=> x = Workers
      BY <2>1, <2>3
    <3> QED BY <2>1, <2>3, <3>1 DEF Size, Max
  <2> QED BY <2>2, <2>3
<1> QED BY <1>1 DEF Pool

\* SetToSeq lists a finite set.
LEMMA Lists ==
    ASSUME NEW S, IsFiniteSet(S)
    PROVE  /\ SetToSeq(S) \in Seq(S)
           /\ \A x \in S : \E k \in 1..Len(SetToSeq(S)) : SetToSeq(S)[k] = x
<1> DEFINE n == Cardinality(S)
           f == SetToSeq(S)
<1>1. n \in Nat /\ ExistsBijection(1..n, S)
  BY FS_CardinalityType
<1>2. \E g \in [1..n -> S] : IsInjective(g)
  <2>1. PICK g \in Bijection(1..n, S) : TRUE
    BY <1>1 DEF ExistsBijection
  <2>2. g \in [1..n -> S] /\ IsInjective(g)
    BY <2>1 DEF Bijection, Injection, IsInjective
  <2> QED BY <2>2
<1>3. f \in [1..n -> S] /\ IsInjective(f)
  BY <1>2 DEF SetToSeq
<1> HIDE DEF f
<1>4. f \in Injection(1..n, S)
  BY <1>3 DEF Injection, IsInjective
<1>5. Cardinality(1..n) = n
  BY <1>1, FS_Interval
<1>6. f \in Surjection(1..n, S)
  BY <1>4, <1>5, FS_Injection
<1>7. f \in Seq(S) /\ Len(f) = n
  BY <1>1, <1>3
<1>8. \A x \in S : \E k \in 1..n : f[k] = x
  BY <1>6 DEF Surjection
<1> QED BY <1>7, <1>8 DEF f

\* What is collected of a transaction are accounts, and so are the tables it names.
LEMMA CollectedTyped ==
    ASSUME NEW tx \in Txs
    PROVE  /\ Collected(tx) \subseteq Accounts /\ IsFiniteSet(Collected(tx))
           /\ Tables(tx) \subseteq Accounts /\ IsFiniteSet(Tables(tx))
<1>1. \A t \in DOMAIN AddressesOf : \A i \in DOMAIN AddressesOf[t] : AddressesOf[t][i] \in Accounts
  <2>1. \A t \in DOMAIN AddressesOf : DOMAIN AddressesOf[t] = 1..Len(AddressesOf[t])
    BY TxAssumption, LenProperties
  <2> QED BY <2>1, TxAssumption, ElementOfSeq
<1>2. Collected(tx) \subseteq Accounts
  BY <1>1, TxAssumption DEF Collected
<1>3. Tables(tx) \subseteq Accounts
  BY TxAssumption DEF Tables
<1> QED BY <1>2, <1>3, TxAssumption, FS_Subset

\* A step of one caller concerns the others only through its machine and the cache.
LEMMA Others ==
    ASSUME SimInv, NEW c \in Callers, CacheInv', next' \in Pool, Shaped', NoLeftover',
           \A d \in Callers \ {c} : sim'[d] = sim[d],
           \A d \in Callers \ {c} : Inside(d) => svm'[sim[d].on].account = svm[sim[d].on].account,
           Inside(c)' => \A d \in Callers \ {c} : Inside(d) => sim[d].on # sim'[c].on,
           Waiting(c)', Inside(c)' => Injected(c)', sim'[c].stage = "run" => sim'[c].rest = <<>>
    PROVE  SimInv'
<1>1. ASSUME NEW d \in Callers, d # c
      PROVE  /\ Waiting(d)' /\ (Inside(d)' <=> Inside(d))
             /\ Inside(d)' => Injected(d)'
             /\ sim'[d].stage = "run" => sim'[d].rest = <<>>
  BY <1>1 DEF SimInv, Waiting, Inside, Injected
<1>2. Exclusive'
  BY <1>1 DEF SimInv, Exclusive, Inside
<1> QED BY <1>1, <1>2 DEF SimInv

\* A machine that is left alone has no leftover as long as the cache keeps its accounts.
LEMMA StillClean == SimInv /\ Kept /\ UNCHANGED svm => NoLeftover'
BY DEF SimInv, NoLeftover, Kept

LEMMA CacheKept == ASSUME SimInv, UNCHANGED vars PROVE CacheInv' /\ Kept
BY Still DEF SimInv, vars, chainVars

LEMMA CallInv == ASSUME SimInv, NEW c \in Callers, NEW tx \in Txs, Call(c, tx) PROVE SimInv'
<1>1. /\ DOMAIN sim = Callers /\ next \in Pool /\ UNCHANGED svm
      /\ sim' = [sim EXCEPT ![c] = [stage |-> "lazy", tx |-> tx, on |-> next,
                                    rest |-> SetToSeq(Collected(tx)), saw |-> <<>>, answer |-> "none"]]
  BY DEF SimInv, Shaped, Call
<1>2. /\ DOMAIN sim' = Callers /\ \A d \in Callers \ {c} : sim'[d] = sim[d]
      /\ DOMAIN sim'[c] = Fields /\ sim'[c].stage = "lazy" /\ sim'[c].tx = tx /\ sim'[c].on = next
      /\ sim'[c].saw = <<>>
  BY <1>1 DEF Fields
<1>3. CacheInv' /\ Kept /\ next' \in Pool
  BY CacheKept, PoolSize DEF Call, SimInv
<1>4. Shaped'
  BY <1>1, <1>2 DEF SimInv, Shaped
<1>5. Waiting(c)' /\ ~Inside(c)'
  BY <1>1, <1>2 DEF Waiting, Inside
<1> QED BY <1>1, <1>2, <1>3, <1>4, <1>5, StillClean, Others

\* The lazy fetch changes how far the caller is, and the cache.
LEMMA LazyInv ==
    ASSUME SimInv, NEW c \in Callers, LazyMiss(c) \/ LazyFetched(c) \/ LazyFails(c) \/ LazyDone(c)
    PROVE  SimInv'
<1>1. sim[c].stage \in {"lazy", "fetch"} /\ UNCHANGED <<svm, next>>
  BY DEF LazyMiss, LazyFetched, LazyFails, LazyDone
<1>2. DOMAIN sim = Callers /\ DOMAIN sim[c] = Fields
  BY DEF SimInv, Shaped
<1>3. /\ DOMAIN sim' = Callers /\ \A d \in Callers \ {c} : sim'[d] = sim[d]
      /\ DOMAIN sim'[c] = Fields /\ sim'[c].stage \in {"lazy", "fetch", "lock"}
      /\ sim'[c].tx = sim[c].tx /\ sim'[c].on = sim[c].on /\ sim'[c].saw = sim[c].saw
  BY <1>2 DEF LazyMiss, LazyFetched, LazyFails, LazyDone, Fields
<1>4. CacheInv' /\ Kept
  <2>1. CASE LazyFetched(c)
    <3> DEFINE a == Head(sim[c].rest)
    <3>1. PICK slot \in written[a] : cache' = [cache EXCEPT ![a] = slot]
      BY <2>1 DEF LazyFetched
    <3>2. live' = live \ {a} /\ UNCHANGED <<chainVars, stream, pending, hand, clock>>
      BY <2>1 DEF LazyFetched
    <3> HIDE DEF a
    <3> QED BY <3>1, <3>2, FetchedInv DEF SimInv
  <2>2. CASE LazyMiss(c) \/ LazyFails(c) \/ LazyDone(c)
    BY <2>2, CacheKept DEF LazyMiss, LazyFails, LazyDone
  <2> QED BY <2>1, <2>2
<1>5. Shaped'
  BY <1>1, <1>3 DEF SimInv, Shaped
<1>6. Waiting(c)' /\ ~Inside(c)'
  BY <1>1, <1>3 DEF SimInv, Waiting, Inside
<1>7. next' \in Pool
  BY <1>1 DEF SimInv
<1> QED BY <1>1, <1>3, <1>4, <1>5, <1>6, <1>7, StillClean, Others

\* The caller takes a machine that nobody is in, and lists what to inject.
LEMMA LockInv == ASSUME SimInv, NEW c \in Callers, Lock(c) PROVE SimInv'
<1> DEFINE tx == sim[c].tx
           s == sim[c].on
           rest == SetToSeq(Tables(tx)) \o SetToSeq(Collected(tx))
<1>1. /\ DOMAIN sim = Callers /\ DOMAIN sim[c] = Fields /\ sim[c].stage = "lock"
      /\ tx \in Txs /\ s \in Pool /\ sim[c].saw = <<>> /\ ~Locked(s)
      /\ svm \in [Pool -> [clock : Nat, account : [Accounts -> Nat]]]
      /\ svm' = [svm EXCEPT ![s].clock = clock] /\ UNCHANGED <<vars, next>>
      /\ sim' = [sim EXCEPT ![c].stage = "inject", ![c].rest = rest]
  BY DEF SimInv, Shaped, Waiting, Lock
<1>2. /\ DOMAIN sim' = Callers /\ \A d \in Callers \ {c} : sim'[d] = sim[d]
      /\ DOMAIN sim'[c] = Fields /\ sim'[c].stage = "inject"
      /\ sim'[c].tx = tx /\ sim'[c].on = s /\ sim'[c].saw = <<>> /\ sim'[c].rest = rest
  BY <1>1 DEF Fields
<1>3. CacheInv' /\ Kept /\ next' \in Pool
  BY <1>1, CacheKept DEF SimInv
<1>4. /\ svm' \in [Pool -> [clock : Nat, account : [Accounts -> Nat]]]
      /\ \A r \in Pool : svm'[r].account = svm[r].account
  <2>1. clock \in Nat
    BY DEF SimInv, CacheInv, CacheType
  <2> QED BY <1>1, <2>1
<1>5. NoLeftover'
  BY <1>3, <1>4 DEF SimInv, NoLeftover, Kept
<1>6. Shaped'
  BY <1>2, <1>4 DEF SimInv, Shaped
<1>7. /\ rest \in Seq(Accounts)
      /\ \A a \in Collected(tx) : \E k \in 1..Len(rest) : rest[k] = a
  <2> DEFINE p == SetToSeq(Tables(tx))
             q == SetToSeq(Collected(tx))
  <2>1. /\ p \in Seq(Accounts) /\ q \in Seq(Accounts)
        /\ \A a \in Collected(tx) : \E k \in 1..Len(q) : q[k] = a
    <3>1. p \in Seq(Tables(tx)) /\ q \in Seq(Collected(tx))
      BY <1>1, CollectedTyped, Lists
    <3> QED BY <1>1, <3>1, CollectedTyped, Lists
  <2> HIDE DEF p, q
  <2>2. /\ p \o q \in Seq(Accounts) /\ Len(p) \in Nat /\ Len(q) \in Nat
        /\ Len(p \o q) = Len(p) + Len(q)
        /\ \A k \in 1..Len(q) : (p \o q)[Len(p) + k] = q[k]
    BY <2>1, ConcatProperties, LenProperties
  <2>3. ASSUME NEW a \in Collected(tx) PROVE \E k \in 1..Len(p \o q) : (p \o q)[k] = a
    <3>1. PICK k \in 1..Len(q) : q[k] = a
      BY <2>1
    <3>2. Len(p) + k \in 1..Len(p \o q)
      BY <2>2
    <3> QED BY <2>2, <3>1, <3>2
  <2> QED BY <2>2, <2>3 DEF p, q
<1> HIDE DEF rest
<1>8. Injected(c)'
  <2>1. DOMAIN <<>> = {}
    OBVIOUS
  <2> QED BY <1>1, <1>2, <1>7, <2>1 DEF Injected
<1>9. /\ \A d \in Callers \ {c} : Inside(d) => sim[d].on # sim'[c].on
      /\ \A d \in Callers \ {c} : Inside(d) => svm'[sim[d].on].account = svm[sim[d].on].account
  BY <1>1, <1>2, <1>4 DEF Locked, Inside, SimInv, Injected
<1>10. Waiting(c)'
  BY <1>2 DEF Waiting
<1> QED BY <1>2, <1>3, <1>5, <1>6, <1>8, <1>9, <1>10, Others

\* The account is as the caller read it, also when there was nothing to copy: then the machine
\* never had it.
LEMMA InjectInv == ASSUME SimInv, NEW c \in Callers, Inject(c) PROVE SimInv'
<1> DEFINE a == Head(sim[c].rest)
           s == sim[c].on
           sets == cache[a] # 0 /\ a \notin Executable
           saw == sim[c].saw
<1>1. /\ DOMAIN sim = Callers /\ DOMAIN sim[c] = Fields /\ sim[c].stage = "inject" /\ Injected(c)
      /\ s \in Pool /\ sim[c].rest \in Seq(Accounts) /\ sim[c].rest # <<>> /\ UNCHANGED <<vars, next>>
      /\ svm \in [Pool -> [clock : Nat, account : [Accounts -> Nat]]] /\ cache \in [Accounts -> Nat]
      /\ svm' = IF sets THEN [svm EXCEPT ![s].account[a] = cache[a]] ELSE svm
      /\ sim' = [sim EXCEPT ![c].rest = Tail(@),
                            ![c].saw = [b \in DOMAIN @ \cup {a} |-> IF b = a THEN cache[a] ELSE @[b]]]
  BY DEF SimInv, Shaped, Inside, Injected, Inject, CacheInv, CacheType
<1>2. /\ a = sim[c].rest[1] /\ a \in Accounts /\ Tail(sim[c].rest) \in Seq(Accounts)
      /\ Len(sim[c].rest) \in Nat \ {0} /\ Len(Tail(sim[c].rest)) = Len(sim[c].rest) - 1
      /\ \A k \in 1..(Len(sim[c].rest) - 1) : Tail(sim[c].rest)[k] = sim[c].rest[k + 1]
  BY <1>1, Tailed
<1> HIDE DEF a
<1>3. /\ DOMAIN sim' = Callers /\ \A d \in Callers \ {c} : sim'[d] = sim[d]
      /\ DOMAIN sim'[c] = Fields /\ sim'[c].stage = "inject"
      /\ sim'[c].tx = sim[c].tx /\ sim'[c].on = s /\ sim'[c].rest = Tail(sim[c].rest)
      /\ sim'[c].saw = [b \in DOMAIN saw \cup {a} |-> IF b = a THEN cache[a] ELSE saw[b]]
  BY <1>1 DEF Fields
<1>4. CacheInv' /\ Kept /\ next' \in Pool /\ UNCHANGED cache
  BY <1>1, CacheKept DEF SimInv, vars
<1>5. /\ svm' \in [Pool -> [clock : Nat, account : [Accounts -> Nat]]]
      /\ \A r \in Pool \ {s} : svm'[r] = svm[r]
      /\ \A b \in Accounts \ {a} : svm'[s].account[b] = svm[s].account[b]
      /\ svm'[s].account[a] = IF sets THEN cache[a] ELSE svm[s].account[a]
  BY <1>1, <1>2
<1>6. svm'[s].account[a] = IF a \in Executable THEN 0 ELSE cache[a]
  BY <1>1, <1>2, <1>5 DEF SimInv, NoLeftover
<1>7. NoLeftover'
  <2> SUFFICES ASSUME NEW r \in Pool, NEW b \in Accounts, svm'[r].account[b] # 0
               PROVE  cache[b] # 0 /\ b \notin Executable
    BY <1>4 DEF NoLeftover
  <2>1. CASE r = s /\ b = a
    BY <1>6, <2>1
  <2>2. CASE ~(r = s /\ b = a)
    BY <1>5, <2>2 DEF SimInv, NoLeftover
  <2> QED BY <2>1, <2>2
<1>8. Shaped'
  BY <1>3, <1>5 DEF SimInv, Shaped
<1>9. Injected(c)'
  <2>1. DOMAIN sim'[c].saw = DOMAIN saw \cup {a}
    BY <1>3
  <2>2. \A b \in DOMAIN saw \cup {a} : sim'[c].saw[b] = IF b = a THEN cache[a] ELSE saw[b]
    BY <1>3
  <2>3. ASSUME NEW b \in DOMAIN saw \cup {a}
        PROVE  svm'[s].account[b] = IF b \in Executable THEN 0 ELSE sim'[c].saw[b]
    <3>1. CASE b = a
      BY <1>6, <2>2, <3>1
    <3>2. CASE b # a
      <4>1. b \in DOMAIN saw /\ b \in Accounts \ {a} /\ sim'[c].saw[b] = saw[b]
        BY <1>1, <2>2, <3>2 DEF Injected
      <4> QED BY <1>1, <1>5, <4>1 DEF Injected
    <3> QED BY <3>1, <3>2
  <2>4. ASSUME NEW b \in Collected(sim[c].tx), b \notin DOMAIN saw \cup {a}
        PROVE  \E k \in 1..Len(Tail(sim[c].rest)) : Tail(sim[c].rest)[k] = b
    <3>1. PICK k \in 1..Len(sim[c].rest) : sim[c].rest[k] = b
      BY <1>1, <2>4 DEF Injected
    <3>2. k # 1
      BY <1>2, <2>4, <3>1
    <3>3. k - 1 \in 1..(Len(sim[c].rest) - 1) /\ (k - 1) + 1 = k
      BY <1>2, <3>2
    <3> QED BY <1>2, <3>1, <3>3
  <2>5. DOMAIN saw \cup {a} \subseteq Accounts /\ sim[c].tx \in Txs
    BY <1>1, <1>2 DEF Injected
  <2>6. \A b \in Collected(sim'[c].tx) :
          b \in DOMAIN sim'[c].saw \/ \E k \in 1..Len(sim'[c].rest) : sim'[c].rest[k] = b
    BY <1>3, <2>1, <2>4
  <2>7. sim'[c].on = s /\ s \in Pool /\ sim'[c].tx \in Txs /\ sim'[c].rest \in Seq(Accounts)
    BY <1>1, <1>2, <1>3, <2>5
  <2> HIDE DEF saw, s
  <2>8. /\ DOMAIN sim'[c].saw \subseteq Accounts
        /\ \A b \in DOMAIN sim'[c].saw :
              svm'[sim'[c].on].account[b] = IF b \in Executable THEN 0 ELSE sim'[c].saw[b]
    BY <2>1, <2>3, <2>5, <2>7
  <2> QED BY <2>6, <2>7, <2>8 DEF Injected
<1>10. /\ \A d \in Callers \ {c} : Inside(d) => sim[d].on # sim'[c].on
       /\ \A d \in Callers \ {c} : Inside(d) => svm'[sim[d].on].account = svm[sim[d].on].account
  <2>1. \A d \in Callers \ {c} : Inside(d) => sim[d].on # s /\ sim[d].on \in Pool
    BY <1>1 DEF SimInv, Exclusive, Inside, Injected
  <2> QED BY <1>3, <1>5, <2>1
<1>11. Waiting(c)'
  BY <1>3 DEF Waiting
<1> QED BY <1>3, <1>4, <1>7, <1>8, <1>9, <1>10, <1>11, Others

LEMMA PreparedInv == ASSUME SimInv, NEW c \in Callers, Prepared(c) PROVE SimInv'
<1>1. /\ DOMAIN sim = Callers /\ DOMAIN sim[c] = Fields /\ sim[c].stage = "inject" /\ sim[c].rest = <<>>
      /\ sim' = [sim EXCEPT ![c].stage = "run"] /\ UNCHANGED <<vars, next, svm>>
  BY DEF SimInv, Shaped, Prepared
<1>2. /\ DOMAIN sim' = Callers /\ \A d \in Callers \ {c} : sim'[d] = sim[d]
      /\ DOMAIN sim'[c] = Fields /\ sim'[c].stage = "run" /\ sim'[c].rest = <<>>
      /\ sim'[c].tx = sim[c].tx /\ sim'[c].on = sim[c].on /\ sim'[c].saw = sim[c].saw
  BY <1>1 DEF Fields
<1>3. CacheInv' /\ NoLeftover' /\ next' \in Pool
  BY <1>1, CacheKept, StillClean DEF SimInv
<1>4. Shaped' /\ Waiting(c)'
  BY <1>1, <1>2 DEF SimInv, Shaped, Waiting
<1>5. Injected(c)'
  BY <1>1, <1>2 DEF SimInv, Inside, Injected
<1>6. \A d \in Callers \ {c} : Inside(d) => sim[d].on # sim'[c].on
  BY <1>1, <1>2 DEF SimInv, Exclusive, Inside
<1> QED BY <1>1, <1>2, <1>3, <1>4, <1>5, <1>6, Others

LEMMA RunInv == ASSUME SimInv, NEW c \in Callers, Run(c) PROVE SimInv'
<1>1. PICK answer \in {"ok", "err"} : sim' = [sim EXCEPT ![c] = [Idle EXCEPT !.answer = answer]]
  BY DEF Run
<1>2. DOMAIN sim = Callers /\ UNCHANGED <<vars, next, svm>>
  BY DEF SimInv, Shaped, Run
<1>3. /\ DOMAIN sim' = Callers /\ \A d \in Callers \ {c} : sim'[d] = sim[d]
      /\ DOMAIN sim'[c] = Fields /\ sim'[c].stage = "idle"
  BY <1>1, <1>2 DEF Fields, Idle
<1>4. CacheInv' /\ NoLeftover' /\ next' \in Pool
  BY <1>2, CacheKept, StillClean DEF SimInv
<1>5. Shaped' /\ Waiting(c)' /\ ~Inside(c)'
  BY <1>2, <1>3 DEF SimInv, Shaped, Waiting, Inside
<1> QED BY <1>2, <1>3, <1>4, <1>5, Others DEF Inside

LEMMA SimInitInv == SimulationInit => SimInv
<1> SUFFICES ASSUME SimulationInit PROVE SimInv
  OBVIOUS
<1>1. CacheInv
  BY CacheInit DEF SimulationInit
<1>2. clock \in Nat /\ next \in Pool
  BY <1>1, PoolSize DEF CacheInv, CacheType, SimulationInit
<1>3. Shaped
  BY <1>2 DEF SimulationInit, Shaped, Idle, Fields
<1>4. \A c \in Callers : sim[c].stage = "idle"
  BY DEF SimulationInit, Idle
<1>5. Exclusive /\ NoLeftover
  BY <1>4 DEF SimulationInit, Exclusive, Inside, NoLeftover
<1> QED BY <1>1, <1>2, <1>3, <1>4, <1>5 DEF SimInv, Waiting, Inside

LEMMA SimStep == ASSUME SimInv, [SimulationNext]_simulationVars PROVE SimInv'
<1>1. CASE [Next]_vars /\ UNCHANGED simVars
  <2>1. CacheInv' /\ Kept
    BY <1>1, CacheStep DEF SimInv
  <2>2. UNCHANGED <<next, svm, sim>>
    BY <1>1 DEF simVars
  <2>3. NoLeftover'
    BY <2>1, <2>2, StillClean
  <2> QED BY <2>1, <2>2, <2>3 DEF SimInv, Shaped, Exclusive, Inside, Waiting, Injected
<1>2. ASSUME NEW c \in Callers, Simulate(c) PROVE SimInv'
  BY <1>2, CallInv, LazyInv, LockInv, InjectInv, PreparedInv, RunInv DEF Simulate
<1> QED BY <1>1, <1>2 DEF SimulationNext, simulationVars

-----------------------------------------------------------------------------
(* Theorems. *)

\* For all accounts, filters and prefetch lists, through any number of connections and with any
\* number of simulators fetching: once the stream has delivered an account and nothing of it is
\* under way, the copy is the latest.
THEOREM LiveAlwaysCurrent == SimulationSafety => []LiveIsCurrent
<1>1. SimInv => LiveIsCurrent
  BY DEF SimInv, CacheInv, Delivers
<1> QED BY <1>1, SimInitInv, SimStep, PTL DEF SimulationSafety

\* For all accounts, filters and prefetch lists: the slot that a simulation takes for its clock
\* is never behind the streamed accounts that are in the map.
THEOREM ClockNeverBehind == SimulationSafety => []ClockNotBehind
<1>1. SimInv => ClockNotBehind
  BY DEF SimInv, CacheInv, Ordered
<1> QED BY <1>1, SimInitInv, SimStep, PTL DEF SimulationSafety

\* For any pool, any callers and any transactions: a simulation runs on what it read itself, not
\* on what an earlier one left in the machine nor on what another is injecting.
THEOREM RunsAlwaysOnWhatItRead == SimulationSafety => []RunsOnWhatItRead
<1>1. SimInv => RunsOnWhatItRead
  <2> SUFFICES ASSUME SimInv, NEW c \in Callers, sim[c].stage = "run", NEW a \in Collected(sim[c].tx)
               PROVE  svm[sim[c].on].account[a] = IF a \in Executable THEN 0 ELSE sim[c].saw[a]
    BY DEF RunsOnWhatItRead
  <2>1. Injected(c) /\ Len(sim[c].rest) = 0
    BY DEF SimInv, Inside
  <2>2. a \in DOMAIN sim[c].saw
    BY <2>1 DEF Injected
  <2> QED BY <2>1, <2>2 DEF Injected
<1> QED BY <1>1, SimInitInv, SimStep, PTL DEF SimulationSafety

-----------------------------------------------------------------------------
(* What a fetch can undo: accounts that are both streamed and prefetched. *)

StreamOnly == Streamed \ Range(Warm)

\* The prefetch has only accounts of its list to ask for.
Prefetching == todo \in Seq(Range(Warm)) /\ (fetching => todo # <<>>)

\* A copy of an account that nothing fetches is not ahead of the clock, nor of the update in hand.
Behind ==
    \A a \in StreamOnly :
        /\ cache[a] <= clock
        /\ hand # None /\ hand.account = a => cache[a] <= hand.slot

NotUndone == CacheInv /\ Prefetching /\ Behind

LEMMA PrefetchingStep == ASSUME Prefetching, [Next]_vars PROVE Prefetching'
<1>1. CASE UNCHANGED warmVars
  BY <1>1 DEF Prefetching, warmVars
<1>2. CASE Hit \/ Fetched \/ FetchFails
  <2>1. todo # <<>> /\ todo' = Tail(todo) /\ ~fetching'
    BY <1>2 DEF Hit, Fetched, FetchFails, Prefetching
  <2>2. todo' \in Seq(Range(Warm))
    BY <2>1, Tailed DEF Prefetching
  <2> QED BY <2>1, <2>2 DEF Prefetching
<1>3. CASE Miss
  BY <1>3 DEF Miss, Prefetching
<1>4. Next => UNCHANGED warmVars \/ Hit \/ Fetched \/ FetchFails \/ Miss
  BY DEF Next, Write, Connect, Drop, Receive, Apply
<1> QED BY <1>1, <1>2, <1>3, <1>4 DEF vars, warmVars

LEMMA BehindStep ==
    ASSUME NotUndone, [Next]_vars
    PROVE  Behind' /\ \A a \in StreamOnly : cache'[a] >= cache[a]
<1>1. /\ cache \in [Accounts -> Nat] /\ clock \in Nat /\ hand \in Update \cup {None} /\ StreamOnly \subseteq Accounts
      /\ \A a \in StreamOnly : cache[a] \in Nat
  BY AccountAssumption DEF NotUndone, CacheInv, CacheType, StreamOnly
<1>2. CASE UNCHANGED <<hand, cache, clock>>
  BY <1>1, <1>2 DEF NotUndone, Behind
<1>3. CASE Fetched
  <2>1. Head(todo) \notin StreamOnly
    <3>1. todo # <<>> /\ todo \in Seq(Range(Warm))
      BY <1>3 DEF Fetched, NotUndone, Prefetching
    <3>2. Head(todo) \in Range(Warm)
      BY <3>1, Tailed
    <3> QED BY <3>2 DEF StreamOnly
  <2>2. \A a \in StreamOnly : cache'[a] = cache[a]
    BY <1>1, <1>3, <2>1 DEF Fetched
  <2> QED BY <1>1, <1>3, <2>2 DEF Fetched, NotUndone, Behind
<1>4. CASE Receive
  <2>1. /\ pending \in Seq(Update) /\ pending # <<>> /\ hand' = Head(pending) /\ clock' = Head(pending).slot
        /\ UNCHANGED cache
    BY <1>4 DEF Receive, NotUndone, CacheInv, CacheType
  <2>2. Head(pending) = pending[1] /\ Head(pending) \in Update /\ 1 \in 1..Len(pending)
    BY <2>1, Tailed
  <2>3. clock <= Head(pending).slot /\ Head(pending).slot \in Nat
    BY <2>2 DEF NotUndone, CacheInv, Ordered, Update
  <2>4. \A a \in StreamOnly : cache[a] <= Head(pending).slot
    BY <1>1, <2>3 DEF NotUndone, Behind
  <2> QED BY <1>1, <2>1, <2>4 DEF Behind
<1>5. CASE Apply
  <2>1. /\ hand # None /\ hand' = None /\ cache' = [cache EXCEPT ![hand.account] = hand.slot] /\ clock' = clock
        /\ hand.slot \in Nat
    BY <1>1, <1>5 DEF Apply, Update
  <2>2. hand.slot <= clock
    BY <2>1 DEF NotUndone, CacheInv, Ordered
  <2>3. ASSUME NEW a \in StreamOnly PROVE cache'[a] <= clock' /\ cache'[a] >= cache[a]
    <3>1. CASE hand.account = a
      <4>1. cache'[a] = hand.slot /\ cache[a] <= hand.slot
        BY <1>1, <2>1, <3>1 DEF NotUndone, Behind
      <4> QED BY <1>1, <2>1, <2>2, <4>1
    <3>2. CASE hand.account # a
      <4>1. cache'[a] = cache[a] /\ cache[a] <= clock
        BY <1>1, <2>1, <3>2 DEF NotUndone, Behind
      <4> QED BY <1>1, <2>1, <4>1
    <3> QED BY <3>1, <3>2
  <2> QED BY <2>1, <2>3 DEF Behind
<1>6. Next => UNCHANGED <<hand, cache, clock>> \/ Fetched \/ Receive \/ Apply
  BY DEF Next, Write, Connect, Drop, Hit, Miss, FetchFails
<1> QED BY <1>2, <1>3, <1>4, <1>5, <1>6 DEF vars

LEMMA NotUndoneInit == Init => NotUndone
<1> SUFFICES ASSUME Init PROVE NotUndone
  OBVIOUS
<1>1. CacheInv
  BY CacheInit
<1>2. Warm \in Seq(Range(Warm))
  <2>1. Warm \in Seq(Accounts) /\ DOMAIN Warm = 1..Len(Warm) /\ Len(Warm) \in Nat
    BY AccountAssumption, LenProperties
  <2>2. \A k \in 1..Len(Warm) : Warm[k] \in Range(Warm)
    BY <2>1 DEF Range
  <2> QED BY <2>1, <2>2
<1>3. Prefetching
  BY <1>2 DEF Init, Prefetching
<1>4. Behind
  <2>1. clock \in Nat /\ StreamOnly \subseteq Accounts
    BY <1>1, AccountAssumption DEF CacheInv, CacheType, StreamOnly
  <2> QED BY <2>1 DEF Init, Behind
<1> QED BY <1>1, <1>3, <1>4 DEF NotUndone

LEMMA NotUndoneAlways == Safety => []NotUndone
<1>1. NotUndone /\ [Next]_vars => NotUndone'
  BY CacheStep, PrefetchingStep, BehindStep DEF NotUndone
<1> QED BY <1>1, NotUndoneInit, PTL DEF Safety

\* A streamed account that the start-up does not prefetch is never set back, through any number
\* of connections: what a connection brings is later than what the last one left.
THEOREM StreamOnlyNeverUndone == Safety => [][\A a \in StreamOnly : cache'[a] >= cache[a]]_vars
<1>1. NotUndone /\ [Next]_vars => [\A a \in StreamOnly : cache'[a] >= cache[a]]_vars
  BY BehindStep
<1> QED BY <1>1, NotUndoneAlways, PTL DEF Safety

\* What the comment of get_or_fetch says is true when nothing is both streamed and prefetched:
\* the run that refutes it needs such an account, and main.rs has them.
THEOREM NeverUndoneApart == ASSUME Streamed \cap Range(Warm) = {} PROVE Safety => StreamNeverUndone
<1>1. NotUndone /\ [Next]_vars => [\A a \in Streamed : cache'[a] >= cache[a]]_vars
  <2>1. StreamOnly = Streamed
    BY DEF StreamOnly
  <2> QED BY <2>1, BehindStep
<1> QED BY <1>1, NotUndoneAlways, PTL DEF Safety, StreamNeverUndone

=============================================================================

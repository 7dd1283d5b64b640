--------------------------- MODULE GrpcAuthProofs ---------------------------
(* Theorems about GrpcAuth. *)
EXTENDS GrpcAuth, TLAPS

-----------------------------------------------------------------------------
(* Type correctness. *)

\* A saturating difference of naturals is a natural, and exact when it can be.
LEMMA MinusFacts ==
    ASSUME NEW a \in Nat, NEW b \in Nat
    PROVE  /\ Minus(a, b) \in Nat
           /\ a >= b => Minus(a, b) = a - b
           /\ Minus(a, b) + b >= a
BY DEF Minus

\* A sleep is a number of seconds that leaves the margin, or is the least one.
LEMMA NapFacts ==
    ASSUME NEW left \in Nat
    PROVE  /\ Nap(left) \in Nat
           /\ left >= Margin + MinSleep => Nap(left) + Margin <= left
           /\ Nap(left) + Margin <= left \/ Nap(left) <= MinSleep
BY SleepAssumption DEF Nap, Minus

\* What the server issues is a lifetime.
LEMMA RenewedTypes ==
    ASSUME TypeOK, NEW r \in Regions, Renewed(r)
    PROVE  /\ access' \in [Regions -> Nat]
           /\ missed' \in [Regions -> 0..2]
<1>1. PICK n \in Lives : access' = [access EXCEPT ![r] = n]
    BY DEF Renewed
<1>2. n \in Nat
    BY LifeAssumption
<1>3. access' \in [Regions -> Nat]
    BY <1>1, <1>2 DEF TypeOK
<1>4. QED
    BY <1>3 DEF TypeOK, Renewed

LEMMA ReissuedTypes ==
    ASSUME TypeOK, NEW r \in Regions, Reissued(r)
    PROVE  refresh' \in [Regions -> Nat]
<1>1. PICK n \in RefreshLives : refresh' = [refresh EXCEPT ![r] = n]
    BY DEF Reissued
<1>2. n \in Nat
    BY LifeAssumption
<1>3. QED
    BY <1>1, <1>2 DEF TypeOK

\* The variables of every region keep their types.
LEMMA TypeInductive ==
    ASSUME TypeOK, [Next]_vars
    PROVE  TypeOK'
<1> USE SleepAssumption, LifeAssumption DEF TypeOK, Stages, Calling
<1>1. CASE UNCHANGED vars
    BY <1>1 DEF vars
<1>2. ASSUME NEW r \in Regions, ConnectFails(r)  PROVE TypeOK'
    BY <1>2 DEF ConnectFails, Goto
<1>3. ASSUME NEW r \in Regions, ConnectNoAuth(r)  PROVE TypeOK'
    BY <1>3 DEF ConnectNoAuth, Goto
<1>4. ASSUME NEW r \in Regions, ConnectAuthed(r)  PROVE TypeOK'
    BY <1>4, RenewedTypes, ReissuedTypes DEF ConnectAuthed, Goto
<1>5. ASSUME NEW r \in Regions, Plan(r)  PROVE TypeOK'
    <2>1. Nap(access[r]) \in Nat
        BY NapFacts
    <2>2. QED
        BY <1>5, <2>1 DEF Plan, Goto
<1>6. ASSUME NEW r \in Regions, Wake(r)  PROVE TypeOK'
    BY <1>6 DEF Wake, Goto
<1>7. ASSUME NEW r \in Regions, Refreshed(r)  PROVE TypeOK'
    BY <1>7, RenewedTypes DEF Refreshed, Goto
<1>8. ASSUME NEW r \in Regions, RefreshEmpty(r)  PROVE TypeOK'
    BY <1>8 DEF RefreshEmpty, Goto, Missed
<1>9. ASSUME NEW r \in Regions, RefreshFails(r)  PROVE TypeOK'
    BY <1>9 DEF RefreshFails, Goto
<1>10. ASSUME NEW r \in Regions, Reauthed(r)  PROVE TypeOK'
    BY <1>10, RenewedTypes, ReissuedTypes DEF Reauthed, Goto
<1>11. ASSUME NEW r \in Regions, ReauthFails(r)  PROVE TypeOK'
    BY <1>11 DEF ReauthFails, Goto, Missed
<1>12. ASSUME NEW r \in Regions, PauseEnds(r)  PROVE TypeOK'
    BY <1>12 DEF PauseEnds, Goto
<1>13. CASE Tick
    <2>1. \A n \in Nat : Minus(n, 1) \in Nat
        BY DEF Minus
    <2>2. QED
        BY <1>13, <2>1 DEF Tick
<1>14. QED
    BY <1>1, <1>2, <1>3, <1>4, <1>5, <1>6, <1>7, <1>8, <1>9, <1>10, <1>11, <1>12, <1>13
       DEF Next, Loop, Answer

\* Type correctness of every region's loop, for any timing constants and lifetimes.
THEOREM TypeCorrect == Safety => []TypeOK
<1>1. Init => TypeOK
    BY DEF Init, TypeOK, Stages
<1>2. QED
    BY <1>1, TypeInductive, PTL DEF Safety

-----------------------------------------------------------------------------
(* The margin. *)

\* What a region with state s has left of its access token a when the loop sleeps for t
\* more, its calls have straddled l ticks and m rounds were missed.
Margined(s, a, t, l, m) ==
    /\ m = 0 =>
         /\ s # "pause"
         /\ s = "plan" => a >= Margin + MinSleep
         /\ s = "sleep" => a >= Margin + t
         /\ s \in Calling => a + l >= Margin
    /\ m = 1 =>
         /\ s = "plan" => a + Retry + 1 >= Margin
         /\ s = "pause" => a + Retry + 1 >= Margin + t
         /\ s = "sleep" => a + Retry + MinSleep + 1 >= Margin + t
         /\ s \in Calling => a + Retry + MinSleep + 1 + l >= Margin

\* What it has left of its refresh token.
Refreshable(s, f, l) == s = "refresh" => f + l >= Renew

MarginInv ==
    \A r \in Regions :
        /\ Authed(r) => Margined(stage[r], access[r], timer[r], lag[r], missed[r])
        /\ Refreshable(stage[r], refresh[r], lag[r])

\* A region the step leaves alone keeps its margin.
Same(r) ==
    /\ stage'[r] = stage[r] /\ access'[r] = access[r] /\ refresh'[r] = refresh[r]
    /\ timer'[r] = timer[r] /\ lag'[r] = lag[r] /\ missed'[r] = missed[r]

LEMMA SameKeeps ==
    ASSUME MarginInv, NEW r \in Regions, Same(r)
    PROVE  /\ Authed(r)' => Margined(stage'[r], access'[r], timer'[r], lag'[r], missed'[r])
           /\ Refreshable(stage'[r], refresh'[r], lag'[r])
BY DEF MarginInv, Same, Authed

\* It is enough to look at the region that takes the step.
LEMMA OneRegion ==
    ASSUME MarginInv, NEW r \in Regions,
           \A q \in Regions \ {r} : Same(q),
           Authed(r)' => Margined(stage'[r], access'[r], timer'[r], lag'[r], missed'[r]),
           Refreshable(stage'[r], refresh'[r], lag'[r])
    PROVE  MarginInv'
BY SameKeeps DEF MarginInv

\* A sleep leaves the margin it was planned with.
LEMMA PlanKeeps ==
    ASSUME TypeOK, MarginInv, NEW r \in Regions, Plan(r)
    PROVE  MarginInv'
<1> DEFINE a == access[r]
           m == missed[r]
<1>1. /\ stage[r] = "plan" /\ stage'[r] = "sleep" /\ timer'[r] = Nap(a)
      /\ access'[r] = a /\ missed'[r] = m
      /\ \A q \in Regions \ {r} : Same(q)
    BY DEF Plan, Goto, TypeOK, Same
<1>2. /\ m = 0 => a >= Margin + MinSleep
      /\ m = 1 => a + Retry + 1 >= Margin
    BY <1>1 DEF MarginInv, Margined, Authed
<1>3. /\ Nap(a) \in Nat /\ a \in Nat
      /\ a >= Margin + MinSleep => Nap(a) + Margin <= a
      /\ Nap(a) + Margin <= a \/ Nap(a) <= MinSleep
    BY NapFacts DEF TypeOK
<1>4. /\ m = 0 => a >= Margin + Nap(a)
      /\ m = 1 => a + Retry + MinSleep + 1 >= Margin + Nap(a)
    <2> HIDE DEF a, m
    <2>1. QED BY <1>2, <1>3, SleepAssumption
<1>5. /\ Margined("sleep", a, Nap(a), lag'[r], m)
      /\ Refreshable("sleep", refresh'[r], lag'[r])
    BY <1>4 DEF Margined, Refreshable, Calling
<1>6. QED
    BY <1>1, <1>5, OneRegion

\* A round starts with the margin its sleep has left, and refreshes in time only.
LEMMA WakeKeeps ==
    ASSUME TypeOK, MarginInv, NEW r \in Regions, Wake(r)
    PROVE  MarginInv'
<1> DEFINE a == access[r]
           m == missed[r]
           f == refresh[r]
<1>1. /\ stage[r] = "sleep" /\ timer[r] = 0 /\ stage'[r] \in {"auth", "refresh"}
      /\ stage'[r] = "refresh" => ~(f < Renew)
      /\ access'[r] = a /\ refresh'[r] = f /\ missed'[r] = m /\ lag'[r] = 0
      /\ \A q \in Regions \ {r} : Same(q)
    BY DEF Wake, Goto, TypeOK, Same, Expiring
<1>2. /\ a \in Nat /\ f \in Nat
      /\ m = 0 => a >= Margin + 0
      /\ m = 1 => a + Retry + MinSleep + 1 >= Margin + 0
    BY <1>1 DEF MarginInv, Margined, Authed, TypeOK
<1>3. /\ m = 0 => a + 0 >= Margin
      /\ m = 1 => a + Retry + MinSleep + 1 + 0 >= Margin
      /\ ~(f < Renew) => f + 0 >= Renew
    <2> HIDE DEF a, m, f
    <2>1. QED BY <1>2, SleepAssumption
<1>4. /\ Margined(stage'[r], a, timer'[r], 0, m)
      /\ Refreshable(stage'[r], f, 0)
    BY <1>1, <1>3 DEF Margined, Refreshable, Calling
<1>5. QED
    BY <1>1, <1>4, OneRegion

\* A round that succeeds ends with a full lifetime.
LEMMA RenewedKeeps ==
    ASSUME TypeOK, MarginInv, NEW r \in Regions,
           ConnectAuthed(r) \/ Refreshed(r) \/ Reauthed(r)
    PROVE  MarginInv'
<1>1. /\ stage'[r] = "plan" /\ missed'[r] = 0 /\ access'[r] \in Lives
      /\ \A q \in Regions \ {r} : Same(q)
    BY DEF ConnectAuthed, Refreshed, Reauthed, Goto, Renewed, Reissued, TypeOK, Same
<1>2. access'[r] >= Margin + MinSleep
    BY <1>1, LifeAssumption
<1>3. /\ Margined("plan", access'[r], timer'[r], lag'[r], 0)
      /\ Refreshable("plan", refresh'[r], lag'[r])
    BY <1>2 DEF Margined, Refreshable, Calling
<1>4. QED
    BY <1>1, <1>3, OneRegion

\* A first round that fails has used up no more than one tick of the margin.
LEMMA MissedKeeps ==
    ASSUME TypeOK, MarginInv, NEW r \in Regions,
           RefreshEmpty(r) \/ ReauthFails(r)
    PROVE  MarginInv'
<1> DEFINE a == access[r]
           l == lag[r]
           m == missed[r]
           t == timer'[r]
<1>1. /\ stage[r] \in Calling /\ access'[r] = a /\ a \in Nat /\ l \in {0, 1} /\ m \in 0..2
      /\ \/ stage'[r] = "plan"
         \/ stage'[r] = "pause" /\ t = Retry
      /\ missed'[r] = IF m = 0 THEN 1 ELSE 2
      /\ \A q \in Regions \ {r} : Same(q)
    BY DEF RefreshEmpty, ReauthFails, Missed, Goto, TypeOK, Same, Calling
<1>2. m = 0 => a + l >= Margin
    BY <1>1 DEF MarginInv, Margined, Authed, Calling
<1>3. m = 0 => /\ a + Retry + 1 >= Margin
               /\ a + Retry + 1 >= Margin + Retry
    <2> HIDE DEF a, l, m
    <2>1. QED BY <1>1, <1>2, SleepAssumption
<1>4. /\ Margined(stage'[r], a, t, lag'[r], missed'[r])
      /\ Refreshable(stage'[r], refresh'[r], lag'[r])
    BY <1>1, <1>3 DEF Margined, Refreshable, Calling
<1>5. QED
    BY <1>1, <1>4, OneRegion

\* The other steps of a loop change its stage only.
LEMMA RestKeeps ==
    ASSUME TypeOK, MarginInv, NEW r \in Regions,
           ConnectFails(r) \/ ConnectNoAuth(r) \/ RefreshFails(r) \/ PauseEnds(r)
    PROVE  MarginInv'
<1>1. \A q \in Regions \ {r} : Same(q)
    BY DEF ConnectFails, ConnectNoAuth, RefreshFails, PauseEnds, Goto, TypeOK, Same
<1>2. CASE ConnectFails(r) \/ ConnectNoAuth(r)
    <2>1. stage'[r] \in {"skipped", "no_auth"}
        BY <1>2 DEF ConnectFails, ConnectNoAuth, Goto, TypeOK
    <2>2. ~Authed(r)' /\ Refreshable(stage'[r], refresh'[r], lag'[r])
        BY <2>1 DEF Authed, Refreshable
    <2>3. QED BY <1>1, <2>2, OneRegion
<1>3. CASE RefreshFails(r)
    <2>1. /\ stage[r] = "refresh" /\ stage'[r] = "fallback"
          /\ access'[r] = access[r] /\ lag'[r] = lag[r] /\ missed'[r] = missed[r]
        BY <1>3 DEF RefreshFails, Goto, TypeOK
    <2>2. /\ Margined(stage'[r], access'[r], timer'[r], lag'[r], missed'[r])
          /\ Refreshable(stage'[r], refresh'[r], lag'[r])
        BY <2>1 DEF MarginInv, Margined, Authed, Calling, Refreshable
    <2>3. QED BY <1>1, <2>2, OneRegion
<1>4. CASE PauseEnds(r)
    <2>1. /\ stage[r] = "pause" /\ timer[r] = 0 /\ stage'[r] = "plan"
          /\ access'[r] = access[r] /\ lag'[r] = lag[r] /\ missed'[r] = missed[r]
        BY <1>4 DEF PauseEnds, Goto, TypeOK
    <2>2. /\ missed[r] # 0
          /\ missed[r] = 1 => access[r] + Retry + 1 >= Margin + 0
        BY <2>1 DEF MarginInv, Margined, Authed
    <2>3. missed[r] = 1 => access[r] + Retry + 1 >= Margin
        BY <2>2, SleepAssumption
    <2>4. /\ Margined(stage'[r], access'[r], timer'[r], lag'[r], missed'[r])
          /\ Refreshable(stage'[r], refresh'[r], lag'[r])
        BY <2>1, <2>2, <2>3 DEF Margined, Calling, Refreshable
    <2>5. QED BY <1>1, <2>4, OneRegion
<1>5. QED
    BY <1>2, <1>3, <1>4

\* Time passes for a sleeping loop and, once, for a calling one.
LEMMA TickKeeps ==
    ASSUME TypeOK, MarginInv, Tick
    PROVE  MarginInv'
<1> SUFFICES ASSUME NEW r \in Regions
             PROVE  /\ Authed(r)' => Margined(stage'[r], access'[r], timer'[r], lag'[r], missed'[r])
                    /\ Refreshable(stage'[r], refresh'[r], lag'[r])
    BY DEF MarginInv
<1> DEFINE s == stage[r]
           a == access[r]
           f == refresh[r]
           t == timer[r]
           l == lag[r]
           m == missed[r]
<1>1. /\ stage'[r] = s /\ access'[r] = Minus(a, 1) /\ refresh'[r] = Minus(f, 1)
      /\ timer'[r] = Minus(t, 1) /\ missed'[r] = m
      /\ lag'[r] = IF s \in Calling THEN 1 ELSE l
      /\ a \in Nat /\ f \in Nat /\ t \in Nat /\ l \in {0, 1}
      /\ Waits(r)
    BY DEF Tick, TypeOK
<1>2. Authed(r)' = Authed(r)
    BY <1>1 DEF Authed
<1>3. /\ Authed(r) => Margined(s, a, t, l, m)
      /\ Refreshable(s, f, l)
    BY DEF MarginInv
<1>4. /\ Minus(a, 1) \in Nat /\ Minus(a, 1) + 1 >= a
      /\ Minus(f, 1) \in Nat /\ Minus(f, 1) + 1 >= f
      /\ t > 0 => Minus(t, 1) = t - 1
    <2> HIDE DEF s, a, f, t, l, m
    <2>1. QED BY <1>1 DEF Minus
<1>5. CASE s \in Calling
    <2>1. l = 0 /\ lag'[r] = 1
        BY <1>1, <1>5 DEF Waits, Calling
    <2>2. Authed(r)
        BY <1>5 DEF Authed, Calling
    <2>3. /\ m = 0 => a + 0 >= Margin
          /\ m = 1 => a + Retry + MinSleep + 1 + 0 >= Margin
          /\ s = "refresh" => f + 0 >= Renew
        BY <1>3, <1>5, <2>1, <2>2 DEF Margined, Refreshable
    <2>4. /\ m = 0 => Minus(a, 1) + 1 >= Margin
          /\ m = 1 => Minus(a, 1) + Retry + MinSleep + 1 + 1 >= Margin
          /\ s = "refresh" => Minus(f, 1) + 1 >= Renew
        <3> HIDE DEF s, a, f, m
        <3>1. QED BY <1>1, <1>4, <2>3, SleepAssumption
    <2>5. QED
        BY <1>1, <1>5, <2>1, <2>4 DEF Margined, Refreshable, Calling
<1>6. CASE s \in {"sleep", "pause"}
    <2>1. t > 0
        BY <1>1, <1>6 DEF Waits, Calling
    <2>2. Authed(r)
        BY <1>6 DEF Authed
    <2>3. /\ m = 0 => s # "pause" /\ (s = "sleep" => a >= Margin + t)
          /\ m = 1 => /\ s = "pause" => a + Retry + 1 >= Margin + t
                      /\ s = "sleep" => a + Retry + MinSleep + 1 >= Margin + t
        BY <1>3, <2>2 DEF Margined
    <2>4. /\ m = 0 => s # "pause" /\ (s = "sleep" => Minus(a, 1) >= Margin + Minus(t, 1))
          /\ m = 1 => /\ s = "pause" => Minus(a, 1) + Retry + 1 >= Margin + Minus(t, 1)
                      /\ s = "sleep" => Minus(a, 1) + Retry + MinSleep + 1 >= Margin + Minus(t, 1)
        <3> HIDE DEF s, a, t, m
        <3>1. QED BY <1>1, <1>4, <2>1, <2>3, SleepAssumption
    <2>5. QED
        BY <1>1, <1>6, <2>4 DEF Margined, Refreshable, Calling
<1>7. CASE s \in {"new", "skipped", "no_auth"}
    BY <1>1, <1>7 DEF Authed, Refreshable
<1>8. QED
    BY <1>1, <1>5, <1>6, <1>7 DEF Waits

LEMMA MarginInductive ==
    ASSUME TypeOK, MarginInv, [Next]_vars
    PROVE  MarginInv'
<1>1. CASE UNCHANGED vars
    BY <1>1 DEF vars, MarginInv, Authed
<1>2. CASE Tick
    BY <1>2, TickKeeps
<1>3. ASSUME NEW r \in Regions,
             ConnectFails(r) \/ ConnectNoAuth(r) \/ ConnectAuthed(r) \/ Loop(r)
      PROVE  MarginInv'
    BY <1>3, PlanKeeps, WakeKeeps, RenewedKeeps, MissedKeeps, RestKeeps DEF Loop, Answer
<1>4. QED
    BY <1>1, <1>2, <1>3 DEF Next

\* A region whose refresh loop has missed at most one round holds an unexpired access
\* token whenever a bundle is submitted, for all lifetimes and all timing constants
\* between which the margin leaves room for one failed round.
THEOREM MissesCovered == Safety => []OneMissIsHarmless
<1>1. Init => MarginInv
    BY DEF Init, MarginInv, Authed, Refreshable
<1>2. TypeOK /\ MarginInv => OneMissIsHarmless
    <2> SUFFICES ASSUME TypeOK, MarginInv, NEW r \in Regions, Authed(r), missed[r] <= 1
                 PROVE  access[r] > 0
        BY DEF OneMissIsHarmless
    <2> DEFINE s == stage[r]
               a == access[r]
               t == timer[r]
               l == lag[r]
               m == missed[r]
    <2>1. /\ a \in Nat /\ t \in Nat /\ l \in {0, 1} /\ m \in {0, 1}
          /\ s \in {"plan", "sleep", "pause"} \cup Calling
          /\ Margined(s, a, t, l, m)
        BY DEF TypeOK, MarginInv, Authed, Stages
    <2> HIDE DEF s, a, t, l, m
    <2>2. a > 0
        BY <2>1, SleepAssumption, MarginAssumption DEF Margined
    <2>3. QED BY <2>2 DEF a
<1>3. QED
    BY <1>1, <1>2, MarginInductive, TypeInductive, TypeCorrect, PTL DEF Safety

\* Every refresh is asked for and answered while the refresh token is valid.
THEOREM RefreshInTime == Safety => []RefreshTokenLive
<1>1. Init => MarginInv
    BY DEF Init, MarginInv, Authed, Refreshable
<1>2. TypeOK /\ MarginInv => RefreshTokenLive
    BY SleepAssumption, RenewAssumption DEF TypeOK, MarginInv, Refreshable, RefreshTokenLive
<1>3. QED
    BY <1>1, <1>2, MarginInductive, TypeInductive, TypeCorrect, PTL DEF Safety
=============================================================================

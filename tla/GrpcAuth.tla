------------------------------ MODULE GrpcAuth ------------------------------
(***************************************************************************)
(* The authentication of jito_grpc.rs: connect_region gives each region    *)
(* its tokens, or none; token_refresh_loop replaces them before they       *)
(* expire, by a refresh or by a full authentication; send_to_region reads  *)
(* the access token whenever a bundle is submitted.                        *)
(*                                                                         *)
(* Time is what is left of a token or of a sleep. A unit is longer than a  *)
(* round of calls, each of which the channel ends after a second: a round  *)
(* may straddle one Tick, not two, and a task whose sleep is over goes on  *)
(* before the next. The branches for a loop without tokens are left out:   *)
(* the loop is spawned with tokens, and nothing ever takes them away.      *)
(***************************************************************************)
EXTENDS Naturals

CONSTANTS
    Regions,                   \* the configured endpoints
    Lives, RefreshLives,       \* lifetimes the server issues
    Margin,                    \* 60 s: an access token is replaced this early
    MinSleep, MaxSleep,        \* 10 s, 300 s
    Renew,                     \* 120 s: a refresh token this old is not used
    Retry                      \* 30 s

ASSUME SleepAssumption ==
    /\ {Margin, MinSleep, MaxSleep, Renew, Retry} \subseteq Nat \ {0}
    /\ MinSleep <= MaxSleep
ASSUME MarginAssumption == MinSleep + Retry + 2 < Margin
ASSUME RenewAssumption == Renew > 1
ASSUME LifeAssumption ==
    /\ Lives \subseteq Nat /\ \A n \in Lives : n >= Margin + MinSleep
    /\ RefreshLives \subseteq Nat

VARIABLES
    stage,     \* what connect_region or the refresh loop of the region is doing
    access,    \* what is left of its access token
    refresh,   \* what is left of its refresh token
    timer,     \* what is left of the loop's sleep
    lag,       \* whether its calls have straddled a Tick
    missed     \* rounds without a new access token since the last one, 2 for more

vars == <<stage, access, refresh, timer, lag, missed>>

Calling == {"refresh", "auth", "fallback"}
Stages == {"new", "skipped", "no_auth", "plan", "sleep", "pause"} \cup Calling

\* u64::saturating_sub
Minus(a, b) == IF a > b THEN a - b ELSE 0

Init ==
    /\ stage = [r \in Regions |-> "new"]
    /\ access = [r \in Regions |-> 0]
    /\ refresh = [r \in Regions |-> 0]
    /\ timer = [r \in Regions |-> 0]
    /\ lag = [r \in Regions |-> 0]
    /\ missed = [r \in Regions |-> 0]

Goto(r, s) == stage' = [stage EXCEPT ![r] = s]

\* A round ends: with a new access token, or without.
Renewed(r) ==
    /\ \E n \in Lives : access' = [access EXCEPT ![r] = n]
    /\ missed' = [missed EXCEPT ![r] = 0]

Missed(r) ==
    /\ missed' = [missed EXCEPT ![r] = IF @ = 0 THEN 1 ELSE 2]
    /\ UNCHANGED access

Reissued(r) == \E n \in RefreshLives : refresh' = [refresh EXCEPT ![r] = n]

-----------------------------------------------------------------------------
(* connect_region. *)

ConnectFails(r) ==
    /\ stage[r] = "new"
    /\ Goto(r, "skipped")
    /\ UNCHANGED <<access, refresh, timer, lag, missed>>

ConnectNoAuth(r) ==
    /\ stage[r] = "new"
    /\ Goto(r, "no_auth")
    /\ UNCHANGED <<access, refresh, timer, lag, missed>>

\* The region's loop is spawned.
ConnectAuthed(r) ==
    /\ stage[r] = "new"
    /\ Goto(r, "plan")
    /\ Renewed(r) /\ Reissued(r)
    /\ UNCHANGED <<timer, lag>>

-----------------------------------------------------------------------------
(* token_refresh_loop. *)

\* Mutation of Nap: until the token expires.
NapToTheEnd(left) ==
    LET least == IF left < MinSleep THEN MinSleep ELSE left
    IN  IF least > MaxSleep THEN MaxSleep ELSE least

\* (access_expires_at - now - 60).max(10).min(300)
Nap(left) ==
    LET early == Minus(left, Margin)
        least == IF early < MinSleep THEN MinSleep ELSE early
    IN  IF least > MaxSleep THEN MaxSleep ELSE least

Plan(r) ==
    /\ stage[r] = "plan"
    /\ Goto(r, "sleep")
    /\ timer' = [timer EXCEPT ![r] = Nap(access[r])]
    /\ UNCHANGED <<access, refresh, lag, missed>>

\* Mutation of Expiring: the refresh token is used to its end.
ExpiringNever(r) == FALSE

\* needs_full_reauth: refresh_expires_at - now < 120
Expiring(r) == refresh[r] < Renew

Wake(r) ==
    /\ stage[r] = "sleep"
    /\ timer[r] = 0
    /\ Goto(r, IF Expiring(r) THEN "auth" ELSE "refresh")
    /\ lag' = [lag EXCEPT ![r] = 0]
    /\ UNCHANGED <<access, refresh, timer, missed>>

\* RefreshAccessToken: the refresh token stays.
Refreshed(r) ==
    /\ stage[r] = "refresh"
    /\ Goto(r, "plan")
    /\ Renewed(r)
    /\ UNCHANGED <<refresh, timer, lag>>

\* The answer has no access token.
RefreshEmpty(r) ==
    /\ stage[r] = "refresh"
    /\ Goto(r, "plan")
    /\ Missed(r)
    /\ UNCHANGED <<refresh, timer, lag>>

RefreshFails(r) ==
    /\ stage[r] = "refresh"
    /\ Goto(r, "fallback")
    /\ UNCHANGED <<access, refresh, timer, lag, missed>>

\* authenticate: both tokens.
Reauthed(r) ==
    /\ stage[r] \in {"auth", "fallback"}
    /\ Goto(r, "plan")
    /\ Renewed(r) /\ Reissued(r)
    /\ UNCHANGED <<timer, lag>>

\* Mutation of ReauthFails: the loop ends.
ReauthFailsForGood(r) ==
    /\ stage[r] \in {"auth", "fallback"}
    /\ Goto(r, "no_auth")
    /\ Missed(r)
    /\ UNCHANGED <<refresh, timer, lag>>

ReauthFails(r) ==
    /\ stage[r] \in {"auth", "fallback"}
    /\ Goto(r, "pause")
    /\ timer' = [timer EXCEPT ![r] = Retry]
    /\ Missed(r)
    /\ UNCHANGED <<refresh, lag>>

\* The pause is followed by the sleep at the top of the loop.
PauseEnds(r) ==
    /\ stage[r] = "pause"
    /\ timer[r] = 0
    /\ Goto(r, "plan")
    /\ UNCHANGED <<access, refresh, timer, lag, missed>>

-----------------------------------------------------------------------------
\* The region is not due to do something else before time may pass.
Waits(r) ==
    \/ stage[r] \in {"new", "skipped", "no_auth"}
    \/ stage[r] \in {"sleep", "pause"} /\ timer[r] > 0
    \/ stage[r] \in Calling /\ lag[r] = 0

Tick ==
    /\ \A r \in Regions : Waits(r)
    /\ access' = [r \in Regions |-> Minus(access[r], 1)]
    /\ refresh' = [r \in Regions |-> Minus(refresh[r], 1)]
    /\ timer' = [r \in Regions |-> Minus(timer[r], 1)]
    /\ lag' = [r \in Regions |-> IF stage[r] \in Calling THEN 1 ELSE lag[r]]
    /\ UNCHANGED <<stage, missed>>

Answer(r) ==
    \/ Refreshed(r) \/ RefreshEmpty(r) \/ RefreshFails(r)
    \/ Reauthed(r) \/ ReauthFails(r)

Loop(r) == Plan(r) \/ Wake(r) \/ Answer(r) \/ PauseEnds(r)

Next ==
    \/ \E r \in Regions : ConnectFails(r) \/ ConnectNoAuth(r) \/ ConnectAuthed(r) \/ Loop(r)
    \/ Tick

\* The loop is polled, its calls time out, time passes; and a full authentication that is
\* asked for again and again succeeds at last.
Fairness == WF_vars(Tick) /\ \A r \in Regions : WF_vars(Loop(r)) /\ SF_vars(Reauthed(r))

Safety == Init /\ [][Next]_vars
Spec == Safety /\ Fairness

-----------------------------------------------------------------------------
(* Properties. *)

\* Every variable has the type of the Rust state it stands for.
TypeOK ==
    /\ stage \in [Regions -> Stages]
    /\ access \in [Regions -> Nat]
    /\ refresh \in [Regions -> Nat]
    /\ timer \in [Regions -> Nat]
    /\ lag \in [Regions -> {0, 1}]
    /\ missed \in [Regions -> 0..2]

Authed(r) == stage[r] \notin {"new", "skipped", "no_auth"}

\* A bundle never carries an expired access token in a region whose loop has missed at most
\* one round: the margin of 60 s covers a failed round with its 30 s pause, the 10 s sleep
\* after it and the round that succeeds, whatever the lifetimes issued.
OneMissIsHarmless == \A r \in Regions : Authed(r) /\ missed[r] <= 1 => access[r] > 0

\* A refresh is only asked for with a refresh token that is still valid, and stays so
\* during the call; the sleep before it may have been as long as 300 s.
RefreshTokenLive == \A r \in Regions : stage[r] = "refresh" => refresh[r] > 0

\* A region with expired tokens gets new ones, however its calls failed before: no failure
\* ends the loop, and a server that refreshes nothing is authenticated with at last.
RegionRecovers == \A r \in Regions : Authed(r) /\ access[r] = 0 ~> access[r] > 0

=============================================================================

------------------------------ MODULE MCScanner ------------------------------
(* A small market for Scanner: two tokens, five pools. *)
EXTENDS Scanner, TLC

CONSTANTS t1, t2, p1, p2, p3, p4, p5

TwoTokens == <<t1, t2>>
Mints == {Wsol, t1, t2}

NoDexes == {}

Hop(pool, from, to, label) ==
    [ammKey |-> pool, inMint |-> from, outMint |-> to, label |-> label, flag |-> "none",
     extra |-> "none", amounts |-> 0]

\* Two pools of Wsol and t1, one of Wsol and t2, two of t1 and t2, so that
\* two legs may share a pool that is not next to the token. Metis answers a request for
\* direct routes with any of them.
There(pool, from, to) ==
    CASE {from, to} = {Wsol, t1} -> pool \in {p1, p2}
      [] {from, to} = {Wsol, t2} -> pool = p3
      [] {from, to} = {t1, t2} -> pool \in {p4, p5}
      [] OTHER -> FALSE

SinglePlans(from, to) == {<<Hop(p, from, to, {"raydium"})>> : p \in {p \in {p1, p2, p3, p4, p5} : There(p, from, to)}}

DoublePlans(from, to) == {a \o b : a \in SinglePlans(from, t2), b \in SinglePlans(t2, to)}

\* t1 by one hop or through t2, t2 by one hop; some answers have no array of hops.
SomePlans ==
    [ft \in Mints \X Mints |->
        IF t2 \in {ft[1], ft[2]} THEN SinglePlans(ft[1], ft[2]) \cup {NotArray}
        ELSE SinglePlans(ft[1], ft[2]) \cup DoublePlans(ft[1], ft[2])]

\* Just at the threshold of the first amount and just above that of the second.
SomeOuts == (Wsol :> {14, 25}) @@ (t1 :> {1}) @@ (t2 :> {1})

Config(max, quotes, metis) ==
    [min |-> 10, max |-> max, step |-> 10, quotes |-> quotes, serve_route |-> TRUE, serve_from_metis |-> metis]

SomeConfigs == {Config(20, 2, TRUE), Config(15, 0, TRUE), Config(10, 256, FALSE)}
=============================================================================

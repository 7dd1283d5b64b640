--------------------------- MODULE MCTemplateStore ---------------------------
(* Small instances of TemplateStore for TLC. *)
EXTENDS TemplateStore, TLC

CONSTANTS r1, r2, r3, h1, h2, wsol, token

Q == INSTANCE Quotes WITH NotArray <- None, NoKey <- None,
                        ForbiddenDexes <- {}, ForbiddenPrograms <- {}

\* Two pools of Whirlpool, whose direction is part of the hop key; Metis adds an unstable
\* field to some answers.
Whirlpool(pool, from, to, flag, extra) ==
    [ammKey |-> pool, inMint |-> from, outMint |-> to, label |-> {"whirlpool"}, flag |-> flag,
     extra |-> extra, amounts |-> 5]

Out == Whirlpool("p1", wsol, token, "a_to_b", "old")
Back == Whirlpool("p2", token, wsol, "b_to_a", "old")
BackAgain == Whirlpool("p2", token, wsol, "b_to_a", "new")

\* The route plans whose signatures the model values r1, r2 and r3 stand for: r1 and r2
\* differ in the unstable field, r3 is one hop long.
Plan == (r1 :> <<Out, Back>>) @@ (r2 :> <<Out, BackAgain>>) @@ (r3 :> <<Out>>)

KeyName(key) == IF key = Q!HopKey(Out) THEN h1 ELSE IF key = Q!HopKey(Back) THEN h2 ELSE None

ASSUME SignatureAssumption ==
    \A r, s \in {r1, r2, r3} : Q!RouteSig(Plan[r]) = Q!RouteSig(Plan[s]) => r = s

\* The hop keys of each plan, by name.
Names(r) ==
    IF Len(Plan[r]) = 1 THEN <<KeyName(Q!HopKey(Plan[r][1]))>>
    ELSE <<KeyName(Q!HopKeys(Plan[r])[1]), KeyName(Q!HopKeys(Plan[r])[2])>>
NamesOf == (r1 :> Names(r1)) @@ (r2 :> Names(r2)) @@ (r3 :> Names(r3))
KeysOfPlans == [r \in Routes |-> NamesOf[r]]

DexOfKeys == (h1 :> Q!HopKey(Out).dex) @@ (h2 :> Q!HopKey(Back).dex)

\* r2's data has the bytes of the amount 10 in another place, and Metis writes another out
\* amount than the floor into it: its amounts are found for 20 only.
SomeLayout ==
    [r \in Routes |-> IF r = r2 THEN [head |-> <<10>>, tail |-> <<>>] ELSE [head |-> <<>>, tail |-> <<0>>]]
SomeEmbeds == [r \in Routes |-> [a \in Amounts |-> IF r = r2 THEN a + 1 ELSE a + Costs]]

\* Instructions that are the amounts alone, as they were asked for.
PlainLayout == [r \in Routes |-> [head |-> <<>>, tail |-> <<>>]]
PlainEmbeds == [r \in Routes |-> [a \in Amounts |-> a + Costs]]

AllOn == {Switches}
\* Every switch on, and the step of the rollout that serves from memory only.
Rollout == {Switches, {"save_new", "serve_route"}}

\* With plain instructions, the two routes of the same hops are interchangeable, and so are
\* the Metis tasks.
Symmetry == Permutations(Tasks) \cup Permutations({r1, r2})
=============================================================================

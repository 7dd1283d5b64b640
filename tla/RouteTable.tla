----------------------------- MODULE RouteTable -----------------------------
(***************************************************************************)
(* What the template store of template_cache.rs promises, with no segment, *)
(* lock or task in it: one table from routes to templates with an atomic   *)
(* lookup, in which a known template is never overwritten and only gains   *)
(* variants; any insertion or promotion may evict other routes, and a      *)
(* restart goes back to one past moment of the table, without variants.    *)
(***************************************************************************)
CONSTANTS
    Routes, Amounts, None,
    Asked,   \* [Routes -> [Amounts -> instructions]]: what Metis answers
    Exact,     \* the same with the floor of the amount as out amount
    Patchable  \* the routes and amounts whose answer shows where its amounts are

VARIABLES
    table,     \* route -> template
    answer,    \* the last lookup and the instruction it found
    pending,   \* the moment of the table that a flush is about to save
    saved      \* the one it saved last

vars == <<table, answer, pending, saved>>

Empty == <<>>
NoAnswer == [route |-> None, amount |-> None, ix |-> None]

Init == table = Empty /\ answer = NoAnswer /\ pending = Empty /\ saved = Empty

\* Some of the table's routes, r among them if it has it.
Kept(r) == {K \in SUBSET DOMAIN table : r \in DOMAIN table => r \in K}

Only(K) == [x \in K |-> table[x]]

Bare(t) == [t EXCEPT !.variants = Empty]

Serve(r, t, a) ==
    IF a \in DOMAIN t.variants THEN t.variants[a]
    ELSE IF t.patchable THEN Exact[r][a] ELSE None

Ask(r, a) ==
    /\ answer' = [route |-> r, amount |-> a,
                  ix |-> IF r \in DOMAIN table THEN Serve(r, table[r], a) ELSE None]
    /\ IF r \in DOMAIN table THEN \E K \in Kept(r) : table' = Only(K) ELSE UNCHANGED table
    /\ UNCHANGED <<pending, saved>>

NextOpportunity == answer' = NoAnswer /\ UNCHANGED <<table, pending, saved>>

Gained(r, t, a) ==
    IF a \in DOMAIN t.variants THEN t
    ELSE [t EXCEPT !.variants = [x \in DOMAIN @ \cup {a} |->
                                   IF x = a THEN Asked[r][a] ELSE @[x]]]

Learn(r, a) ==
    /\ IF r \in DOMAIN table
         THEN table' = [table EXCEPT ![r] = Gained(r, @, a)]
         ELSE \E K \in Kept(r) :
                LET ix == Asked[r][a]
                IN  table' = [x \in K \cup {r} |->
                                IF x = r THEN [base |-> ix, patchable |-> <<r, a>> \in Patchable,
                                               variants |-> [y \in {a} |-> ix]]
                                ELSE table[x]]
    /\ UNCHANGED <<answer, pending, saved>>

BeginSave ==
    /\ pending' = [r \in DOMAIN table |-> Bare(table[r])]
    /\ UNCHANGED <<table, answer, saved>>

EndSave ==
    /\ pending' = Empty
    /\ saved' \in {pending, saved}
    /\ UNCHANGED <<table, answer>>

Restart ==
    /\ table' \in {saved, Empty}
    /\ answer' = NoAnswer
    /\ pending' = Empty
    /\ UNCHANGED saved

Next ==
    \/ \E r \in Routes, a \in Amounts : Ask(r, a) \/ Learn(r, a)
    \/ NextOpportunity \/ BeginSave \/ EndSave \/ Restart

Spec == Init /\ [][Next]_vars
=============================================================================

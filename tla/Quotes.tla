-------------------------------- MODULE Quotes --------------------------------
(***************************************************************************)
(* What the code computes from the quotes of Metis: the route helpers of   *)
(* arbitrage.rs, merge_quotes of metis.rs, and the signature and hop keys  *)
(* of template_cache.rs.                                                   *)
(*                                                                         *)
(* A quote is [inMint, inAmount, outMint, outAmount, plan]; its plan is a  *)
(* sequence of swapInfo records, or NotArray when routePlan is not a JSON  *)
(* array. A label is abstracted to the set of words that are looked for in *)
(* it; "flag" stands for the direction field that a DEX has, if any,       *)
(* "extra" for the fields the code does not know, and "amounts" for        *)
(* inAmount, outAmount and feeAmount.                                      *)
(***************************************************************************)
EXTENDS Naturals, Sequences

CONSTANTS
    NotArray,          \* a routePlan that is not an array
    NoKey,             \* an ammKey that is missing
    ForbiddenDexes,    \* FORBIDDEN_DEX_LABELS: sets of words (none at this commit)
    ForbiddenPrograms, \* FORBIDDEN_DEX_PROGRAM_IDS (none at this commit)
    Costs              \* JITO_TIP_LAMPORTS + NETWORK_FEE_LAMPORTS

ASSUME CostsAssumption == Costs \in Nat

\* as_array().unwrap_or_default()
HopList(plan) == IF plan = NotArray THEN <<>> ELSE plan

HopInfos(q) == {HopList(q.plan)[k] : k \in DOMAIN HopList(q.plan)}

\* ammKey of every hop that has one
Pools(q) == {si.ammKey : si \in HopInfos(q)} \ {NoKey}

\* By its label, or by a program named in any field of a hop.
UsesForbiddenDex(q) ==
    \E si \in HopInfos(q) :
        \/ \E banned \in ForbiddenDexes : banned \subseteq si.label
        \/ \E field \in DOMAIN si : si[field] \in ForbiddenPrograms

\* Mutation of SharePool: only the hops next to the token are compared.
SharePoolAtToken(q1, q2) ==
    /\ HopList(q1.plan) # <<>> /\ HopList(q2.plan) # <<>>
    /\ q1.plan[Len(q1.plan)].ammKey = q2.plan[1].ammKey

SharePool(q1, q2) == Pools(q1) \cap Pools(q2) # {}

\* as_array().map(len).unwrap_or(1)
Legs(q) == IF q.plan = NotArray THEN 1 ELSE Len(q.plan)

HopCount(q1, q2) == Legs(q1) + Legs(q2)

Smaller(a, b) == IF a < b THEN a ELSE b

\* saturating_sub(2), and the last limit for every longer route
LookupCuLimit(hopCount, limits) ==
    IF limits = <<>> THEN 200000
    ELSE limits[Smaller(IF hopCount < 2 THEN 0 ELSE hopCount - 2, Len(limits) - 1) + 1]

\* The output below which the transaction reverts.
Floor(amount) == amount + Costs

\* merge_quotes: the circular quote, of two plans that are arrays.
Merge(q1, q2, floor) ==
    [inMint |-> q1.inMint, inAmount |-> q1.inAmount, outMint |-> q2.outMint,
     outAmount |-> floor, plan |-> q1.plan \o q2.plan]

CanMerge(q1, q2) == q1.plan # NotArray /\ q2.plan # NotArray

-----------------------------------------------------------------------------
(* Keys of the template store. *)

\* route_sig: every field of every swapInfo but the amounts. A hash collision is not modelled.
RouteSig(plan) ==
    [k \in DOMAIN HopList(plan) |-> [f \in DOMAIN plan[k] \ {"amounts"} |-> plan[k][f]]]

\* DexKind::from_label tries these in turn; the first whose words the label has is taken. A
\* word stands for all its spellings in the code.
DexRules ==
    << <<{"whirlpool", "v2"}, "whirlpool_swap_v2">>, <<{"whirlpool"}, "whirlpool">>,
       <<{"raydium", "clmm"}, "raydium_clmm">>, <<{"raydium"}, "raydium_v2">>,
       <<{"meteora", "dlmm"}, "meteora_dlmm">>, <<{"meteora"}, "meteora_pools">>,
       <<{"alphaq"}, "alphaq">>, <<{"aquifer"}, "aquifer">>, <<{"aldrin"}, "aldrin_v2">>,
       <<{}, "other">> >>

DexKind(label) ==
    LET matches(k) == DexRules[k][1] \subseteq label
        first == CHOOSE k \in DOMAIN DexRules : matches(k) /\ \A j \in 1..(k - 1) : ~matches(j)
    IN  DexRules[first][2]

\* extract_direction: a boolean for the DEXes that have a_to_b, a side for Aldrin.
Direction(si) ==
    CASE DexKind(si.label) \in {"whirlpool", "whirlpool_swap_v2", "alphaq"}
             /\ si.flag \in {"a_to_b", "b_to_a"} -> si.flag
      [] DexKind(si.label) = "aldrin_v2" /\ si.flag \in {"bid", "ask"} -> si.flag
      [] OTHER -> "none"

\* HopKey::from_swap_info, of a hop with an ammKey and mints. (template_id leaves out the DEX,
\* which a pool has one of.)
HopKey(si) ==
    [dex |-> DexKind(si.label), ammKey |-> si.ammKey, inMint |-> si.inMint, outMint |-> si.outMint,
     direction |-> Direction(si)]

\* The hop keys of a plan, in order, where every hop has one.
HopKeys(plan) == [k \in DOMAIN HopList(plan) |-> HopKey(plan[k])]

=============================================================================

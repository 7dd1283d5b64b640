----------------------------- MODULE AmountPatch -----------------------------
(***************************************************************************)
(* The Borsh patching of template_cache.rs: where the two amounts of a     *)
(* route_v2 instruction are found in its data, and how they are replaced.  *)
(*                                                                         *)
(* Instruction data is a sequence of bytes; an amount takes Width of them, *)
(* the least significant first. Positions count from 1, and NoOffset       *)
(* stands for the None of the two Option<usize>, which are always set      *)
(* together, Width bytes apart. Base64 is left out: data that Metis sends  *)
(* decodes.                                                                *)
(***************************************************************************)
EXTENDS Naturals, Sequences

CONSTANTS
    Base,      \* the values of a byte: 256
    Width      \* the bytes of an amount: 8

ASSUME WidthAssumption == Base \in Nat \ {0} /\ Width \in Nat \ {0}

NoOffset == 0

\* to_le_bytes
Bytes(n) == [k \in 1..Width |-> (n \div Base^(k - 1)) % Base]

\* data[p..p + 8] == n.to_le_bytes()
Holds(data, p, n) == \A k \in 1..Width : data[p + k - 1] = Bytes(n)[k]

\* 0..=(data.len() - 16), none when the data is shorter
Starts(data) == {p \in 1..Len(data) : p + 2 * Width - 1 <= Len(data)}

PairAt(data, inAmount, quotedOut) ==
    {p \in Starts(data) : Holds(data, p, inAmount) /\ Holds(data, p + Width, quotedOut)}

AmountAt(data, inAmount) == {p \in Starts(data) : Holds(data, p, inAmount)}

\* Mutation of Unique: the first of several matches.
First(S) == IF S = {} THEN NoOffset ELSE CHOOSE p \in S : \A q \in S : p <= q

\* The only match; with none or several of them there is no offset.
Unique(S) == IF \E p \in S : S = {p} THEN CHOOSE p \in S : TRUE ELSE NoOffset

\* discover_offsets: the consecutive pair if there is one, else the amount alone.
DiscoverOffsets(data, inAmount, quotedOut) ==
    LET pairs == PairAt(data, inAmount, quotedOut)
    IN  IF pairs # {} THEN Unique(pairs) ELSE Unique(AmountAt(data, inAmount))

\* patch_amounts_b64, whose bounds check Starts has made
PatchAmounts(data, p, newIn, newOut) ==
    [k \in DOMAIN data |->
        IF k - p \in 0..(Width - 1) THEN Bytes(newIn)[k - p + 1]
        ELSE IF k - p \in Width..(2 * Width - 1) THEN Bytes(newOut)[k - p - Width + 1]
        ELSE data[k]]

=============================================================================

----------------------------- MODULE MCAltTables -----------------------------
(* Small instances of AltTables for TLC. *)
EXTENDS AltTables, TLC

CONSTANTS a1, a2, tip1

\* Whether the owners of tables list tip accounts.
Plain == Accounts \ Tips

Symmetry == Permutations(Tables) \cup Permutations(Builders) \cup Permutations(Accounts \ Tips)
=============================================================================

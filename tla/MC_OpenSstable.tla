-------------------------- MODULE MC_OpenSstable --------------------------
(***************************************************************************)
(* OpenSstable for TLC: two fibres, two paths, two index offsets, two     *)
(* filter names.  A file is too short, has a bad footer, or is well formed *)
(* with its index at either offset and any set of filter entries.          *)
(***************************************************************************)
EXTENDS OpenSstable, TLC

MCOffsets == {1, 2}
MCFilterNames == {1, 2}
MCPolicies == {1, NoPolicy}
MCFileChoices ==
  {[footer |-> "short", index |-> 1, meta |-> {}],
   [footer |-> "badmagic", index |-> 1, meta |-> {}]}
  \cup [footer : {"ok"}, index : MCOffsets, meta : SUBSET MCFilterNames]

FibreSymmetry == Permutations(Fibres) \cup Permutations(Paths)

=============================================================================

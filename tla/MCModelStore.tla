---------------------------- MODULE MCModelStore -----------------------------
(***************************************************************************)
(* Instances of ModelStore for TLC.                                        *)
(***************************************************************************)
EXTENDS ModelStore, TLC

\* Operations are alike until they begin, and so are leases.
Interchangeable == Permutations(Ops) \cup Permutations(Leases)
==============================================================================

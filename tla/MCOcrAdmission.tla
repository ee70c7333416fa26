--------------------------- MODULE MCOcrAdmission ----------------------------
(***************************************************************************)
(* Instances of OcrAdmission for TLC.                                      *)
(***************************************************************************)
EXTENDS OcrAdmission, TLC

Interchangeable == Permutations(Requests)
==============================================================================

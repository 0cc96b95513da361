---------------------------- MODULE MCStatusServer ----------------------------
(***************************************************************************)
(* Instances of StatusServer for TLC.                                      *)
(***************************************************************************)
EXTENDS StatusServer, TLC

IdSymmetry == Permutations(Ids)
===============================================================================

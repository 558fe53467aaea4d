-------------------------- MODULE MCFileProcessing --------------------------
(***************************************************************************)
(* FileProcessing for TLC: files and workers are interchangeable model     *)
(* values.                                                                 *)
(***************************************************************************)
EXTENDS FileProcessing, TLC

Symmetry == Permutations(Files) \cup Permutations(Workers)
=============================================================================
